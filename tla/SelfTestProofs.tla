---------------------------- MODULE SelfTestProofs ----------------------------
(***************************************************************************)
(* What Test() asserts, for every input: decryption gives an encrypted     *)
(* text back under every key, and both sides of an exchange reach one      *)
(* secret.                                                                 *)
(*                                                                         *)
(* Cipher: with state E_i after round i of encryption, decryption has      *)
(* SubShift(E_(9-i)) after its round i.                                    *)
(*                                                                         *)
(* Exchange: generateRuledKey is a loop of reduced multiplications.  The   *)
(* loop is the power, the power of a product is the product of the powers, *)
(* and so powers commute.  Each of these is an induction over the loop.    *)
(***************************************************************************)
EXTENDS SelfTest, VectorLemmas, TLAPS

(* One round of decryption takes SubShift of the state after a round of
   encryption to SubShift of the state before it. *)
LEMMA RoundInverts ==
    ASSUME NEW m \in Block, NEW k \in Block
    PROVE  /\ aesenc(m, k) \in Block
           /\ aesdec(SubShift(aesenc(m, k)), aesimc(k)) = SubShift(m)
<1> DEFINE mixed == MixColumns(SubShift(m))
<1>1. mixed \in Block /\ SubShift(m) \in Block
  BY InstructionsAssumption
<1>2. aesenc(m, k) = Xor(mixed, k) /\ aesenc(m, k) \in Block
  BY <1>1, InstructionsAssumption DEF aesenc
<1>3. InvSubShift(SubShift(aesenc(m, k))) = Xor(mixed, k)
  BY <1>2, InstructionsAssumption
<1>4. InvMixColumns(Xor(mixed, k)) = Xor(InvMixColumns(mixed), InvMixColumns(k))
  BY <1>1, InstructionsAssumption
<1>5. InvMixColumns(mixed) = SubShift(m) /\ InvMixColumns(k) \in Block
  BY <1>1, InstructionsAssumption
<1>6. Xor(Xor(SubShift(m), InvMixColumns(k)), InvMixColumns(k)) = SubShift(m)
  BY <1>1, <1>5, InstructionsAssumption
<1> QED BY <1>2, <1>3, <1>4, <1>5, <1>6 DEF aesdec, aesimc

(* A block that is encrypted and decrypted with one loaded key schedule comes
   out unchanged, whatever the round keys are: the decryption keys stand where
   DO_DEC_BLOCK looks for them. *)
THEOREM DecryptInverts ==
    ASSUME NEW rk \in [0 .. 10 -> Block], NEW plain \in Block
    PROVE  aes128_dec(LoadKey(rk), aes128_enc(LoadKey(rk), plain)) = plain
<1> DEFINE k == LoadKey(rk)
           e0 == Xor(plain, k[0])
           e1 == aesenc(e0, k[1])
           e2 == aesenc(e1, k[2])
           e3 == aesenc(e2, k[3])
           e4 == aesenc(e3, k[4])
           e5 == aesenc(e4, k[5])
           e6 == aesenc(e5, k[6])
           e7 == aesenc(e6, k[7])
           e8 == aesenc(e7, k[8])
           e9 == aesenc(e8, k[9])
<1>1. e0 \in Block /\ aesdeclast(SubShift(e0), k[0]) = plain
  BY InstructionsAssumption DEF LoadKey, aesdeclast
<1>2. aes128_enc(k, plain) = aesenclast(e9, k[10]) /\ k[10] \in Block
  BY DEF aes128_enc, LoadKey
<1>3. e1 = aesenc(e0, k[1]) /\ k[1] \in Block /\ k[19] = aesimc(k[1])
  BY DEF LoadKey
<1>4. e2 = aesenc(e1, k[2]) /\ k[2] \in Block /\ k[18] = aesimc(k[2])
  BY DEF LoadKey
<1>5. e3 = aesenc(e2, k[3]) /\ k[3] \in Block /\ k[17] = aesimc(k[3])
  BY DEF LoadKey
<1>6. e4 = aesenc(e3, k[4]) /\ k[4] \in Block /\ k[16] = aesimc(k[4])
  BY DEF LoadKey
<1>7. e5 = aesenc(e4, k[5]) /\ k[5] \in Block /\ k[15] = aesimc(k[5])
  BY DEF LoadKey
<1>8. e6 = aesenc(e5, k[6]) /\ k[6] \in Block /\ k[14] = aesimc(k[6])
  BY DEF LoadKey
<1>9. e7 = aesenc(e6, k[7]) /\ k[7] \in Block /\ k[13] = aesimc(k[7])
  BY DEF LoadKey
<1>10. e8 = aesenc(e7, k[8]) /\ k[8] \in Block /\ k[12] = aesimc(k[8])
  BY DEF LoadKey
<1>11. e9 = aesenc(e8, k[9]) /\ k[9] \in Block /\ k[11] = aesimc(k[9])
  BY DEF LoadKey
<1> HIDE DEF k, e0, e1, e2, e3, e4, e5, e6, e7, e8, e9
<1>12. e1 \in Block /\ aesdec(SubShift(e1), k[19]) = SubShift(e0)
  BY <1>3, <1>1, RoundInverts
<1>13. e2 \in Block /\ aesdec(SubShift(e2), k[18]) = SubShift(e1)
  BY <1>4, <1>12, RoundInverts
<1>14. e3 \in Block /\ aesdec(SubShift(e3), k[17]) = SubShift(e2)
  BY <1>5, <1>13, RoundInverts
<1>15. e4 \in Block /\ aesdec(SubShift(e4), k[16]) = SubShift(e3)
  BY <1>6, <1>14, RoundInverts
<1>16. e5 \in Block /\ aesdec(SubShift(e5), k[15]) = SubShift(e4)
  BY <1>7, <1>15, RoundInverts
<1>17. e6 \in Block /\ aesdec(SubShift(e6), k[14]) = SubShift(e5)
  BY <1>8, <1>16, RoundInverts
<1>18. e7 \in Block /\ aesdec(SubShift(e7), k[13]) = SubShift(e6)
  BY <1>9, <1>17, RoundInverts
<1>19. e8 \in Block /\ aesdec(SubShift(e8), k[12]) = SubShift(e7)
  BY <1>10, <1>18, RoundInverts
<1>20. e9 \in Block /\ aesdec(SubShift(e9), k[11]) = SubShift(e8)
  BY <1>11, <1>19, RoundInverts
<1>21. Xor(aesenclast(e9, k[10]), k[10]) = SubShift(e9)
  BY <1>2, <1>20, InstructionsAssumption DEF aesenclast
<1>22. aes128_dec(k, aesenclast(e9, k[10])) = aesdeclast(SubShift(e0), k[0])
  BY <1>12, <1>13, <1>14, <1>15, <1>16, <1>17, <1>18, <1>19, <1>20, <1>21 DEF aes128_dec
<1> QED BY <1>1, <1>2, <1>22 DEF k

-----------------------------------------------------------------------------
(* The key schedule by its loop. *)
IsKeySchedule(k, key) ==
    k = [i \in 0 .. 10 |-> IF i = 0 THEN key ELSE KeyExp(k[i - 1], i)]

(* aes128_load_key_enc_only makes eleven round keys of every key. *)
LEMMA RoundKeysType ==
    ASSUME NEW key \in Block
    PROVE  RoundKeys(key) \in [0 .. 10 -> Block]
<1> DEFINE step == [x \in Nat \X Block |-> IF x[1] \in 1 .. 10 THEN KeyExp(x[2], x[1]) ELSE x[2]]
           loop == CHOOSE k : IsKeySchedule(k, key)
<1>1. step \in [Nat \X Block -> Block]
  BY InstructionsAssumption
<1>2. PICK f \in [0 .. 10 -> Block] : f[0] = key /\ \A i \in 1 .. 10 : f[i] = step[<<i, f[i - 1]>>]
  <2>1. Iterations(Block, key, step, 10) # {}
    <3> HIDE DEF step
    <3> QED BY <1>1, Iterates
  <2> QED BY <2>1 DEF Iterations
<1>3. ASSUME NEW i \in 0 .. 10
      PROVE  f[i] = IF i = 0 THEN key ELSE KeyExp(f[i - 1], i)
  <2>1. CASE i = 0
    BY <1>2, <2>1
  <2>2. CASE i # 0
    <3>1. i \in 1 .. 10 /\ i \in Nat /\ i - 1 \in 0 .. 10
      BY <2>2
    <3>2. f[i - 1] \in Block /\ f[i] = step[<<i, f[i - 1]>>]
      BY <1>2, <3>1
    <3> QED BY <2>2, <3>1, <3>2
  <2> QED BY <2>1, <2>2
<1>4. IsKeySchedule(f, key)
  BY <1>2, <1>3 DEF IsKeySchedule
<1>5. IsKeySchedule(loop, key)
  BY <1>4, Zenon
<1>6. RoundKeys(key) = loop
  BY DEF RoundKeys, IsKeySchedule
<1> HIDE DEF loop
<1> DEFINE T == {n \in Nat : n <= 10 => loop[n] = f[n]}
<1>7. 0 \in T
  BY <1>2, <1>5 DEF IsKeySchedule
<1>8. ASSUME NEW n \in Nat, n \in T PROVE n + 1 \in T
  <2> SUFFICES ASSUME n + 1 <= 10 PROVE loop[n + 1] = f[n + 1]
    OBVIOUS
  <2>1. n + 1 \in 0 .. 10 /\ n + 1 # 0 /\ (n + 1) - 1 = n /\ loop[n] = f[n]
    BY <1>8
  <2> QED BY <1>3, <1>5, <2>1 DEF IsKeySchedule
<1>9. \A n \in 0 .. 10 : loop[n] = f[n]
  <2>1. \A n \in Nat : n \in T
    <3> HIDE DEF T
    <3> QED BY <1>7, <1>8, Induction
  <2> QED BY <2>1
<1> QED BY <1>5, <1>6, <1>9 DEF IsKeySchedule

(* A block is encrypted to a block. *)
LEMMA EncryptType ==
    ASSUME NEW rk \in [0 .. 10 -> Block], NEW plain \in Block
    PROVE  aes128_enc(LoadKey(rk), plain) \in Block
BY InstructionsAssumption DEF aes128_enc, aesenc, aesenclast, LoadKey

(* Test's first assertion for every text and key: aes_decrypt inverts
   aes_encrypt on every sequence of blocks, the empty one included. *)
THEOREM CipherRoundTrip ==
    ASSUME NEW key \in Block, NEW text \in Seq(Block)
    PROVE  aes_decrypt(aes_encrypt(text, key), key) = text
<1> DEFINE rk == RoundKeys(key)
           cipher == aes_encrypt(text, key)
<1>1. rk \in [0 .. 10 -> Block]
  BY RoundKeysType
<1>2. DOMAIN cipher = DOMAIN text
  BY DEF aes_encrypt
<1>3. \A i \in DOMAIN text : cipher[i] = aes128_enc(LoadKey(rk), text[i])
  BY DEF aes_encrypt
<1> HIDE DEF cipher, rk
<1>4. ASSUME NEW i \in DOMAIN text
      PROVE  aes128_dec(LoadKey(rk), cipher[i]) = text[i]
  BY <1>1, <1>3, DecryptInverts
<1>5. aes_decrypt(cipher, key) = [i \in DOMAIN text |-> aes128_dec(LoadKey(rk), cipher[i])]
  BY <1>2 DEF aes_decrypt, rk
<1>6. [i \in DOMAIN text |-> aes128_dec(LoadKey(rk), cipher[i])] = [i \in DOMAIN text |-> text[i]]
  BY <1>4, Zenon
<1>7. [i \in DOMAIN text |-> text[i]] = text
  OBVIOUS
<1> QED BY <1>5, <1>6, <1>7 DEF cipher

-----------------------------------------------------------------------------
(* A number is its quotient times P, and a remainder below P ... *)
LEMMA Division ==
    ASSUME NEW P \in Nat \ {0}, NEW x \in Nat
    PROVE  /\ x % P \in 0 .. P - 1 /\ x \div P \in Nat
           /\ x = (P * (x \div P)) + (x % P)
OBVIOUS

(* ... which is the one remainder it has. *)
LEMMA Remainder ==
    ASSUME NEW P \in Nat \ {0}, NEW q \in Int, NEW r \in 0 .. P - 1
    PROVE  ((P * q) + r) % P = r
OBVIOUS

(* A factor may be reduced before it is multiplied. *)
LEMMA FactorReduced ==
    ASSUME NEW P \in Nat \ {0}, NEW x \in Nat, NEW y \in Nat
    PROVE  ((x % P) * y) % P = (x * y) % P
<1> DEFINE q == x \div P
           r == x % P
           k == (r * y) \div P
           s == (r * y) % P
<1>1. q \in Nat /\ r \in 0 .. P - 1 /\ x = (P * q) + r
  BY Division
<1> HIDE DEF q, r
<1>2. r * y \in Nat
  BY <1>1
<1>3. k \in Nat /\ s \in 0 .. P - 1 /\ r * y = (P * k) + s
  BY <1>2, Division
<1> HIDE DEF k, s
<1>4. q * y \in Nat /\ x * y = ((P * q) + r) * y
  BY <1>1
<1>5. ((P * q) + r) * y = (P * (q * y)) + (r * y)
  BY <1>1
<1>6. x * y = (P * ((q * y) + k)) + s
  BY <1>1, <1>3, <1>4, <1>5
<1>7. (q * y) + k \in Int
  BY <1>3, <1>4
<1>8. ((P * ((q * y) + k)) + s) % P = s
  BY <1>3, <1>7, Remainder
<1> QED BY <1>6, <1>8 DEF s, r

(* One multiplication of generateRuledKey: a reduced product. *)
Times(x, y, P) == (x * y) % P

(* It is below P, ... *)
LEMMA TimesType ==
    ASSUME NEW P \in Nat \ {0}, NEW x \in Nat, NEW y \in Nat
    PROVE  Times(x, y, P) \in 0 .. P - 1 /\ Times(x, y, P) \in Nat
<1>1. x * y \in Nat
  OBVIOUS
<1> QED BY <1>1, Division DEF Times

(* commutes, ... *)
LEMMA TimesCommutes ==
    ASSUME NEW P, NEW x \in Nat, NEW y \in Nat
    PROVE  Times(x, y, P) = Times(y, x, P)
<1>1. x * y = y * x
  OBVIOUS
<1> QED BY <1>1 DEF Times

(* associates, ... *)
LEMMA TimesAssociates ==
    ASSUME NEW P \in Nat \ {0}, NEW x \in Nat, NEW y \in Nat, NEW z \in Nat
    PROVE  Times(Times(x, y, P), z, P) = Times(x, Times(y, z, P), P)
<1>1. x * y \in Nat /\ y * z \in Nat /\ (x * y) * z = (y * z) * x
  OBVIOUS
<1>2. Times(Times(x, y, P), z, P) = ((x * y) * z) % P
  BY <1>1, FactorReduced DEF Times
<1>3. Times(Times(y, z, P), x, P) = ((y * z) * x) % P
  BY <1>1, FactorReduced DEF Times
<1>4. Times(Times(y, z, P), x, P) = Times(x, Times(y, z, P), P)
  BY TimesType, TimesCommutes
<1> QED BY <1>1, <1>2, <1>3, <1>4

(* and has 1 as its neutral element, for numbers below P. *)
LEMMA TimesOne ==
    ASSUME NEW P \in Nat \ {0}, NEW x \in 0 .. P - 1
    PROVE  Times(1, x, P) = x
<1>1. 1 * x = (P * 0) + x
  OBVIOUS
<1> QED BY <1>1, Remainder DEF Times

-----------------------------------------------------------------------------
(* generateRuledKey by its loop: what the loop holds after i multiplications. *)
IsKeyLoop(key, a, b, P) ==
    key = [i \in 0 .. b |-> IF i = 0 THEN 1 ELSE (key[i - 1] * a) % P]

(* There is such a loop, and generateRuledKey returns what it ends with. *)
LEMMA KeyLoopExists ==
    ASSUME NEW a \in Nat, NEW b \in Nat, NEW P \in Nat, P > 1
    PROVE  \E key : IsKeyLoop(key, a, b, P) /\ generateRuledKey(a, b, P) = key[b]
<1> DEFINE S == 0 .. P - 1
           step == [x \in Nat \X S |-> (x[2] * a) % P]
           loop == CHOOSE key : IsKeyLoop(key, a, b, P)
<1>1. ASSUME NEW x \in S PROVE (x * a) % P \in S
  BY TimesType DEF Times
<1>2. 1 \in S /\ step \in [Nat \X S -> S]
  BY <1>1
<1>3. PICK f \in [0 .. b -> S] : f[0] = 1 /\ \A i \in 1 .. b : f[i] = step[<<i, f[i - 1]>>]
  <2>1. Iterations(S, 1, step, b) # {}
    <3> HIDE DEF S, step
    <3> QED BY <1>2, Iterates
  <2> QED BY <2>1 DEF Iterations
<1>4. ASSUME NEW i \in 0 .. b
      PROVE  f[i] = IF i = 0 THEN 1 ELSE (f[i - 1] * a) % P
  <2>1. CASE i = 0
    BY <1>3, <2>1
  <2>2. CASE i # 0
    <3>1. i \in 1 .. b /\ i \in Nat /\ i - 1 \in 0 .. b
      BY <2>2
    <3>2. f[i - 1] \in S /\ f[i] = step[<<i, f[i - 1]>>]
      BY <1>3, <3>1
    <3> QED BY <2>2, <3>1, <3>2
  <2> QED BY <2>1, <2>2
<1>5. IsKeyLoop(f, a, b, P)
  <2> HIDE DEF S
  <2> QED BY <1>3, <1>4 DEF IsKeyLoop
<1>6. IsKeyLoop(loop, a, b, P)
  BY <1>5, Zenon
<1>7. generateRuledKey(a, b, P) = loop[b]
  BY DEF generateRuledKey, IsKeyLoop
<1> QED BY <1>6, <1>7

(* Two runs of the loop with one base agree as far as both go. *)
LEMMA KeyLoopsAgree ==
    ASSUME NEW a \in Nat, NEW b \in Nat, NEW c \in Nat, NEW P \in Nat,
           NEW f, NEW g, IsKeyLoop(f, a, b, P), IsKeyLoop(g, a, c, P), b <= c
    PROVE  f[b] = g[b]
<1> DEFINE T == {i \in Nat : i <= b => f[i] = g[i]}
<1>1. 0 \in T
  BY DEF IsKeyLoop
<1>2. ASSUME NEW i \in Nat, i \in T PROVE i + 1 \in T
  <2> SUFFICES ASSUME i + 1 <= b PROVE f[i + 1] = g[i + 1]
    OBVIOUS
  <2>1. i + 1 \in 0 .. b /\ i + 1 \in 0 .. c /\ i + 1 # 0 /\ (i + 1) - 1 = i /\ f[i] = g[i]
    BY <1>2
  <2> QED BY <2>1 DEF IsKeyLoop
<1>3. b \in T
  <2> HIDE DEF T
  <2> QED BY <1>1, <1>2, Induction
<1> QED BY <1>3

(* The powers of a: the first is 1, the next is a times the last, modulo P. *)
LEMMA Powers ==
    ASSUME NEW a \in Nat, NEW P \in Nat, P > 1
    PROVE  /\ generateRuledKey(a, 0, P) = 1
           /\ \A b \in Nat : generateRuledKey(a, b + 1, P) = Times(generateRuledKey(a, b, P), a, P)
<1>1. generateRuledKey(a, 0, P) = 1
  <2>1. PICK f : IsKeyLoop(f, a, 0, P) /\ generateRuledKey(a, 0, P) = f[0]
    BY KeyLoopExists
  <2> QED BY <2>1 DEF IsKeyLoop
<1>2. ASSUME NEW b \in Nat
      PROVE  generateRuledKey(a, b + 1, P) = Times(generateRuledKey(a, b, P), a, P)
  <2>1. PICK f : IsKeyLoop(f, a, b, P) /\ generateRuledKey(a, b, P) = f[b]
    BY KeyLoopExists
  <2>2. b + 1 \in Nat
    OBVIOUS
  <2>3. PICK g : IsKeyLoop(g, a, b + 1, P) /\ generateRuledKey(a, b + 1, P) = g[b + 1]
    BY <2>2, KeyLoopExists
  <2>4. f[b] = g[b]
    BY <2>1, <2>2, <2>3, KeyLoopsAgree
  <2>5. b + 1 \in 0 .. b + 1 /\ b + 1 # 0 /\ (b + 1) - 1 = b
    OBVIOUS
  <2>6. g[b + 1] = (g[b] * a) % P
    BY <2>3, <2>5 DEF IsKeyLoop
  <2> QED BY <2>1, <2>3, <2>4, <2>6 DEF Times
<1> QED BY <1>1, <1>2

(* A power is below P. *)
LEMMA PowerType ==
    ASSUME NEW a \in Nat, NEW b \in Nat, NEW P \in Nat, P > 1
    PROVE  generateRuledKey(a, b, P) \in 0 .. P - 1
<1> DEFINE T == {n \in Nat : generateRuledKey(a, n, P) \in 0 .. P - 1}
<1>1. 0 \in T
  BY Powers
<1>2. ASSUME NEW n \in Nat, n \in T PROVE n + 1 \in T
  BY <1>2, Powers, TimesType
<1>3. b \in T
  <2> HIDE DEF T
  <2> QED BY <1>1, <1>2, Induction
<1> QED BY <1>3

(* Every power of 1 is 1. *)
LEMMA PowerOfOne ==
    ASSUME NEW b \in Nat, NEW P \in Nat, P > 1
    PROVE  generateRuledKey(1, b, P) = 1
<1> DEFINE T == {n \in Nat : generateRuledKey(1, n, P) = 1}
<1>1. 0 \in T
  BY Powers
<1>2. ASSUME NEW n \in Nat, n \in T PROVE n + 1 \in T
  BY <1>2, Powers, TimesOne
<1>3. b \in T
  <2> HIDE DEF T
  <2> QED BY <1>1, <1>2, Induction
<1> QED BY <1>3

(* The power of a product is the product of the powers. *)
LEMMA PowerOfProduct ==
    ASSUME NEW P \in Nat, P > 1, NEW x \in Nat, NEW y \in Nat, NEW b \in Nat
    PROVE  generateRuledKey(Times(x, y, P), b, P)
                = Times(generateRuledKey(x, b, P), generateRuledKey(y, b, P), P)
<1> DEFINE xy == Times(x, y, P)
           X(n) == generateRuledKey(x, n, P)
           Y(n) == generateRuledKey(y, n, P)
           XY(n) == generateRuledKey(xy, n, P)
           T == {n \in Nat : XY(n) = Times(X(n), Y(n), P)}
<1>0. xy \in Nat /\ \A n \in Nat : X(n) \in Nat /\ Y(n) \in Nat /\ XY(n) \in Nat
  <2>1. xy \in Nat
    BY TimesType
  <2> HIDE DEF xy
  <2>2. ASSUME NEW n \in Nat PROVE X(n) \in 0 .. P - 1 /\ Y(n) \in 0 .. P - 1 /\ XY(n) \in 0 .. P - 1
    BY <2>1, PowerType
  <2> QED BY <2>1, <2>2
<1>1. 0 \in T
  <2>1. X(0) = 1 /\ Y(0) = 1 /\ XY(0) = 1
    BY <1>0, Powers
  <2> QED BY <2>1, TimesOne
<1>2. ASSUME NEW n \in Nat, n \in T PROVE n + 1 \in T
  <2>1. /\ X(n + 1) = Times(X(n), x, P) /\ Y(n + 1) = Times(Y(n), y, P)
        /\ XY(n + 1) = Times(XY(n), xy, P)
    BY <1>0, Powers
  <2> DEFINE p == X(n)
             q == Y(n)
  <2>2. p \in Nat /\ q \in Nat /\ XY(n) = Times(p, q, P)
    BY <1>0, <1>2
  <2> HIDE DEF p, q
  <2>3. /\ Times(q, y, P) \in Nat /\ Times(p, q, P) \in Nat /\ Times(p, x, P) \in Nat
        /\ Times(x, y, P) \in Nat /\ Times(x, q, P) \in Nat
    BY <2>2, TimesType
  <2>4. Times(Times(p, q, P), Times(x, y, P), P) = Times(p, Times(q, Times(x, y, P), P), P)
    BY <2>2, <2>3, TimesAssociates
  <2>5. Times(q, Times(x, y, P), P) = Times(Times(q, x, P), y, P)
    BY <2>2, TimesAssociates
  <2>6. Times(q, x, P) = Times(x, q, P)
    BY <2>2, TimesCommutes
  <2>7. Times(Times(x, q, P), y, P) = Times(x, Times(q, y, P), P)
    BY <2>2, TimesAssociates
  <2>8. Times(p, Times(x, Times(q, y, P), P), P) = Times(Times(p, x, P), Times(q, y, P), P)
    BY <2>2, <2>3, TimesAssociates
  <2>9. XY(n + 1) = Times(X(n + 1), Y(n + 1), P)
    BY <2>1, <2>2, <2>4, <2>5, <2>6, <2>7, <2>8 DEF p, q
  <2> QED BY <2>9
<1>3. b \in T
  <2> HIDE DEF T
  <2> QED BY <1>1, <1>2, Induction
<1> QED BY <1>3

(* The heart of the key exchange: the a-th power of the b-th power of g is the
   b-th power of the a-th, for every modulus above 1. *)
THEOREM PowersCommute ==
    ASSUME NEW P \in Nat, P > 1, NEW g \in Nat, NEW a \in Nat, NEW b \in Nat
    PROVE  generateRuledKey(generateRuledKey(g, b, P), a, P)
                = generateRuledKey(generateRuledKey(g, a, P), b, P)
<1> DEFINE G(n) == generateRuledKey(g, n, P)
           B == G(b)
           T == {n \in Nat : generateRuledKey(B, n, P) = generateRuledKey(G(n), b, P)}
<1>0. ASSUME NEW n \in Nat PROVE G(n) \in 0 .. P - 1 /\ G(n) \in Nat
  <2>1. G(n) \in 0 .. P - 1
    BY PowerType
  <2> QED BY <2>1
<1>1. 0 \in T
  BY <1>0, Powers, PowerOfOne
<1>2. ASSUME NEW n \in Nat, n \in T PROVE n + 1 \in T
  <2>1. generateRuledKey(B, n + 1, P) = Times(generateRuledKey(B, n, P), B, P)
    BY <1>0, Powers
  <2>2. G(n + 1) = Times(G(n), g, P)
    BY Powers
  <2>3. generateRuledKey(G(n + 1), b, P) = Times(generateRuledKey(G(n), b, P), B, P)
    BY <1>0, <2>2, PowerOfProduct
  <2> QED BY <1>2, <2>1, <2>3
<1>3. a \in T
  <2> HIDE DEF T
  <2> QED BY <1>1, <1>2, Induction
<1> QED BY <1>3

(* Up to the first exponent the int counter cannot reach, the overflow makes no
   difference. *)
LEMMA CounterFits ==
    ASSUME NEW a, NEW b \in Nat, b <= IntMax + 1
    PROVE  RuledKeys(a, b, SECURE_PRIME_NUMBER, IntMax)
               = {generateRuledKey(a, b, SECURE_PRIME_NUMBER)}
<1>1. b > IntMax => b = IntMax + 1
  BY SelfTestAssumption
<1> QED BY <1>1 DEF RuledKeys

(* A side's key is the power of the peer's power. *)
LEMMA SideKeysOfPowers ==
    ASSUME NEW g \in Nat, NEW peer \in Nat, NEW own \in Nat,
           peer <= IntMax + 1, own <= IntMax + 1
    PROVE  SideKeys(g, peer, own)
               = {generateRuledKey(generateRuledKey(g, peer, SECURE_PRIME_NUMBER), own,
                                   SECURE_PRIME_NUMBER)}
<1> DEFINE pwr == generateRuledKey(g, peer, SECURE_PRIME_NUMBER)
<1>1. RuledKeys(g, peer, SECURE_PRIME_NUMBER, IntMax) = {pwr}
  BY CounterFits
<1>2. RuledKeys(pwr, own, SECURE_PRIME_NUMBER, IntMax)
          = {generateRuledKey(pwr, own, SECURE_PRIME_NUMBER)}
  BY CounterFits
<1> HIDE DEF pwr
<1>3. SideKeys(g, peer, own) = RuledKeys(pwr, own, SECURE_PRIME_NUMBER, IntMax)
  BY <1>1 DEF SideKeys
<1> QED BY <1>2, <1>3 DEF pwr

(* Test's second assertion for every public key and every two keys that the
   counter can reach: aSide = bSide, whatever the modulus. *)
THEOREM BothSidesAgree ==
    ASSUME NEW g \in Nat, NEW aKey \in Nat, NEW bKey \in Nat,
           aKey <= IntMax + 1, bKey <= IntMax + 1,
           NEW aSide \in SideKeys(g, bKey, aKey), NEW bSide \in SideKeys(g, aKey, bKey)
    PROVE  aSide = bSide
<1> DEFINE Power(a, b) == generateRuledKey(a, b, SECURE_PRIME_NUMBER)
<1>1. SideKeys(g, bKey, aKey) = {Power(Power(g, bKey), aKey)}
  BY SideKeysOfPowers
<1>2. SideKeys(g, aKey, bKey) = {Power(Power(g, aKey), bKey)}
  BY SideKeysOfPowers
<1>3. Power(Power(g, bKey), aKey) = Power(Power(g, aKey), bKey)
  BY SelfTestAssumption, PowersCommute
<1> QED BY <1>1, <1>2, <1>3
=============================================================================
