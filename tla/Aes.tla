--------------------------------- MODULE Aes ---------------------------------
(***************************************************************************)
(* One block through aes_ni.h: the key schedule, the rounds of encryption  *)
(* and the rounds of decryption with its keys taken from the other end of  *)
(* the schedule.  What the processor's instructions compute is a           *)
(* parameter; the assumption says what the rounds need of it.              *)
(***************************************************************************)
EXTENDS Naturals

CONSTANTS
    Block,           \* the values of an __m128i
    Xor(_, _),       \* _mm_xor_si128
    SubShift(_),     \* SubBytes and ShiftRows, which commute
    InvSubShift(_),
    MixColumns(_),
    InvMixColumns(_),
    KeyExp(_, _)     \* AES_128_key_exp, of a round key and the round

ASSUME InstructionsAssumption ==
    /\ \A a \in Block :
        /\ SubShift(a) \in Block /\ InvSubShift(SubShift(a)) = a
        /\ MixColumns(a) \in Block /\ InvMixColumns(MixColumns(a)) = a
        /\ InvMixColumns(a) \in Block
        /\ \A round \in 1 .. 10 : KeyExp(a, round) \in Block
    /\ \A a, b \in Block :
        /\ Xor(a, b) \in Block /\ Xor(Xor(a, b), b) = a
        /\ InvMixColumns(Xor(a, b)) = Xor(InvMixColumns(a), InvMixColumns(b))

(* The instructions _mm_aesenc_si128, _mm_aesenclast_si128 and so on. *)
aesenc(m, k) == Xor(MixColumns(SubShift(m)), k)
aesenclast(m, k) == Xor(SubShift(m), k)
aesdec(m, k) == Xor(InvMixColumns(InvSubShift(m)), k)
aesdeclast(m, k) == Xor(InvSubShift(m), k)
aesimc(k) == InvMixColumns(k)

(* aes128_load_key_enc_only: key_schedule[0] to key_schedule[10]. *)
RoundKeys(key) ==
    LET k[i \in 0 .. 10] == IF i = 0 THEN key ELSE KeyExp(k[i - 1], i) IN k

(* Mutant: the decryption keys in the order of the encryption keys. *)
LoadKeyForward(k) == [i \in 0 .. 19 |-> IF i <= 10 THEN k[i] ELSE aesimc(k[i - 10])]

(* aes128_load_key: the decryption keys follow, "in reverse order". *)
LoadKey(k) == [i \in 0 .. 19 |-> IF i <= 10 THEN k[i] ELSE aesimc(k[20 - i])]

aes128_enc(k, plain) ==
    LET m0 == Xor(plain, k[0])
        m1 == aesenc(m0, k[1])
        m2 == aesenc(m1, k[2])
        m3 == aesenc(m2, k[3])
        m4 == aesenc(m3, k[4])
        m5 == aesenc(m4, k[5])
        m6 == aesenc(m5, k[6])
        m7 == aesenc(m6, k[7])
        m8 == aesenc(m7, k[8])
        m9 == aesenc(m8, k[9])
    IN  aesenclast(m9, k[10])

aes128_dec(k, cipher) ==
    LET m0 == Xor(cipher, k[10])
        m1 == aesdec(m0, k[11])
        m2 == aesdec(m1, k[12])
        m3 == aesdec(m2, k[13])
        m4 == aesdec(m3, k[14])
        m5 == aesdec(m4, k[15])
        m6 == aesdec(m5, k[16])
        m7 == aesdec(m6, k[17])
        m8 == aesdec(m7, k[18])
        m9 == aesdec(m8, k[19])
    IN  aesdeclast(m9, k[0])
=============================================================================
