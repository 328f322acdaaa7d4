------------------------------ MODULE PacketProofs ------------------------------
(***************************************************************************)
(* The layout of packets, and the getters of NTPacket, for every length of *)
(* strings, number of values and datagrams, size of the receive buffer,    *)
(* block length of the cipher and set of enumerations.                     *)
(***************************************************************************)
EXTENDS NTPacket, VectorLemmas

-----------------------------------------------------------------------------
(* Vectors of anything: a byte may be the cipher of a block of bytes. *)
Vector(s) == \E S : s \in Seq(S)

LEMMA VectorElements ==
    ASSUME NEW s, Vector(s)
    PROVE  Len(s) \in Nat /\ DOMAIN s = 1 .. Len(s) /\ s = [k \in 1 .. Len(s) |-> s[k]]
<1>1. PICK S : s \in Seq(S)
  BY DEF Vector
<1> QED BY <1>1

LEMMA ListedVector ==
    ASSUME NEW n \in Nat, NEW s, s = [k \in 1 .. n |-> s[k]]
    PROVE  Vector(s) /\ Len(s) = n /\ DOMAIN s = 1 .. n
<1> DEFINE S == {s[k] : k \in 1 .. n}
<1>1. s \in [1 .. n -> S]
  OBVIOUS
<1> HIDE DEF S
<1>2. s \in Seq(S) /\ Len(s) = n /\ DOMAIN s = 1 .. n
  BY <1>1
<1> QED BY <1>2 DEF Vector

(* Vectors with the same elements are the same. *)
LEMMA SameVector ==
    ASSUME NEW s, NEW t, Vector(s), Vector(t), Len(s) = Len(t),
           \A k \in 1 .. Len(s) : s[k] = t[k]
    PROVE  s = t
<1>1. s = [k \in 1 .. Len(s) |-> s[k]] /\ t = [k \in 1 .. Len(s) |-> t[k]]
  BY VectorElements
<1>2. [k \in 1 .. Len(s) |-> s[k]] = [k \in 1 .. Len(s) |-> t[k]]
  OBVIOUS
<1> QED BY <1>1, <1>2

(* One vector after the other. *)
LEMMA Concatenation ==
    ASSUME NEW s, NEW t, Vector(s), Vector(t)
    PROVE  /\ Vector(s \o t) /\ Len(s \o t) = Len(s) + Len(t)
           /\ \A k \in 1 .. Len(s) : (s \o t)[k] = s[k]
           /\ \A k \in 1 .. Len(t) : (s \o t)[Len(s) + k] = t[k]
<1>1. PICK S : s \in Seq(S)
  BY DEF Vector
<1>2. PICK T : t \in Seq(T)
  BY DEF Vector
<1> DEFINE U == S \cup T
<1>3. s \in Seq(U) /\ t \in Seq(U)
  <2>1. S \subseteq U /\ T \subseteq U
    OBVIOUS
  <2> HIDE DEF U
  <2> QED BY <1>1, <1>2, <2>1, WiderType
<1> HIDE DEF U
<1>4. s \o t \in Seq(U) /\ Len(s \o t) = Len(s) + Len(t)
  BY <1>3
<1>5. \A k \in 1 .. Len(s) : (s \o t)[k] = s[k]
  BY <1>3
<1>6. \A k \in 1 .. Len(t) : (s \o t)[Len(s) + k] = t[k]
  BY <1>3
<1> QED BY <1>4, <1>5, <1>6 DEF Vector

(* The n elements that follow the first m. *)
LEMMA Cut ==
    ASSUME NEW s, Vector(s), NEW m \in Nat, NEW n \in Nat, m + n <= Len(s)
    PROVE  /\ Vector(SubSeq(s, m + 1, m + n)) /\ Len(SubSeq(s, m + 1, m + n)) = n
           /\ \A k \in 1 .. n : SubSeq(s, m + 1, m + n)[k] = s[m + k]
<1>1. PICK S : s \in Seq(S)
  BY DEF Vector
<1>2. Len(s) \in Nat /\ DOMAIN s = 1 .. Len(s)
  BY <1>1
<1>3. \A k \in 1 .. n : s[m + k] \in S
  <2>1. \A k \in 1 .. n : m + k \in DOMAIN s
    BY <1>2
  <2> QED BY <1>1, <2>1
<1> DEFINE r == [k \in 1 .. n |-> s[m + k]]
<1>4. SubSeq(s, m + 1, m + n) = r
  BY <1>1, <1>2
<1>5. r = [k \in 1 .. n |-> r[k]] /\ \A k \in 1 .. n : r[k] = s[m + k]
  OBVIOUS
<1> HIDE DEF r
<1> QED BY <1>4, <1>5, ListedVector

LEMMA CutFirst ==
    ASSUME NEW s, Vector(s), NEW n \in Nat, n <= Len(s)
    PROVE  /\ Vector(SubSeq(s, 1, n)) /\ Len(SubSeq(s, 1, n)) = n
           /\ \A k \in 1 .. n : SubSeq(s, 1, n)[k] = s[k]
<1>1. PICK S : s \in Seq(S)
  BY DEF Vector
<1>2. Len(s) \in Nat /\ DOMAIN s = 1 .. Len(s)
  BY <1>1
<1> DEFINE r == [k \in 1 .. n |-> s[k]]
<1>3. SubSeq(s, 1, n) = r
  BY <1>1, <1>2
<1>4. r = [k \in 1 .. n |-> r[k]] /\ \A k \in 1 .. n : r[k] = s[k]
  OBVIOUS
<1> HIDE DEF r
<1> QED BY <1>3, <1>4, ListedVector

(* Append is the concatenation with one element. *)
LEMMA AppendVector ==
    ASSUME NEW s, Vector(s), NEW e
    PROVE  /\ Vector(Append(s, e)) /\ Len(Append(s, e)) = Len(s) + 1
           /\ DOMAIN Append(s, e) = 1 .. Len(s) + 1
           /\ \A k \in 1 .. Len(s) : Append(s, e)[k] = s[k]
           /\ Append(s, e)[Len(s) + 1] = e
<1>1. PICK S : s \in Seq(S)
  BY DEF Vector
<1> DEFINE U == S \cup {e}
<1>2. s \in Seq(U) /\ e \in U
  <2>1. S \subseteq U /\ e \in U
    OBVIOUS
  <2> HIDE DEF U
  <2> QED BY <1>1, <2>1, WiderType
<1> HIDE DEF U
<1>3. /\ Append(s, e) \in Seq(U)
      /\ Len(s) + 1 \notin DOMAIN s
      /\ DOMAIN Append(s, e) = DOMAIN s \cup {Len(s) + 1}
      /\ Append(s, e)[Len(s) + 1] = e
      /\ \A k \in DOMAIN s : Append(s, e)[k] = s[k]
  BY <1>2, AppendEntries
<1>4. Len(s) \in Nat /\ DOMAIN s = 1 .. Len(s) /\ Len(Append(s, e)) = Len(s) + 1
  BY <1>2
<1> QED BY <1>3, <1>4 DEF Vector

LEMMA BytesVector ==
    ASSUME NEW kind, NEW x, NEW n \in Nat
    PROVE  /\ Vector(Bytes(kind, x, n)) /\ Len(Bytes(kind, x, n)) = n
           /\ \A k \in 1 .. n : Bytes(kind, x, n)[k] = [kind |-> kind, of |-> x, at |-> k]
<1> DEFINE s == Bytes(kind, x, n)
<1>1. s = [k \in 1 .. n |-> s[k]] /\ \A k \in 1 .. n : s[k] = [kind |-> kind, of |-> x, at |-> k]
  BY DEF Bytes
<1> HIDE DEF s
<1>2. Vector(s) /\ Len(s) = n
  BY <1>1, ListedVector
<1> QED BY <1>1, <1>2 DEF s

-----------------------------------------------------------------------------
(* The blocks of the cipher. *)

(* Whole blocks cover the bytes, with less than a block to spare. *)
LEMMA BlocksCover ==
    ASSUME NEW n \in Nat, NEW q, q = (n + BlockLen - 1) \div BlockLen
    PROVE  q \in Nat /\ q * BlockLen \in Nat /\ n <= q * BlockLen /\ q * BlockLen < n + BlockLen
<1> DEFINE B == BlockLen
           r == (n + B - 1) % B
<1>1. B \in Nat \ {0}
  BY PacketAssumption
<1> HIDE DEF B
<1>2. /\ r \in 0 .. B - 1 /\ (n + B - 1) \div B \in Nat
      /\ n + B - 1 = (B * ((n + B - 1) \div B)) + r
  BY <1>1
<1>3. q \in Nat /\ n + B - 1 = (B * q) + r
  BY <1>2 DEF B
<1>4. B * q = q * B /\ q * B \in Nat
  BY <1>1, <1>3
<1> HIDE DEF r
<1>5. n <= q * B /\ q * B < n + B
  BY <1>1, <1>2, <1>3, <1>4
<1> QED BY <1>3, <1>4, <1>5 DEF B

(* A byte is in its block: the blocks lie one after the other. *)
LEMMA InItsBlock ==
    ASSUME NEW q \in Nat, NEW k \in 1 .. q * BlockLen
    PROVE  /\ BlockOf(k) \in 1 .. q /\ InBlock(k) \in 1 .. BlockLen
           /\ k = (BlockOf(k) - 1) * BlockLen + InBlock(k)
<1> DEFINE B == BlockLen
           b == (k - 1) \div B
           r == (k - 1) % B
<1>1. B \in Nat \ {0} /\ q * B \in Nat /\ k \in 1 .. q * B
  BY PacketAssumption
<1> HIDE DEF B
<1>2. k - 1 \in Nat
  BY <1>1
<1>3. r \in 0 .. B - 1 /\ b \in Nat /\ k - 1 = (B * b) + r
  BY <1>1, <1>2
<1> HIDE DEF b, r
<1>4. B * b = b * B /\ b * B \in Nat
  BY <1>1, <1>3
<1>5. b < q
  <2> SUFFICES ASSUME q <= b PROVE FALSE
    BY <1>3
  <2>1. q * B <= b * B
    BY <1>1, <1>3
  <2> QED BY <1>1, <1>3, <1>4, <2>1
<1>6. BlockOf(k) = b + 1 /\ InBlock(k) = r + 1
  BY DEF BlockOf, InBlock, b, r, B
<1> QED BY <1>1, <1>3, <1>4, <1>5, <1>6 DEF B

LEMMA BlockPosition ==
    ASSUME NEW q \in Nat, NEW b \in 1 .. q, NEW i \in 1 .. BlockLen
    PROVE  /\ (b - 1) * BlockLen + i \in 1 .. q * BlockLen
           /\ BlockOf((b - 1) * BlockLen + i) = b /\ InBlock((b - 1) * BlockLen + i) = i
<1> DEFINE B == BlockLen
           m == b - 1
           r == i - 1
<1>1. B \in Nat \ {0} /\ m \in Nat /\ m < q /\ r \in 0 .. B - 1 /\ i = r + 1
  BY PacketAssumption
<1> HIDE DEF B, m, r
<1>2. m * B = B * m /\ m * B \in Nat /\ q * B \in Nat
  BY <1>1
<1>3. m * B + B <= q * B
  <2>1. (m + 1) * B <= q * B
    BY <1>1
  <2>2. (m + 1) * B = m * B + B
    BY <1>1
  <2> QED BY <1>2, <2>1, <2>2
<1>4. m * B + i \in 1 .. q * B
  BY <1>1, <1>2, <1>3
<1>5. ((B * m) + r) % B = r /\ ((B * m) + r) \div B = m
  BY <1>1
<1>6. (m * B + i) - 1 = (B * m) + r
  BY <1>1, <1>2
<1>7. BlockOf(m * B + i) = m + 1 /\ InBlock(m * B + i) = r + 1
  BY <1>5, <1>6 DEF BlockOf, InBlock, B
<1> QED BY <1>1, <1>4, <1>7 DEF B, m

LEMMA EncryptVector ==
    ASSUME NEW p, Vector(p)
    PROVE  /\ Vector(aes_encrypt(p)) /\ Blocks(p) \in Nat /\ Len(aes_encrypt(p)) = Blocks(p) * BlockLen
           /\ \A k \in 1 .. Blocks(p) * BlockLen :
                aes_encrypt(p)[k] = [kind |-> "cipher", of |-> Block(p, BlockOf(k)), at |-> InBlock(k)]
<1> DEFINE c == aes_encrypt(p)
           n == Blocks(p) * BlockLen
<1>1. Blocks(p) \in Nat /\ n \in Nat
  BY BlocksCover, VectorElements DEF Blocks
<1>2. /\ c = [k \in 1 .. n |-> c[k]]
      /\ \A k \in 1 .. n : c[k] = [kind |-> "cipher", of |-> Block(p, BlockOf(k)), at |-> InBlock(k)]
  BY DEF aes_encrypt
<1> HIDE DEF c, n
<1>3. Vector(c) /\ Len(c) = n
  BY <1>1, <1>2, ListedVector
<1> QED BY <1>1, <1>2, <1>3 DEF c, n

LEMMA DecryptVector ==
    ASSUME NEW p, Vector(p)
    PROVE  /\ Vector(aes_decrypt(p)) /\ Len(aes_decrypt(p)) = Blocks(p) * BlockLen
           /\ \A k \in 1 .. Blocks(p) * BlockLen :
                aes_decrypt(p)[k] = Deciphered(Block(p, BlockOf(k)))[InBlock(k)]
<1> DEFINE d == aes_decrypt(p)
           n == Blocks(p) * BlockLen
<1>1. n \in Nat
  BY BlocksCover, VectorElements DEF Blocks
<1>2. /\ d = [k \in 1 .. n |-> d[k]]
      /\ \A k \in 1 .. n : d[k] = Deciphered(Block(p, BlockOf(k)))[InBlock(k)]
  BY DEF aes_decrypt
<1> HIDE DEF d, n
<1>3. Vector(d) /\ Len(d) = n
  BY <1>1, <1>2, ListedVector
<1> QED BY <1>2, <1>3 DEF d, n

(* p, with zeros up to a whole number of blocks. *)
Padded(d, p) ==
    /\ Vector(d) /\ Len(p) <= Len(d) /\ Len(d) < Len(p) + BlockLen
    /\ \A k \in 1 .. Len(p) : d[k] = p[k]
    /\ \A k \in Len(p) + 1 .. Len(d) : d[k] = Zero

(* What was encrypted is decrypted to itself and the padding. *)
LEMMA DecryptPads ==
    ASSUME NEW p, Vector(p)
    PROVE  Padded(aes_decrypt(aes_encrypt(p)), p)
<1> DEFINE c == aes_encrypt(p)
           d == aes_decrypt(c)
           q == Blocks(p)
           n == q * BlockLen
<1>1. BlockLen \in Nat \ {0} /\ Len(p) \in Nat
  BY PacketAssumption, VectorElements
<1>2. q \in Nat /\ n \in Nat /\ Len(p) <= n /\ n < Len(p) + BlockLen
  BY <1>1, BlocksCover DEF Blocks
<1>3. /\ Vector(c) /\ Len(c) = n
      /\ \A k \in 1 .. n : c[k] = [kind |-> "cipher", of |-> Block(p, BlockOf(k)), at |-> InBlock(k)]
  BY EncryptVector
<1> HIDE DEF c
<1>4. Blocks(c) = q
  <2> DEFINE q2 == Blocks(c)
  <2>1. q2 \in Nat /\ n <= q2 * BlockLen /\ q2 * BlockLen < n + BlockLen
    BY <1>2, <1>3, BlocksCover DEF Blocks
  <2> HIDE DEF q2
  <2>2. q <= q2
    <3> SUFFICES ASSUME q2 + 1 <= q PROVE FALSE
      BY <1>2, <2>1
    <3>1. (q2 + 1) * BlockLen <= q * BlockLen
      BY <1>1, <1>2, <2>1
    <3> QED BY <1>1, <1>2, <2>1, <3>1
  <2>3. q2 <= q
    <3> SUFFICES ASSUME q + 1 <= q2 PROVE FALSE
      BY <1>2, <2>1
    <3>1. (q + 1) * BlockLen <= q2 * BlockLen
      BY <1>1, <1>2, <2>1
    <3> QED BY <1>1, <1>2, <2>1, <3>1
  <2> QED BY <1>2, <2>1, <2>2, <2>3 DEF q2
<1>5. Vector(d) /\ Len(d) = n
      /\ \A k \in 1 .. n : d[k] = Deciphered(Block(c, BlockOf(k)))[InBlock(k)]
  BY <1>3, <1>4, DecryptVector
<1> HIDE DEF d
<1>6. ASSUME NEW b \in 1 .. q PROVE Deciphered(Block(c, b)) = Block(p, b)
  <2> DEFINE block == Block(c, b)
             plain == Block(p, b)
  <2>1. ASSUME NEW i \in 1 .. BlockLen
        PROVE  block[i].kind = "cipher" /\ block[i].of = plain /\ block[i].at = i
    <3> DEFINE k == (b - 1) * BlockLen + i
    <3>1. k \in 1 .. n /\ BlockOf(k) = b /\ InBlock(k) = i
      BY <1>2, BlockPosition
    <3>2. block[i] = IF k <= Len(c) THEN c[k] ELSE Zero
      BY DEF Block
    <3> HIDE DEF k, block
    <3>3. block[i] = [kind |-> "cipher", of |-> plain, at |-> i]
      BY <1>2, <1>3, <3>1, <3>2
    <3> HIDE DEF plain
    <3> QED BY <3>3
  <2> HIDE DEF block, plain
  <2>2. 1 \in 1 .. BlockLen
    BY <1>1
  <2> QED BY <2>1, <2>2 DEF Deciphered, block, plain
<1>7. ASSUME NEW k \in 1 .. n PROVE d[k] = IF k <= Len(p) THEN p[k] ELSE Zero
  <2> DEFINE b == BlockOf(k)
             i == InBlock(k)
  <2>1. b \in 1 .. q /\ i \in 1 .. BlockLen /\ k = (b - 1) * BlockLen + i
    BY <1>2, InItsBlock
  <2>2. d[k] = Block(p, b)[i]
    BY <1>5, <1>6, <2>1
  <2> HIDE DEF b, i
  <2> QED BY <2>1, <2>2 DEF Block
<1> QED BY <1>1, <1>2, <1>5, <1>7 DEF Padded, c, d

-----------------------------------------------------------------------------
(* What appendData builds: packets and the list of calls, in parallel. *)

(* A value's size is that of its type, where a getter asks for the type. *)
Sized(r) ==
    /\ r.len \in Nat /\ r.size \in Nat /\ r.type \in 0 .. 255
    /\ r.type \in 1 .. 7 =>
        r.type # PACKET_DOUBLE /\ r.size = r.len /\ BytesRead(r.type, r.size) = r.size
    /\ r.type = PACKET_VARIABLE_NAME => r.size = 2

(* Where the n-th value of a list ends, and the metadata of a value. *)
EndOf(list, n) == IF n = 0 THEN 0 ELSE list[n].index + list[n].size

EntryOf(r) == [startIndex |-> r.index, variableSize |-> r.size, variableType |-> r.type]

(* data holds the first n values of the list and nothing else. *)
Laid(data, list, n) ==
    /\ Vector(data) /\ Len(data) = EndOf(list, n)
    /\ \A v \in 1 .. n : ReadsBack(data, list[v].index, v, list[v].size)

(* bytes holds the metadata of the first n values after the first m bytes. *)
Described(bytes, m, list, n) ==
    \A v \in 1 .. n, j \in 1 .. ChunkSize : bytes[m + (v - 1) * ChunkSize + j].of = EntryOf(list[v])

(* pkt was built by the calls of the list. *)
Built(pkt, list) ==
    /\ pkt = [encrypted |-> pkt.encrypted, data |-> pkt.data, meta |-> pkt.meta,
              appendedBytes |-> pkt.appendedBytes]
    /\ Vector(list) /\ \A v \in 1 .. Len(list) : Sized(list[v]) /\ list[v].index \in Nat
    /\ pkt.appendedBytes = EndOf(list, Len(list)) /\ pkt.appendedBytes \in Nat
    /\ Vector(pkt.data) /\ \A i \in 1 .. Len(pkt.data) : pkt.data[i].kind \in {"value", "cipher"}
    /\ Vector(pkt.meta) /\ Len(pkt.meta) = ChunkSize * Len(list)
    /\ Described(pkt.meta, 0, list, Len(list))
    /\ \A i \in 1 .. Len(pkt.meta) : pkt.meta[i].of \in Entry

Extends(longer, list) ==
    /\ Vector(longer) /\ Len(list) <= Len(longer)
    /\ \A v \in 1 .. Len(list) : longer[v] = list[v]

LEMMA OverloadsSized ==
    ASSUME NEW call \in Overloads
    PROVE  Sized(call) /\ call.type # PACKET_VARIABLE_NAME
<1> USE DEF Sized, BytesRead, PACKET_DOUBLE, PACKET_STRING, PACKET_VARIABLE_NAME
<1>1. CASE call = [len |-> 4, size |-> 4, type |-> 1] \/ call = [len |-> 8, size |-> 2, type |-> 0]
  BY <1>1
<1>2. CASE call = [len |-> 1, size |-> 1, type |-> 3] \/ call = [len |-> 2, size |-> 2, type |-> 4]
  BY <1>2
<1>3. CASE call = [len |-> 4, size |-> 4, type |-> 5] \/ call = [len |-> 8, size |-> 8, type |-> 6]
  BY <1>3
<1>4. CASE \E n \in StringSizes : call = [len |-> n, size |-> n, type |-> 7]
  BY <1>4, PacketAssumption
<1> QED BY <1>1, <1>2, <1>3, <1>4 DEF Overloads

LEMMA EnumerationsSized ==
    /\ Sized(Enumeration(PACKET_VARIABLE_NAME)) /\ Sized(Enumeration(PACKET_ENUMERATOR))
    /\ Enumeration(PACKET_ENUMERATOR).type # PACKET_VARIABLE_NAME
BY DEF Sized, Enumeration, PACKET_VARIABLE_NAME, PACKET_ENUMERATOR

(* One more value: its bytes and its metadata follow what was there. *)
LEMMA AppendEffect ==
    ASSUME NEW pkt, NEW list, Built(pkt, list), NEW call, Sized(call), NEW v
    PROVE  LET new == AppendedTo(pkt, v, call)
           IN  /\ new = [encrypted |-> pkt.encrypted, data |-> new.data, meta |-> new.meta,
                         appendedBytes |-> pkt.appendedBytes + call.size]
               /\ Vector(new.data) /\ Len(new.data) = Len(pkt.data) + call.size
               /\ \A k \in 1 .. Len(pkt.data) : new.data[k] = pkt.data[k]
               /\ \A k \in 1 .. call.size :
                    new.data[Len(pkt.data) + k] = [kind |-> "value", of |-> v, at |-> k]
               /\ Vector(new.meta) /\ Len(new.meta) = Len(pkt.meta) + ChunkSize
               /\ \A k \in 1 .. Len(pkt.meta) : new.meta[k] = pkt.meta[k]
               /\ \A k \in 1 .. ChunkSize :
                    new.meta[Len(pkt.meta) + k].of = EntryOf(Record(pkt, call))
<1> DEFINE entry == EntryOf(Record(pkt, call))
           value == Bytes("value", v, call.size)
           chunk == Bytes("meta", entry, ChunkSize)
           new == AppendedTo(pkt, v, call)
<1>1. /\ Vector(value) /\ Len(value) = call.size
      /\ \A k \in 1 .. call.size : value[k] = [kind |-> "value", of |-> v, at |-> k]
  BY BytesVector DEF Sized
<1>2. /\ Vector(chunk) /\ Len(chunk) = ChunkSize
      /\ \A k \in 1 .. ChunkSize : chunk[k].of = entry
  <2>1. ChunkSize \in Nat
    BY DEF ChunkSize
  <2> HIDE DEF entry
  <2>2. /\ Vector(chunk) /\ Len(chunk) = ChunkSize
        /\ \A k \in 1 .. ChunkSize : chunk[k] = [kind |-> "meta", of |-> entry, at |-> k]
    BY <2>1, BytesVector
  <2> HIDE DEF chunk
  <2> QED BY <2>2
<1>3. entry = [startIndex |-> pkt.appendedBytes, variableSize |-> call.size,
               variableType |-> call.type]
  BY DEF EntryOf, Record
<1>4. new = [encrypted |-> pkt.encrypted, data |-> pkt.data \o value, meta |-> pkt.meta \o chunk,
             appendedBytes |-> pkt.appendedBytes + call.size]
  <2>1. pkt = [encrypted |-> pkt.encrypted, data |-> pkt.data, meta |-> pkt.meta,
               appendedBytes |-> pkt.appendedBytes]
    BY DEF Built
  <2>2. new = [pkt EXCEPT !.appendedBytes = @ + call.size, !.data = @ \o value, !.meta = @ \o chunk]
    BY <1>3 DEF AppendedTo
  <2> HIDE DEF new, value, chunk
  <2> QED BY <2>1, <2>2
<1> HIDE DEF value, chunk, entry
<1>5. /\ new.encrypted = pkt.encrypted /\ new.data = pkt.data \o value
      /\ new.meta = pkt.meta \o chunk /\ new.appendedBytes = pkt.appendedBytes + call.size
  BY <1>4
<1> HIDE DEF new
<1>6. Vector(pkt.data) /\ Vector(pkt.meta)
  BY DEF Built
<1>7. /\ Vector(pkt.data \o value) /\ Len(pkt.data \o value) = Len(pkt.data) + call.size
      /\ \A k \in 1 .. Len(pkt.data) : (pkt.data \o value)[k] = pkt.data[k]
      /\ \A k \in 1 .. call.size : (pkt.data \o value)[Len(pkt.data) + k] = value[k]
  BY <1>1, <1>6, Concatenation
<1>8. /\ Vector(pkt.meta \o chunk) /\ Len(pkt.meta \o chunk) = Len(pkt.meta) + ChunkSize
      /\ \A k \in 1 .. Len(pkt.meta) : (pkt.meta \o chunk)[k] = pkt.meta[k]
      /\ \A k \in 1 .. ChunkSize : (pkt.meta \o chunk)[Len(pkt.meta) + k] = chunk[k]
  BY <1>2, <1>6, Concatenation
<1>9. new = [encrypted |-> pkt.encrypted, data |-> new.data, meta |-> new.meta,
             appendedBytes |-> pkt.appendedBytes + call.size]
  BY <1>4, <1>5
<1>10. \A k \in 1 .. call.size :
          new.data[Len(pkt.data) + k] = [kind |-> "value", of |-> v, at |-> k]
  BY <1>1, <1>5, <1>7
<1>11. \A k \in 1 .. ChunkSize : new.meta[Len(pkt.meta) + k].of = entry
  BY <1>2, <1>5, <1>8
<1> QED BY <1>5, <1>7, <1>8, <1>9, <1>10, <1>11 DEF new, entry

(* What is laid out by a list is laid out by a longer one. *)
LEMMA LaidByLonger ==
    ASSUME NEW list, NEW longer, Vector(list), Extends(longer, list),
           NEW n \in 0 .. Len(list), NEW data, Laid(data, list, n)
    PROVE  Laid(data, longer, n)
<1>1. Len(list) \in Nat
  BY VectorElements
<1>2. \A v \in 1 .. n : longer[v] = list[v]
  BY <1>1 DEF Extends
<1>3. EndOf(longer, n) = EndOf(list, n)
  BY <1>2 DEF EndOf
<1> QED BY <1>2, <1>3 DEF Laid

(* More data leaves a value where it is. *)
LEMMA ReadsBackLonger ==
    ASSUME NEW data, NEW longer, Len(data) \in Nat, Len(longer) \in Nat, Len(data) <= Len(longer),
           \A k \in 1 .. Len(data) : longer[k] = data[k],
           NEW index \in Nat, NEW n \in Nat, NEW v, ReadsBack(data, index, v, n)
    PROVE  ReadsBack(longer, index, v, n)
<1> SUFFICES ASSUME NEW i \in 1 .. n
             PROVE  index + i <= Len(longer)
                    /\ longer[index + i] = [kind |-> "value", of |-> v, at |-> i]
  BY DEF ReadsBack
<1>1. index + i <= Len(data) /\ data[index + i] = [kind |-> "value", of |-> v, at |-> i]
  BY DEF ReadsBack
<1>2. index + i \in 1 .. Len(data)
  BY <1>1
<1> QED BY <1>1, <1>2

LEMMA AppendBuilds ==
    ASSUME NEW pkt, NEW list, Built(pkt, list), NEW call, Sized(call)
    PROVE  LET new == AppendedTo(pkt, Len(list) + 1, call)
               longer == Append(list, Record(pkt, call))
           IN  /\ Built(new, longer) /\ new.encrypted = pkt.encrypted
               /\ Extends(longer, list) /\ Len(longer) = Len(list) + 1
               /\ longer[Len(list) + 1].type = call.type
               /\ Laid(pkt.data, list, Len(list)) => Laid(new.data, longer, Len(longer))
<1> DEFINE n == Len(list)
           r == Record(pkt, call)
           new == AppendedTo(pkt, n + 1, call)
           longer == Append(list, r)
<1>1. /\ Vector(list) /\ n \in Nat /\ Vector(longer) /\ Len(longer) = n + 1
      /\ \A v \in 1 .. n : longer[v] = list[v]
      /\ longer[n + 1] = r
  BY AppendVector, VectorElements DEF Built
<1>2. /\ r.len = call.len /\ r.size = call.size /\ r.type = call.type /\ r.index = pkt.appendedBytes
      /\ Sized(r) /\ r.index \in Nat
  BY DEF Record, Sized, Built
<1>3. /\ new = [encrypted |-> pkt.encrypted, data |-> new.data, meta |-> new.meta,
                appendedBytes |-> pkt.appendedBytes + call.size]
      /\ Vector(new.data) /\ Len(new.data) = Len(pkt.data) + call.size
      /\ \A k \in 1 .. Len(pkt.data) : new.data[k] = pkt.data[k]
      /\ \A k \in 1 .. call.size :
           new.data[Len(pkt.data) + k] = [kind |-> "value", of |-> n + 1, at |-> k]
      /\ Vector(new.meta) /\ Len(new.meta) = Len(pkt.meta) + ChunkSize
      /\ \A k \in 1 .. Len(pkt.meta) : new.meta[k] = pkt.meta[k]
      /\ \A k \in 1 .. ChunkSize : new.meta[Len(pkt.meta) + k].of = EntryOf(r)
  BY AppendEffect
<1> HIDE DEF new, longer, r
<1>4. /\ Len(pkt.data) \in Nat /\ Len(pkt.meta) = ChunkSize * n /\ call.size \in Nat
      /\ pkt.appendedBytes \in Nat /\ pkt.appendedBytes = EndOf(list, n)
  BY VectorElements DEF Built, Sized
<1>5. new.encrypted = pkt.encrypted /\ new.appendedBytes = pkt.appendedBytes + call.size
  BY <1>3
<1>6. Extends(longer, list)
  BY <1>1 DEF Extends
<1>7. EndOf(longer, n + 1) = pkt.appendedBytes + call.size
  BY <1>1, <1>2 DEF EndOf
<1>8. \A v \in 1 .. n + 1 : Sized(longer[v]) /\ longer[v].index \in Nat
  <2>1. \A v \in 1 .. n : Sized(list[v]) /\ list[v].index \in Nat
    BY DEF Built
  <2> QED BY <1>1, <1>2, <2>1
<1>9. \A k \in 1 .. Len(new.data) : new.data[k].kind \in {"value", "cipher"}
  <2> SUFFICES ASSUME NEW k \in 1 .. Len(new.data) PROVE new.data[k].kind \in {"value", "cipher"}
    OBVIOUS
  <2>1. CASE k <= Len(pkt.data)
    <3>1. k \in 1 .. Len(pkt.data)
      BY <1>4, <2>1
    <3> QED BY <1>3, <3>1 DEF Built
  <2>2. CASE k > Len(pkt.data)
    <3> DEFINE i == k - Len(pkt.data)
    <3>1. i \in 1 .. call.size /\ k = Len(pkt.data) + i
      BY <1>3, <1>4, <2>2
    <3>2. new.data[k] = [kind |-> "value", of |-> n + 1, at |-> i]
      BY <1>3, <3>1
    <3> QED BY <3>2
  <2> QED BY <1>4, <2>1, <2>2
<1>10. EntryOf(r) \in Entry
  BY <1>2 DEF EntryOf, Entry, Sized
<1>11. \A k \in 1 .. Len(new.meta) : new.meta[k].of \in Entry
  <2> SUFFICES ASSUME NEW k \in 1 .. Len(new.meta) PROVE new.meta[k].of \in Entry
    OBVIOUS
  <2>1. CASE k <= Len(pkt.meta)
    <3>1. k \in 1 .. Len(pkt.meta)
      BY <1>1, <1>4, <2>1 DEF ChunkSize
    <3> QED BY <1>3, <3>1 DEF Built
  <2>2. CASE k > Len(pkt.meta)
    <3> DEFINE m == Len(pkt.meta)
               i == k - m
    <3>1. m \in Nat /\ k \in 1 .. m + 7 /\ k > m
      BY <1>1, <1>3, <1>4, <2>2 DEF ChunkSize
    <3> HIDE DEF m
    <3>2. i \in 1 .. ChunkSize /\ k = m + i
      BY <3>1 DEF ChunkSize
    <3> QED BY <1>3, <1>10, <3>2 DEF m
  <2> QED BY <1>1, <1>4, <2>1, <2>2 DEF ChunkSize
<1>12. Described(new.meta, 0, longer, n + 1)
  <2> SUFFICES ASSUME NEW v \in 1 .. n + 1, NEW j \in 1 .. ChunkSize
               PROVE  new.meta[0 + (v - 1) * ChunkSize + j].of = EntryOf(longer[v])
    BY DEF Described
  <2>1. CASE v \in 1 .. n
    <3>1. 0 + (v - 1) * ChunkSize + j \in 1 .. Len(pkt.meta)
      BY <1>1, <1>4, <2>1 DEF ChunkSize
    <3>2. pkt.meta[0 + (v - 1) * ChunkSize + j].of = EntryOf(list[v])
      BY <2>1 DEF Built, Described
    <3> QED BY <1>1, <1>3, <2>1, <3>1, <3>2
  <2>2. CASE v = n + 1
    <3>1. 0 + (v - 1) * ChunkSize + j = Len(pkt.meta) + j
      BY <1>1, <1>4, <2>2 DEF ChunkSize
    <3> QED BY <1>1, <1>3, <2>2, <3>1
  <2> QED BY <1>1, <2>1, <2>2
<1>13. Built(new, longer)
  <2>1. new = [encrypted |-> new.encrypted, data |-> new.data, meta |-> new.meta,
               appendedBytes |-> new.appendedBytes]
    BY <1>3, <1>5
  <2>2. new.appendedBytes = EndOf(longer, Len(longer)) /\ new.appendedBytes \in Nat
    BY <1>1, <1>4, <1>5, <1>7
  <2>3. Len(new.meta) = ChunkSize * Len(longer)
    BY <1>1, <1>3, <1>4 DEF ChunkSize
  <2> QED BY <1>1, <1>3, <1>8, <1>9, <1>11, <1>12, <2>1, <2>2, <2>3 DEF Built
<1>14. ASSUME Laid(pkt.data, list, n) PROVE Laid(new.data, longer, n + 1)
  <2>1. Len(pkt.data) = pkt.appendedBytes
    BY <1>4, <1>14 DEF Laid
  <2>2. Len(new.data) = EndOf(longer, n + 1) /\ Len(new.data) \in Nat /\ Len(pkt.data) <= Len(new.data)
    BY <1>3, <1>4, <1>7, <2>1
  <2>3. ASSUME NEW v \in 1 .. n PROVE ReadsBack(new.data, longer[v].index, v, longer[v].size)
    <3>1. /\ ReadsBack(pkt.data, list[v].index, v, list[v].size) /\ longer[v] = list[v]
          /\ list[v].index \in Nat /\ list[v].size \in Nat
      BY <1>1, <1>14 DEF Laid, Built, Sized
    <3> QED BY <1>3, <1>4, <2>2, <3>1, ReadsBackLonger
  <2>4. ReadsBack(new.data, longer[n + 1].index, n + 1, longer[n + 1].size)
    BY <1>1, <1>2, <1>3, <1>4, <2>1 DEF ReadsBack
  <2>5. \A v \in 1 .. n + 1 : ReadsBack(new.data, longer[v].index, v, longer[v].size)
    BY <1>1, <2>3, <2>4
  <2> QED BY <1>3, <2>2, <2>5 DEF Laid
<1> QED BY <1>1, <1>2, <1>5, <1>6, <1>13, <1>14 DEF new, longer, r

-----------------------------------------------------------------------------
(* The inductive invariant.  A packet holds its values one after the other as
   long as it was not encrypted; the wrapper appends no enumeration last. *)
AppendedInv ==
    /\ Built(packet, appended) /\ packet.encrypted \in BOOLEAN
    /\ Len(appended) \in 1 .. MaxAppends
    /\ appended[Len(appended)].type # PACKET_VARIABLE_NAME
    /\ Len(wire) = 0 \/ ~packet.encrypted => Laid(packet.data, appended, Len(appended))

NamesInv ==
    /\ Vector(names) /\ Len(names) = Len(appended)
    /\ \A v \in 1 .. Len(appended) :
        names[v] # NoName => appended[v].type = PACKET_VARIABLE_NAME

(* The k-th datagram d carries the first m values of the list: its header cuts
   it up right, and the plain data p went through the cipher at most once. *)
Carries(d, k, encrypted, list, m) ==
    /\ list[m].type # PACKET_VARIABLE_NAME
    /\ d.encrypted = encrypted /\ d.dataLen \in Nat
    /\ d.metaStart = d.dataLen + HeaderLen /\ d.metaLen = ChunkSize * m
    /\ Vector(d.bytes) /\ Len(d.bytes) = d.dataLen + d.metaLen
    /\ Described(d.bytes, d.dataLen, list, m)
    /\ k = 1 \/ ~encrypted =>
        \E p : /\ Laid(p, list, m)
               /\ SubSeq(d.bytes, 1, d.dataLen) = IF encrypted THEN aes_encrypt(p) ELSE p

WireInv ==
    /\ Vector(wire)
    /\ \A k \in 1 .. Len(wire) : \E m \in 1 .. Len(appended) :
        Carries(wire[k], k, packet.encrypted, appended, m)

(* What recvPacket made of it. *)
Holds(got, encrypted, list, m) ==
    /\ list[m].type # PACKET_VARIABLE_NAME
    /\ Vector(got.variables) /\ Len(got.variables) = m
    /\ \A v \in 1 .. m : got.variables[v] = EntryOf(list[v])
    /\ got.send = 1 \/ ~encrypted =>
        \E p : Laid(p, list, m) /\ IF encrypted THEN Padded(got.data, p) ELSE got.data = p

IncomingInv ==
    \/ incoming = Unspecified
    \/ /\ incoming.send \in 1 .. Len(wire)
       /\ \E m \in 1 .. Len(appended) : Holds(incoming, packet.encrypted, appended, m)

PacketInv == AppendedInv /\ NamesInv /\ WireInv /\ IncomingInv

(* Appending changes nothing of what was sent and received. *)
LEMMA AppendingKeeps ==
    ASSUME PacketInv, Extends(appended', appended), packet'.encrypted = packet.encrypted,
           UNCHANGED <<wire, incoming>>
    PROVE  WireInv' /\ IncomingInv'
<1>1. Vector(appended) /\ Len(appended) \in Nat /\ Len(appended') \in Nat
  BY VectorElements DEF PacketInv, AppendedInv, Built, Extends
<1>2. \A m \in 1 .. Len(appended) : m \in 1 .. Len(appended') /\ appended'[m] = appended[m]
  BY <1>1 DEF Extends
<1>3. \A m \in 1 .. Len(appended) : \A p : Laid(p, appended, m) => Laid(p, appended', m)
  BY <1>1, LaidByLonger
<1>4. ASSUME NEW m \in 1 .. Len(appended), NEW s, NEW n, Described(s, n, appended, m)
      PROVE  Described(s, n, appended', m)
  <2>1. \A v \in 1 .. m : appended'[v] = appended[v]
    BY <1>1, <1>2
  <2> QED BY <1>4, <2>1 DEF Described
<1>5. ASSUME NEW d, NEW k, NEW e, NEW m \in 1 .. Len(appended), Carries(d, k, e, appended, m)
      PROVE  Carries(d, k, e, appended', m)
  BY <1>2, <1>3, <1>4, <1>5 DEF Carries
<1>6. ASSUME NEW got, NEW e, NEW m \in 1 .. Len(appended), Holds(got, e, appended, m)
      PROVE  Holds(got, e, appended', m)
  <2>1. \A v \in 1 .. m : appended'[v] = appended[v]
    BY <1>1, <1>2
  <2> QED BY <1>2, <1>3, <1>6, <2>1 DEF Holds
<1>7. WireInv'
  <2>1. \A k \in 1 .. Len(wire) : \E m \in 1 .. Len(appended') :
            Carries(wire[k], k, packet.encrypted, appended', m)
    BY <1>2, <1>5 DEF PacketInv, WireInv
  <2> QED BY <2>1 DEF PacketInv, WireInv
<1>8. IncomingInv'
  BY <1>2, <1>6 DEF PacketInv, IncomingInv
<1> QED BY <1>7, <1>8

(* A call of appendData on the base packet. *)
LEMMA AppendKeeps ==
    ASSUME PacketInv, NEW call \in Overloads, appendData(call), OnBasePacket
    PROVE  PacketInv'
<1> DEFINE n == Len(appended)
           new == AppendedTo(packet, n + 1, call)
           longer == Append(appended, Record(packet, call))
<1>1. /\ packet' = new /\ appended' = longer /\ n < MaxAppends
      /\ UNCHANGED <<wire, incoming>>
  BY DEF appendData
<1>2. Sized(call) /\ call.type # PACKET_VARIABLE_NAME
  BY OverloadsSized
<1>3. /\ Built(new, longer) /\ new.encrypted = packet.encrypted
      /\ Extends(longer, appended) /\ Len(longer) = n + 1
      /\ longer[n + 1].type = call.type
      /\ Laid(packet.data, appended, n) => Laid(new.data, longer, Len(longer))
  BY <1>2, AppendBuilds DEF PacketInv, AppendedInv
<1> HIDE DEF new, longer
<1>4. n \in 1 .. MaxAppends /\ MaxAppends \in Nat
  BY PacketAssumption DEF PacketInv, AppendedInv
<1>5. AppendedInv'
  <2>1. packet'.encrypted \in BOOLEAN /\ Built(packet', appended')
    BY <1>1, <1>3 DEF PacketInv, AppendedInv
  <2>2. Len(appended') \in 1 .. MaxAppends /\ appended'[Len(appended')].type # PACKET_VARIABLE_NAME
    BY <1>1, <1>2, <1>3, <1>4
  <2>3. Len(wire') = 0 \/ ~packet'.encrypted => Laid(packet'.data, appended', Len(appended'))
    BY <1>1, <1>3 DEF PacketInv, AppendedInv
  <2> QED BY <2>1, <2>2, <2>3 DEF AppendedInv
<1>6. NamesInv'
  <2>1. Len(appended') - n = 1
    BY <1>1, <1>3, <1>4
  <2>2. Vector(names) /\ Len(names) = n
    BY DEF PacketInv, NamesInv
  <2> DEFINE added == [i \in 1 .. 1 |-> NoName]
  <2>3. names' = names \o added
    BY <2>1 DEF OnBasePacket
  <2>4. added = [i \in 1 .. 1 |-> added[i]] /\ added[1] = NoName
    OBVIOUS
  <2> HIDE DEF added
  <2>5. Vector(added) /\ Len(added) = 1
    BY <2>4, ListedVector
  <2>6. /\ Vector(names') /\ Len(names') = n + 1
        /\ \A v \in 1 .. n : names'[v] = names[v]
        /\ names'[n + 1] = NoName
    BY <2>2, <2>3, <2>4, <2>5, Concatenation
  <2>7. \A v \in 1 .. n + 1 : names'[v] # NoName => appended'[v].type = PACKET_VARIABLE_NAME
    BY <1>1, <1>3, <1>4, <2>6 DEF PacketInv, NamesInv, Extends
  <2> QED BY <1>1, <1>3, <2>6, <2>7 DEF NamesInv
<1> QED BY <1>1, <1>3, <1>5, <1>6, AppendingKeeps DEF PacketInv

(* Two elements are appended one after the other. *)
LEMMA PairAppended ==
    ASSUME NEW s, Vector(s), NEW a, NEW b
    PROVE  /\ s \o <<a, b>> = Append(Append(s, a), b)
           /\ Vector(s \o <<a, b>>) /\ Len(s \o <<a, b>>) = Len(s) + 2
           /\ \A k \in 1 .. Len(s) : (s \o <<a, b>>)[k] = s[k]
           /\ (s \o <<a, b>>)[Len(s) + 1] = a /\ (s \o <<a, b>>)[Len(s) + 2] = b
<1> DEFINE pair == <<a, b>>
           r == s \o pair
           one == Append(s, a)
           two == Append(one, b)
<1>1. pair \in Seq({a, b}) /\ Len(pair) = 2 /\ pair[1] = a /\ pair[2] = b
  OBVIOUS
<1> HIDE DEF pair
<1>2. Vector(pair) /\ Len(s) \in Nat
  BY <1>1, VectorElements DEF Vector
<1>3. /\ Vector(r) /\ Len(r) = Len(s) + Len(pair)
      /\ \A k \in 1 .. Len(s) : r[k] = s[k]
      /\ \A k \in 1 .. Len(pair) : r[Len(s) + k] = pair[k]
  BY <1>2, Concatenation
<1> HIDE DEF r
<1>4. /\ Vector(one) /\ Len(one) = Len(s) + 1
      /\ \A k \in 1 .. Len(s) : one[k] = s[k]
      /\ one[Len(s) + 1] = a
  BY AppendVector
<1> HIDE DEF one
<1>5. /\ Vector(two) /\ Len(two) = Len(one) + 1
      /\ \A k \in 1 .. Len(one) : two[k] = one[k]
      /\ two[Len(one) + 1] = b
  BY <1>4, AppendVector
<1> HIDE DEF two
<1>6. Len(r) = Len(s) + 2 /\ r[Len(s) + 1] = a /\ r[Len(s) + 2] = b
  BY <1>1, <1>3
<1>7. Len(two) = Len(s) + 2 /\ two[Len(s) + 1] = a /\ two[Len(s) + 2] = b
  BY <1>2, <1>4, <1>5
<1>8. \A k \in 1 .. Len(s) : two[k] = s[k]
  BY <1>2, <1>4, <1>5
<1>9. \A k \in 1 .. Len(r) : r[k] = two[k]
  BY <1>2, <1>3, <1>6, <1>7, <1>8
<1>10. r = two
  BY <1>3, <1>5, <1>6, <1>7, <1>9, SameVector
<1> QED BY <1>3, <1>6, <1>10 DEF r, two, one, pair

(* A variable of the wrapper: its enumeration, then its value. *)
LEMMA VariableKeeps ==
    ASSUME PacketInv, NEW var \in Overloads, NEW enumeration \in Enumerations,
           appendVariable(var, enumeration)
    PROVE  PacketInv'
<1> DEFINE n == Len(appended)
           name == Enumeration(PACKET_VARIABLE_NAME)
           a == Record(packet, name)
           named == AppendedTo(packet, n + 1, name)
           list == Append(appended, a)
           b == Record(named, var)
           new == AppendedTo(named, n + 2, var)
           longer == Append(list, b)
<1>1. /\ n + 2 <= MaxAppends /\ packet' = new /\ appended' = appended \o <<a, b>>
      /\ names' = names \o <<enumeration, NoName>>
      /\ UNCHANGED <<wire, incoming>>
  BY DEF appendVariable
<1>2. Sized(name) /\ name.type = PACKET_VARIABLE_NAME
  BY EnumerationsSized DEF Enumeration
<1>3. Sized(var) /\ var.type # PACKET_VARIABLE_NAME
  BY OverloadsSized
<1>4. /\ Vector(appended) /\ n \in Nat /\ n \in 1 .. MaxAppends /\ MaxAppends \in Nat
      /\ Built(packet, appended)
  BY VectorElements, PacketAssumption DEF PacketInv, AppendedInv, Built
<1>5. appended' = longer
  BY <1>1, <1>4, PairAppended
<1> HIDE DEF name
<1>6. /\ Built(named, list) /\ named.encrypted = packet.encrypted
      /\ Extends(list, appended) /\ Len(list) = n + 1
      /\ list[n + 1].type = PACKET_VARIABLE_NAME
      /\ Laid(packet.data, appended, n) => Laid(named.data, list, Len(list))
  BY <1>2, <1>4, AppendBuilds
<1> HIDE DEF named, list
<1>7. Len(list) + 1 = n + 2
  BY <1>4, <1>6
<1>8. /\ Built(new, longer) /\ new.encrypted = named.encrypted
      /\ Extends(longer, list) /\ Len(longer) = n + 2
      /\ longer[n + 2].type = var.type
      /\ Laid(named.data, list, Len(list)) => Laid(new.data, longer, Len(longer))
  BY <1>3, <1>6, <1>7, AppendBuilds
<1> HIDE DEF new, longer
<1>9. Extends(longer, appended) /\ longer[n + 1].type = PACKET_VARIABLE_NAME
  BY <1>4, <1>6, <1>8 DEF Extends
<1>10. AppendedInv'
  <2>1. packet'.encrypted \in BOOLEAN /\ Built(packet', appended')
    BY <1>1, <1>5, <1>6, <1>8 DEF PacketInv, AppendedInv
  <2>2. Len(appended') \in 1 .. MaxAppends /\ appended'[Len(appended')].type # PACKET_VARIABLE_NAME
    BY <1>1, <1>3, <1>4, <1>5, <1>8
  <2>3. Len(wire') = 0 \/ ~packet'.encrypted => Laid(packet'.data, appended', Len(appended'))
    BY <1>1, <1>5, <1>6, <1>8 DEF PacketInv, AppendedInv
  <2> QED BY <2>1, <2>2, <2>3 DEF AppendedInv
<1>11. NamesInv'
  <2>1. Vector(names) /\ Len(names) = n
    BY DEF PacketInv, NamesInv
  <2>2. /\ Vector(names') /\ Len(names') = n + 2
        /\ \A v \in 1 .. n : names'[v] = names[v]
        /\ names'[n + 2] = NoName
    <3> DEFINE s == names \o <<enumeration, NoName>>
    <3>1. /\ Vector(s) /\ Len(s) = Len(names) + 2
          /\ \A k \in 1 .. Len(names) : s[k] = names[k]
          /\ s[Len(names) + 2] = NoName
      BY <2>1, PairAppended
    <3>2. names' = s
      BY <1>1
    <3> HIDE DEF s
    <3> QED BY <2>1, <3>1, <3>2
  <2>3. \A v \in 1 .. n : longer[v] = appended[v]
    BY <1>9 DEF Extends
  <2>4. \A v \in 1 .. n + 2 : names'[v] # NoName => longer[v].type = PACKET_VARIABLE_NAME
    <3>1. \A v \in 1 .. n : names[v] # NoName => appended[v].type = PACKET_VARIABLE_NAME
      BY DEF PacketInv, NamesInv
    <3> QED BY <1>4, <1>9, <2>2, <2>3, <3>1
  <2> QED BY <1>5, <1>8, <2>2, <2>4 DEF NamesInv
<1> QED BY <1>1, <1>5, <1>6, <1>8, <1>9, <1>10, <1>11, AppendingKeeps DEF PacketInv

(* Nothing appended to the base packet leaves the names. *)
LEMMA NamesKept ==
    ASSUME PacketInv, OnBasePacket, appended' = appended
    PROVE  names' = names
<1> DEFINE added == [i \in 1 .. Len(appended') - Len(appended) |-> NoName]
<1>1. Len(appended) \in Nat /\ Vector(names)
  BY VectorElements DEF PacketInv, AppendedInv, Built, NamesInv
<1>2. Len(appended') - Len(appended) = 0
  BY <1>1
<1>3. added = [i \in 1 .. 0 |-> added[i]]
  BY <1>2
<1>4. names' = names \o added
  BY DEF OnBasePacket
<1> HIDE DEF added
<1>5. Vector(added) /\ Len(added) = 0
  BY <1>3, ListedVector
<1>6. /\ Vector(names') /\ Len(names') = Len(names)
      /\ \A v \in 1 .. Len(names) : names'[v] = names[v]
  <2>1. Len(names) \in Nat
    BY <1>1, VectorElements
  <2> QED BY <1>1, <1>4, <1>5, <2>1, Concatenation
<1> QED BY <1>1, <1>6, SameVector

(* sendPacket: the datagram carries all values appended by then. *)
LEMMA SendKeeps ==
    ASSUME PacketInv, sendPacket, OnBasePacket
    PROVE  PacketInv'
<1> DEFINE n == Len(appended)
           k == Len(wire) + 1
           d == getFullPacket(packet')
<1>1. /\ Built(packet, appended) /\ n \in Nat /\ n \in 1 .. MaxAppends
      /\ Vector(packet.data) /\ Vector(packet.meta) /\ Len(packet.data) \in Nat
      /\ Len(packet.meta) = ChunkSize * n
  BY VectorElements DEF PacketInv, AppendedInv, Built
<1>2. /\ packet' = IF packet.encrypted THEN [packet EXCEPT !.data = aes_encrypt(@)] ELSE packet
      /\ wire' = Append(wire, d)
      /\ UNCHANGED <<appended, incoming, names>>
  BY NamesKept DEF sendPacket
<1> DEFINE data == IF packet.encrypted THEN aes_encrypt(packet.data) ELSE packet.data
<1>3. packet' = [encrypted |-> packet.encrypted, data |-> data, meta |-> packet.meta,
                 appendedBytes |-> packet.appendedBytes]
  <2>1. packet = [encrypted |-> packet.encrypted, data |-> packet.data, meta |-> packet.meta,
                  appendedBytes |-> packet.appendedBytes]
    BY <1>1 DEF Built
  <2>2. CASE packet.encrypted
    <3> DEFINE c == aes_encrypt(packet.data)
    <3>1. packet' = [packet EXCEPT !.data = c] /\ data = c
      BY <1>2, <2>2
    <3> HIDE DEF c, data
    <3> QED BY <2>1, <3>1
  <2>3. CASE ~packet.encrypted
    BY <1>2, <2>1, <2>3
  <2> QED BY <2>2, <2>3
<1>4. /\ packet'.encrypted = packet.encrypted /\ packet'.data = data
      /\ packet'.meta = packet.meta /\ packet'.appendedBytes = packet.appendedBytes
  <2> HIDE DEF data
  <2> QED BY <1>3
<1>5. /\ Vector(data) /\ Len(data) \in Nat
      /\ \A i \in 1 .. Len(data) : data[i].kind \in {"value", "cipher"}
  <2>1. CASE packet.encrypted
    <3> DEFINE c == aes_encrypt(packet.data)
    <3>1. /\ Vector(c) /\ Len(c) = Blocks(packet.data) * BlockLen
          /\ \A i \in 1 .. Blocks(packet.data) * BlockLen :
               c[i] = [kind |-> "cipher", of |-> Block(packet.data, BlockOf(i)), at |-> InBlock(i)]
      BY <1>1, EncryptVector
    <3>2. data = c
      BY <2>1
    <3> HIDE DEF c, data
    <3>3. Len(c) \in Nat /\ \A i \in 1 .. Len(c) : c[i].kind = "cipher"
      BY <3>1, VectorElements
    <3> QED BY <3>1, <3>2, <3>3
  <2>2. CASE ~packet.encrypted
    BY <1>1, <2>2 DEF Built
  <2> QED BY <2>1, <2>2
<1>6. Built(packet', appended)
  <2> HIDE DEF data
  <2> QED BY <1>1, <1>3, <1>4, <1>5 DEF Built
<1>7. /\ Vector(wire) /\ Len(wire) \in Nat /\ Vector(wire') /\ Len(wire') = k
      /\ \A i \in 1 .. Len(wire) : wire'[i] = wire[i]
      /\ wire'[k] = d
  BY <1>2, AppendVector, VectorElements DEF PacketInv, WireInv
<1>8. AppendedInv'
  <2>1. ~packet.encrypted => data = packet.data
    OBVIOUS
  <2>2. Len(wire') # 0
    BY <1>7
  <2> HIDE DEF data
  <2> QED BY <1>2, <1>4, <1>6, <2>1, <2>2 DEF PacketInv, AppendedInv
<1>9. Carries(d, k, packet.encrypted, appended, n)
  <2> HIDE DEF data
  <2>1. /\ d.encrypted = packet.encrypted /\ d.dataLen = Len(data)
        /\ d.metaStart = Len(data) + HeaderLen /\ d.metaLen = Len(packet.meta)
        /\ d.bytes = data \o packet.meta
    BY <1>4 DEF getFullPacket
  <2> HIDE DEF d
  <2>2. /\ Vector(d.bytes) /\ Len(d.bytes) = Len(data) + Len(packet.meta)
        /\ \A i \in 1 .. Len(data) : d.bytes[i] = data[i]
        /\ \A i \in 1 .. Len(packet.meta) : d.bytes[Len(data) + i] = packet.meta[i]
    BY <1>1, <1>5, <2>1, Concatenation
  <2>3. ASSUME NEW v \in 1 .. n, NEW j \in 1 .. ChunkSize
        PROVE  d.bytes[Len(data) + (v - 1) * ChunkSize + j].of = EntryOf(appended[v])
    <3> DEFINE i == (v - 1) * ChunkSize + j
    <3>1. i \in 1 .. Len(packet.meta) /\ Len(data) + (v - 1) * ChunkSize + j = Len(data) + i
          /\ 0 + (v - 1) * ChunkSize + j = i
      BY <1>1, <1>5 DEF ChunkSize
    <3>2. packet.meta[0 + (v - 1) * ChunkSize + j].of = EntryOf(appended[v])
      BY <1>1 DEF Built, Described
    <3> HIDE DEF i
    <3> QED BY <2>2, <3>1, <3>2
  <2>4. SubSeq(d.bytes, 1, d.dataLen) = data
    <3> DEFINE len == Len(data)
               q == SubSeq(d.bytes, 1, len)
    <3>1. Len(packet.meta) \in Nat /\ len \in Nat /\ len <= Len(d.bytes)
      BY <1>1, <1>5, <2>2, VectorElements
    <3>2. Vector(q) /\ Len(q) = len /\ \A i \in 1 .. len : q[i] = d.bytes[i]
      <4> HIDE DEF len
      <4> QED BY <2>2, <3>1, CutFirst
    <3> HIDE DEF q
    <3>3. \A i \in 1 .. Len(q) : q[i] = data[i]
      BY <1>5, <2>2, <3>2
    <3> QED BY <1>5, <2>1, <3>2, <3>3, SameVector DEF q
  <2>5. ASSUME k = 1 \/ ~packet.encrypted
        PROVE  \E p : /\ Laid(p, appended, n)
                      /\ data = IF packet.encrypted THEN aes_encrypt(p) ELSE p
    <3>1. Laid(packet.data, appended, n)
      BY <1>7, <2>5 DEF PacketInv, AppendedInv
    <3> QED BY <3>1 DEF data
  <2>6. appended[n].type # PACKET_VARIABLE_NAME
    BY DEF PacketInv, AppendedInv
  <2> QED BY <1>1, <1>5, <2>1, <2>2, <2>3, <2>4, <2>5, <2>6 DEF Carries, Described
<1>10. WireInv'
  <2> SUFFICES ASSUME NEW i \in 1 .. k
               PROVE  \E m \in 1 .. n : Carries(wire'[i], i, packet.encrypted, appended, m)
    BY <1>2, <1>4, <1>7 DEF WireInv
  <2>1. CASE i \in 1 .. Len(wire)
    BY <1>7, <2>1 DEF PacketInv, WireInv
  <2>2. CASE i = k
    BY <1>1, <1>7, <1>9, <2>2
  <2> QED BY <1>7, <2>1, <2>2
<1>11. IncomingInv'
  BY <1>2, <1>4, <1>7 DEF PacketInv, IncomingInv
<1>12. NamesInv'
  BY <1>2 DEF PacketInv, NamesInv
<1> QED BY <1>8, <1>10, <1>11, <1>12 DEF PacketInv

(* The metadata has a variable for every ChunkSize bytes. *)
LEMMA VariablesDescribed ==
    ASSUME NEW list, NEW m \in Nat, NEW meta, Vector(meta), Len(meta) = ChunkSize * m,
           Described(meta, 0, list, m)
    PROVE  /\ Vector(Variables(meta)) /\ Len(Variables(meta)) = m
           /\ \A v \in 1 .. m : Variables(meta)[v] = EntryOf(list[v])
<1> DEFINE s == Variables(meta)
<1>1. Len(meta) \div ChunkSize = m
  BY DEF ChunkSize
<1>2. s = [v \in 1 .. m |-> s[v]] /\ \A v \in 1 .. m : s[v] = meta[(v - 1) * ChunkSize + 1].of
  BY <1>1 DEF Variables
<1> HIDE DEF s
<1>3. Vector(s) /\ Len(s) = m
  BY <1>2, ListedVector
<1>4. ASSUME NEW v \in 1 .. m PROVE s[v] = EntryOf(list[v])
  <2>1. 1 \in 1 .. ChunkSize /\ 0 + (v - 1) * ChunkSize + 1 = (v - 1) * ChunkSize + 1
    BY DEF ChunkSize
  <2>2. meta[0 + (v - 1) * ChunkSize + 1].of = EntryOf(list[v])
    BY <2>1 DEF Described
  <2> QED BY <1>2, <2>1, <2>2
<1> QED BY <1>3, <1>4 DEF s

(* recvPacket takes a datagram apart the way it was put together. *)
LEMMA ParsedHolds ==
    ASSUME PacketInv, NEW k \in 1 .. Len(wire)
    PROVE  /\ Parsed(k).send = k
           /\ \E m \in 1 .. Len(appended) : Holds(Parsed(k), packet.encrypted, appended, m)
<1> DEFINE d == wire[k]
           got == Parsed(k)
           enc == packet.encrypted
<1>1. PICK m \in 1 .. Len(appended) : Carries(d, k, enc, appended, m)
  BY DEF PacketInv, WireInv
<1> DEFINE len == d.dataLen
           payload == SubSeq(d.bytes, 1, len)
           meta == SubSeq(d.bytes, len + 1, len + d.metaLen)
           data == IF enc THEN aes_decrypt(payload) ELSE payload
           variables == Variables(meta)
<1> HIDE DEF d
<1>2. /\ m \in Nat /\ d.encrypted = enc /\ len \in Nat
      /\ d.metaStart = len + HeaderLen /\ d.metaLen = ChunkSize * m /\ d.metaLen \in Nat
      /\ Vector(d.bytes) /\ Len(d.bytes) = len + d.metaLen
      /\ Described(d.bytes, len, appended, m)
  <2>1. Len(appended) \in Nat
    BY PacketAssumption DEF PacketInv, AppendedInv
  <2> QED BY <1>1, <2>1 DEF Carries, ChunkSize
<1>3. got = [send |-> k, data |-> data, variables |-> variables]
  <2>1. d.metaStart - HeaderLen = len
    BY <1>2 DEF HeaderLen
  <2> QED BY <1>2, <2>1 DEF Parsed, d
<1> HIDE DEF len, enc
<1>4. /\ Vector(meta) /\ Len(meta) = ChunkSize * m
      /\ \A i \in 1 .. ChunkSize * m : meta[i] = d.bytes[len + i]
  <2> DEFINE n == d.metaLen
             q == SubSeq(d.bytes, len + 1, len + n)
  <2>1. Vector(d.bytes) /\ len \in Nat /\ n \in Nat /\ len + n <= Len(d.bytes)
    BY <1>2
  <2> HIDE DEF n
  <2>2. Vector(q) /\ Len(q) = n /\ \A i \in 1 .. n : q[i] = d.bytes[len + i]
    BY <2>1, Cut
  <2> HIDE DEF q
  <2> QED BY <1>2, <2>2 DEF n, q
<1>5. Described(meta, 0, appended, m)
  <2> HIDE DEF meta
  <2> SUFFICES ASSUME NEW v \in 1 .. m, NEW j \in 1 .. ChunkSize
               PROVE  meta[0 + (v - 1) * ChunkSize + j].of = EntryOf(appended[v])
    BY DEF Described
  <2> DEFINE i == (v - 1) * ChunkSize + j
  <2>1. i \in 1 .. ChunkSize * m /\ 0 + (v - 1) * ChunkSize + j = i
        /\ len + (v - 1) * ChunkSize + j = len + i
    BY <1>2 DEF ChunkSize
  <2>2. d.bytes[len + (v - 1) * ChunkSize + j].of = EntryOf(appended[v])
    BY <1>2 DEF Described
  <2> HIDE DEF i
  <2> QED BY <1>4, <2>1, <2>2
<1> HIDE DEF meta
<1>6. /\ Vector(variables) /\ Len(variables) = m
      /\ \A v \in 1 .. m : variables[v] = EntryOf(appended[v])
  BY <1>2, <1>4, <1>5, VariablesDescribed
<1> HIDE DEF variables
<1>7. ASSUME k = 1 \/ ~enc
      PROVE  \E p : Laid(p, appended, m) /\ IF enc THEN Padded(data, p) ELSE data = p
  <2>1. PICK p : Laid(p, appended, m) /\ payload = IF enc THEN aes_encrypt(p) ELSE p
    BY <1>1, <1>7 DEF Carries, len
  <2> HIDE DEF payload
  <2>2. enc => Padded(aes_decrypt(payload), p)
    BY <2>1, DecryptPads DEF Laid
  <2> QED BY <2>1, <2>2
<1> HIDE DEF data
<1>8. got.send = k /\ got.data = data /\ got.variables = variables
  BY <1>3
<1> HIDE DEF got
<1>9. appended[m].type # PACKET_VARIABLE_NAME
  BY <1>1 DEF Carries
<1>10. Holds(got, enc, appended, m)
  BY <1>6, <1>7, <1>8, <1>9 DEF Holds
<1> QED BY <1>1, <1>8, <1>10 DEF got, enc

LEMMA ReceiveKeeps ==
    ASSUME PacketInv, NEW k \in DOMAIN wire, recvPacket(k), OnBasePacket
    PROVE  PacketInv'
<1>1. k \in 1 .. Len(wire)
  BY VectorElements DEF PacketInv, WireInv
<1>2. UNCHANGED <<packet, appended, wire, names>>
  BY NamesKept DEF recvPacket
<1>3. incoming' = Unspecified \/ incoming' = Parsed(k)
  BY DEF recvPacket
<1>4. IncomingInv'
  BY <1>1, <1>2, <1>3, ParsedHolds DEF IncomingInv
<1>5. AppendedInv' /\ NamesInv' /\ WireInv'
  BY <1>2 DEF PacketInv, AppendedInv, NamesInv, WireInv
<1> QED BY <1>4, <1>5 DEF PacketInv

LEMMA PacketStep ==
    ASSUME PacketInv, [ntNext]_ntVars
    PROVE  PacketInv'
<1>1. ASSUME NEW var \in Overloads, NEW enumeration \in Enumerations, appendVariable(var, enumeration)
      PROVE  PacketInv'
  BY <1>1, VariableKeeps
<1>2. CASE OnBasePacket
  <2>1. ASSUME NEW call \in Overloads, appendData(call) PROVE PacketInv'
    BY <1>2, <2>1, AppendKeeps
  <2>2. CASE sendPacket
    BY <1>2, <2>2, SendKeeps
  <2>3. ASSUME NEW k \in DOMAIN wire, recvPacket(k) PROVE PacketInv'
    BY <1>2, <2>3, ReceiveKeeps
  <2> QED BY <1>2, <2>1, <2>2, <2>3 DEF OnBasePacket, Next
<1>3. CASE UNCHANGED ntVars
  BY <1>3 DEF PacketInv, AppendedInv, NamesInv, WireInv, IncomingInv, ntVars, vars
<1> QED BY <1>1, <1>2, <1>3 DEF ntNext

(* The constructor appends the packet's enumeration to an empty packet. *)
LEMMA PacketInit == ntInit => PacketInv
<1> SUFFICES ASSUME ntInit PROVE PacketInv
  OBVIOUS
<1> DEFINE call == Enumeration(PACKET_ENUMERATOR)
<1>1. PICK encrypted \in BOOLEAN :
        LET empty == EmptyPacket(encrypted)
        IN  /\ wire = <<>> /\ incoming = Unspecified
            /\ packet = AppendedTo(empty, 1, call)
            /\ appended = << Record(empty, call) >>
            /\ names = << NoName >>
  BY DEF ntInit
<1> DEFINE empty == EmptyPacket(encrypted)
           list == <<>>
           new == AppendedTo(empty, Len(list) + 1, call)
           longer == Append(list, Record(empty, call))
<1>2. Vector(list) /\ Len(list) = 0 /\ \A S : list \in Seq(S)
  <2>1. list \in Seq({})
    OBVIOUS
  <2> QED BY <2>1 DEF Vector
<1>3. empty = [encrypted |-> encrypted, data |-> <<>>, meta |-> <<>>, appendedBytes |-> 0]
  BY DEF EmptyPacket
<1>4. Built(empty, list) /\ Laid(empty.data, list, 0) /\ empty.encrypted = encrypted
  <2>1. /\ empty.encrypted = encrypted /\ empty.data = list /\ empty.meta = list
        /\ empty.appendedBytes = 0
    BY <1>3
  <2>2. empty = [encrypted |-> empty.encrypted, data |-> empty.data, meta |-> empty.meta,
                 appendedBytes |-> empty.appendedBytes]
    BY <1>3, <2>1
  <2> HIDE DEF empty, list
  <2>3. Built(empty, list)
    BY <1>2, <2>1, <2>2 DEF Built, Described, EndOf, ChunkSize
  <2> QED BY <1>2, <2>1, <2>3 DEF Laid, EndOf
<1>5. packet = new /\ appended = longer /\ names = << NoName >> /\ wire = <<>>
      /\ incoming = Unspecified
  BY <1>1
<1> HIDE DEF empty, list
<1>6. /\ Built(new, longer) /\ new.encrypted = empty.encrypted /\ Len(longer) = 1
      /\ longer[1].type = call.type
      /\ Laid(new.data, longer, Len(longer))
  <2>1. Sized(call)
    BY EnumerationsSized
  <2> HIDE DEF call
  <2>2. /\ Built(new, longer) /\ new.encrypted = empty.encrypted /\ Len(longer) = Len(list) + 1
        /\ longer[Len(list) + 1].type = call.type
        /\ Laid(empty.data, list, Len(list)) => Laid(new.data, longer, Len(longer))
    BY <1>4, <2>1, AppendBuilds
  <2> HIDE DEF new, longer
  <2> QED BY <1>2, <1>4, <2>2
<1> HIDE DEF new, longer
<1>7. AppendedInv
  <2>1. 1 \in 1 .. MaxAppends
    BY PacketAssumption
  <2> QED BY <1>4, <1>5, <1>6, <2>1, EnumerationsSized DEF AppendedInv
<1>8. NamesInv
  <2>1. names \in Seq({NoName}) /\ Len(names) = 1 /\ names[1] = NoName
    BY <1>5
  <2>2. Vector(names)
    BY <2>1 DEF Vector
  <2>3. Len(appended) = 1 /\ \A v \in 1 .. 1 : names[v] = NoName
    BY <1>5, <1>6, <2>1
  <2> QED BY <2>1, <2>2, <2>3 DEF NamesInv
<1>9. WireInv /\ IncomingInv
  <2>1. wire \in Seq({}) /\ Len(wire) = 0
    BY <1>5
  <2> QED BY <1>5, <2>1 DEF WireInv, IncomingInv, Vector
<1> QED BY <1>7, <1>8, <1>9 DEF PacketInv

LEMMA PacketInvariant == ntSpec => []PacketInv
BY PacketInit, PacketStep, PTL DEF ntSpec

-----------------------------------------------------------------------------
(* What the invariant says of a received packet. *)
Received(m) ==
    /\ m \in 1 .. Len(appended) /\ m \in Nat \ {0}
    /\ appended[m].type # PACKET_VARIABLE_NAME
    /\ Vector(incoming.variables) /\ Len(incoming.variables) = m
    /\ DOMAIN incoming.variables = 1 .. m
    /\ \A v \in 1 .. m :
        /\ Sized(appended[v]) /\ appended[v].index \in Nat
        /\ incoming.variables[v] = EntryOf(appended[v])
        /\ incoming.variables[v].startIndex = appended[v].index
        /\ incoming.variables[v].variableSize = appended[v].size
        /\ incoming.variables[v].variableType = appended[v].type

LEMMA IncomingCases ==
    ASSUME PacketInv
    PROVE  \/ incoming = Unspecified
           \/ /\ incoming.send \in 1 .. Len(wire)
              /\ \E m : Received(m) /\ Holds(incoming, packet.encrypted, appended, m)
<1> SUFFICES ASSUME incoming # Unspecified
             PROVE  /\ incoming.send \in 1 .. Len(wire)
                    /\ \E m : Received(m) /\ Holds(incoming, packet.encrypted, appended, m)
  OBVIOUS
<1>1. incoming.send \in 1 .. Len(wire)
  BY DEF PacketInv, IncomingInv
<1>2. PICK m \in 1 .. Len(appended) : Holds(incoming, packet.encrypted, appended, m)
  BY DEF PacketInv, IncomingInv
<1>3. Len(appended) \in Nat /\ \A v \in 1 .. Len(appended) : Sized(appended[v]) /\ appended[v].index \in Nat
  BY PacketAssumption DEF PacketInv, AppendedInv, Built
<1>4. m \in Nat \ {0} /\ \A v \in 1 .. m : v \in 1 .. Len(appended)
  BY <1>3
<1>5. /\ appended[m].type # PACKET_VARIABLE_NAME
      /\ Vector(incoming.variables) /\ Len(incoming.variables) = m
      /\ \A v \in 1 .. m : incoming.variables[v] = EntryOf(appended[v])
  BY <1>2 DEF Holds
<1>6. DOMAIN incoming.variables = 1 .. m
  BY <1>5, VectorElements
<1>7. \A r : /\ EntryOf(r).startIndex = r.index /\ EntryOf(r).variableSize = r.size
             /\ EntryOf(r).variableType = r.type
  BY DEF EntryOf
<1>8. Received(m)
  BY <1>3, <1>4, <1>5, <1>6, <1>7 DEF Received
<1> QED BY <1>1, <1>2, <1>8

(* Every value of a packet that went through the cipher at most once is where
   its variable says, and only padding follows the last. *)
LEMMA ReceivedReads ==
    ASSUME PacketInv, OneCipher, NEW m, Received(m), Holds(incoming, packet.encrypted, appended, m)
    PROVE  /\ \A v \in 1 .. m : ReadsBack(incoming.data, appended[v].index, v, appended[v].size)
           /\ Vector(incoming.data) /\ Len(incoming.data) \in Nat
           /\ Len(incoming.data) < EndOf(appended, m) + (IF packet.encrypted THEN BlockLen ELSE 1)
           /\ \A i \in EndOf(appended, m) + 1 .. Len(incoming.data) : incoming.data[i] = Zero
<1> DEFINE data == incoming.data
<1>1. PICK p : /\ Laid(p, appended, m)
               /\ IF packet.encrypted THEN Padded(data, p) ELSE data = p
  BY DEF Holds, OneCipher
<1> HIDE DEF data
<1>2. Vector(p) /\ Len(p) = EndOf(appended, m) /\ Len(p) \in Nat
  BY <1>1, VectorElements DEF Laid
<1>3. /\ Vector(data) /\ Len(p) <= Len(data)
      /\ Len(data) < Len(p) + (IF packet.encrypted THEN BlockLen ELSE 1)
      /\ \A k \in 1 .. Len(p) : data[k] = p[k]
      /\ \A k \in Len(p) + 1 .. Len(data) : data[k] = Zero
  <2>1. CASE packet.encrypted
    BY <1>1, <2>1 DEF Padded
  <2>2. CASE ~packet.encrypted
    <3>1. data = p
      BY <1>1, <2>2
    <3> QED BY <1>2, <2>2, <3>1
  <2> QED BY <2>1, <2>2
<1>4. Len(data) \in Nat
  BY <1>3, VectorElements
<1>5. ASSUME NEW v \in 1 .. m PROVE ReadsBack(data, appended[v].index, v, appended[v].size)
  <2>1. ReadsBack(p, appended[v].index, v, appended[v].size)
    BY <1>1 DEF Laid
  <2>2. appended[v].index \in Nat /\ appended[v].size \in Nat
    BY DEF Received, Sized
  <2> QED BY <1>2, <1>3, <1>4, <2>1, <2>2, ReadsBackLonger
<1> QED BY <1>2, <1>3, <1>4, <1>5 DEF data

LEMMA TypedVector ==
    ASSUME NEW S, NEW s, Vector(s), \A k \in 1 .. Len(s) : s[k] \in S
    PROVE  s \in Seq(S)
<1>1. Len(s) \in Nat /\ s = [k \in 1 .. Len(s) |-> s[k]]
  BY VectorElements
<1> QED BY <1>1

LEMMA PacketTyped ==
    ASSUME PacketInv
    PROVE  TypeOK
<1>1. Built(packet, appended) /\ packet.encrypted \in BOOLEAN /\ Len(appended) <= MaxAppends
  BY PacketAssumption DEF PacketInv, AppendedInv
<1>2. DOMAIN packet.data = 1 .. Len(packet.data) /\ DOMAIN packet.meta = 1 .. Len(packet.meta)
  BY <1>1, VectorElements DEF Built
<1>3. Len(wire) \in Nat
  BY VectorElements DEF PacketInv, WireInv
<1>4. incoming.send \in 0 .. Len(wire) /\ incoming.variables \in Seq(Entry)
  <2>1. CASE incoming = Unspecified
    BY <1>3, <2>1 DEF Unspecified
  <2>2. CASE incoming # Unspecified
    <3>1. PICK m : incoming.send \in 1 .. Len(wire) /\ Received(m)
      BY <2>2, IncomingCases
    <3>2. \A v \in 1 .. m : EntryOf(appended[v]) \in Entry
      BY <3>1 DEF Received, Sized, EntryOf, Entry
    <3>3. incoming.variables \in Seq(Entry)
      BY <3>1, <3>2, TypedVector DEF Received
    <3> QED BY <1>3, <3>1, <3>3
  <2> QED BY <2>1, <2>2
<1> QED BY <1>1, <1>2, <1>4 DEF TypeOK, Built

LEMMA PacketReadsBack ==
    ASSUME PacketInv
    PROVE  VariablesReadBack
<1> SUFFICES ASSUME OneCipher, NEW v \in DOMAIN incoming.variables
             PROVE  /\ incoming.variables[v].startIndex = appended[v].index
                    /\ ReadsBack(incoming.data, incoming.variables[v].startIndex, v,
                                 incoming.variables[v].variableSize)
  BY DEF VariablesReadBack
<1>1. incoming # Unspecified
  BY DEF Unspecified
<1>2. PICK m : Received(m) /\ Holds(incoming, packet.encrypted, appended, m)
  BY <1>1, IncomingCases
<1>3. /\ v \in 1 .. m /\ incoming.variables[v].startIndex = appended[v].index
      /\ incoming.variables[v].variableSize = appended[v].size
  BY <1>2 DEF Received
<1>4. ReadsBack(incoming.data, appended[v].index, v, appended[v].size)
  BY <1>2, <1>3, ReceivedReads
<1> QED BY <1>3, <1>4

LEMMA PacketPadding ==
    ASSUME PacketInv
    PROVE  OnlyPadding
<1> DEFINE n == Len(incoming.variables)
           end == IF n = 0 THEN 0
                  ELSE incoming.variables[n].startIndex + incoming.variables[n].variableSize
<1> SUFFICES ASSUME OneCipher, incoming.send # 0
             PROVE  /\ Len(incoming.data) < end + (IF packet.encrypted THEN BlockLen ELSE 1)
                    /\ \A i \in end + 1 .. Len(incoming.data) : incoming.data[i] = Zero
  BY DEF OnlyPadding
<1>1. incoming # Unspecified
  BY DEF Unspecified
<1>2. PICK m : Received(m) /\ Holds(incoming, packet.encrypted, appended, m)
  BY <1>1, IncomingCases
<1>3. n = m /\ m # 0 /\ end = EndOf(appended, m)
  BY <1>2 DEF Received, EndOf
<1> HIDE DEF n, end
<1> QED BY <1>2, <1>3, ReceivedReads

-----------------------------------------------------------------------------
(* The getters of the wrapper. *)

(* The least of one set is that of another one whose elements are one more. *)
LEMMA LeastOfNext ==
    ASSUME NEW found, NEW under, under \subseteq Nat, under # {},
           \A i \in found : i \in Nat /\ i + 1 \in under, \A v \in under : v - 1 \in found
    PROVE  LET first == CHOOSE i \in found : \A j \in found : i <= j
               v == CHOOSE i \in under : \A j \in under : i <= j
           IN  v \in under /\ first + 1 = v
<1> DEFINE first == CHOOSE i \in found : \A j \in found : i <= j
           v == CHOOSE i \in under : \A j \in under : i <= j
<1>1. v \in under /\ \A j \in under : v <= j
  BY LeastExists
<1> HIDE DEF v
<1>2. v - 1 \in found /\ \A j \in found : v - 1 <= j
  BY <1>1
<1>3. first \in found /\ \A j \in found : first <= j
  BY <1>2
<1> HIDE DEF first
<1>4. first \in Nat /\ v \in Nat /\ first <= v - 1 /\ v - 1 <= first
  BY <1>1, <1>2, <1>3
<1>5. first + 1 = v
  BY <1>4
<1> QED BY <1>1, <1>5 DEF first, v

(* Cutting a value out of the data gives its bytes. *)
LEMMA CutReads ==
    ASSUME NEW data, Vector(data), NEW index \in Nat, NEW n \in Nat, NEW v,
           ReadsBack(data, index, v, n)
    PROVE  SubSeq(data, index + 1, index + n) = Bytes("value", v, n)
<1> DEFINE s == SubSeq(data, index + 1, index + n)
           t == Bytes("value", v, n)
<1>1. /\ Vector(t) /\ Len(t) = n
      /\ \A k \in 1 .. n : t[k] = [kind |-> "value", of |-> v, at |-> k]
  BY BytesVector
<1>2. \A k \in 1 .. n : data[index + k] = t[k]
  BY <1>1 DEF ReadsBack
<1>3. CASE n = 0
  <2>1. PICK S : data \in Seq(S)
    BY DEF Vector
  <2>2. s = <<>>
    BY <1>3, <2>1
  <2>3. t = <<>>
    BY <1>3 DEF Bytes
  <2> QED BY <2>2, <2>3
<1>4. CASE n # 0
  <2>1. Len(data) \in Nat
    BY VectorElements
  <2>2. n \in 1 .. n
    BY <1>4
  <2>3. index + n <= Len(data)
    BY <2>2 DEF ReadsBack
  <2>4. Vector(s) /\ Len(s) = n /\ \A k \in 1 .. n : s[k] = data[index + k]
    BY <2>1, <2>3, Cut
  <2> HIDE DEF s, t
  <2>5. \A k \in 1 .. Len(s) : s[k] = t[k]
    BY <1>2, <2>4
  <2>6. s = t
    BY <1>1, <2>4, <2>5, SameVector
  <2> QED BY <2>6 DEF s, t
<1> QED BY <1>3, <1>4

(* The enumeration of a variable is read from where its bytes are. *)
LEMMA NamesAreRead ==
    ASSUME PacketInv, OneCipher, NEW m, Received(m), Holds(incoming, packet.encrypted, appended, m),
           NEW i \in 1 .. m, appended[i].type = PACKET_VARIABLE_NAME
    PROVE  NameAt(incoming.variables[i].startIndex) = names[i]
<1>1. /\ ReadsBack(incoming.data, appended[i].index, i, 2)
      /\ incoming.variables[i].startIndex = appended[i].index
  <2>1. ReadsBack(incoming.data, appended[i].index, i, appended[i].size)
    BY ReceivedReads
  <2>2. appended[i].size = 2
    BY DEF Received, Sized
  <2> QED BY <2>1, <2>2 DEF Received
<1>2. 1 \in 1 .. 2
  OBVIOUS
<1>3. incoming.data[appended[i].index + 1].of = i
  BY <1>1, <1>2 DEF ReadsBack
<1> QED BY <1>1, <1>3 DEF NameAt

LEMMA NoNameIsNone ==
    ASSUME NEW enumeration \in Enumerations
    PROVE  enumeration # NoName
BY EnumerationAssumption DEF NoName

(* The getters pair the same variables as the sender did. *)
LEMMA FoundAreAppended ==
    ASSUME PacketInv, OneCipher, NEW m, Received(m), Holds(incoming, packet.encrypted, appended, m),
           NEW type, NEW enumeration \in Enumerations
    PROVE  /\ AppendedUnder(type, enumeration) \subseteq 2 .. m
           /\ \A i \in Found(type, enumeration) :
                  i \in Nat /\ i + 1 \in AppendedUnder(type, enumeration)
           /\ \A v \in AppendedUnder(type, enumeration) : v - 1 \in Found(type, enumeration)
<1> DEFINE under == AppendedUnder(type, enumeration)
           found == Found(type, enumeration)
<1>1. m \in Nat \ {0} /\ Len(incoming.variables) = m /\ DOMAIN incoming.variables = 1 .. m
  BY DEF Received
<1>2. ASSUME NEW i \in 1 .. m
      PROVE  /\ incoming.variables[i].variableType = appended[i].type
             /\ appended[i].type = PACKET_VARIABLE_NAME =>
                    NameAt(incoming.variables[i].startIndex) = names[i]
  BY NamesAreRead DEF Received
<1>3. \A v : v \in under <=> v \in 2 .. m /\ names[v - 1] = enumeration /\ appended[v].type = type
  BY <1>1 DEF AppendedUnder
<1>4. \A i : i \in found <=> /\ i \in 1 .. m
                             /\ incoming.variables[i].variableType = PACKET_VARIABLE_NAME
                             /\ NameAt(incoming.variables[i].startIndex) = enumeration
                             /\ incoming.variables[i + 1].variableType = type
  BY <1>1 DEF Found
<1> HIDE DEF under, found
<1>5. ASSUME NEW i \in found PROVE i \in Nat /\ i + 1 \in under
  <2>1. i \in 1 .. m /\ appended[i].type = PACKET_VARIABLE_NAME /\ names[i] = enumeration
    BY <1>2, <1>4
  <2>2. i # m
    BY <2>1 DEF Received
  <2>3. i \in Nat /\ i + 1 \in 2 .. m /\ i + 1 \in 1 .. m /\ (i + 1) - 1 = i
    BY <1>1, <2>1, <2>2
  <2>4. appended[i + 1].type = type
    BY <1>2, <1>4, <2>3
  <2> QED BY <1>3, <2>1, <2>3, <2>4
<1>6. ASSUME NEW v \in under PROVE v - 1 \in found
  <2>1. v \in 2 .. m /\ names[v - 1] = enumeration /\ appended[v].type = type
    BY <1>3
  <2>2. v - 1 \in 1 .. m /\ (v - 1) + 1 = v /\ v \in 1 .. m
    BY <1>1, <2>1
  <2>3. enumeration # NoName
    BY NoNameIsNone
  <2>4. v - 1 \in 1 .. Len(appended)
    BY <2>2, VectorElements DEF Received, PacketInv, AppendedInv, Built
  <2>5. appended[v - 1].type = PACKET_VARIABLE_NAME
    BY <2>1, <2>3, <2>4 DEF PacketInv, NamesInv
  <2> QED BY <1>2, <1>4, <2>1, <2>2, <2>5
<1>7. under \subseteq 2 .. m
  BY <1>3
<1> QED BY <1>5, <1>6, <1>7 DEF under, found

LEMMA GettersFind ==
    ASSUME PacketInv
    PROVE  GettersFindTheFirst
<1> SUFFICES ASSUME OneCipher, NEW type \in 1 .. 7, NEW enumeration \in Enumerations
             PROVE  LET under == AppendedUnder(type, enumeration)
                        v == CHOOSE i \in under : \A j \in under : i <= j
                    IN  getByEnumeration(type, enumeration) =
                            IF under = {} THEN NotFound ELSE Bytes("value", v, appended[v].len)
  BY DEF GettersFindTheFirst
<1> DEFINE under == AppendedUnder(type, enumeration)
           found == Found(type, enumeration)
           v == CHOOSE i \in under : \A j \in under : i <= j
           first == CHOOSE i \in found : \A j \in found : i <= j
<1>1. CASE incoming = Unspecified
  <2>1. incoming.variables = <<>>
    BY <1>1 DEF Unspecified
  <2>2. under = {} /\ found = {}
    BY <2>1 DEF AppendedUnder, Found
  <2> QED BY <2>2 DEF getByEnumeration
<1>2. CASE incoming # Unspecified
  <2>1. PICK m : Received(m) /\ Holds(incoming, packet.encrypted, appended, m)
    BY <1>2, IncomingCases
  <2>2. /\ under \subseteq 2 .. m
        /\ \A i \in found : i \in Nat /\ i + 1 \in under
        /\ \A k \in under : k - 1 \in found
    BY <2>1, FoundAreAppended
  <2>3. CASE under = {}
    <3>1. found = {}
      BY <2>2, <2>3
    <3> QED BY <2>3, <3>1 DEF getByEnumeration
  <2>4. CASE under # {}
    <3>1. under \subseteq Nat /\ found # {}
      BY <2>1, <2>2, <2>4 DEF Received
    <3>2. appended[v].type = type
      <4>1. v \in under
        BY <3>1, <2>4, LeastExists
      <4> HIDE DEF v
      <4> QED BY <4>1 DEF AppendedUnder
    <3> HIDE DEF under, found
    <3>3. v \in under /\ first + 1 = v
      BY <2>2, <2>4, <3>1, LeastOfNext
    <3> HIDE DEF v, first
    <3>4. v \in 1 .. m
      BY <2>1, <2>2, <3>3 DEF Received
    <3>5. /\ Sized(appended[v]) /\ appended[v].index \in Nat
          /\ incoming.variables[v].startIndex = appended[v].index
          /\ incoming.variables[v].variableSize = appended[v].size
      BY <2>1, <3>4 DEF Received
    <3>6. /\ appended[v].len \in Nat /\ appended[v].size = appended[v].len
          /\ BytesRead(type, appended[v].size) = appended[v].len
      BY <3>2, <3>5 DEF Sized
    <3>10. type # PACKET_DOUBLE
      BY <3>2, <3>5 DEF Sized
    <3>7. /\ ReadsBack(incoming.data, appended[v].index, v, appended[v].len)
          /\ Vector(incoming.data)
      BY <2>1, <3>4, <3>6, ReceivedReads
    <3>8. SubSeq(incoming.data, appended[v].index + 1, appended[v].index + appended[v].len)
              = Bytes("value", v, appended[v].len)
      <4>1. appended[v].index \in Nat /\ appended[v].len \in Nat
        BY <3>5, <3>6
      <4> QED BY <3>7, <4>1, CutReads
    <3>9. getByEnumeration(type, enumeration)
              = SubSeq(incoming.data, incoming.variables[v].startIndex + 1,
                       incoming.variables[v].startIndex
                           + BytesRead(type, incoming.variables[v].variableSize))
      BY <3>1, <3>3, <3>10 DEF getByEnumeration, found, first
    <3> QED BY <2>4, <3>5, <3>6, <3>8, <3>9 DEF under, v
  <2> QED BY <2>3, <2>4
<1> QED BY <1>1, <1>2

-----------------------------------------------------------------------------
(* The theorems: for all string lengths, enumerations, block lengths and
   bounds. *)

(* The type invariant: every byte of metadata is of an entry, one entry for
   each call of appendData. *)
THEOREM TypeCorrect == ntSpec => []TypeOK
BY PacketInvariant, PacketTyped, PTL

(* Whatever was appended through appendVariable and appendData, encrypted or
   not, recvPacket's variables point to the bytes that appendData took. *)
THEOREM VariablesAlwaysReadBack == ntSpec => []VariablesReadBack
BY PacketInvariant, PacketReadsBack, PTL

(* Only the zeros of an encrypted packet's last block follow the last value. *)
THEOREM PaddingOnly == ntSpec => []OnlyPadding
BY PacketInvariant, PacketPadding, PTL

(* get...ByEnumeration returns all bytes of the first variable that was
   appended under the enumeration with the getter's type, or nothing. *)
THEOREM GettersAlwaysFindTheFirst == ntSpec => []GettersFindTheFirst
BY PacketInvariant, GettersFind, PTL
=============================================================================
