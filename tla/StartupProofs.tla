----------------------------- MODULE StartupProofs -----------------------------
(***************************************************************************)
(* Startup for every set of tests, STUN outputs, peers and adapters: its   *)
(* type invariant and its safety invariants.                               *)
(***************************************************************************)
EXTENDS Startup, SelfTestProofs, FiniteSetTheorems

USE DEF Kinds

-----------------------------------------------------------------------------
(* getPublicIPAddress. *)

(* The least element, where one is known. *)
LEMMA MinIs ==
    ASSUME NEW S \in SUBSET Int, NEW k \in S, \A j \in S : k <= j
    PROVE  Min(S) = k
<1> DEFINE Least(x) == x \in S /\ \A y \in S : x <= y
<1>1. Min(S) = CHOOSE x : Least(x)
  BY DEF Min
<1>2. Least(k)
  OBVIOUS
<1>3. ASSUME NEW x, Least(x) PROVE x = k
  <2>1. x \in Int /\ k \in Int /\ x <= k /\ k <= x
    BY <1>3
  <2> QED BY <2>1
<1> HIDE DEF Least
<1> QED BY <1>1, <1>2, <1>3

(* The greatest element, where one is known. *)
LEMMA MaxIs ==
    ASSUME NEW S \in SUBSET Int, NEW k \in S, \A j \in S : j <= k
    PROVE  Max(S) = k
<1> DEFINE Greatest(x) == x \in S /\ \A y \in S : x >= y
<1>1. Max(S) = CHOOSE x : Greatest(x)
  BY DEF Max
<1>2. Greatest(k)
  OBVIOUS
<1>3. ASSUME NEW x, Greatest(x) PROVE x = k
  <2>1. x \in Int /\ k \in Int /\ x >= k /\ k >= x
    BY <1>3
  <2> QED BY <2>1
<1> HIDE DEF Greatest
<1> QED BY <1>1, <1>2, <1>3

(* A text with a mapped address is read: the four numbers in front of the colon
   are found, each behind its dot. *)
LEMMA MappedAddressRead ==
    ASSUME NEW text \in Seq(STRING), HasMappedAddress(text)
    PROVE  getPublicIPAddress(text) = {"read"}
<1> DEFINE Ip(m, c) == SubSeq(text, m + 1, c - 1)
           Dots(i) == {k \in DOMAIN i : i[k] = "."}
<1> DEFINE Marks(m, c) ==
          /\ text[m] = "M" /\ \A k \in 1 .. m - 1 : text[k] # "M"
          /\ text[c] = ":"
          /\ \A k \in DOMAIN Ip(m, c) \ Dots(Ip(m, c)) : Ip(m, c)[k] \in Digit
          /\ Cardinality(Dots(Ip(m, c))) = 3
          /\ \A k \in {0} \cup Dots(Ip(m, c)) :
                k + 1 \in DOMAIN Ip(m, c) \ Dots(Ip(m, c))
                  /\ Number(DigitsAfter(Ip(m, c), k)) <= StoiMax
<1>0. PICK m \in DOMAIN text : \E c \in m + 1 .. Len(text) : Marks(m, c)
  BY DEF HasMappedAddress
<1>1. PICK c \in m + 1 .. Len(text) : Marks(m, c)
  BY <1>0
<1> DEFINE ip == Ip(m, c)
           dots == Dots(ip)
           colons == {k \in m + 1 .. Len(text) : text[k] = ":"}
<1>2. m \in 1 .. Len(text) /\ Len(text) \in Nat /\ c \in Nat
  OBVIOUS
<1>3. AddressStarts(text) = {m + 1}
  <2>1. Min({k \in DOMAIN text : text[k] = "M"}) = m
    <3> DEFINE markers == {k \in DOMAIN text : text[k] = "M"}
    <3>1. m \in markers /\ markers \in SUBSET Int
      BY <1>1
    <3>2. \A j \in markers : m <= j
      BY <1>1
    <3> HIDE DEF markers
    <3> QED BY <3>1, <3>2, MinIs DEF markers
  <2>2. \E k \in DOMAIN text : text[k] = "M"
    BY <1>1
  <2> QED BY <2>1, <2>2 DEF AddressStarts
<1>4. Len(ip) = c - 1 - m /\ DOMAIN ip = 1 .. c - 1 - m
      /\ \A k \in 1 .. c - 1 - m : ip[k] = text[m + k]
  BY <1>2
<1>5. \A k \in m + 1 .. c - 1 : text[k] # ":"
  <2> SUFFICES ASSUME NEW k \in m + 1 .. c - 1, text[k] = ":" PROVE FALSE
    OBVIOUS
  <2>1. k - m \in DOMAIN ip /\ ip[k - m] = ":"
    BY <1>2, <1>4
  <2>2. k - m \in dots \/ ip[k - m] \in Digit
    BY <1>1, <2>1
  <2> QED BY <2>1, <2>2, StunAssumption
<1>6. Min(colons \cup {Len(text) + 1}) = c
  <2> DEFINE S == colons \cup {Len(text) + 1}
  <2>1. S \in SUBSET Int /\ c \in S
    BY <1>1, <1>2
  <2>2. \A j \in S : c <= j
    BY <1>1, <1>2, <1>5
  <2> HIDE DEF S
  <2>3. Min(S) = c
    BY <2>1, <2>2, MinIs
  <2> QED BY <2>3 DEF S
<1>7. dots \subseteq 1 .. Len(ip) /\ Cardinality(dots) = 3 /\ IsFiniteSet(dots)
  <2>1. dots \subseteq 1 .. Len(ip) /\ Cardinality(dots) = 3
    BY <1>1, <1>4
  <2>2. Len(ip) \in Int /\ 1 \in Int
    BY <1>2, <1>4
  <2> HIDE DEF ip, dots
  <2>3. IsFiniteSet(1 .. Len(ip))
    BY <2>2, FS_Interval
  <2> QED BY <2>1, <2>3, FS_Subset
<1>8. ~ \E k \in DOMAIN ip \ dots : Cardinality({d \in dots : d < k}) > 3
  <2> SUFFICES ASSUME NEW k \in DOMAIN ip PROVE ~(Cardinality({d \in dots : d < k}) > 3)
    OBVIOUS
  <2> DEFINE before == {d \in dots : d < k}
  <2>1. before \subseteq dots
    OBVIOUS
  <2> HIDE DEF before, dots
  <2>2. Cardinality(before) <= 3 /\ Cardinality(before) \in Nat
    BY <1>7, <2>1, FS_Subset, FS_CardinalityType
  <2> QED BY <2>2 DEF before
<1>9. ASSUME NEW d \in {0} \cup dots PROVE StartsNumber(ip, d + 1)
  <2>1. d + 1 \in DOMAIN ip /\ ip[d + 1] \in Digit /\ Number(DigitsAfter(ip, d)) <= StoiMax
    BY <1>1
  <2> HIDE DEF ip, dots
  <2>2. d \in Nat /\ d + 1 \in d + 1 .. Len(ip) /\ d + 1 .. (d + 1) - 1 = {} /\ (d + 1) - 1 = d
    BY <1>4, <1>7, <2>1, <1>2
  <2>3. StoiMax + (IF d + 1 > d + 1 /\ ip[d] = "-" THEN 1 ELSE 0) = StoiMax
    BY <2>2, StunAssumption
  <2> QED BY <2>1, <2>2, <2>3 DEF StartsNumber
<1>10. PublicIPAddress(text, m + 1) = "read"
  <2>1. PublicIPAddress(text, m + 1) =
          (IF \E k \in DOMAIN ip \ dots : Cardinality({d \in dots : d < k}) > 3 THEN "undefined"
           ELSE IF /\ Cardinality(dots) >= 3
                   /\ \A d \in {0} \cup dots :
                       Cardinality({e \in dots : e < d}) <= 2 => StartsNumber(ip, d + 1)
           THEN "read" ELSE "threw")
    BY <1>6 DEF PublicIPAddress
  <2> HIDE DEF ip, dots
  <2> QED BY <1>7, <1>8, <1>9, <2>1
<1> QED BY <1>3, <1>10 DEF getPublicIPAddress

-----------------------------------------------------------------------------
(* getPortTranslation. *)

(* remove and erase leave a text. *)
LEMMA WithoutSpacesText ==
    ASSUME NEW text \in Seq(STRING)
    PROVE  WithoutSpaces(text) \in Seq(STRING)
<1> DEFINE n == Len(text)
           base == <<>>
           Kept(s, k) == IF text[k] = Space THEN s ELSE Append(s, text[k])
           step == [x \in Nat \X Seq(STRING) |-> IF x[1] \in 1 .. n THEN Kept(x[2], x[1]) ELSE x[2]]
           IsLoop(f) == f = [k \in 0 .. n |-> IF k = 0 THEN base
                                             ELSE IF text[k] = Space THEN f[k - 1]
                                             ELSE Append(f[k - 1], text[k])]
           loop == CHOOSE f : IsLoop(f)
<1>1. n \in Nat /\ base \in Seq(STRING)
  OBVIOUS
<1>2. \A k \in 1 .. n, s \in Seq(STRING) : Kept(s, k) \in Seq(STRING)
  <2> SUFFICES ASSUME NEW k \in 1 .. n, NEW s \in Seq(STRING)
               PROVE  Kept(s, k) \in Seq(STRING)
    OBVIOUS
  <2>1. text[k] \in STRING
    BY ElementType
  <2>2. Append(s, text[k]) \in Seq(STRING)
    BY <2>1
  <2> QED BY <2>2
<1>3. step \in [Nat \X Seq(STRING) -> Seq(STRING)]
  <2> HIDE DEF Kept, n
  <2> QED BY <1>2
<1>4. \E f : IsLoop(f)
  <2>1. PICK f \in [0 .. n -> Seq(STRING)] :
            f[0] = base /\ \A i \in 1 .. n : f[i] = step[<<i, f[i - 1]>>]
    <3> HIDE DEF n, base, step
    <3>1. Iterations(Seq(STRING), base, step, n) # {}
      BY <1>1, <1>3, Iterates
    <3> QED BY <3>1 DEF Iterations
  <2>2. ASSUME NEW k \in 0 .. n
        PROVE  f[k] = IF k = 0 THEN base ELSE Kept(f[k - 1], k)
    <3>1. CASE k = 0
      BY <2>1, <3>1
    <3>2. CASE k # 0
      <4>1. k \in 1 .. n /\ k \in Nat /\ k - 1 \in 0 .. n
        BY <1>1, <3>2
      <4>2. f[k - 1] \in Seq(STRING) /\ f[k] = step[<<k, f[k - 1]>>]
        BY <2>1, <4>1
      <4> HIDE DEF Kept, n, base
      <4> QED BY <3>2, <4>1, <4>2
    <3> QED BY <3>1, <3>2
  <2>3. ASSUME NEW k \in 0 .. n
        PROVE  f[k] = IF k = 0 THEN base
                      ELSE IF text[k] = Space THEN f[k - 1] ELSE Append(f[k - 1], text[k])
    BY <2>2
  <2> HIDE DEF base, n
  <2>4. f = [k \in 0 .. n |-> IF k = 0 THEN base
                             ELSE IF text[k] = Space THEN f[k - 1] ELSE Append(f[k - 1], text[k])]
    BY <2>1, <2>3
  <2> QED BY <2>4
<1>5. IsLoop(loop)
  <2> HIDE DEF IsLoop
  <2> QED BY <1>4, Zenon
<1>6. WithoutSpaces(text) = loop[n]
  BY DEF WithoutSpaces
<1> HIDE DEF loop
<1> DEFINE Good == {k \in Nat : k <= n => loop[k] \in Seq(STRING)}
<1>7. 0 \in Good
  BY <1>1, <1>5
<1>8. ASSUME NEW k \in Nat, k \in Good PROVE k + 1 \in Good
  <2> SUFFICES ASSUME k + 1 <= n PROVE loop[k + 1] \in Seq(STRING)
    OBVIOUS
  <2>1. k + 1 \in 1 .. n /\ (k + 1) - 1 = k /\ k + 1 # 0 /\ k + 1 \in 0 .. n
    BY <1>1
  <2>2. loop[k + 1] = Kept(loop[k], k + 1)
    BY <1>5, <2>1
  <2>3. loop[k] \in Seq(STRING)
    BY <1>1, <1>8, <2>1
  <2> HIDE DEF Kept, n
  <2> QED BY <1>2, <2>1, <2>2, <2>3
<1>9. n \in Good
  <2> HIDE DEF Good, n
  <2> QED BY <1>1, <1>7, <1>8, Induction
<1> QED BY <1>1, <1>6, <1>9

(* What getPortTranslation's loop leaves: the ports read so far. *)
Scans(text) ==
    [found : BOOLEAN, finds : Nat, Ports : [1 .. Len(text) -> Seq(STRING)]]
ScanStart(text) == [found |-> FALSE, finds |-> 0, Ports |-> [f \in 1 .. Len(text) |-> <<>>]]

(* One iteration, field by field. *)
LEMMA ScanEffect ==
    ASSUME NEW text \in Seq(STRING), NEW k \in 2 .. Len(text) - 1, NEW s \in Scans(text)
    PROVE  LET t == ScanCharacter(text, s, k)
           IN  /\ t \in Scans(text)
               /\ t.found = ((IsSeparator(text, k) \/ s.found) /\ text[k + 1] # Newline)
               /\ t.finds = s.finds + (IF IsSeparator(text, k) THEN 1 ELSE 0)
               /\ \A f \in 1 .. Len(text) :
                      t.Ports[f] = IF t.found /\ f = t.finds THEN Append(s.Ports[f], text[k + 1])
                                   ELSE s.Ports[f]
<1> DEFINE found == (IsSeparator(text, k) \/ s.found) /\ text[k + 1] # Newline
           finds == s.finds + (IF IsSeparator(text, k) THEN 1 ELSE 0)
           n == Len(text)
           ch == text[k + 1]
           Ports == s.Ports
           Next1 == IF found THEN [Ports EXCEPT ![finds] = Append(@, ch)] ELSE Ports
           t == ScanCharacter(text, s, k)
<1>1. t = [found |-> found, finds |-> finds, Ports |-> Next1]
  BY DEF ScanCharacter
<1>2. found \in BOOLEAN /\ finds \in Nat
  BY DEF Scans
<1>3. ch \in STRING /\ n \in Nat
  <2>1. k + 1 \in DOMAIN text
    OBVIOUS
  <2> QED BY <2>1, ElementType
<1>4. Ports \in [1 .. n -> Seq(STRING)]
  BY DEF Scans
<1> HIDE DEF found, finds, ch, Ports, n
<1>5. \A q \in Seq(STRING) : Append(q, ch) \in Seq(STRING)
  BY <1>3, AppendEntries
<1>6. Next1 \in [1 .. n -> Seq(STRING)]
  <2>1. CASE ~found
    BY <1>4, <2>1
  <2>2. CASE found
    <3>1. Next1 = [f \in 1 .. n |-> IF f = finds THEN Append(Ports[f], ch) ELSE Ports[f]]
      BY <1>4, <2>2
    <3>2. \A f \in 1 .. n : (IF f = finds THEN Append(Ports[f], ch) ELSE Ports[f]) \in Seq(STRING)
      BY <1>4, <1>5
    <3> QED BY <3>1, <3>2
  <2> QED BY <2>1, <2>2
<1>7. \A f \in 1 .. n :
          Next1[f] = IF found /\ f = finds THEN Append(Ports[f], ch) ELSE Ports[f]
  BY <1>4
<1> HIDE DEF Next1
<1>8. t.found = found /\ t.finds = finds /\ t.Ports = Next1
  BY <1>1
<1>9. t \in Scans(text)
  BY <1>1, <1>2, <1>6 DEF Scans, n
<1> HIDE DEF t
<1>10. \A f \in 1 .. n :
          t.Ports[f] = IF t.found /\ f = t.finds THEN Append(Ports[f], ch) ELSE Ports[f]
  BY <1>7, <1>8
<1> QED BY <1>8, <1>9, <1>10 DEF found, finds, n, Ports, ch, t

LEMMA LastScannedIs ==
    ASSUME NEW text \in Seq(STRING)
    PROVE  LastScanned(text) = IF Len(text) <= 2 THEN 1 ELSE Len(text) - 1
<1> DEFINE n == Len(text)
           last == IF n <= 2 THEN 1 ELSE n - 1
           S == {1, n - 1}
<1>1. n \in Nat
  OBVIOUS
<1> HIDE DEF n
<1>2. S \in SUBSET Int /\ last \in S /\ \A j \in S : j <= last
  BY <1>1
<1> HIDE DEF S, last
<1>3. Max(S) = last
  BY <1>2, MaxIs
<1> QED BY <1>3 DEF LastScanned, S, last, n

(* The loop, as the states its iterations go through. *)
LEMMA ScanLoop ==
    ASSUME NEW text \in Seq(STRING)
    PROVE  \E scan : /\ scan[1] = ScanStart(text)
                     /\ \A k \in 2 .. LastScanned(text) :
                            scan[k] = ScanCharacter(text, scan[k - 1], k)
                     /\ Scan(text) = scan[LastScanned(text)]
<1> DEFINE last == LastScanned(text)
           n == last - 1
           base == ScanStart(text)
           Visit(s, k) == ScanCharacter(text, s, k)
           S == Scans(text)
           step == [x \in Nat \X S |-> IF x[1] \in 1 .. n THEN Visit(x[2], x[1] + 1) ELSE x[2]]
           IsLoop(f) == f = [k \in 1 .. last |-> IF k = 1 THEN base
                                                ELSE Visit(f[k - 1], k)]
           loop == CHOOSE f : IsLoop(f)
<1>1. last \in Nat \ {0} /\ n \in Nat /\ \A k \in 2 .. last : k \in 2 .. Len(text) - 1
  BY LastScannedIs
<1>2. base \in S
  <2>1. [f \in 1 .. Len(text) |-> <<>>] \in [1 .. Len(text) -> Seq(STRING)]
    OBVIOUS
  <2> QED BY <2>1 DEF ScanStart, Scans
<1>3. \A k \in 2 .. last, s \in S : Visit(s, k) \in S
  BY <1>1, ScanEffect
<1>4. step \in [Nat \X S -> S]
  <2>1. \A k \in 1 .. n : k + 1 \in 2 .. last
    BY <1>1
  <2> HIDE DEF Visit, n, last, S
  <2> QED BY <1>3, <2>1
<1>5. \E f : IsLoop(f)
  <2>1. PICK g \in [0 .. n -> S] :
            g[0] = base /\ \A i \in 1 .. n : g[i] = step[<<i, g[i - 1]>>]
    <3> HIDE DEF n, base, step, S
    <3>1. Iterations(S, base, step, n) # {}
      BY <1>1, <1>2, <1>4, Iterates
    <3> QED BY <3>1 DEF Iterations
  <2> DEFINE f == [k \in 1 .. last |-> g[k - 1]]
  <2>2. ASSUME NEW k \in 1 .. last
        PROVE  f[k] = IF k = 1 THEN base ELSE Visit(f[k - 1], k)
    <3>1. CASE k = 1
      BY <2>1, <3>1
    <3>2. CASE k # 1
      <4>1. /\ k - 1 \in 1 .. n /\ k - 1 \in Nat /\ (k - 1) - 1 \in 0 .. n
            /\ k - 1 \in 1 .. last /\ (k - 1) + 1 = k
        BY <1>1, <3>2
      <4>2. f[k] = g[k - 1] /\ f[k - 1] = g[(k - 1) - 1]
        BY <4>1
      <4>3. g[(k - 1) - 1] \in S /\ g[k - 1] = step[<<k - 1, g[(k - 1) - 1]>>]
        BY <2>1, <4>1
      <4> HIDE DEF Visit, n, base, f, last, S
      <4>4. g[k - 1] = Visit(g[(k - 1) - 1], (k - 1) + 1)
        BY <4>1, <4>3
      <4> QED BY <3>2, <4>1, <4>2, <4>4
    <3> QED BY <3>1, <3>2
  <2>3. f = [k \in 1 .. last |-> f[k]]
    OBVIOUS
  <2> HIDE DEF base, last, Visit, f
  <2>4. f = [k \in 1 .. last |-> IF k = 1 THEN base ELSE Visit(f[k - 1], k)]
    BY <2>2, <2>3
  <2> QED BY <2>4
<1>6. IsLoop(loop)
  <2> HIDE DEF IsLoop
  <2> QED BY <1>5, Zenon
<1>7. Scan(text) = loop[last]
  BY DEF Scan, ScanStart
<1> HIDE DEF loop
<1>8. loop[1] = base /\ \A k \in 2 .. last : loop[k] = Visit(loop[k - 1], k)
  BY <1>1, <1>6
<1> QED BY <1>7, <1>8

(* The ports found by the k-th character, and that finds counts them. *)
SeparatorsTo(text, k) == {j \in 2 .. k : IsSeparator(text, j)}

LEMMA SeparatorsNext ==
    ASSUME NEW text, NEW k \in Nat, k >= 2
    PROVE  /\ IsFiniteSet(SeparatorsTo(text, k - 1))
           /\ Cardinality(SeparatorsTo(text, k)) =
                  Cardinality(SeparatorsTo(text, k - 1)) + (IF IsSeparator(text, k) THEN 1 ELSE 0)
<1> DEFINE before == SeparatorsTo(text, k - 1)
<1>1. IsFiniteSet(before)
  <2>1. IsFiniteSet(2 .. k - 1)
    BY FS_Interval
  <2>2. before \subseteq 2 .. k - 1
    BY DEF SeparatorsTo
  <2> HIDE DEF before
  <2> QED BY <2>1, <2>2, FS_Subset
<1>2. k \notin before
  BY DEF SeparatorsTo
<1>3. SeparatorsTo(text, k) = IF IsSeparator(text, k) THEN before \cup {k} ELSE before
  <2>1. \A j : j \in 2 .. k <=> j \in 2 .. k - 1 \/ j = k
    OBVIOUS
  <2> QED BY <2>1 DEF SeparatorsTo
<1> HIDE DEF before
<1>4. Cardinality(before \cup {k}) = Cardinality(before) + 1
  BY <1>1, <1>2, FS_AddElement
<1>5. Cardinality(before) \in Nat
  BY <1>1, FS_CardinalityType
<1> QED BY <1>1, <1>3, <1>4, <1>5 DEF before

LEMMA FindsCount ==
    ASSUME NEW text \in Seq(STRING), NEW scan, scan[1] = ScanStart(text),
           \A k \in 2 .. LastScanned(text) : scan[k] = ScanCharacter(text, scan[k - 1], k)
    PROVE  \A k \in 1 .. LastScanned(text) :
               scan[k] \in Scans(text) /\ scan[k].finds = Cardinality(SeparatorsTo(text, k))
<1> DEFINE last == LastScanned(text)
           Counts(k) == /\ scan[k] \in Scans(text)
                        /\ scan[k].finds = Cardinality(SeparatorsTo(text, k))
           Good == {n \in Nat : n + 1 <= last => Counts(n + 1)}
<1>1. last \in Nat \ {0} /\ \A k \in 2 .. last : k \in 2 .. Len(text) - 1
  BY LastScannedIs
<1>2. Counts(1)
  <2>1. [f \in 1 .. Len(text) |-> <<>>] \in [1 .. Len(text) -> Seq(STRING)]
    OBVIOUS
  <2>2. scan[1] \in Scans(text) /\ scan[1].finds = 0
    BY <2>1 DEF ScanStart, Scans
  <2>3. SeparatorsTo(text, 1) = {}
    BY DEF SeparatorsTo
  <2> QED BY <2>2, <2>3, FS_EmptySet
<1>3. 0 \in Good
  BY <1>2
<1>4. ASSUME NEW n \in Nat, n \in Good PROVE n + 1 \in Good
  <2> SUFFICES ASSUME n + 2 <= last PROVE Counts(n + 2)
    OBVIOUS
  <2>1. n + 2 \in 2 .. last /\ (n + 2) - 1 = n + 1 /\ n + 1 <= last /\ n + 2 \in Nat /\ n + 2 >= 2
    BY <1>1
  <2>2. Counts(n + 1)
    BY <1>4, <2>1
  <2>3. scan[n + 2] = ScanCharacter(text, scan[n + 1], n + 2)
    BY <2>1
  <2>4. /\ scan[n + 2] \in Scans(text)
        /\ scan[n + 2].finds = scan[n + 1].finds + (IF IsSeparator(text, n + 2) THEN 1 ELSE 0)
    BY <1>1, <2>1, <2>2, <2>3, ScanEffect
  <2>5. Cardinality(SeparatorsTo(text, n + 2)) =
            Cardinality(SeparatorsTo(text, n + 1)) + (IF IsSeparator(text, n + 2) THEN 1 ELSE 0)
    BY <2>1, SeparatorsNext
  <2> QED BY <2>2, <2>4, <2>5
<1> HIDE DEF Good
<1>5. \A n \in Nat : n \in Good
  BY <1>3, <1>4, Induction
<1>6. ASSUME NEW k \in 1 .. last PROVE Counts(k)
  <2>1. k - 1 \in Nat /\ (k - 1) + 1 = k /\ k <= last
    BY <1>1
  <2>2. k - 1 \in Good
    BY <1>5, <2>1
  <2> HIDE DEF Counts
  <2> QED BY <2>1, <2>2 DEF Good
<1> QED BY <1>6

(* A number is the same in a text that goes on behind its first character that
   is no digit. *)
LEMMA SameDigits ==
    ASSUME NEW s \in Seq(STRING), NEW t \in Seq(STRING), Len(s) <= Len(t),
           \A i \in 1 .. Len(s) : s[i] = t[i],
           Len(s) = Len(t) \/ \E i \in 1 .. Len(s) + 1 : i <= Len(t) /\ t[i] \notin Digit
    PROVE  LeadingDigits(s) = LeadingDigits(t)
<1> DEFINE Run(q) == {d \in 0 .. Len(q) : \A k \in 1 .. d : q[k] \in Digit}
           R == Run(s)
           m == Max(R)
<1>1. Len(s) \in Nat /\ Len(t) \in Nat
  OBVIOUS
<1>2. Run(s) \subseteq Run(t)
  BY <1>1
<1>3. ASSUME NEW d \in Run(t) PROVE d \in Run(s)
  <2>1. d \in Nat /\ d <= Len(t) /\ \A k \in 1 .. d : t[k] \in Digit
    BY <1>1
  <2>2. d <= Len(s)
    <3>1. CASE Len(s) = Len(t)
      BY <2>1, <3>1
    <3>2. ASSUME NEW i \in 1 .. Len(s) + 1, t[i] \notin Digit PROVE d <= Len(s)
      <4>1. i \notin 1 .. d
        BY <2>1, <3>2
      <4> QED BY <1>1, <2>1, <4>1
    <3> QED BY <3>1, <3>2
  <2>3. \A k \in 1 .. d : s[k] \in Digit
    BY <1>1, <2>1, <2>2
  <2> QED BY <1>1, <2>1, <2>2, <2>3
<1>4. Run(s) = Run(t)
  BY <1>2, <1>3
<1>5. m \in 0 .. Len(s)
  <2> DEFINE n == Len(s)
             T == {n - d : d \in R}
  <2>1. R \subseteq 0 .. n /\ 0 \in R
    BY <1>1
  <2> HIDE DEF R
  <2>2. T \subseteq Nat /\ T # {}
    BY <1>1, <2>1
  <2>3. PICK i \in T : \A j \in T : i <= j
    BY <2>2, LeastExists
  <2>4. PICK d \in R : i = n - d
    OBVIOUS
  <2>5. ASSUME NEW e \in R PROVE e <= d
    <3>1. n - e \in T
      OBVIOUS
    <3>2. n - d <= n - e
      BY <2>3, <2>4, <3>1
    <3> QED BY <1>1, <2>1, <3>2
  <2>6. R \in SUBSET Int
    BY <1>1, <2>1
  <2>7. m = d
    BY <2>5, <2>6, MaxIs
  <2> QED BY <2>1, <2>4, <2>7
<1>6. LeadingDigits(s) = SubSeq(s, 1, m)
  BY DEF LeadingDigits
<1>7. LeadingDigits(t) = SubSeq(t, 1, m)
  BY <1>4 DEF LeadingDigits
<1> HIDE DEF m
<1>8. SubSeq(s, 1, m) = [i \in 1 .. m |-> s[i]]
  BY <1>1, <1>5
<1>9. SubSeq(t, 1, m) = [i \in 1 .. m |-> t[i]]
  BY <1>1, <1>5
<1>10. \A i \in 1 .. m : s[i] = t[i]
  BY <1>1, <1>5
<1> QED BY <1>6, <1>7, <1>8, <1>9, <1>10

(* s is what was read of the text behind the separator from, up to the
   character behind the k-th; it ends there or in front of a newline. *)
Reads(text, s, from, k, found) ==
    /\ s \in Seq(STRING) /\ from + Len(s) <= k + 1
    /\ \A i \in 1 .. Len(s) : s[i] = text[from + i]
    /\ IF found THEN from + Len(s) = k + 1
       ELSE \E i \in 1 .. Len(s) + 1 : from + i <= Len(text) /\ text[from + i] = Newline

(* It holds the whole number. *)
Whole(text, s, from) ==
    /\ s \in Seq(STRING) /\ from + Len(s) <= Len(text)
    /\ \A i \in 1 .. Len(s) : s[i] = text[from + i]
    /\ \/ from + Len(s) = Len(text)
       \/ \E i \in 1 .. Len(s) + 1 : from + i <= Len(text) /\ text[from + i] \notin Digit

LEMMA WholeReads ==
    ASSUME NEW text \in Seq(STRING), NEW from \in 1 .. Len(text), NEW s, Whole(text, s, from)
    PROVE  LeadingDigits(s) = DigitsAfter(text, from)
<1> DEFINE n == Len(text)
           t == SubSeq(text, from + 1, n)
<1>1. n \in Nat /\ from \in Nat /\ from <= n
  OBVIOUS
<1>2. t \in Seq(STRING) /\ Len(t) = n - from /\ \A i \in 1 .. n - from : t[i] = text[from + i]
  BY <1>1
<1>3. s \in Seq(STRING) /\ Len(s) \in Nat
  BY DEF Whole
<1> HIDE DEF t
<1>4. Len(s) <= Len(t) /\ \A i \in 1 .. Len(s) : s[i] = t[i]
  BY <1>1, <1>2, <1>3 DEF Whole
<1>5. Len(s) = Len(t) \/ \E i \in 1 .. Len(s) + 1 : i <= Len(t) /\ t[i] \notin Digit
  <2>1. CASE from + Len(s) = n
    <3>1. Len(t) = n - from
      BY <1>2
    <3>2. Len(s) = n - from
      BY <1>1, <1>3, <2>1
    <3> QED BY <3>1, <3>2
  <2>2. ASSUME NEW i \in 1 .. Len(s) + 1, from + i <= n, text[from + i] \notin Digit
        PROVE  i <= Len(t) /\ t[i] \notin Digit
    BY <1>1, <1>2, <1>3, <2>2
  <2> QED BY <2>1, <2>2 DEF Whole
<1>6. LeadingDigits(s) = LeadingDigits(t)
  BY <1>2, <1>3, <1>4, <1>5, SameDigits
<1> QED BY <1>6 DEF DigitsAfter, t

(* The iterations that read on: the character is appended, or a newline ends
   the number. *)
LEMMA ReadOn ==
    ASSUME NEW text \in Seq(STRING), NEW from \in Nat, NEW k \in 2 .. Len(text) - 1, from < k,
           NEW s, NEW found \in BOOLEAN, Reads(text, s, from, k - 1, found),
           NEW foundNow, foundNow = (found /\ text[k + 1] # Newline)
    PROVE  Reads(text, IF foundNow THEN Append(s, text[k + 1]) ELSE s, from, k, foundNow)
<1> DEFINE n == Len(text)
           ch == text[k + 1]
           r == Append(s, ch)
<1>1. n \in Nat /\ k \in Nat /\ k + 1 <= n /\ k + 1 \in DOMAIN text
  OBVIOUS
<1>2. ch \in STRING
  BY <1>1, ElementType
<1>3. s \in Seq(STRING) /\ Len(s) \in Nat /\ from + Len(s) <= k
  BY <1>1 DEF Reads
<1>4. CASE found /\ ch # Newline
  <2>1. from + Len(s) = k
    BY <1>1, <1>3, <1>4 DEF Reads
  <2>2. r \in Seq(STRING) /\ Len(r) = Len(s) + 1
        /\ \A i \in 1 .. Len(s) + 1 : r[i] = IF i = Len(s) + 1 THEN ch ELSE s[i]
    BY <1>2, <1>3, AppendElements
  <2>3. \A i \in 1 .. Len(s) : s[i] = text[from + i]
    BY DEF Reads
  <2>4. \A i \in 1 .. Len(r) : r[i] = text[from + i]
    <3> SUFFICES ASSUME NEW i \in 1 .. Len(s) + 1 PROVE r[i] = text[from + i]
      BY <2>2
    <3>1. CASE i = Len(s) + 1
      <4>1. from + i = k + 1
        BY <1>3, <2>1, <3>1
      <4> QED BY <2>2, <3>1, <4>1
    <3>2. CASE i # Len(s) + 1
      <4>1. i \in 1 .. Len(s)
        BY <1>3, <3>2
      <4> QED BY <2>2, <2>3, <3>2, <4>1
    <3> QED BY <3>1, <3>2
  <2>5. from + Len(r) = k + 1 /\ from + Len(r) <= k + 1
    BY <1>1, <1>3, <2>1, <2>2
  <2> HIDE DEF r
  <2> QED BY <1>4, <2>2, <2>4, <2>5 DEF Reads, r
<1>5. CASE found /\ ch = Newline
  <2>1. from + Len(s) = k
    BY <1>1, <1>3, <1>5 DEF Reads
  <2>2. /\ Len(s) + 1 \in 1 .. Len(s) + 1 /\ from + (Len(s) + 1) = k + 1
        /\ from + (Len(s) + 1) <= n /\ from + Len(s) <= k + 1
    BY <1>1, <1>3, <2>1
  <2>3. text[from + (Len(s) + 1)] = Newline
    BY <1>5, <2>2
  <2> QED BY <1>3, <1>5, <2>2, <2>3 DEF Reads
<1>6. CASE ~found
  <2>1. from + Len(s) <= k + 1
    BY <1>1, <1>3
  <2> QED BY <1>6, <2>1 DEF Reads
<1> QED BY <1>4, <1>5, <1>6

(* What was read when the next separator, or the end, is reached is whole. *)
LEMMA ReadToSeparator ==
    ASSUME NEW text \in Seq(STRING), NEW from \in Nat, NEW k \in 2 .. Len(text) - 1, from < k,
           IsSeparator(text, k), NEW s, NEW found \in BOOLEAN, Reads(text, s, from, k - 1, found)
    PROVE  Whole(text, s, from)
<1>1. Len(text) \in Nat /\ k \in Nat /\ s \in Seq(STRING) /\ Len(s) \in Nat
  BY DEF Reads
<1>2. from + Len(s) <= k /\ from + Len(s) <= Len(text)
  BY <1>1 DEF Reads
<1>3. \E i \in 1 .. Len(s) + 1 : from + i <= Len(text) /\ text[from + i] \notin Digit
  <2>1. CASE found
    <3>1. from + Len(s) = k
      BY <1>1, <2>1 DEF Reads
    <3>2. Len(s) \in 1 .. Len(s) + 1
      BY <1>1, <3>1
    <3>3. text[k] \notin Digit
      BY StunAssumption DEF IsSeparator
    <3> QED BY <1>2, <3>1, <3>2, <3>3
  <2>2. CASE ~found
    BY <2>2, StunAssumption DEF Reads
  <2> QED BY <2>1, <2>2
<1> QED BY <1>1, <1>2, <1>3 DEF Reads, Whole

LEMMA ReadToEnd ==
    ASSUME NEW text \in Seq(STRING), NEW from \in Nat, from < Len(text),
           NEW s, NEW found \in BOOLEAN, Reads(text, s, from, Len(text) - 1, found)
    PROVE  Whole(text, s, from)
<1>1. Len(text) \in Nat /\ s \in Seq(STRING) /\ Len(s) \in Nat
  BY DEF Reads
<1>2. from + Len(s) <= Len(text)
  BY <1>1 DEF Reads
<1>3. CASE found
  BY <1>1, <1>2, <1>3 DEF Reads, Whole
<1>4. CASE ~found
  <2>1. \E i \in 1 .. Len(s) + 1 : from + i <= Len(text) /\ text[from + i] \notin Digit
    BY <1>4, StunAssumption DEF Reads
  <2> QED BY <1>1, <1>2, <2>1 DEF Reads, Whole
<1> QED BY <1>3, <1>4

(* The iteration that finds a separator starts a number. *)
LEMMA ReadStarts ==
    ASSUME NEW text \in Seq(STRING), NEW k \in 2 .. Len(text) - 1, IsSeparator(text, k)
    PROVE  /\ text[k + 1] # Newline
           /\ Reads(text, Append(<<>>, text[k + 1]), k, k, TRUE)
<1> DEFINE ch == text[k + 1]
<1>1. k + 1 \in DOMAIN text /\ k \in Nat
  OBVIOUS
<1>2. ch \in STRING
  BY <1>1, ElementType
<1>3. ch # Newline
  BY StunAssumption DEF IsSeparator
<1> HIDE DEF ch
<1> DEFINE s == Append(<<>>, ch)
<1>4. s \in Seq(STRING) /\ Len(s) = 1 /\ \A i \in 1 .. 1 : s[i] = ch
  <2>1. s \in Seq(STRING) /\ Len(s) = 1 /\ s[1] = ch
    BY <1>2, FirstElement
  <2>2. \A i \in 1 .. 1 : i = 1
    OBVIOUS
  <2> HIDE DEF s
  <2> QED BY <2>1, <2>2
<1> HIDE DEF s
<1>5. \A i \in 1 .. Len(s) : s[i] = text[k + i]
  <2>1. \A i \in 1 .. 1 : i = 1
    OBVIOUS
  <2> QED BY <1>4, <2>1 DEF ch
<1>6. k + Len(s) = k + 1 /\ k + Len(s) <= k + 1
  BY <1>1, <1>4
<1> QED BY <1>3, <1>4, <1>5, <1>6 DEF Reads, ch, s

(* The separators a and b of a text with two. *)
TwoSeparators(text, a, b) ==
    /\ a \in 2 .. Len(text) - 1 /\ b \in 2 .. Len(text) - 1 /\ a < b
    /\ \A k \in 2 .. Len(text) - 1 : IsSeparator(text, k) <=> k \in {a, b}

(* The loop's invariant. *)
ReadingAt(text, a, b, k, s) ==
    /\ s \in Scans(text)
    /\ k < a => ~s.found /\ s.finds = 0 /\ s.Ports[1] = <<>> /\ s.Ports[2] = <<>>
    /\ a <= k /\ k < b =>
           s.finds = 1 /\ Reads(text, s.Ports[1], a, k, s.found) /\ s.Ports[2] = <<>>
    /\ b <= k => s.finds = 2 /\ Whole(text, s.Ports[1], a) /\ Reads(text, s.Ports[2], b, k, s.found)

LEMMA ReadingStep ==
    ASSUME NEW text \in Seq(STRING), NEW a, NEW b, TwoSeparators(text, a, b),
           NEW k \in 2 .. Len(text) - 1, NEW s, ReadingAt(text, a, b, k - 1, s)
    PROVE  ReadingAt(text, a, b, k, ScanCharacter(text, s, k))
<1> DEFINE n == Len(text)
           ch == text[k + 1]
           t == ScanCharacter(text, s, k)
<1>1. /\ n \in Nat /\ k \in Nat /\ a \in Nat /\ b \in Nat /\ a < b
      /\ a \in 2 .. n - 1 /\ b \in 2 .. n - 1 /\ 1 \in 1 .. n /\ 2 \in 1 .. n
      /\ k - 1 < k /\ \A i \in {a, b} : (k - 1 < i <=> k <= i) /\ (i <= k - 1 <=> i < k)
  BY DEF TwoSeparators
<1>2. s \in Scans(text) /\ s.found \in BOOLEAN
  BY DEF ReadingAt, Scans
<1>3. IsSeparator(text, k) <=> k = a \/ k = b
  BY DEF TwoSeparators
<1>4. /\ t \in Scans(text)
      /\ t.found = ((IsSeparator(text, k) \/ s.found) /\ ch # Newline)
      /\ t.finds = s.finds + (IF IsSeparator(text, k) THEN 1 ELSE 0)
      /\ \A f \in 1 .. n :
             t.Ports[f] = IF t.found /\ f = t.finds THEN Append(s.Ports[f], ch) ELSE s.Ports[f]
  BY <1>2, ScanEffect
<1> HIDE DEF t, n, ch
<1>0. /\ t.Ports[1] = IF t.found /\ t.finds = 1 THEN Append(s.Ports[1], ch) ELSE s.Ports[1]
      /\ t.Ports[2] = IF t.found /\ t.finds = 2 THEN Append(s.Ports[2], ch) ELSE s.Ports[2]
  BY <1>1, <1>4
<1>5. CASE k < a
  <2>1. k - 1 < a /\ ~IsSeparator(text, k) /\ ~(a <= k) /\ ~(b <= k)
    BY <1>1, <1>3, <1>5
  <2>2. ~s.found /\ s.finds = 0 /\ s.Ports[1] = <<>> /\ s.Ports[2] = <<>>
    BY <2>1 DEF ReadingAt
  <2>3. ~t.found
    BY <1>4, <2>1, <2>2
  <2>4. t.finds = 0 /\ t.Ports[1] = <<>> /\ t.Ports[2] = <<>>
    BY <1>1, <1>4, <2>1, <2>2, <2>3
  <2> QED BY <1>4, <2>1, <2>3, <2>4 DEF ReadingAt, t
<1>6. CASE k = a
  <2>1. k - 1 < a /\ IsSeparator(text, k) /\ ~(k < a) /\ ~(b <= k)
    BY <1>1, <1>3, <1>6
  <2>2. ~s.found /\ s.finds = 0 /\ s.Ports[1] = <<>> /\ s.Ports[2] = <<>>
    BY <2>1 DEF ReadingAt
  <2>3. ch # Newline /\ Reads(text, Append(<<>>, ch), k, k, TRUE)
    BY <2>1, ReadStarts DEF ch
  <2>4. t.found = TRUE
    BY <1>4, <2>1, <2>3
  <2>5. t.finds = 1
    BY <1>4, <2>1, <2>2
  <2>6. t.Ports[1] = Append(<<>>, ch) /\ t.Ports[2] = <<>>
    BY <1>0, <2>2, <2>4, <2>5
  <2> QED BY <1>4, <1>6, <2>1, <2>3, <2>4, <2>5, <2>6 DEF ReadingAt, t
<1>7. CASE a < k /\ k < b
  <2>1. a <= k - 1 /\ k - 1 < b /\ ~IsSeparator(text, k) /\ ~(k < a) /\ ~(b <= k) /\ a < k
    BY <1>1, <1>3, <1>7
  <2>2. s.finds = 1 /\ Reads(text, s.Ports[1], a, k - 1, s.found) /\ s.Ports[2] = <<>>
    BY <2>1 DEF ReadingAt
  <2>3. t.found = (s.found /\ ch # Newline)
    BY <1>4, <2>1
  <2>4. /\ t.finds = 1 /\ t.Ports[2] = <<>>
        /\ t.Ports[1] = IF t.found THEN Append(s.Ports[1], ch) ELSE s.Ports[1]
    BY <1>1, <1>4, <2>1, <2>2
  <2>5. Reads(text, t.Ports[1], a, k, t.found)
    BY <1>1, <1>2, <2>1, <2>2, <2>3, <2>4, ReadOn DEF ch
  <2> QED BY <1>4, <2>1, <2>4, <2>5 DEF ReadingAt, t
<1>8. CASE k = b
  <2>1. a <= k - 1 /\ k - 1 < b /\ IsSeparator(text, k) /\ ~(k < a) /\ ~(k < b) /\ a < k
    BY <1>1, <1>3, <1>8
  <2>2. s.finds = 1 /\ Reads(text, s.Ports[1], a, k - 1, s.found) /\ s.Ports[2] = <<>>
    BY <2>1 DEF ReadingAt
  <2>3. ch # Newline /\ Reads(text, Append(<<>>, ch), k, k, TRUE)
    BY <2>1, ReadStarts DEF ch
  <2>4. t.found = TRUE
    BY <1>4, <2>1, <2>3
  <2>5. t.finds = 2
    BY <1>4, <2>1, <2>2
  <2>6. t.Ports[1] = s.Ports[1] /\ t.Ports[2] = Append(<<>>, ch)
    BY <1>0, <2>2, <2>4, <2>5
  <2>7. Whole(text, t.Ports[1], a)
    BY <1>1, <1>2, <2>1, <2>2, <2>6, ReadToSeparator
  <2> QED BY <1>4, <1>8, <2>1, <2>3, <2>4, <2>5, <2>6, <2>7 DEF ReadingAt, t
<1>9. CASE b < k
  <2>1. b <= k - 1 /\ ~IsSeparator(text, k) /\ ~(k < a) /\ ~(k < b) /\ b < k
    BY <1>1, <1>3, <1>9
  <2>2. /\ s.finds = 2 /\ Whole(text, s.Ports[1], a)
        /\ Reads(text, s.Ports[2], b, k - 1, s.found)
    BY <2>1 DEF ReadingAt
  <2>3. t.found = (s.found /\ ch # Newline)
    BY <1>4, <2>1
  <2>4. /\ t.finds = 2 /\ t.Ports[1] = s.Ports[1]
        /\ t.Ports[2] = IF t.found THEN Append(s.Ports[2], ch) ELSE s.Ports[2]
    BY <1>1, <1>4, <2>1, <2>2
  <2>5. Reads(text, t.Ports[2], b, k, t.found)
    BY <1>1, <1>2, <2>1, <2>2, <2>3, <2>4, ReadOn DEF ch
  <2> QED BY <1>4, <2>1, <2>2, <2>4, <2>5 DEF ReadingAt, t
<1> QED BY <1>1, <1>5, <1>6, <1>7, <1>8, <1>9

LEMMA BothPortsRead ==
    ASSUME NEW text \in Seq(STRING), NEW a, NEW b, TwoSeparators(text, a, b),
           NEW scan, scan[1] = ScanStart(text),
           \A k \in 2 .. LastScanned(text) : scan[k] = ScanCharacter(text, scan[k - 1], k)
    PROVE  LET end == scan[LastScanned(text)]
           IN  Whole(text, end.Ports[1], a) /\ Whole(text, end.Ports[2], b)
<1> DEFINE last == LastScanned(text)
           Good == {n \in Nat : n + 1 <= last => ReadingAt(text, a, b, n + 1, scan[n + 1])}
           end == scan[last]
<1>1. /\ a \in 2 .. Len(text) - 1 /\ b \in 2 .. Len(text) - 1 /\ last = Len(text) - 1
      /\ a \in Nat /\ b \in Nat /\ Len(text) \in Nat /\ 1 < a /\ ~(a <= 1) /\ ~(b <= 1)
  BY LastScannedIs DEF TwoSeparators
<1>2. ReadingAt(text, a, b, 1, scan[1])
  <2>1. [f \in 1 .. Len(text) |-> <<>>] \in [1 .. Len(text) -> Seq(STRING)]
    OBVIOUS
  <2>2. 1 \in 1 .. Len(text) /\ 2 \in 1 .. Len(text)
    BY <1>1
  <2>3. /\ scan[1] \in Scans(text) /\ ~scan[1].found /\ scan[1].finds = 0
        /\ scan[1].Ports[1] = <<>> /\ scan[1].Ports[2] = <<>>
    BY <2>1, <2>2 DEF ScanStart, Scans
  <2> QED BY <1>1, <2>3 DEF ReadingAt
<1>3. 0 \in Good
  BY <1>2
<1>4. ASSUME NEW n \in Nat, n \in Good PROVE n + 1 \in Good
  <2> SUFFICES ASSUME n + 2 <= last PROVE ReadingAt(text, a, b, n + 2, scan[n + 2])
    OBVIOUS
  <2>1. n + 2 \in 2 .. last /\ (n + 2) - 1 = n + 1 /\ n + 1 <= last
    BY <1>1
  <2>2. ReadingAt(text, a, b, (n + 2) - 1, scan[n + 1])
    BY <1>4, <2>1
  <2>3. scan[n + 2] = ScanCharacter(text, scan[n + 1], n + 2)
    BY <2>1
  <2> HIDE DEF last
  <2> QED BY <1>1, <2>1, <2>2, <2>3, ReadingStep
<1> HIDE DEF Good
<1>5. \A n \in Nat : n \in Good
  BY <1>3, <1>4, Induction
<1>6. ReadingAt(text, a, b, last, end)
  <2>1. last - 1 \in Nat /\ (last - 1) + 1 = last
    BY <1>1
  <2>2. last - 1 \in Good
    BY <1>5, <2>1
  <2> HIDE DEF last, end
  <2> QED BY <1>1, <2>1, <2>2 DEF Good, end
<1>7. /\ Whole(text, end.Ports[1], a) /\ end.found \in BOOLEAN
      /\ Reads(text, end.Ports[2], b, Len(text) - 1, end.found)
  <2>1. b <= last
    BY <1>1
  <2> HIDE DEF end
  <2> QED BY <1>1, <1>6, <2>1 DEF ReadingAt, Scans
<1>8. Whole(text, end.Ports[2], b)
  <2>1. b < Len(text)
    BY <1>1
  <2> HIDE DEF end
  <2> QED BY <1>1, <1>7, <2>1, ReadToEnd
<1> HIDE DEF end
<1> QED BY <1>7, <1>8 DEF end

(* So getPortTranslation reads what the text says. *)
LEMMA PortsRight ==
    ASSUME NEW stunReturn \in Seq(STRING), HasAtMostTwoPorts(stunReturn)
    PROVE  getPortTranslation(stunReturn) = ExpectedPorts(stunReturn)
<1> DEFINE text == WithoutSpaces(stunReturn)
           n == Len(text)
           last == LastScanned(text)
           separators == Separators(text)
           end == Scan(text)
<1>1. text \in Seq(STRING)
  BY WithoutSpacesText
<1>2. text # <<>> /\ Cardinality(separators) <= 2
  BY DEF HasAtMostTwoPorts
<1>3. getPortTranslation(stunReturn) =
          IF text = <<>> \/ end.finds > 2 THEN Undefined
          ELSE IF end.finds < 2 THEN Missing
          ELSE PortTranslation(LeadingDigits(end.Ports[1]), LeadingDigits(end.Ports[2]))
  BY DEF getPortTranslation
<1>4. ExpectedPorts(stunReturn) =
          IF Cardinality(separators) = 2
          THEN PortTranslation(DigitsAfter(text, Min(separators)),
                               DigitsAfter(text, Max(separators)))
          ELSE Missing
  BY DEF ExpectedPorts
<1> HIDE DEF text
<1>5. n \in Nat
  BY <1>1
<1>6. PICK scan : /\ scan[1] = ScanStart(text)
                  /\ \A k \in 2 .. last : scan[k] = ScanCharacter(text, scan[k - 1], k)
                  /\ end = scan[last]
  BY <1>1, ScanLoop
<1>7. last = (IF n <= 2 THEN 1 ELSE n - 1)
  BY <1>1, LastScannedIs
<1>8. SeparatorsTo(text, last) = separators
  <2>1. \A k : k \in 2 .. last <=> k \in 2 .. n - 1
    BY <1>5, <1>7
  <2> HIDE DEF n, last
  <2> QED BY <2>1 DEF SeparatorsTo, Separators, n
<1>9. end.finds = Cardinality(separators)
  <2>1. last \in 1 .. last
    BY <1>5, <1>7
  <2> HIDE DEF last, end, separators
  <2>2. scan[last].finds = Cardinality(SeparatorsTo(text, last))
    BY <1>1, <1>6, <2>1, FindsCount DEF last
  <2> QED BY <1>6, <1>8, <2>2
<1>10. IsFiniteSet(separators) /\ Cardinality(separators) \in Nat /\ separators \subseteq 2 .. n - 1
  <2>1. separators \subseteq 2 .. n - 1
    BY DEF Separators
  <2>2. IsFiniteSet(2 .. n - 1)
    BY <1>5, FS_Interval
  <2> HIDE DEF separators, n
  <2> QED BY <2>1, <2>2, FS_Subset, FS_CardinalityType
<1>11. CASE Cardinality(separators) # 2
  <2> HIDE DEF end, separators
  <2>1. end.finds < 2 /\ ~(end.finds > 2)
    BY <1>2, <1>9, <1>10, <1>11
  <2> QED BY <1>2, <1>3, <1>4, <1>11, <2>1
<1>12. CASE Cardinality(separators) = 2
  <2>1. PICK a, b : separators = {a, b} /\ a < b /\ a \in Nat /\ b \in Nat
    <3> HIDE DEF separators, n
    <3>1. separators # {} /\ separators \subseteq Nat
      BY <1>5, <1>10, <1>12, FS_EmptySet
    <3>2. PICK a \in separators : \A j \in separators : a <= j
      BY <3>1, LeastExists
    <3>3. Cardinality(separators \ {a}) = 1
      <4>1. Cardinality(separators \ {a}) = Cardinality(separators) - 1
        BY <1>10, <3>2, FS_RemoveElement
      <4> QED BY <1>12, <4>1
    <3>4. PICK b : separators \ {a} = {b}
      <4>1. IsFiniteSet(separators \ {a})
        BY <1>10, FS_Subset
      <4> QED BY <3>3, <4>1, FS_Singleton
    <3>5. separators = {a, b} /\ a # b /\ b \in separators
      BY <3>2, <3>4
    <3>6. a < b /\ a \in Nat /\ b \in Nat
      BY <3>1, <3>2, <3>5
    <3> QED BY <3>5, <3>6
  <2>2. TwoSeparators(text, a, b)
    <3>1. \A k \in 2 .. n - 1 : IsSeparator(text, k) <=> k \in {a, b}
      BY <2>1 DEF Separators
    <3>2. a \in 2 .. n - 1 /\ b \in 2 .. n - 1
      BY <1>10, <2>1
    <3> HIDE DEF n
    <3> QED BY <2>1, <3>1, <3>2 DEF TwoSeparators, n
  <2>3. Min(separators) = a /\ Max(separators) = b
    <3> HIDE DEF separators
    <3>1. separators \in SUBSET Int /\ a \in separators /\ b \in separators
      BY <2>1
    <3>2. \A j \in separators : a <= j /\ j <= b
      BY <2>1
    <3> QED BY <3>1, <3>2, MinIs, MaxIs
  <2> HIDE DEF end, separators
  <2>4. Whole(text, end.Ports[1], a) /\ Whole(text, end.Ports[2], b)
    BY <1>1, <1>6, <2>2, BothPortsRead
  <2>5. a \in 1 .. n /\ b \in 1 .. n
    BY <1>5, <2>2 DEF TwoSeparators
  <2> HIDE DEF n
  <2>6. /\ LeadingDigits(end.Ports[1]) = DigitsAfter(text, a)
        /\ LeadingDigits(end.Ports[2]) = DigitsAfter(text, b)
    BY <1>1, <2>4, <2>5, WholeReads DEF n
  <2>7. ~(end.finds < 2) /\ ~(end.finds > 2)
    BY <1>9, <1>12
  <2> QED BY <1>2, <1>3, <1>4, <1>12, <2>3, <2>6, <2>7
<1> QED BY <1>11, <1>12

-----------------------------------------------------------------------------
(* UPnPportForward. *)

(* What UPnPportForward holds at each of its statements: COM is initialised
   between CoInitialize and the return of true, and a pointer is set only
   through the one before it. *)
UPnPInv ==
    /\ upnp # "null"
    /\ com = IF upnp \in {"start", "true"} THEN 0 ELSE 1
    /\ upnp \in {"start", "adapters", "search", "names", "nat", "true"} => held = {}
    /\ upnp = "collection" => held \subseteq {"nat"}
    /\ upnp = "add" => "staticMapping" \notin held /\ ("mappingCollection" \in held => "nat" \in held)
    /\ upnp = "release" => ("staticMapping" \in held => held = ComObjects)

LEMMA UPnPInitInv == UPnPInit => UPnPTypeOK /\ UPnPInv
<1> SUFFICES ASSUME UPnPInit PROVE UPnPTypeOK /\ UPnPInv
  OBVIOUS
<1>1. gateway \in Nat \X Nat
  BY DEF UPnPInit
<1>2. upnp = "start" /\ com = 0 /\ held = {}
  BY DEF UPnPInit
<1>3. UPnPTypeOK
  BY <1>1, <1>2 DEF UPnPTypeOK
<1>4. UPnPInv
  BY <1>2 DEF UPnPInv
<1> QED BY <1>3, <1>4

LEMMA UPnPStep ==
    ASSUME UPnPTypeOK, UPnPInv, UPnPportForward
    PROVE  UPnPTypeOK' /\ UPnPInv'
<1> USE DEF UPnPTypeOK, UPnPInv
<1>1. CASE CoInitialize
  BY <1>1 DEF CoInitialize
<1>2. CASE GetAdapters
  BY <1>2 DEF GetAdapters
<1>3. CASE PingGateway
  BY <1>3 DEF PingGateway
<1>4. CASE NoGateway
  BY <1>4 DEF NoGateway
<1>5. CASE ConvertNames
  BY <1>5 DEF ConvertNames
<1>6. CASE CreateNAT
  BY <1>6 DEF CreateNAT, Obtain, ComObjects
<1>7. CASE GetCollection
  BY <1>7 DEF GetCollection, Obtain, ComObjects
<1>8. CASE AddMapping
  BY <1>8 DEF AddMapping, Obtain, ComObjects
<1>9. CASE Release
  BY <1>9 DEF Release
<1> QED BY <1>1, <1>2, <1>3, <1>4, <1>5, <1>6, <1>7, <1>8, <1>9 DEF UPnPportForward

-----------------------------------------------------------------------------
(* Type correctness. *)
(* The listener's record, as TypeOK has it. *)
ListenerTypes ==
    [at : {"listen", "reply", "dispatch"}, kind : Kinds \cup {"other"},
     from : Peers \cup {NoPeer}, awaitACK : BOOLEAN, ready : BOOLEAN,
     attached : BOOLEAN, repliedTo : Peers \cup {NoPeer, Address},
     called : SUBSET Kinds]

LEMMA InitType == Init => TypeOK
<1> SUFFICES ASSUME Init PROVE TypeOK
  OBVIOUS
<1>1. /\ test \in [cipher : BOOLEAN, exchange : BOOLEAN, fits : BOOLEAN]
      /\ stun.of = "none" /\ stun.text = <<>> /\ stun.address = "read"
  BY DEF Init, Untested, NoOutput
<1>2. listener \in ListenerTypes
  BY DEF Init, NoPacket, ListenerTypes
<1>3. UPnPTypeOK
  BY UPnPInitInv DEF Init
<1>4. /\ process = "up" /\ phase = "cipher" /\ threads = FALSE
      /\ server \in BOOLEAN /\ isServer \in BOOLEAN
      /\ callbacks \in [Kinds -> {"null", "assigning", "attached"}]
  BY DEF Init
<1> QED BY <1>1, <1>2, <1>3, <1>4 DEF TypeOK, ListenerTypes

LEMMA NextType ==
    ASSUME TypeOK, UPnPInv, Next
    PROVE  TypeOK'
<1> USE DEF TypeOK, UPnPTypeOK, ctorVars, upnpVars, Passes, Throws, Thrown, Untested, NoOutput
<1>1. ASSUME TestCipher PROVE TypeOK'
  <2>1. PICK r \in BOOLEAN : test' = [test EXCEPT !.cipher = r]
    BY <1>1 DEF TestCipher
  <2> QED BY <1>1, <2>1 DEF TestCipher
<1>2. ASSUME TestExchange PROVE TypeOK'
  <2>1. PICK r \in BOOLEAN, fits \in BOOLEAN :
             test' = [test EXCEPT !.exchange = r, !.fits = fits]
    BY <1>2 DEF TestExchange
  <2>2. test' \in [cipher : BOOLEAN, exchange : BOOLEAN, fits : BOOLEAN]
    BY <2>1
  <2>3. process' \in {"up", "threw", "terminated", "undefined"} /\ phase' \in {"exchange", "address"}
    BY <1>2 DEF TestExchange
  <2> QED BY <1>2, <2>2, <2>3 DEF TestExchange
<1>3. ASSUME GetPublicIPAddress PROVE TypeOK'
  <2>1. stun'.of \in {"none", "address", "ports"}
    BY <1>3 DEF GetPublicIPAddress
  <2>2. stun'.text = <<>> \/ stun'.text \in StunTexts
    BY <1>3 DEF GetPublicIPAddress
  <2>3. stun'.address \in {"read", "threw", "undefined"}
    BY <1>3 DEF GetPublicIPAddress
  <2>4. /\ process' \in {"up", "threw", "terminated", "undefined"}
        /\ phase = "address" /\ phase' \in {"address", "whatAmI"}
    BY <1>3 DEF GetPublicIPAddress
  <2>5. test' \in [cipher : BOOLEAN, exchange : BOOLEAN, fits : BOOLEAN]
    BY <1>3 DEF GetPublicIPAddress
  <2>6. UNCHANGED <<server, threads, isServer, callbacks, listener, upnpVars>>
    BY <1>3 DEF GetPublicIPAddress
  <2> QED BY <2>1, <2>2, <2>3, <2>4, <2>5, <2>6
<1>4. ASSUME SetWhatAmI PROVE TypeOK'
  BY <1>4 DEF SetWhatAmI
<1>5. ASSUME GetPortTranslation PROVE TypeOK'
  <2>1. stun'.of \in {"none", "address", "ports"}
    BY <1>5 DEF GetPortTranslation
  <2>2. stun'.text = <<>> \/ stun'.text \in StunTexts
    BY <1>5 DEF GetPortTranslation
  <2>3. stun'.address \in {"read", "threw", "undefined"}
    BY <1>5 DEF GetPortTranslation
  <2>4. /\ process' \in {"up", "threw", "terminated", "undefined"}
        /\ phase = "ports" /\ phase' \in {"ports", "winsock"}
    BY <1>5 DEF GetPortTranslation
  <2>5. UNCHANGED <<server, test, threads, isServer, callbacks, listener, upnpVars>>
    BY <1>5 DEF GetPortTranslation
  <2> QED BY <2>1, <2>2, <2>3, <2>4, <2>5
<1>6. ASSUME StartWinsock PROVE TypeOK'
  BY <1>6 DEF StartWinsock
<1>7. ASSUME ForwardPort PROVE TypeOK'
  <2>1. UPnPTypeOK'
    BY <1>7, UPnPStep DEF ForwardPort
  <2> QED BY <1>7, <2>1 DEF ForwardPort
<1>8. ASSUME PortForwarded PROVE TypeOK'
  BY <1>8 DEF PortForwarded
<1>9. ASSUME BindSocket PROVE TypeOK'
  BY <1>9 DEF BindSocket
<1>10. ASSUME HolePunch PROVE TypeOK'
  BY <1>10 DEF HolePunch
<1>11. ASSUME StartThreads PROVE TypeOK'
  BY <1>11 DEF StartThreads
<1>12. ASSUME SetPrivateKey PROVE TypeOK'
  BY <1>12 DEF SetPrivateKey
<1>13. ASSUME StartHandshake PROVE TypeOK'
  BY <1>13 DEF StartHandshake
<1>14. ASSUME SetIsServer PROVE TypeOK'
  BY <1>14 DEF SetIsServer
<1>15. ASSUME NEW k \in Kinds, AttachBegin(k) PROVE TypeOK'
  BY <1>15 DEF AttachBegin
<1>16. ASSUME NEW k \in Kinds, AttachEnd(k) PROVE TypeOK'
  BY <1>16 DEF AttachEnd
<1>17. ASSUME Destroy PROVE TypeOK'
  BY <1>17 DEF Destroy
<1>18. ASSUME ReceivePacket PROVE TypeOK'
  <2>1. PICK kind \in Kinds \cup {"other"}, from \in Peers, awaitACK \in BOOLEAN :
            listener' = [NoPacket EXCEPT
                !.at = IF awaitACK THEN "reply" ELSE "dispatch",
                !.kind = kind, !.from = from, !.awaitACK = awaitACK,
                !.ready = (phase = "returned"),
                !.attached = kind \in Kinds /\ callbacks[kind] = "attached"]
    BY <1>18 DEF ReceivePacket
  <2> DEFINE at == IF awaitACK THEN "reply" ELSE "dispatch"
             ready == phase = "returned"
             attached == kind \in Kinds /\ callbacks[kind] = "attached"
  <2>2. listener' = [at |-> at, kind |-> kind, from |-> from, awaitACK |-> awaitACK,
                     ready |-> ready, attached |-> attached, repliedTo |-> NoPeer, called |-> {}]
    BY <2>1 DEF NoPacket
  <2>3. at \in {"listen", "reply", "dispatch"} /\ ready \in BOOLEAN /\ attached \in BOOLEAN
    OBVIOUS
  <2> HIDE DEF at, ready, attached
  <2>4. listener' \in ListenerTypes
    BY <2>2, <2>3, Zenon DEF ListenerTypes
  <2> QED BY <1>18, <2>4 DEF ReceivePacket, ListenerTypes
<1>19. ASSUME SendACKReply PROVE TypeOK'
  <2>1. listener' \in ListenerTypes
    BY <1>19 DEF SendACKReply, ListenerTypes
  <2>2. process' \in {"up", "threw", "terminated", "undefined"}
    BY <1>19 DEF SendACKReply
  <2> QED BY <1>19, <2>1, <2>2 DEF SendACKReply, ListenerTypes
<1>20. ASSUME Dispatch PROVE TypeOK'
  <2>1. listener' \in ListenerTypes
    BY <1>20 DEF Dispatch, ListenerTypes
  <2>2. process' \in {"up", "threw", "terminated", "undefined"}
    BY <1>20 DEF Dispatch
  <2> QED BY <1>20, <2>1, <2>2 DEF Dispatch, ListenerTypes
<1> QED BY <1>1, <1>2, <1>3, <1>4, <1>5, <1>6, <1>7, <1>8, <1>9, <1>10, <1>11, <1>12, <1>13,
           <1>14, <1>15, <1>16, <1>17, <1>18, <1>19, <1>20 DEF Next, Constructor

-----------------------------------------------------------------------------
(* What the threads' meeting leaves behind.  The member isServer is the
   argument once the constructor has returned, and then for good; a packet that
   was received after the return, or with its callback attached, finds it so
   when it is handled. *)
TestsInv == test.cipher /\ (test.fits => test.exchange)

StunInv ==
    /\ stun.of = "address" =>
            stun.text \in StunTexts /\ stun.address \in getPublicIPAddress(stun.text)
    /\ stun.of = "ports" =>
            stun.text \in StunTexts /\ stun.ports = getPortTranslation(stun.text)

ReturnedInv ==
    /\ phase = "returned" => isServer = server
    /\ listener.ready => phase = "returned"
    /\ listener.at = "dispatch" /\ listener.awaitACK /\ listener.ready =>
            listener.repliedTo = IF server THEN listener.from ELSE Address

AttachedInv ==
    /\ listener.attached =>
            threads /\ listener.kind \in Kinds /\ callbacks[listener.kind] = "attached"
    /\ AttachedIsCalled

StartupInv == TypeOK /\ UPnPInv /\ TestsInv /\ StunInv /\ ReturnedInv /\ AttachedInv

LEMMA InitInv == Init => StartupInv
<1> SUFFICES ASSUME Init PROVE StartupInv
  OBVIOUS
<1>1. TypeOK
  BY InitType
<1>2. UPnPInv
  BY UPnPInitInv DEF Init
<1>3. TestsInv
  BY DEF Init, TestsInv, Untested
<1>5. StunInv
  BY DEF Init, StunInv, NoOutput
<1>4. ReturnedInv /\ AttachedInv
  BY DEF Init, ReturnedInv, AttachedInv, AttachedIsCalled, NoPacket
<1> QED BY <1>1, <1>2, <1>3, <1>4, <1>5 DEF StartupInv

(* Only ForwardPort and PortForwarded touch what UPnPInv speaks of. *)
LEMMA UPnPNext ==
    ASSUME TypeOK, UPnPInv, Next
    PROVE  UPnPInv'
<1>1. CASE ForwardPort
  BY <1>1, UPnPStep DEF ForwardPort, TypeOK
<1>2. CASE PortForwarded
  BY <1>2 DEF PortForwarded, UPnPInv
<1>3. CASE UNCHANGED upnpVars
  BY <1>3 DEF upnpVars, UPnPInv
<1> QED
  BY <1>1, <1>2, <1>3 DEF Next, Constructor, TestCipher, TestExchange, GetPublicIPAddress, SetWhatAmI,
     GetPortTranslation, StartWinsock, BindSocket, HolePunch, StartThreads, SetPrivateKey,
     StartHandshake, SetIsServer, AttachBegin, AttachEnd, Destroy, ReceivePacket, SendACKReply,
     Dispatch, ctorVars

(* Both assertions of Test() hold whenever they are evaluated. *)
LEMMA TestsNext ==
    ASSUME TypeOK, TestsInv, Next
    PROVE  TestsInv'
<1>1. CASE TestCipher
  <2>1. PICK t \in CipherTests :
            test' = [test EXCEPT !.cipher = aes_decrypt(aes_encrypt(t.text, t.key), t.key) = t.text]
    BY <1>1 DEF TestCipher
  <2>2. t.key \in Block /\ t.text \in Seq(Block)
    BY SelfTestAssumption
  <2>3. aes_decrypt(aes_encrypt(t.text, t.key), t.key) = t.text
    BY <2>2, CipherRoundTrip
  <2> QED BY <2>1, <2>3 DEF TestsInv, TypeOK
<1>2. CASE TestExchange
  <2>1. PICK t \in ExchangeTests :
            \E aSide \in SideKeys(t.publicKey, t.bKey, t.aKey),
               bSide \in SideKeys(t.publicKey, t.aKey, t.bKey) :
                test' = [test EXCEPT !.exchange = (aSide = bSide),
                                     !.fits = t.aKey <= IntMax + 1 /\ t.bKey <= IntMax + 1]
    BY <1>2 DEF TestExchange
  <2>2. PICK aSide \in SideKeys(t.publicKey, t.bKey, t.aKey),
             bSide \in SideKeys(t.publicKey, t.aKey, t.bKey) :
                test' = [test EXCEPT !.exchange = (aSide = bSide),
                                     !.fits = t.aKey <= IntMax + 1 /\ t.bKey <= IntMax + 1]
    BY <2>1
  <2>3. t.publicKey \in Nat /\ t.aKey \in Nat /\ t.bKey \in Nat
    BY SelfTestAssumption
  <2>4. t.aKey <= IntMax + 1 /\ t.bKey <= IntMax + 1 => aSide = bSide
    BY <2>3, BothSidesAgree
  <2> QED BY <2>2, <2>4 DEF TestsInv, TypeOK
<1>3. CASE UNCHANGED test \/ test' = Untested
  BY <1>3 DEF TestsInv, Untested
<1> QED
  BY <1>1, <1>2, <1>3 DEF Next, Constructor, GetPublicIPAddress, SetWhatAmI, ForwardPort, PortForwarded,
     GetPortTranslation, StartWinsock, BindSocket, HolePunch, StartThreads, SetPrivateKey,
     StartHandshake, SetIsServer, AttachBegin, AttachEnd, Destroy, ReceivePacket, SendACKReply,
     Dispatch, ctorVars

(* A step keeps what ReturnedInv and AttachedInv speak of, but for SetIsServer,
   the start of the threads, the application's and the listener's steps. *)
LEMMA ListenerNext ==
    ASSUME TypeOK, ReturnedInv, AttachedInv, Next
    PROVE  ReturnedInv' /\ AttachedInv'
<1> USE DEF ReturnedInv, AttachedInv, AttachedIsCalled, TypeOK, Passes, Throws
<1>1. CASE SetIsServer
  BY <1>1 DEF SetIsServer
<1>2. CASE StartThreads
  BY <1>2 DEF StartThreads
<1>3. ASSUME NEW k \in Kinds, AttachBegin(k) \/ AttachEnd(k)
      PROVE  ReturnedInv' /\ AttachedInv'
  BY <1>3 DEF AttachBegin, AttachEnd
<1>4. CASE ReceivePacket
  <2>1. /\ listener'.at \in {"reply", "dispatch"} /\ listener'.awaitACK \in BOOLEAN
        /\ listener'.at = "dispatch" => ~listener'.awaitACK
    BY <1>4 DEF ReceivePacket, NoPacket
  <2>2. listener'.ready <=> phase = "returned"
    BY <1>4 DEF ReceivePacket, NoPacket
  <2>3. listener'.attached => listener'.kind \in Kinds /\ callbacks[listener'.kind] = "attached"
    BY <1>4 DEF ReceivePacket, NoPacket
  <2>4. threads /\ UNCHANGED <<phase, server, isServer, callbacks, threads>>
    BY <1>4 DEF ReceivePacket, ctorVars
  <2> QED BY <2>1, <2>2, <2>3, <2>4
<1>5. CASE SendACKReply
  <2>1. CASE UNCHANGED listener
    BY <1>5, <2>1 DEF SendACKReply
  <2>2. CASE listener' = [listener EXCEPT !.at = "dispatch",
                            !.repliedTo = IF isServer THEN listener.from ELSE Address]
    <3>1. /\ listener'.at = "dispatch" /\ listener'.ready = listener.ready
          /\ listener'.attached = listener.attached /\ listener'.kind = listener.kind
          /\ listener'.from = listener.from
          /\ listener'.repliedTo = IF isServer THEN listener.from ELSE Address
      BY <2>2
    <3> QED BY <1>5, <3>1 DEF SendACKReply
  <2> QED BY <1>5, <2>1, <2>2 DEF SendACKReply
<1>6. CASE Dispatch
  BY <1>6 DEF Dispatch
<1>7. CASE /\ UNCHANGED <<server, isServer, callbacks, listener, threads>>
           /\ phase # "returned" /\ phase' # "returned"
  BY <1>7
<1>8. CASE Destroy
  BY <1>8 DEF Destroy
<1> QED
  BY <1>1, <1>2, <1>3, <1>4, <1>5, <1>6, <1>7, <1>8 DEF Next, Constructor, TestCipher, TestExchange,
     GetPublicIPAddress, SetWhatAmI, ForwardPort, PortForwarded, GetPortTranslation, StartWinsock,
     BindSocket, HolePunch, SetPrivateKey, StartHandshake

(* What is remembered of an output is what the reader makes of it. *)
LEMMA StunNext ==
    ASSUME TypeOK, StunInv, Next
    PROVE  StunInv'
<1>1. CASE GetPublicIPAddress
  <2>1. CASE UNCHANGED stun
    BY <2>1 DEF StunInv
  <2>2. ASSUME NEW text \in StunTexts, NEW address \in AddressesRead[text],
               stun' = [NoOutput EXCEPT !.of = "address", !.text = text, !.address = address]
        PROVE  StunInv'
    <3>1. stun'.of = "address" /\ stun'.text = text /\ stun'.address = address
      BY <2>2 DEF NoOutput
    <3>2. AddressesRead[text] = getPublicIPAddress(text)
      BY DEF AddressesRead
    <3> QED BY <3>1, <3>2 DEF StunInv
  <2> QED BY <1>1, <2>1, <2>2 DEF GetPublicIPAddress
<1>2. CASE GetPortTranslation
  <2>1. CASE UNCHANGED stun
    BY <2>1 DEF StunInv
  <2>2. ASSUME NEW text \in StunTexts,
               stun' = [NoOutput EXCEPT !.of = "ports", !.text = text, !.ports = PortsRead[text]]
        PROVE  StunInv'
    <3>1. stun'.of = "ports" /\ stun'.text = text /\ stun'.ports = PortsRead[text]
      BY <2>2 DEF NoOutput
    <3>2. PortsRead[text] = getPortTranslation(text)
      BY DEF PortsRead
    <3> QED BY <3>1, <3>2 DEF StunInv
  <2> QED BY <1>2, <2>1, <2>2 DEF GetPortTranslation
<1>3. CASE UNCHANGED stun \/ stun' = NoOutput
  BY <1>3 DEF StunInv, NoOutput
<1> QED
  BY <1>1, <1>2, <1>3 DEF Next, Constructor, TestCipher, TestExchange, SetWhatAmI, ForwardPort,
     PortForwarded, StartWinsock, BindSocket, HolePunch, StartThreads, SetPrivateKey,
     StartHandshake, SetIsServer, AttachBegin, AttachEnd, Destroy, ReceivePacket, SendACKReply,
     Dispatch, ctorVars

LEMMA StartupInvariant == Spec => []StartupInv
<1>1. Init => StartupInv
  BY InitInv
<1>2. ASSUME StartupInv, [Next]_vars PROVE StartupInv'
  <2>1. CASE Next
    BY <1>2, <2>1, NextType, UPnPNext, TestsNext, StunNext, ListenerNext DEF StartupInv
  <2>2. CASE UNCHANGED vars
    <3>1. TypeOK' /\ UPnPInv'
      BY <1>2, <2>2 DEF StartupInv, vars, ctorVars, upnpVars, TypeOK, UPnPTypeOK, UPnPInv
    <3>2. TestsInv' /\ StunInv' /\ ReturnedInv' /\ AttachedInv'
      BY <1>2, <2>2 DEF StartupInv, vars, ctorVars, TestsInv, StunInv, ReturnedInv, AttachedInv,
         AttachedIsCalled
    <3> QED BY <3>1, <3>2 DEF StartupInv
  <2> QED BY <1>2, <2>1, <2>2
<1> QED BY <1>1, <1>2, PTL DEF Spec

-----------------------------------------------------------------------------
(* The type invariant of a process's start. *)
THEOREM TypeCorrect == Spec => []TypeOK
<1>1. StartupInv => TypeOK
  BY DEF StartupInv
<1> QED BY <1>1, StartupInvariant, PTL

(* In every start, whatever key and text the self test takes, aes_decrypt gives
   back what aes_encrypt was given. *)
THEOREM CipherAlwaysInverts == Spec => []CipherInverts
<1>1. StartupInv => CipherInverts
  BY DEF StartupInv, TestsInv, CipherInverts
<1> QED BY <1>1, StartupInvariant, PTL

(* ... and the two sides of the exchange agree, as long as the int counter of
   generateRuledKey reaches both keys. *)
THEOREM ExchangeAlwaysAgrees == Spec => []ExchangeAgrees
<1>1. StartupInv => ExchangeAgrees
  BY DEF StartupInv, TestsInv, ExchangeAgrees
<1> QED BY <1>1, StartupInvariant, PTL

(* The constructor reads every STUN output that holds a mapped address. *)
THEOREM MappedAddressAlwaysRead == Spec => []MappedAddressIsRead
<1>1. StartupInv => MappedAddressIsRead
  BY MappedAddressRead, StartupAssumption DEF StartupInv, StunInv, MappedAddressIsRead
<1> QED BY <1>1, StartupInvariant, PTL

(* Of every output with at most two addresses the constructor takes the two
   ports as 16 bits hold them, and 1 and 0 when one is missing or no int. *)
THEOREM PortsAlwaysOfTheAddresses == Spec => []PortsOfTheAddresses
<1>1. StartupInv => PortsOfTheAddresses
  BY PortsRight, StartupAssumption DEF StartupInv, StunInv, PortsOfTheAddresses
<1> QED BY <1>1, StartupInvariant, PTL

(* Whichever calls fail, for any number of adapters and gateways, no call of
   UPnPportForward goes through a NULL COM pointer, and a function that returns
   true has released what it obtained. *)
THEOREM AlwaysForwardsThroughObjects == Spec => []ForwardsThroughObjects
<1>1. StartupInv => ForwardsThroughObjects
  BY DEF StartupInv, UPnPInv, ForwardsThroughObjects
<1> QED BY <1>1, StartupInvariant, PTL

(* The garbage the listener may have read from isServer never reaches a reply
   to a packet that came after the constructor returned. *)
THEOREM RepliesAlwaysReachTheSender == Spec => []RepliesReachTheSender
<1>1. StartupInv => RepliesReachTheSender
  BY DEF StartupInv, ReturnedInv, RepliesReachTheSender
<1> QED BY <1>1, StartupInvariant, PTL

(* A callback that is attached when its packet arrives is called, and no other
   is. *)
THEOREM AttachedIsAlwaysCalled == Spec => []AttachedIsCalled
<1>1. StartupInv => AttachedIsCalled
  BY DEF StartupInv, AttachedInv
<1> QED BY <1>1, StartupInvariant, PTL
=============================================================================
