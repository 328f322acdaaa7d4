----------------------------- MODULE VectorLemmas -----------------------------
(***************************************************************************)
(* Lemmas about the vectors of MPInterfacer, for elements of any kind:     *)
(* push_back and erase, the endpoint table, and the loops over them.       *)
(*                                                                         *)
(* A loop is written as a function f[k \in 0 .. n] of what the iteration  *)
(* before left.  That such a function exists and satisfies its equations,  *)
(* and that an invariant of the iterations holds after all of them, comes  *)
(* from the well-foundedness of the less-than relation, stated with sets   *)
(* and functions in place of operator parameters.                          *)
(***************************************************************************)
EXTENDS Integers, SequencesExt, EndpointTable, WellFoundedInduction, TLAPS

(* A set of numbers that holds 0, and with a number the next one, holds all. *)
LEMMA Induction ==
    ASSUME NEW T, 0 \in T, \A n \in Nat : n \in T => n + 1 \in T
    PROVE  \A n \in Nat : n \in T
<1> DEFINE Missing == {n \in Nat : n \notin T}
<1> SUFFICES ASSUME Missing # {} PROVE FALSE
  OBVIOUS
<1>1. PICK m \in Missing : \A k \in Missing : ~ (<<k, m>> \in OpToRel(<, Nat))
  <2>1. Missing \subseteq Nat
    OBVIOUS
  <2> HIDE DEF Missing
  <2> QED BY <2>1, WFMin, NatLessThanWellFounded
<1>2. m \in Nat /\ m # 0
  OBVIOUS
<1>3. m - 1 \in Nat /\ m - 1 < m /\ (m - 1) + 1 = m
  BY <1>2
<1>4. <<m - 1, m>> \in OpToRel(<, Nat)
  BY <1>2, <1>3 DEF OpToRel
<1>5. m - 1 \in T
  BY <1>1, <1>3, <1>4
<1> QED BY <1>3, <1>5

(* A set of numbers that is not empty has a least one. *)
LEMMA LeastExists ==
    ASSUME NEW T, T \subseteq Nat, T # {}
    PROVE  \E i \in T : \A j \in T : i <= j
<1>1. PICK m \in T : \A k \in T : ~ (<<k, m>> \in OpToRel(<, Nat))
  BY NatLessThanWellFounded, WFMin
<1>2. \A k \in T : ~ (k < m)
  BY <1>1 DEF OpToRel
<1> QED BY <1>2

(* The functions that start from base and hold, at i, what step makes of i and
   of what they hold at i - 1. *)
Iterations(S, base, step, n) ==
    {f \in [0 .. n -> S] : f[0] = base /\ \A i \in 1 .. n : f[i] = step[<<i, f[i - 1]>>]}

(* There is one, whatever step does. *)
LEMMA Iterates ==
    ASSUME NEW S, NEW base \in S, NEW step \in [(Nat \X S) -> S], NEW n \in Nat
    PROVE  Iterations(S, base, step, n) # {}
<1> DEFINE P(f, m) == f[0] = base /\ \A i \in 1 .. m : f[i] = step[<<i, f[i - 1]>>]
           T == {m \in Nat : \E f \in [0 .. m -> S] : P(f, m)}
<1>1. 0 \in T
  <2>1. [i \in 0 .. 0 |-> base] \in [0 .. 0 -> S] /\ P([i \in 0 .. 0 |-> base], 0)
    OBVIOUS
  <2> QED BY <2>1
<1>2. ASSUME NEW m \in Nat, m \in T PROVE m + 1 \in T
  <2>1. PICK f \in [0 .. m -> S] : P(f, m)
    BY <1>2
  <2> DEFINE g == [i \in 0 .. m + 1 |-> IF i <= m THEN f[i] ELSE step[<<m + 1, f[m]>>]]
  <2>2. g \in [0 .. m + 1 -> S]
    OBVIOUS
  <2>3. g[0] = base
    BY <2>1
  <2>4. ASSUME NEW i \in 1 .. m + 1 PROVE g[i] = step[<<i, g[i - 1]>>]
    <3>1. CASE i <= m
      <4>1. i \in 1 .. m /\ i - 1 \in 0 .. m + 1 /\ i - 1 <= m /\ i \in 0 .. m + 1
        BY <3>1
      <4>2. g[i] = f[i] /\ g[i - 1] = f[i - 1]
        BY <4>1
      <4> QED BY <2>1, <4>1, <4>2
    <3>2. CASE i = m + 1
      <4>1. i - 1 = m /\ m \in 0 .. m + 1 /\ m <= m /\ ~(i <= m) /\ i \in 0 .. m + 1
        BY <3>2
      <4>2. g[i] = step[<<m + 1, f[m]>>] /\ g[i - 1] = f[m]
        BY <4>1
      <4> QED BY <3>2, <4>2
    <3> QED BY <3>1, <3>2
  <2>5. P(g, m + 1)
    BY <2>3, <2>4
  <2> HIDE DEF g
  <2> QED BY <2>2, <2>5
<1> HIDE DEF T
<1>3. n \in T
  BY <1>1, <1>2, Induction
<1> QED BY <1>3 DEF T, Iterations

-----------------------------------------------------------------------------
(* An element of a vector has the elements' type. *)
LEMMA ElementType ==
    ASSUME NEW S, NEW s \in Seq(S), NEW k \in DOMAIN s
    PROVE  s[k] \in S
OBVIOUS

(* A vector of a type is one of every wider type. *)
LEMMA WiderType ==
    ASSUME NEW S, NEW T, S \subseteq T, NEW s \in Seq(S)
    PROVE  s \in Seq(T)
<1>1. DOMAIN s = 1 .. Len(s) /\ Len(s) \in Nat /\ s = [k \in 1 .. Len(s) |-> s[k]]
  OBVIOUS
<1>2. \A k \in 1 .. Len(s) : s[k] \in T
  OBVIOUS
<1> QED BY <1>1, <1>2

(* Assigning to an element of a vector keeps the others. *)
LEMMA UpdateKeeps ==
    ASSUME NEW S, NEW s \in Seq(S), NEW n \in DOMAIN s, NEW v \in S
    PROVE  /\ [s EXCEPT ![n] = v] \in Seq(S)
           /\ DOMAIN [s EXCEPT ![n] = v] = DOMAIN s /\ Len([s EXCEPT ![n] = v]) = Len(s)
           /\ \A k \in DOMAIN s : [s EXCEPT ![n] = v][k] = IF k = n THEN v ELSE s[k]
<1>1. DOMAIN s = 1 .. Len(s) /\ Len(s) \in Nat
  OBVIOUS
<1> DEFINE r == [s EXCEPT ![n] = v]
<1>2. r = [k \in 1 .. Len(s) |-> IF k = n THEN v ELSE s[k]]
  BY <1>1
<1>3. \A k \in 1 .. Len(s) : (IF k = n THEN v ELSE s[k]) \in S
  OBVIOUS
<1>4. r \in Seq(S) /\ DOMAIN r = 1 .. Len(s) /\ Len(r) = Len(s)
  BY <1>1, <1>2, <1>3
<1> QED BY <1>1, <1>2, <1>4

(* An entry of Append(s, e) is an entry of s or e. *)
LEMMA AppendEntries ==
    ASSUME NEW S, NEW s \in Seq(S), NEW e \in S
    PROVE  /\ Append(s, e) \in Seq(S) /\ Len(s) + 1 \notin DOMAIN s
           /\ DOMAIN Append(s, e) = DOMAIN s \cup {Len(s) + 1}
           /\ Append(s, e)[Len(s) + 1] = e
           /\ \A k \in DOMAIN s : Append(s, e)[k] = s[k]
<1>1. /\ DOMAIN s = 1 .. Len(s) /\ Len(s) \in Nat
      /\ DOMAIN Append(s, e) = 1 .. Len(s) + 1
      /\ Append(s, e)[Len(s) + 1] = e
      /\ \A k \in 1 .. Len(s) : Append(s, e)[k] = s[k]
  OBVIOUS
<1>2. 1 .. Len(s) + 1 = (1 .. Len(s)) \cup {Len(s) + 1} /\ Len(s) + 1 \notin 1 .. Len(s)
  BY <1>1
<1> QED BY <1>1, <1>2

(* What push_back makes of a vector, in order, and of an empty one. *)
LEMMA AppendElements ==
    ASSUME NEW S, NEW s \in Seq(S), NEW e \in S
    PROVE  /\ Append(s, e) \in Seq(S) /\ Len(Append(s, e)) = Len(s) + 1
           /\ \A i \in 1 .. Len(s) + 1 : Append(s, e)[i] = IF i = Len(s) + 1 THEN e ELSE s[i]
OBVIOUS

LEMMA FirstElement ==
    ASSUME NEW S, NEW e \in S
    PROVE  /\ Append(<<>>, e) \in Seq(S) /\ Len(Append(<<>>, e)) = 1
           /\ Append(<<>>, e)[1] = e
<1>1. <<>> \in Seq(S) /\ Len(<<>>) = 0
  OBVIOUS
<1> QED BY <1>1

(* RemoveAt(s, i) is s without its i-th element (vector::erase). *)
LEMMA RemoveAtKeeps ==
    ASSUME NEW S, NEW s \in Seq(S), NEW i \in 1 .. Len(s)
    PROVE  /\ RemoveAt(s, i) \in Seq(S)
           /\ Len(RemoveAt(s, i)) = Len(s) - 1
           /\ \A k \in 1 .. Len(s) - 1 :
                RemoveAt(s, i)[k] = IF k < i THEN s[k] ELSE s[k + 1]
<1> DEFINE front == SubSeq(s, 1, i - 1)
           back == SubSeq(s, i + 1, Len(s))
<1>1. front \in Seq(S) /\ Len(front) = i - 1 /\ \A k \in 1 .. i - 1 : front[k] = s[k]
  OBVIOUS
<1>2. back \in Seq(S) /\ Len(back) = Len(s) - i /\ \A k \in 1 .. Len(s) - i : back[k] = s[i + k]
  OBVIOUS
<1>3. RemoveAt(s, i) = front \o back
  BY DEF RemoveAt
<1> HIDE DEF front, back
<1>4. front \o back \in Seq(S) /\ Len(front \o back) = Len(s) - 1
  BY <1>1, <1>2
<1>5. ASSUME NEW k \in 1 .. Len(s) - 1
      PROVE  (front \o back)[k] = IF k < i THEN s[k] ELSE s[k + 1]
  <2>1. CASE k < i
    BY <2>1, <1>1, <1>2
  <2>2. CASE ~(k < i)
    <3>1. (front \o back)[k] = back[k - (i - 1)]
      BY <2>2, <1>1, <1>2
    <3>2. k - (i - 1) \in 1 .. Len(s) - i /\ i + (k - (i - 1)) = k + 1
      BY <2>2
    <3> QED BY <3>1, <3>2, <2>2, <1>2
  <2> QED BY <2>1, <2>2
<1> QED BY <1>3, <1>4, <1>5

(* An erase takes out one entry. *)
LEMMA EraseKeepsOthers ==
    ASSUME NEW S, NEW s \in Seq(S), NEW i \in 1 .. Len(s), NEW k \in DOMAIN s, k # i
    PROVE  \E j \in DOMAIN RemoveAt(s, i) : RemoveAt(s, i)[j] = s[k]
<1>1. /\ RemoveAt(s, i) \in Seq(S)
      /\ Len(RemoveAt(s, i)) = Len(s) - 1
      /\ \A j \in 1 .. Len(s) - 1 : RemoveAt(s, i)[j] = IF j < i THEN s[j] ELSE s[j + 1]
  BY RemoveAtKeeps
<1>2. DOMAIN RemoveAt(s, i) = 1 .. Len(s) - 1
  BY <1>1
<1>3. k \in 1 .. Len(s)
  OBVIOUS
<1>4. CASE k < i
  BY <1>1, <1>2, <1>3, <1>4
<1>5. CASE k > i
  <2>1. k - 1 \in 1 .. Len(s) - 1 /\ ~(k - 1 < i) /\ (k - 1) + 1 = k
    BY <1>3, <1>5
  <2> QED BY <1>1, <1>2, <2>1
<1> QED BY <1>3, <1>4, <1>5

-----------------------------------------------------------------------------
(* With an entry of e's address, every such entry becomes e ... *)
LEMMA RegisteredReplaces ==
    ASSUME NEW S, NEW eps \in Seq(S), NEW e \in S,
           \E k \in DOMAIN eps : eps[k].addr = e.addr
    PROVE  /\ Registered(eps, e) \in Seq(S)
           /\ DOMAIN Registered(eps, e) = DOMAIN eps
           /\ \A k \in DOMAIN eps :
                Registered(eps, e)[k] = IF eps[k].addr = e.addr THEN e ELSE eps[k]
<1>1. DOMAIN eps = 1 .. Len(eps) /\ Len(eps) \in Nat
  OBVIOUS
<1>2. Registered(eps, e) =
          [k \in 1 .. Len(eps) |-> IF eps[k].addr = e.addr THEN e ELSE eps[k]]
  BY <1>1 DEF Registered
<1>3. \A k \in 1 .. Len(eps) : (IF eps[k].addr = e.addr THEN e ELSE eps[k]) \in S
  OBVIOUS
<1>4. Registered(eps, e) \in Seq(S) /\ DOMAIN Registered(eps, e) = 1 .. Len(eps)
  BY <1>1, <1>2, <1>3
<1> QED BY <1>1, <1>2, <1>4

(* ... and with none e is added behind them all. *)
LEMMA RegisteredAppends ==
    ASSUME NEW S, NEW eps \in Seq(S), NEW e \in S,
           ~ \E k \in DOMAIN eps : eps[k].addr = e.addr
    PROVE  Registered(eps, e) = Append(eps, e)
BY DEF Registered

(* Either way the result is a list of old entries and e ... *)
LEMMA RegisteredEntries ==
    ASSUME NEW S, NEW eps \in Seq(S), NEW e \in S
    PROVE  /\ Registered(eps, e) \in Seq(S)
           /\ \A k \in DOMAIN Registered(eps, e) :
                \/ Registered(eps, e)[k] = e
                \/ k \in DOMAIN eps /\ Registered(eps, e)[k] = eps[k]
<1>1. CASE \E k \in DOMAIN eps : eps[k].addr = e.addr
  BY <1>1, RegisteredReplaces
<1>2. CASE ~ \E k \in DOMAIN eps : eps[k].addr = e.addr
  <2>1. Registered(eps, e) = Append(eps, e)
    BY <1>2, RegisteredAppends
  <2>2. /\ Registered(eps, e) \in Seq(S)
        /\ DOMAIN Registered(eps, e) = DOMAIN eps \cup {Len(eps) + 1}
        /\ Registered(eps, e)[Len(eps) + 1] = e
        /\ \A i \in DOMAIN eps : Registered(eps, e)[i] = eps[i]
    BY <2>1, AppendEntries
  <2> QED BY <2>2
<1> QED BY <1>1, <1>2

(* ... with one entry per address, if there was one before. *)
LEMMA RegisteredUnique ==
    ASSUME NEW S, NEW eps \in Seq(S), NEW e \in S,
           \A j, k \in DOMAIN eps : eps[j].addr = eps[k].addr => j = k,
           NEW j \in DOMAIN Registered(eps, e), NEW k \in DOMAIN Registered(eps, e),
           Registered(eps, e)[j].addr = Registered(eps, e)[k].addr
    PROVE  j = k
<1>1. CASE \E i \in DOMAIN eps : eps[i].addr = e.addr
  <2>1. /\ DOMAIN Registered(eps, e) = DOMAIN eps
        /\ \A i \in DOMAIN eps :
             Registered(eps, e)[i] = IF eps[i].addr = e.addr THEN e ELSE eps[i]
    BY <1>1, RegisteredReplaces
  <2> QED BY <2>1
<1>2. CASE ~ \E i \in DOMAIN eps : eps[i].addr = e.addr
  <2>1. Registered(eps, e) = Append(eps, e)
    BY <1>2, RegisteredAppends
  <2>2. /\ DOMAIN Registered(eps, e) = DOMAIN eps \cup {Len(eps) + 1}
        /\ Registered(eps, e)[Len(eps) + 1] = e
        /\ \A i \in DOMAIN eps : Registered(eps, e)[i] = eps[i]
    BY <2>1, AppendEntries
  <2> QED BY <1>2, <2>2
<1> QED BY <1>1, <1>2

(* Registering an endpoint keeps every entry of another address in its place,
   and the address of every entry. *)
LEMMA RegisteredKeeps ==
    ASSUME NEW S, NEW eps \in Seq(S), NEW e \in S, NEW k \in DOMAIN eps
    PROVE  /\ k \in DOMAIN Registered(eps, e)
           /\ \/ Registered(eps, e)[k] = eps[k]
              \/ eps[k].addr = e.addr /\ Registered(eps, e)[k].addr = e.addr
<1>1. CASE \E j \in DOMAIN eps : eps[j].addr = e.addr
  BY <1>1, RegisteredReplaces
<1>2. CASE ~ \E j \in DOMAIN eps : eps[j].addr = e.addr
  <2>1. Registered(eps, e) = Append(eps, e)
    BY <1>2, RegisteredAppends
  <2>2. /\ DOMAIN Registered(eps, e) = DOMAIN eps \cup {Len(eps) + 1}
        /\ \A j \in DOMAIN eps : Registered(eps, e)[j] = eps[j]
    BY <2>1, AppendEntries
  <2> QED BY <2>2, Zenon
<1> QED BY <1>1, <1>2
=============================================================================
