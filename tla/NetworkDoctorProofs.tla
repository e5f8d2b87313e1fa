------------------------ MODULE NetworkDoctorProofs ------------------------
(***************************************************************************)
(* Proofs about NetworkDoctor: for any sources, endpoints and routes.      *)
(***************************************************************************)
EXTENDS NetworkDoctor, TLAPS, FiniteSetTheorems, SequenceTheorems, WellFoundedInduction

-----------------------------------------------------------------------------
(* Sequences.                                                              *)

(* A nonempty set of natural numbers has a least member. *)
LEMMA LeastNumber ==
    ASSUME NEW T, T \subseteq Nat, T # {}
    PROVE  \E m \in T : \A k \in T : m <= k
<1> DEFINE Less == OpToRel(<, Nat)
<1>1. IsWellFoundedOn(Less, Nat)
    BY NatLessThanWellFounded
<1>2. \A k, m \in Nat : k < m => <<k, m>> \in Less
    BY DEF OpToRel
<1> HIDE DEF Less
<1>3. PICK m \in T : \A k \in T : ~(<<k, m>> \in Less)
    BY <1>1, WFMin
<1>4. \A k \in T : ~(k < m)
    BY <1>2, <1>3
<1> QED
    BY <1>4

LEMMA AppendToSet ==
    ASSUME NEW s, s \in Seq(ToSet(s)), NEW x
    PROVE  /\ Append(s, x) \in Seq(ToSet(Append(s, x)))
           /\ ToSet(Append(s, x)) = ToSet(s) \cup {x}
           /\ Len(Append(s, x)) = Len(s) + 1
           /\ \A i \in 1 .. Len(s) : Append(s, x)[i] = s[i]
           /\ Append(s, x)[Len(s) + 1] = x
<1> DEFINE S == ToSet(s) \cup {x}
<1>1. s \in Seq(S) /\ x \in S
  <2>1. ToSet(s) \subseteq S
      OBVIOUS
  <2> QED
      BY <2>1
<1> HIDE DEF S
<1>2. /\ Append(s, x) \in Seq(S)
      /\ Len(Append(s, x)) = Len(s) + 1
      /\ \A i \in 1 .. Len(s) : Append(s, x)[i] = s[i]
      /\ Append(s, x)[Len(s) + 1] = x
    BY <1>1, AppendProperties
<1>3. DOMAIN s = 1 .. Len(s) /\ DOMAIN Append(s, x) = 1 .. (Len(s) + 1) /\ Len(s) \in Nat
    BY <1>1, <1>2
<1>4. ToSet(Append(s, x)) = ToSet(s) \cup {x}
    BY <1>2, <1>3 DEF ToSet
<1> QED
    BY <1>2, <1>4 DEF S

LEMMA ConcatToSet ==
    ASSUME NEW s, NEW t, s \in Seq(ToSet(s)), t \in Seq(ToSet(t))
    PROVE  /\ s \o t \in Seq(ToSet(s \o t))
           /\ ToSet(s \o t) = ToSet(s) \cup ToSet(t)
<1> DEFINE S == ToSet(s) \cup ToSet(t)
<1>1. s \in Seq(S) /\ t \in Seq(S)
  <2>1. ToSet(s) \subseteq S /\ ToSet(t) \subseteq S
      OBVIOUS
  <2> QED
      BY <2>1
<1> HIDE DEF S
<1>2. /\ s \o t \in Seq(S)
      /\ Len(s \o t) = Len(s) + Len(t)
      /\ \A i \in 1 .. Len(s) + Len(t) : (s \o t)[i] = IF i <= Len(s) THEN s[i] ELSE t[i - Len(s)]
    BY <1>1, ConcatProperties
<1>3. /\ DOMAIN s = 1 .. Len(s) /\ DOMAIN t = 1 .. Len(t) /\ Len(s) \in Nat /\ Len(t) \in Nat
      /\ DOMAIN (s \o t) = 1 .. (Len(s) + Len(t))
    BY <1>1, <1>2
<1>4. ASSUME NEW i \in DOMAIN (s \o t) PROVE (s \o t)[i] \in ToSet(s) \cup ToSet(t)
  <2>1. CASE i <= Len(s)
    <3>1. i \in DOMAIN s /\ (s \o t)[i] = s[i]
        BY <2>1, <1>2, <1>3
    <3> QED
        BY <3>1 DEF ToSet
  <2>2. CASE ~(i <= Len(s))
    <3>1. i - Len(s) \in DOMAIN t /\ (s \o t)[i] = t[i - Len(s)]
        BY <2>2, <1>2, <1>3
    <3> QED
        BY <3>1 DEF ToSet
  <2> QED
      BY <2>1, <2>2
<1>5. ASSUME NEW i \in DOMAIN s PROVE s[i] \in ToSet(s \o t)
  <2>1. i \in DOMAIN (s \o t) /\ (s \o t)[i] = s[i]
      BY <1>2, <1>3
  <2> QED
      BY <2>1 DEF ToSet
<1>6. ASSUME NEW i \in DOMAIN t PROVE t[i] \in ToSet(s \o t)
  <2>1. i + Len(s) \in DOMAIN (s \o t) /\ (s \o t)[i + Len(s)] = t[i]
      BY <1>2, <1>3
  <2> QED
      BY <2>1 DEF ToSet
<1>7. ToSet(s \o t) = ToSet(s) \cup ToSet(t)
  <2>1. \A x : x \in ToSet(s \o t) => x \in ToSet(s) \cup ToSet(t)
      BY <1>4 DEF ToSet
  <2>2. \A x : x \in ToSet(s) \cup ToSet(t) => x \in ToSet(s \o t)
    <3>1. \A x \in ToSet(s) : x \in ToSet(s \o t)
        BY <1>5 DEF ToSet
    <3>2. \A x \in ToSet(t) : x \in ToSet(s \o t)
        BY <1>6 DEF ToSet
    <3> QED
        BY <3>1, <3>2
  <2> QED
      BY <2>1, <2>2
<1> QED
    BY <1>2, <1>7 DEF S

(* The recursive definition of flattening has a solution. *)
LEMMA FlattenEquation ==
    ASSUME NEW ss, NEW N \in Nat
    PROVE  \E f : f = [i \in 1 .. N |-> IF i = 1 THEN ss[i] ELSE f[i - 1] \o ss[i]]
<1> DEFINE Solves(f, n) == f = [i \in 1 .. n |-> IF i = 1 THEN ss[i] ELSE f[i - 1] \o ss[i]]
           T == {n \in Nat : ~\E f : Solves(f, n)}
<1>1. \E f : Solves(f, 0)
  <2>1. Solves([i \in 1 .. 0 |-> ss[i]], 0)
      OBVIOUS
  <2> QED
      BY <2>1
<1>2. ASSUME NEW n \in Nat, NEW f, Solves(f, n)
      PROVE  \E g : Solves(g, n + 1)
  <2> DEFINE g == [i \in 1 .. (n + 1) |-> IF i = 1 THEN ss[i] ELSE f[i - 1] \o ss[i]]
  <2>1. ASSUME NEW i \in 1 .. n PROVE g[i] = f[i]
    <3>1. f[i] = IF i = 1 THEN ss[i] ELSE f[i - 1] \o ss[i]
        BY <1>2
    <3>2. i \in 1 .. (n + 1)
        OBVIOUS
    <3> QED
        BY <3>1, <3>2
  <2>2. ASSUME NEW i \in 1 .. (n + 1)
        PROVE  g[i] = IF i = 1 THEN ss[i] ELSE g[i - 1] \o ss[i]
    <3>1. g[i] = IF i = 1 THEN ss[i] ELSE f[i - 1] \o ss[i]
        OBVIOUS
    <3>2. i # 1 => i - 1 \in 1 .. n
        OBVIOUS
    <3> HIDE DEF g
    <3>3. i # 1 => g[i - 1] = f[i - 1]
        BY <2>1, <3>2
    <3> QED
        BY <3>1, <3>3
  <2>3. g = [i \in 1 .. (n + 1) |-> g[i]]
      OBVIOUS
  <2>4. Solves(g, n + 1)
    <3> HIDE DEF g
    <3> QED
      BY <2>2, <2>3
  <2> QED
      BY <2>4
<1>3. T = {}
  <2> SUFFICES ASSUME T # {} PROVE FALSE
      OBVIOUS
  <2> HIDE DEF Solves
  <2>1. PICK m \in T : \A k \in T : m <= k
      BY LeastNumber
  <2>2. m # 0
      BY <1>1
  <2>3. m \in Nat /\ m - 1 \in Nat /\ m - 1 \notin T
      BY <2>1, <2>2
  <2>4. PICK f : Solves(f, m - 1)
      BY <2>3
  <2>5. \E g : Solves(g, (m - 1) + 1)
      BY <1>2, <2>3, <2>4
  <2> QED
      BY <2>5, <2>3
<1> QED
    BY <1>3

(* FlattenSeq has the members of all its sequences. *)
LEMMA FlattenIsUnion ==
    ASSUME NEW ss, NEW N \in Nat, DOMAIN ss = 1 .. N, ss \in Seq(ToSet(ss)),
           \A i \in 1 .. N : ss[i] \in Seq(ToSet(ss[i]))
    PROVE  /\ FlattenSeq(ss) \in Seq(ToSet(FlattenSeq(ss)))
           /\ ToSet(FlattenSeq(ss)) = UNION {ToSet(ss[i]) : i \in 1 .. N}
<1>1. Len(ss) = N
    OBVIOUS
<1>2. CASE N = 0
  <2>1. ss = <<>> /\ FlattenSeq(ss) = ss
      BY <1>1, <1>2, EmptySeq DEF FlattenSeq
  <2>2. ToSet(<<>>) = {} /\ <<>> \in Seq({})
      BY DEF ToSet
  <2>3. UNION {ToSet(ss[i]) : i \in 1 .. N} = {}
      BY <1>2
  <2> QED
      BY <2>1, <2>2, <2>3
<1>3. CASE N # 0
  <2> DEFINE flat == CHOOSE f : f = [i \in 1 .. N |-> IF i = 1 THEN ss[i] ELSE f[i - 1] \o ss[i]]
  <2>1. flat = [i \in 1 .. N |-> IF i = 1 THEN ss[i] ELSE flat[i - 1] \o ss[i]]
      BY FlattenEquation
  <2>2. FlattenSeq(ss) = flat[N]
      BY <1>1, <1>3 DEF FlattenSeq
  <2> HIDE DEF flat
  <2> DEFINE Right(n) == /\ flat[n] \in Seq(ToSet(flat[n]))
                         /\ ToSet(flat[n]) = UNION {ToSet(ss[i]) : i \in 1 .. n}
             T == {n \in 1 .. N : ~Right(n)}
  <2>3. Right(1)
    <3>1. flat[1] = ss[1] /\ 1 \in 1 .. N
        BY <2>1, <1>3
    <3>2. 1 .. 1 = {1}
        OBVIOUS
    <3> QED
        BY <3>1, <3>2
  <2>4. ASSUME NEW n \in 1 .. N, n # 1, Right(n - 1) PROVE Right(n)
    <3>1. flat[n] = flat[n - 1] \o ss[n]
        BY <2>1, <2>4
    <3>2. /\ flat[n - 1] \o ss[n] \in Seq(ToSet(flat[n - 1] \o ss[n]))
          /\ ToSet(flat[n - 1] \o ss[n]) = ToSet(flat[n - 1]) \cup ToSet(ss[n])
        BY <2>4, ConcatToSet
    <3>3. 1 .. n = (1 .. (n - 1)) \cup {n}
        BY <2>4
    <3>4. UNION {ToSet(ss[i]) : i \in 1 .. n} = (UNION {ToSet(ss[i]) : i \in 1 .. (n - 1)}) \cup ToSet(ss[n])
        BY <3>3
    <3> QED
        BY <3>1, <3>2, <3>4, <2>4
  <2>5. T = {}
    <3> SUFFICES ASSUME T # {} PROVE FALSE
        OBVIOUS
    <3> HIDE DEF Right
    <3>1. T \subseteq Nat
        OBVIOUS
    <3>2. PICK m \in T : \A k \in T : m <= k
        BY <3>1, LeastNumber
    <3>3. m # 1 /\ m \in 1 .. N
        BY <3>2, <2>3
    <3>4. m - 1 \in 1 .. N /\ m - 1 \notin T
        BY <3>2, <3>3
    <3> QED
        BY <3>3, <3>4, <2>4
  <2>6. Right(N)
    <3> HIDE DEF Right
    <3> QED
      BY <2>5, <1>3
  <2> QED
      BY <2>6, <2>2
<1> QED
    BY <1>2, <1>3

(* So has that of adding what is not there. *)
LEMMA AddEachEquation ==
    ASSUME NEW list, Len(list) \in Nat
    PROVE  AddEach(list) = [n \in 0 .. Len(list) |->
                              IF n = 0 THEN <<>> ELSE AddOnce(AddEach(list)[n - 1], list[n])]
<1> DEFINE Solves(f, k) == f = [n \in 0 .. k |-> IF n = 0 THEN <<>> ELSE AddOnce(f[n - 1], list[n])]
           T == {n \in Nat : ~\E f : Solves(f, n)}
<1>1. \E f : Solves(f, 0)
  <2>1. Solves([n \in 0 .. 0 |-> <<>>], 0)
      OBVIOUS
  <2> QED
      BY <2>1
<1>2. ASSUME NEW k \in Nat, NEW f, Solves(f, k)
      PROVE  \E g : Solves(g, k + 1)
  <2> DEFINE g == [n \in 0 .. (k + 1) |-> IF n = 0 THEN <<>> ELSE AddOnce(f[n - 1], list[n])]
  <2>1. ASSUME NEW n \in 0 .. k PROVE g[n] = f[n]
    <3>1. f[n] = IF n = 0 THEN <<>> ELSE AddOnce(f[n - 1], list[n])
        BY <1>2
    <3>2. n \in 0 .. (k + 1)
        OBVIOUS
    <3> QED
        BY <3>1, <3>2
  <2>2. ASSUME NEW n \in 0 .. (k + 1)
        PROVE  g[n] = IF n = 0 THEN <<>> ELSE AddOnce(g[n - 1], list[n])
    <3>1. g[n] = IF n = 0 THEN <<>> ELSE AddOnce(f[n - 1], list[n])
        OBVIOUS
    <3>2. n # 0 => n - 1 \in 0 .. k
        OBVIOUS
    <3> HIDE DEF g
    <3>3. n # 0 => g[n - 1] = f[n - 1]
        BY <2>1, <3>2
    <3> QED
        BY <3>1, <3>3
  <2>3. g = [n \in 0 .. (k + 1) |-> g[n]]
      OBVIOUS
  <2>4. Solves(g, k + 1)
    <3> HIDE DEF g
    <3> QED
      BY <2>2, <2>3
  <2> QED
      BY <2>4
<1>3. T = {}
  <2> SUFFICES ASSUME T # {} PROVE FALSE
      OBVIOUS
  <2> HIDE DEF Solves
  <2>1. PICK m \in T : \A k \in T : m <= k
      BY LeastNumber
  <2>2. m # 0
      BY <1>1
  <2>3. m \in Nat /\ m - 1 \in Nat /\ m - 1 \notin T
      BY <2>1, <2>2
  <2>4. PICK f : Solves(f, m - 1)
      BY <2>3
  <2>5. \E g : Solves(g, (m - 1) + 1)
      BY <1>2, <2>3, <2>4
  <2> QED
      BY <2>5, <2>3
<1>4. \E f : f = [n \in 0 .. Len(list) |-> IF n = 0 THEN <<>> ELSE AddOnce(f[n - 1], list[n])]
    BY <1>3
<1> QED
    BY <1>4 DEF AddEach

(* Distinct members, in a sequence. *)
Distinct(s) == /\ s \in Seq(ToSet(s))
               /\ \A i, j \in 1 .. Len(s) : s[i] = s[j] => i = j

LEMMA AddOnceDistinct ==
    ASSUME NEW s, Distinct(s), NEW x
    PROVE  Distinct(AddOnce(s, x)) /\ ToSet(AddOnce(s, x)) = ToSet(s) \cup {x}
<1>1. CASE x \in ToSet(s)
    BY <1>1 DEF AddOnce
<1>2. CASE x \notin ToSet(s)
  <2>1. /\ AddOnce(s, x) \in Seq(ToSet(AddOnce(s, x)))
        /\ ToSet(AddOnce(s, x)) = ToSet(s) \cup {x}
        /\ Len(AddOnce(s, x)) = Len(s) + 1
        /\ \A i \in 1 .. Len(s) : AddOnce(s, x)[i] = s[i]
        /\ AddOnce(s, x)[Len(s) + 1] = x
      BY <1>2, AppendToSet DEF AddOnce, Distinct
  <2>2. DOMAIN s = 1 .. Len(s) /\ Len(s) \in Nat
      BY DEF Distinct
  <2>3. \A i \in 1 .. Len(s) : s[i] # x
      BY <1>2, <2>2 DEF ToSet
  <2>4. \A i \in 1 .. (Len(s) + 1) : i \in 1 .. Len(s) \/ i = Len(s) + 1
      BY <2>2
  <2>5. \A i, j \in 1 .. Len(AddOnce(s, x)) : AddOnce(s, x)[i] = AddOnce(s, x)[j] => i = j
      BY <2>1, <2>3, <2>4 DEF Distinct
  <2> QED
      BY <2>1, <2>5 DEF Distinct
<1> QED
    BY <1>1, <1>2

(* Every check of the list is there, once. *)
LEMMA AddEachDistinct ==
    ASSUME NEW list, list \in Seq(ToSet(list))
    PROVE  /\ Distinct(AddEach(list)[Len(list)])
           /\ ToSet(AddEach(list)[Len(list)]) = ToSet(list)
<1> DEFINE N == Len(list)
           added == AddEach(list)
<1>1. N \in Nat /\ DOMAIN list = 1 .. N
    OBVIOUS
<1>2. added = [n \in 0 .. N |-> IF n = 0 THEN <<>> ELSE AddOnce(added[n - 1], list[n])]
    BY <1>1, AddEachEquation
<1> HIDE DEF added, N
<1> DEFINE Right(n) == Distinct(added[n]) /\ ToSet(added[n]) = {list[i] : i \in 1 .. n}
           T == {n \in 0 .. N : ~Right(n)}
<1>3. Right(0)
  <2>1. added[0] = <<>>
      BY <1>1, <1>2
  <2>2. <<>> \in Seq({}) /\ Len(<<>>) = 0 /\ ToSet(<<>>) = {}
      BY DEF ToSet
  <2>3. {list[i] : i \in 1 .. 0} = {}
      OBVIOUS
  <2> QED
      BY <2>1, <2>2, <2>3 DEF Distinct
<1>4. ASSUME NEW n \in 1 .. N, Right(n - 1) PROVE Right(n)
  <2>1. added[n] = AddOnce(added[n - 1], list[n])
      BY <1>1, <1>2
  <2>2. {list[i] : i \in 1 .. n} = {list[i] : i \in 1 .. (n - 1)} \cup {list[n]}
    <3>1. 1 .. n = (1 .. (n - 1)) \cup {n}
        BY <1>1
    <3> QED
        BY <3>1
  <2> QED
      BY <1>4, <2>1, <2>2, AddOnceDistinct
<1>5. T = {}
  <2> SUFFICES ASSUME T # {} PROVE FALSE
      OBVIOUS
  <2> HIDE DEF Right
  <2>1. T \subseteq Nat
      BY <1>1
  <2>2. PICK m \in T : \A k \in T : m <= k
      BY <2>1, LeastNumber
  <2>3. m # 0 /\ m \in 0 .. N
      BY <2>2, <1>3
  <2>4. m \in 1 .. N /\ m - 1 \in 0 .. N /\ m - 1 \notin T
      BY <2>2, <2>3, <1>1
  <2> QED
      BY <2>2, <2>4, <1>4
<1>6. Right(N)
  <2> HIDE DEF Right
  <2> QED
      BY <1>1, <1>5
<1> QED
    BY <1>1, <1>6 DEF ToSet, N, added

(* A sequence of distinct members has as many as it is long. *)
LEMMA DistinctCount ==
    ASSUME NEW s, Distinct(s)
    PROVE  IsFiniteSet(ToSet(s)) /\ Cardinality(ToSet(s)) = Len(s) /\ Len(s) \in Nat
<1>1. DOMAIN s = 1 .. Len(s) /\ Len(s) \in Nat /\ s \in [1 .. Len(s) -> ToSet(s)]
    BY DEF Distinct
<1>2. s \in Bijection(1 .. Len(s), ToSet(s))
  <2>1. s \in Injection(1 .. Len(s), ToSet(s))
      BY <1>1 DEF Distinct, Injection, IsInjective
  <2>2. \A x \in ToSet(s) : \E i \in 1 .. Len(s) : s[i] = x
      BY <1>1 DEF ToSet
  <2> QED
      BY <1>1, <2>1, <2>2 DEF Bijection, Surjection
<1>3. /\ IsFiniteSet(1 .. Len(s))
      /\ Cardinality(1 .. Len(s)) = IF 1 > Len(s) THEN 0 ELSE Len(s) - 1 + 1
    BY <1>1, FS_Interval
<1>4. ExistsBijection(1 .. Len(s), ToSet(s))
    BY <1>2 DEF ExistsBijection
<1> QED
    BY <1>1, <1>3, <1>4, FS_Bijection

-----------------------------------------------------------------------------
(* The plan.                                                               *)

LEMMA One == ASSUME NEW a PROVE <<a>> \in Seq(ToSet(<<a>>)) /\ ToSet(<<a>>) = {a}
<1>1. ToSet(<<a>>) = {a}
    BY DEF ToSet
<1> QED
    BY <1>1

LEMMA Two ==
    ASSUME NEW a, NEW b
    PROVE  <<a, b>> \in Seq(ToSet(<<a, b>>)) /\ ToSet(<<a, b>>) = {a, b}
<1>1. DOMAIN <<a, b>> = {1, 2}
    OBVIOUS
<1>2. ToSet(<<a, b>>) = {a, b}
    BY <1>1 DEF ToSet
<1> QED
    BY <1>2

LEMMA Three ==
    ASSUME NEW a, NEW b, NEW c
    PROVE  <<a, b, c>> \in Seq(ToSet(<<a, b, c>>)) /\ ToSet(<<a, b, c>>) = {a, b, c}
<1>1. DOMAIN <<a, b, c>> = {1, 2, 3}
    OBVIOUS
<1>2. ToSet(<<a, b, c>>) = {a, b, c}
    BY <1>1 DEF ToSet
<1> QED
    BY <1>2

LEMMA Five ==
    ASSUME NEW a, NEW b, NEW c, NEW d, NEW e
    PROVE  /\ <<a, b, c, d, e>> \in Seq(ToSet(<<a, b, c, d, e>>))
           /\ ToSet(<<a, b, c, d, e>>) = {a, b, c, d, e}
<1>1. DOMAIN <<a, b, c, d, e>> = {1, 2, 3, 4, 5}
    OBVIOUS
<1>2. ToSet(<<a, b, c, d, e>>) = {a, b, c, d, e}
    BY <1>1 DEF ToSet
<1> QED
    BY <1>2

(* What is planned for a source, for an endpoint, and for either.          *)
ForSource(in, c) ==
    \E s \in ToSet(in.sources) : \E k \in 1 .. Len(s.candidates) :
        c \in { <<"route", in.route[s.candidates[k]]>>, <<"https", s.subject, s.candidates[k]>>,
                <<"index", s.subject, k>>, <<"signature", s.subject, k>>,
                <<"verification", s.subject, k>> }

ForEndpoint(in, c) ==
    \E e \in ToSet(in.endpoints) :
        c \in { <<"route", in.route[e]>>, <<"https", "ctyun", e>> }

Summary(in, c) ==
    \/ \E s \in ToSet(in.sources) : c = <<"capability", s.subject>>
    \/ \E e \in ToSet(in.endpoints) : c = <<"capability", "ctyun", e>>

LEMMA InputTypes ==
    ASSUME NEW in \in Inputs
    PROVE  /\ Len(in.sources) \in Nat /\ DOMAIN in.sources = 1 .. Len(in.sources)
           /\ Len(in.endpoints) \in Nat /\ DOMAIN in.endpoints = 1 .. Len(in.endpoints)
           /\ \A s \in ToSet(in.sources) :
                 Len(s.candidates) \in Nat /\ DOMAIN s.candidates = 1 .. Len(s.candidates)
<1> QED
    BY DoctorAssumption DEF DoctorAssumption

LEMMA Listed ==
    ASSUME NEW n \in Nat, NEW f, DOMAIN f = 1 .. n, f = [i \in 1 .. n |-> f[i]]
    PROVE  f \in Seq(ToSet(f)) /\ ToSet(f) = {f[i] : i \in 1 .. n} /\ Len(f) = n
<1>1. f \in [1 .. n -> ToSet(f)]
    BY DEF ToSet
<1> QED
    BY <1>1 DEF ToSet

LEMMA SourceMembers ==
    ASSUME NEW in \in Inputs, NEW s \in ToSet(in.sources)
    PROVE  /\ SourceChecks(in, s) \in Seq(ToSet(SourceChecks(in, s)))
           /\ ToSet(SourceChecks(in, s)) =
                 UNION {ToSet(CandidateChecks(in, s, k)) : k \in 1 .. Len(s.candidates)}
<1> DEFINE N == Len(s.candidates)
           ss == [k \in 1 .. N |-> CandidateChecks(in, s, k)]
<1>1. N \in Nat
    BY InputTypes
<1>2. ASSUME NEW k \in 1 .. N
      PROVE  ss[k] = CandidateChecks(in, s, k) /\ ss[k] \in Seq(ToSet(ss[k]))
  <2>1. ss[k] = CandidateChecks(in, s, k)
      OBVIOUS
  <2>2. CandidateChecks(in, s, k) \in Seq(ToSet(CandidateChecks(in, s, k)))
      BY Five DEF CandidateChecks
  <2> QED
      BY <2>1, <2>2
<1>3. DOMAIN ss = 1 .. N /\ ss = [i \in 1 .. N |-> ss[i]] /\ SourceChecks(in, s) = FlattenSeq(ss)
    BY DEF SourceChecks
<1> HIDE DEF ss, N
<1>4. ss \in Seq(ToSet(ss))
    BY <1>1, <1>3, Listed
<1>5. /\ FlattenSeq(ss) \in Seq(ToSet(FlattenSeq(ss)))
      /\ ToSet(FlattenSeq(ss)) = UNION {ToSet(ss[k]) : k \in 1 .. N}
    BY <1>1, <1>2, <1>3, <1>4, FlattenIsUnion
<1>6. {ToSet(ss[k]) : k \in 1 .. N} = {ToSet(CandidateChecks(in, s, k)) : k \in 1 .. N}
    BY <1>2
<1> QED
    BY <1>3, <1>5, <1>6 DEF N

LEMMA EndpointMembers ==
    ASSUME NEW in \in Inputs
    PROVE  LET all == FlattenSeq([i \in 1 .. Len(in.endpoints) |-> EndpointChecks(in, in.endpoints[i])])
           IN  /\ all \in Seq(ToSet(all))
               /\ \A c : c \in ToSet(all) <=> ForEndpoint(in, c)
<1> DEFINE N == Len(in.endpoints)
           ss == [i \in 1 .. N |-> EndpointChecks(in, in.endpoints[i])]
<1>1. N \in Nat /\ DOMAIN in.endpoints = 1 .. N
    BY InputTypes
<1>2. ASSUME NEW k \in 1 .. N
      PROVE  ss[k] = EndpointChecks(in, in.endpoints[k]) /\ ss[k] \in Seq(ToSet(ss[k]))
  <2>1. ss[k] = EndpointChecks(in, in.endpoints[k])
      OBVIOUS
  <2>2. EndpointChecks(in, in.endpoints[k]) \in Seq(ToSet(EndpointChecks(in, in.endpoints[k])))
      BY Two DEF EndpointChecks
  <2> QED
      BY <2>1, <2>2
<1>3. DOMAIN ss = 1 .. N /\ ss = [i \in 1 .. N |-> ss[i]]
    OBVIOUS
<1> SUFFICES /\ FlattenSeq(ss) \in Seq(ToSet(FlattenSeq(ss)))
             /\ \A c : c \in ToSet(FlattenSeq(ss)) <=> ForEndpoint(in, c)
    OBVIOUS
<1> HIDE DEF ss
<1>4. ss \in Seq(ToSet(ss))
    BY <1>1, <1>3, Listed
<1>5. /\ FlattenSeq(ss) \in Seq(ToSet(FlattenSeq(ss)))
      /\ ToSet(FlattenSeq(ss)) = UNION {ToSet(ss[k]) : k \in 1 .. N}
    BY <1>1, <1>2, <1>3, <1>4, FlattenIsUnion
<1>6. \A k \in 1 .. N :
         ToSet(ss[k]) = { <<"route", in.route[in.endpoints[k]]>>, <<"https", "ctyun", in.endpoints[k]>> }
  <2> TAKE k \in 1 .. N
  <2> DEFINE r == <<"route", in.route[in.endpoints[k]]>>
             h == <<"https", "ctyun", in.endpoints[k]>>
  <2>1. ss[k] = <<r, h>>
      BY <1>2 DEF EndpointChecks
  <2> HIDE DEF r, h
  <2>2. ToSet(ss[k]) = {r, h}
      BY <2>1, Two
  <2> QED
      BY <2>2 DEF r, h
<1> HIDE DEF N
<1>7. ASSUME NEW c PROVE c \in ToSet(FlattenSeq(ss)) <=> ForEndpoint(in, c)
  <2>1. c \in ToSet(FlattenSeq(ss)) <=> \E k \in 1 .. N : c \in ToSet(ss[k])
      BY <1>5
  <2>2. ForEndpoint(in, c) <=>
           \E k \in 1 .. N : c \in { <<"route", in.route[in.endpoints[k]]>>, <<"https", "ctyun", in.endpoints[k]>> }
      BY <1>1 DEF ForEndpoint, ToSet
  <2> QED
      BY <2>1, <2>2, <1>6
<1> QED
    BY <1>5, <1>7

LEMMA SourcesMembers ==
    ASSUME NEW in \in Inputs
    PROVE  LET all == FlattenSeq([i \in 1 .. Len(in.sources) |-> SourceChecks(in, in.sources[i])])
           IN  /\ all \in Seq(ToSet(all))
               /\ \A c : c \in ToSet(all) <=> ForSource(in, c)
<1> DEFINE N == Len(in.sources)
           ss == [i \in 1 .. N |-> SourceChecks(in, in.sources[i])]
<1>1. N \in Nat /\ DOMAIN in.sources = 1 .. N
    BY InputTypes
<1>2. ASSUME NEW k \in 1 .. N
      PROVE  ss[k] = SourceChecks(in, in.sources[k]) /\ ss[k] \in Seq(ToSet(ss[k]))
  <2>1. ss[k] = SourceChecks(in, in.sources[k])
      OBVIOUS
  <2>2. in.sources[k] \in ToSet(in.sources)
      BY <1>1 DEF ToSet
  <2>3. SourceChecks(in, in.sources[k]) \in Seq(ToSet(SourceChecks(in, in.sources[k])))
      BY <2>2, SourceMembers
  <2> QED
      BY <2>1, <2>3
<1>3. DOMAIN ss = 1 .. N /\ ss = [i \in 1 .. N |-> ss[i]]
    OBVIOUS
<1> SUFFICES /\ FlattenSeq(ss) \in Seq(ToSet(FlattenSeq(ss)))
             /\ \A c : c \in ToSet(FlattenSeq(ss)) <=> ForSource(in, c)
    OBVIOUS
<1> HIDE DEF ss
<1>4. ss \in Seq(ToSet(ss))
    BY <1>1, <1>3, Listed
<1>5. /\ FlattenSeq(ss) \in Seq(ToSet(FlattenSeq(ss)))
      /\ ToSet(FlattenSeq(ss)) = UNION {ToSet(ss[k]) : k \in 1 .. N}
    BY <1>1, <1>2, <1>3, <1>4, FlattenIsUnion
<1> HIDE DEF N
<1>6. ASSUME NEW s \in ToSet(in.sources), NEW c
      PROVE  c \in ToSet(SourceChecks(in, s)) <=>
                \E k \in 1 .. Len(s.candidates) :
                   c \in { <<"route", in.route[s.candidates[k]]>>, <<"https", s.subject, s.candidates[k]>>,
                           <<"index", s.subject, k>>, <<"signature", s.subject, k>>,
                           <<"verification", s.subject, k>> }
  <2>1. c \in ToSet(SourceChecks(in, s)) <=>
           \E k \in 1 .. Len(s.candidates) : c \in ToSet(CandidateChecks(in, s, k))
      BY SourceMembers
  <2>2. ASSUME NEW k
        PROVE  ToSet(CandidateChecks(in, s, k)) =
                  { <<"route", in.route[s.candidates[k]]>>, <<"https", s.subject, s.candidates[k]>>,
                    <<"index", s.subject, k>>, <<"signature", s.subject, k>>,
                    <<"verification", s.subject, k>> }
    <3> DEFINE r == <<"route", in.route[s.candidates[k]]>>
               h == <<"https", s.subject, s.candidates[k]>>
               i == <<"index", s.subject, k>>
               g == <<"signature", s.subject, k>>
               v == <<"verification", s.subject, k>>
    <3>1. CandidateChecks(in, s, k) = <<r, h, i, g, v>>
        BY DEF CandidateChecks
    <3> HIDE DEF r, h, i, g, v
    <3>2. ToSet(CandidateChecks(in, s, k)) = {r, h, i, g, v}
        BY <3>1, Five
    <3> QED
        BY <3>2 DEF r, h, i, g, v
  <2> QED
      BY <2>1, <2>2
<1>7. ASSUME NEW c PROVE c \in ToSet(FlattenSeq(ss)) <=> ForSource(in, c)
  <2>1. c \in ToSet(FlattenSeq(ss)) <=> \E k \in 1 .. N : c \in ToSet(ss[k])
      BY <1>5
  <2>2. c \in ToSet(FlattenSeq(ss)) <=> \E s \in ToSet(in.sources) : c \in ToSet(SourceChecks(in, s))
    <3>1. ToSet(in.sources) = {in.sources[k] : k \in 1 .. N}
        BY <1>1 DEF ToSet
    <3>2. \A k \in 1 .. N : ss[k] = SourceChecks(in, in.sources[k])
        BY <1>2
    <3> QED
        BY <2>1, <3>1, <3>2
  <2> QED
      BY <2>2, <1>6 DEF ForSource
<1> QED
    BY <1>5, <1>7

LEMMA CapabilityMembers ==
    ASSUME NEW in \in Inputs
    PROVE  /\ Capabilities(in) \in Seq(ToSet(Capabilities(in)))
           /\ \A c : c \in ToSet(Capabilities(in)) <=> Summary(in, c)
<1> DEFINE M == Len(in.sources)
           N == Len(in.endpoints)
           first == [i \in 1 .. M |-> <<"capability", in.sources[i].subject>>]
           second == [i \in 1 .. N |-> <<"capability", "ctyun", in.endpoints[i]>>]
<1>1. /\ M \in Nat /\ DOMAIN in.sources = 1 .. M
      /\ N \in Nat /\ DOMAIN in.endpoints = 1 .. N
    BY InputTypes
<1>2. /\ DOMAIN first = 1 .. M /\ first = [i \in 1 .. M |-> first[i]]
      /\ \A i \in 1 .. M : first[i] = <<"capability", in.sources[i].subject>>
      /\ DOMAIN second = 1 .. N /\ second = [i \in 1 .. N |-> second[i]]
      /\ \A i \in 1 .. N : second[i] = <<"capability", "ctyun", in.endpoints[i]>>
    OBVIOUS
<1>3. Capabilities(in) = first \o second
    BY DEF Capabilities
<1> HIDE DEF first, second, M, N
<1>4. /\ first \in Seq(ToSet(first)) /\ ToSet(first) = {first[i] : i \in 1 .. M}
      /\ second \in Seq(ToSet(second)) /\ ToSet(second) = {second[i] : i \in 1 .. N}
    BY <1>1, <1>2, Listed
<1>5. /\ first \o second \in Seq(ToSet(first \o second))
      /\ ToSet(first \o second) = ToSet(first) \cup ToSet(second)
    BY <1>4, ConcatToSet
<1>6. ASSUME NEW c PROVE c \in ToSet(first) <=> \E s \in ToSet(in.sources) : c = <<"capability", s.subject>>
    BY <1>1, <1>2, <1>4 DEF ToSet
<1>7. ASSUME NEW c PROVE c \in ToSet(second) <=> \E e \in ToSet(in.endpoints) : c = <<"capability", "ctyun", e>>
  <2>1. ToSet(in.endpoints) = {in.endpoints[i] : i \in 1 .. N}
      BY <1>1 DEF ToSet
  <2>2. c \in ToSet(second) <=> \E i \in 1 .. N : c = second[i]
      BY <1>4
  <2>3. (\E i \in 1 .. N : c = second[i]) <=> \E i \in 1 .. N : c = <<"capability", "ctyun", in.endpoints[i]>>
      BY <1>2
  <2> QED
      BY <2>1, <2>2, <2>3
<1> QED
    BY <1>3, <1>5, <1>6, <1>7 DEF Summary

LEMMA PlannedMembers ==
    ASSUME NEW in \in Inputs
    PROVE  /\ Planned(in) \in Seq(ToSet(Planned(in)))
           /\ \A c : c \in ToSet(Planned(in)) <=>
                        \/ c = PublicKey /\ in.sources # <<>>
                        \/ ForSource(in, c) \/ ForEndpoint(in, c) \/ Summary(in, c)
<1> DEFINE a == KeyChecks(in)
           b == FlattenSeq([i \in 1 .. Len(in.sources) |-> SourceChecks(in, in.sources[i])])
           d == FlattenSeq([i \in 1 .. Len(in.endpoints) |-> EndpointChecks(in, in.endpoints[i])])
           e == Capabilities(in)
<1>1. Planned(in) = a \o b \o d \o e
    BY DEF Planned
<1>2. a \in Seq(ToSet(a)) /\ \A c : c \in ToSet(a) <=> c = PublicKey /\ in.sources # <<>>
  <2>1. <<>> \in Seq(ToSet(<<>>)) /\ ToSet(<<>>) = {}
      BY DEF ToSet
  <2> QED
      BY <2>1, One DEF KeyChecks
<1>3. b \in Seq(ToSet(b)) /\ \A c : c \in ToSet(b) <=> ForSource(in, c)
    BY SourcesMembers
<1>4. d \in Seq(ToSet(d)) /\ \A c : c \in ToSet(d) <=> ForEndpoint(in, c)
    BY EndpointMembers
<1>5. e \in Seq(ToSet(e)) /\ \A c : c \in ToSet(e) <=> Summary(in, c)
    BY CapabilityMembers
<1> HIDE DEF a, b, d, e
<1>6. a \o b \in Seq(ToSet(a \o b)) /\ ToSet(a \o b) = ToSet(a) \cup ToSet(b)
    BY <1>2, <1>3, ConcatToSet
<1>7. a \o b \o d \in Seq(ToSet(a \o b \o d)) /\ ToSet(a \o b \o d) = ToSet(a \o b) \cup ToSet(d)
    BY <1>4, <1>6, ConcatToSet
<1>8. /\ a \o b \o d \o e \in Seq(ToSet(a \o b \o d \o e))
      /\ ToSet(a \o b \o d \o e) = ToSet(a \o b \o d) \cup ToSet(e)
    BY <1>5, <1>7, ConcatToSet
<1>9. ToSet(Planned(in)) = ToSet(a) \cup ToSet(b) \cup ToSet(d) \cup ToSet(e)
    BY <1>1, <1>6, <1>7, <1>8
<1> QED
    BY <1>1, <1>2, <1>3, <1>4, <1>5, <1>8, <1>9

(* How far a check is from those that depend on nothing. *)
Rank(c) == IF Kind(c) \in {"configuration", "route"} THEN 0
           ELSE IF Kind(c) = "https" THEN 1
           ELSE IF Kind(c) \in {"index", "signature"} THEN 2
           ELSE IF Kind(c) = "verification" THEN 3 ELSE 4

(* Every check is planned once, with what it depends on; dependencies go   *)
(* down; a verification rests on the key and on the index and signature of *)
(* its candidate, and is summed up with those of its source.               *)
FitsAt(c) ==
    /\ Kind(c) \in {"configuration", "route", "https", "index", "signature", "verification", "capability"}
    /\ plan.dependsOn[c] \in Seq(Needed(c))
    /\ \A d \in Needed(c) : d \in All /\ Rank(d) < Rank(c)
    /\ IsCapability(c) => \A d \in Needed(c) : IsRow(d)
    /\ Kind(c) = "verification" =>
          /\ plan.dependsOn[c] = <<PublicKey, <<"index", c[2], c[3]>>, <<"signature", c[2], c[3]>> >>
          /\ <<"capability", c[2]>> \in All
          /\ \A d \in Needed(<<"capability", c[2]>>) : Kind(d) = "verification" /\ d[2] = c[2]

Fits ==
    /\ Distinct(plan.checks)
    /\ \A c \in All : FitsAt(c)

LEMMA CandidatesOf ==
    ASSUME NEW in \in Inputs, NEW s \in ToSet(in.sources)
    PROVE  (CHOOSE x \in ToSet(in.sources) : x.subject = s.subject) = s
<1>1. ASSUME NEW x \in ToSet(in.sources), x.subject = s.subject PROVE x = s
  <2>1. PICK i \in DOMAIN in.sources : s = in.sources[i]
      BY DEF ToSet
  <2>2. PICK j \in DOMAIN in.sources : x = in.sources[j]
      BY DEF ToSet
  <2> QED
      BY <1>1, <2>1, <2>2, DoctorAssumption DEF DoctorAssumption
<1> QED
    BY <1>1

LEMMA Dependencies ==
    ASSUME NEW in \in Inputs
    PROVE  /\ DependsOn(in, PublicKey) = <<>>
           /\ \A r : DependsOn(in, <<"route", r>>) = <<>>
           /\ \A s, o : DependsOn(in, <<"https", s, o>>) = << <<"route", in.route[o]>> >>
           /\ \A s, k : DependsOn(in, <<"verification", s, k>>) =
                           <<PublicKey, <<"index", s, k>>, <<"signature", s, k>> >>
           /\ \A e : DependsOn(in, <<"capability", "ctyun", e>>) = << <<"https", "ctyun", e>> >>
<1> QED
    BY DEF DependsOn, PublicKey, Kind

LEMMA SourceDependencies ==
    ASSUME NEW in \in Inputs, NEW s \in ToSet(in.sources), NEW k
    PROVE  /\ DependsOn(in, <<"index", s.subject, k>>) = << <<"https", s.subject, s.candidates[k]>> >>
           /\ DependsOn(in, <<"signature", s.subject, k>>) = << <<"https", s.subject, s.candidates[k]>> >>
           /\ DependsOn(in, <<"capability", s.subject>>) =
                 [j \in 1 .. Len(s.candidates) |-> <<"verification", s.subject, j>>]
<1>1. (CHOOSE x \in ToSet(in.sources) : x.subject = s.subject).candidates = s.candidates
    BY CandidatesOf
<1>2. s.subject # "ctyun"
    BY DoctorAssumption DEF DoctorAssumption
<1>3. DependsOn(in, <<"index", s.subject, k>>) = << <<"https", s.subject, s.candidates[k]>> >>
    BY <1>1 DEF DependsOn, Kind
<1>4. DependsOn(in, <<"signature", s.subject, k>>) = << <<"https", s.subject, s.candidates[k]>> >>
    BY <1>1 DEF DependsOn, Kind
<1>5. DependsOn(in, <<"capability", s.subject>>) =
         [j \in 1 .. Len(s.candidates) |-> <<"verification", s.subject, j>>]
    BY <1>1, <1>2 DEF DependsOn, Kind
<1> QED
    BY <1>3, <1>4, <1>5

LEMMA BuildFits ==
    ASSUME NEW in \in Inputs, plan = Build(in)
    PROVE  Fits
<1> DEFINE A == ToSet(Checks(in))
<1>1. /\ plan.checks = Checks(in)
      /\ plan.dependsOn = [c \in A |-> DependsOn(in, c)]
    BY DEF Build
<1>2. Distinct(Checks(in)) /\ A = ToSet(Planned(in))
    BY PlannedMembers, AddEachDistinct DEF Checks
<1>3. All = A /\ \A c \in A : plan.dependsOn[c] = DependsOn(in, c)
    BY <1>1 DEF All
<1>4. \A c : c \in A <=> \/ c = PublicKey /\ in.sources # <<>>
                        \/ ForSource(in, c) \/ ForEndpoint(in, c) \/ Summary(in, c)
    BY <1>2, PlannedMembers
<1> HIDE DEF A
<1>5. ASSUME NEW c \in A, DependsOn(in, c) = <<>>, Kind(c) \in {"configuration", "route"}
      PROVE  FitsAt(c)
  <2>1. Needed(c) = {} /\ plan.dependsOn[c] = <<>>
      BY <1>3, <1>5 DEF Needed, ToSet
  <2>2. <<>> \in Seq({})
      OBVIOUS
  <2> QED
      BY <1>5, <2>1, <2>2 DEF FitsAt, IsCapability
<1>6. ASSUME NEW c \in A, NEW d \in A, DependsOn(in, c) = <<d>>, Rank(d) < Rank(c),
             Kind(c) \in {"https", "index", "signature", "capability"},
             Kind(c) = "capability" => IsRow(d)
      PROVE  FitsAt(c)
  <2>1. Needed(c) = {d} /\ plan.dependsOn[c] = <<d>> /\ <<d>> \in Seq({d})
      BY <1>3, <1>6, One DEF Needed
  <2> QED
      BY <1>3, <1>6, <2>1 DEF FitsAt, IsCapability
<1>7. PublicKey \in A => FitsAt(PublicKey)
    BY <1>4, <1>5, Dependencies DEF PublicKey, Kind
<1>8. ASSUME NEW r, <<"route", r>> \in A PROVE FitsAt(<<"route", r>>)
    BY <1>5, <1>8, Dependencies DEF Kind
<1>9. ASSUME NEW s, NEW o, <<"https", s, o>> \in A, <<"route", in.route[o]>> \in A
      PROVE  FitsAt(<<"https", s, o>>)
  <2> DEFINE h == <<"https", s, o>>
             t == <<"route", in.route[o]>>
  <2>1. DependsOn(in, h) = <<t>> /\ h \in A /\ t \in A
      BY <1>9, Dependencies
  <2>2. Rank(t) = 0 /\ Rank(h) = 1 /\ Kind(h) = "https"
      BY DEF Rank, Kind
  <2> HIDE DEF h, t
  <2>3. Rank(t) < Rank(h) /\ Kind(h) = "https"
      BY <2>2
  <2>4. FitsAt(h)
      BY <1>6, <2>1, <2>3
  <2> QED
      BY <2>4 DEF h
<1>10. ASSUME NEW e \in ToSet(in.endpoints), NEW c, ForEndpoint(in, c) \/ c = <<"capability", "ctyun", e>>,
              c \in { <<"route", in.route[e]>>, <<"https", "ctyun", e>>, <<"capability", "ctyun", e>> }
       PROVE  FitsAt(c)
  <2>1. <<"route", in.route[e]>> \in A /\ <<"https", "ctyun", e>> \in A /\ <<"capability", "ctyun", e>> \in A
      BY <1>4 DEF ForEndpoint, Summary
  <2>2. CASE c = <<"capability", "ctyun", e>>
    <3>1. DependsOn(in, c) = << <<"https", "ctyun", e>> >>
        BY <2>2, Dependencies
    <3>2. Rank(<<"https", "ctyun", e>>) = 1 /\ Rank(c) = 4 /\ IsCapability(c) /\ IsRow(<<"https", "ctyun", e>>)
        BY <2>2 DEF Rank, Kind, IsCapability, IsRow
    <3> QED
        BY <1>6, <2>1, <2>2, <3>1, <3>2 DEF IsCapability
  <2> QED
      BY <1>8, <1>9, <1>10, <2>1, <2>2
<1>11. ASSUME NEW s \in ToSet(in.sources)
       PROVE  /\ <<"capability", s.subject>> \in A
              /\ FitsAt(<<"capability", s.subject>>)
              /\ \A k \in 1 .. Len(s.candidates) :
                    FitsAt(<<"index", s.subject, k>>) /\ FitsAt(<<"signature", s.subject, k>>)
                    /\ FitsAt(<<"verification", s.subject, k>>)
                    /\ FitsAt(<<"https", s.subject, s.candidates[k]>>)
                    /\ FitsAt(<<"route", in.route[s.candidates[k]]>>)
  <2> DEFINE t == s.subject
             deps == [j \in 1 .. Len(s.candidates) |-> <<"verification", t, j>>]
             cap == <<"capability", t>>
  <2>1. cap \in A
      BY <1>4 DEF Summary
  <2>2. \A k \in 1 .. Len(s.candidates) :
           /\ <<"index", t, k>> \in A /\ <<"signature", t, k>> \in A /\ <<"verification", t, k>> \in A
           /\ <<"https", t, s.candidates[k]>> \in A /\ <<"route", in.route[s.candidates[k]]>> \in A
      BY <1>4 DEF ForSource
  <2>3. DependsOn(in, cap) = deps
      BY SourceDependencies
  <2>4. /\ Needed(cap) = {<<"verification", t, j>> : j \in 1 .. Len(s.candidates)}
        /\ plan.dependsOn[cap] \in Seq(Needed(cap))
    <3>1. plan.dependsOn[cap] = deps
        BY <1>3, <2>1, <2>3
    <3>2. \A j \in 1 .. Len(s.candidates) : deps[j] = <<"verification", t, j>>
        OBVIOUS
    <3>3. DOMAIN deps = 1 .. Len(s.candidates) /\ Len(s.candidates) \in Nat
          /\ deps = [i \in 1 .. Len(s.candidates) |-> deps[i]]
        BY InputTypes
    <3> HIDE DEF deps
    <3>4. deps \in Seq(ToSet(deps)) /\ ToSet(deps) = {deps[i] : i \in 1 .. Len(s.candidates)}
        BY <3>3, Listed
    <3>5. {deps[i] : i \in 1 .. Len(s.candidates)} = {<<"verification", t, j>> : j \in 1 .. Len(s.candidates)}
        BY <3>2
    <3> QED
        BY <3>1, <3>4, <3>5 DEF Needed
  <2>5. Kind(cap) = "capability" /\ Rank(cap) = 4 /\ (\A j : Rank(<<"verification", t, j>>) = 3)
        /\ (\A j : IsRow(<<"verification", t, j>>) /\ Kind(<<"verification", t, j>>) = "verification")
      BY DEF Kind, Rank, IsRow
  <2>6. FitsAt(cap)
    <3>1. ASSUME NEW d \in Needed(cap) PROVE d \in All /\ Rank(d) < Rank(cap) /\ IsRow(d)
      <4>1. PICK j \in 1 .. Len(s.candidates) : d = <<"verification", t, j>>
          BY <2>4
      <4>2. d \in All
          BY <4>1, <2>2, <1>3
      <4>3. Rank(d) = 3 /\ Rank(cap) = 4 /\ IsRow(d)
          BY <4>1, <2>5
      <4> QED
          BY <4>2, <4>3
    <3> HIDE DEF cap
    <3> QED
        BY <3>1, <2>4, <2>5 DEF FitsAt, IsCapability
  <2>7. ASSUME NEW k \in 1 .. Len(s.candidates) PROVE FitsAt(<<"verification", t, k>>)
    <3> DEFINE v == <<"verification", t, k>>
               i == <<"index", t, k>>
               g == <<"signature", t, k>>
    <3>1. plan.dependsOn[v] = <<PublicKey, i, g>> /\ v \in A
      <4>1. v \in A
          BY <2>2
      <4>2. DependsOn(in, v) = <<PublicKey, i, g>>
          BY Dependencies
      <4> HIDE DEF v, i, g
      <4> QED
          BY <1>3, <4>1, <4>2
    <3>2. Needed(v) = {PublicKey, i, g} /\ plan.dependsOn[v] \in Seq(Needed(v))
        BY <3>1, Three DEF Needed
    <3>3. PublicKey \in A /\ i \in A /\ g \in A
      <4>1. in.sources # <<>>
          BY DEF ToSet
      <4> QED
          BY <1>4, <2>2, <4>1
    <3>4. Rank(v) = 3 /\ Rank(PublicKey) = 0 /\ Rank(i) = 2 /\ Rank(g) = 2
        BY DEF Rank, Kind, PublicKey
    <3>5. Kind(v) = "verification" /\ v[2] = t /\ v[3] = k
        BY DEF Kind
    <3>6. \A d \in Needed(<<"capability", v[2]>>) : Kind(d) = "verification" /\ d[2] = v[2]
        BY <3>5, <2>4, <2>5
    <3>7. \A d \in Needed(v) : d \in All /\ Rank(d) < Rank(v)
      <4> HIDE DEF v, i, g
      <4> QED
        BY <3>2, <3>3, <3>4, <1>3
    <3>8. plan.dependsOn[v] = <<PublicKey, <<"index", v[2], v[3]>>, <<"signature", v[2], v[3]>> >>
        BY <3>1, <3>5
    <3>9. <<"capability", v[2]>> \in All
        BY <3>5, <2>1, <1>3
    <3> HIDE DEF v, i, g
    <3>10. FitsAt(v)
        BY <3>2, <3>5, <3>6, <3>7, <3>8, <3>9 DEF FitsAt, IsCapability
    <3> QED
        BY <3>10 DEF v
  <2>8. ASSUME NEW k \in 1 .. Len(s.candidates)
        PROVE  FitsAt(<<"index", t, k>>) /\ FitsAt(<<"signature", t, k>>)
    <3> DEFINE h == <<"https", t, s.candidates[k]>>
               i == <<"index", t, k>>
               g == <<"signature", t, k>>
    <3>1. h \in A /\ i \in A /\ g \in A
        BY <2>2
    <3>2. DependsOn(in, i) = <<h>> /\ DependsOn(in, g) = <<h>>
        BY SourceDependencies
    <3>3. /\ Kind(i) = "index" /\ Kind(g) = "signature"
          /\ Rank(i) = 2 /\ Rank(g) = 2 /\ Rank(h) = 1
        BY DEF Kind, Rank
    <3> HIDE DEF h, i, g
    <3>4. /\ Rank(h) < Rank(i) /\ Kind(i) = "index"
          /\ Rank(h) < Rank(g) /\ Kind(g) = "signature"
        BY <3>3
    <3>5. FitsAt(i) /\ FitsAt(g)
        BY <1>6, <3>1, <3>2, <3>4
    <3> QED
        BY <3>5 DEF i, g
  <2>9. ASSUME NEW k \in 1 .. Len(s.candidates)
        PROVE  FitsAt(<<"https", t, s.candidates[k]>>) /\ FitsAt(<<"route", in.route[s.candidates[k]]>>)
      BY <1>8, <1>9, <2>2
  <2> QED
      BY <2>1, <2>6, <2>7, <2>8, <2>9
<1>12. ASSUME NEW c \in A PROVE FitsAt(c)
  <2>1. CASE c = PublicKey
      BY <1>7, <2>1
  <2>2. CASE ForSource(in, c)
      BY <1>11, <2>2 DEF ForSource
  <2>3. CASE ForEndpoint(in, c)
      BY <1>10, <2>3 DEF ForEndpoint
  <2>4. CASE Summary(in, c)
      BY <1>10, <1>11, <2>4 DEF Summary
  <2> QED
      BY <1>4, <2>1, <2>2, <2>3, <2>4
<1> QED
    BY <1>1, <1>2, <1>3, <1>12 DEF Fits

-----------------------------------------------------------------------------
(* The inductive invariant.                                                *)

Passed == {d \in All : result[d] = "passed" /\ ~IsCapability(d)}

Rows == {c \in All : IsRow(c)}

(* Types. *)
Types ==
    /\ result \in [All -> {"none", "passed", "failed", "skipped"}]
    /\ \A c \in All : IsCapability(c) => result[c] \in {"none", "passed"}
    /\ data \in [All -> Publications \cup {NoData}]
    /\ wave \subseteq All /\ DOMAIN outputs \subseteq wave
    /\ queue \subseteq All /\ queue \cap Done = {}
    /\ progress \in 0 .. Len(plan.checks)
    /\ phase \in {"select", "skip", "run", "collect", "report"} \cup Ended
    /\ fault \in BOOLEAN

(* A result has its reason: what was probed rested on checks that passed,  *)
(* what was skipped did not, and what was verified is one publication.     *)
Justified ==
    /\ \A c \in All : ~IsCapability(c) /\ result[c] \in {"passed", "failed"} => Needed(c) \subseteq Passed
    /\ \A c \in All : result[c] = "skipped" => Unmet(c)
    /\ \A c \in All : Kind(c) = "verification" /\ result[c] = "passed" => Verifies(c)

(* The wave rests on what has passed, and its outputs are possible ones.   *)
Probing ==
    /\ \A c \in wave : ~IsCapability(c) => Needed(c) \subseteq Passed
    /\ \A c \in DOMAIN outputs : outputs[c] \in Outcomes(c)

(* What the coordinator has before it. *)
Waits ==
    /\ phase = "select" => wave = {} /\ queue = {} /\ outputs = <<>>
    /\ phase = "skip" =>
          /\ queue # {} /\ outputs = <<>> /\ queue \cap wave = {}
          /\ \A c \in queue : ~IsCapability(c) /\ Unmet(c)
    /\ phase = "run" => queue = {} /\ wave # {}
    /\ phase \in {"skip", "run"} => wave \cap Done = {}
    /\ phase = "collect" => queue = wave \ Done /\ queue # {} /\ DOMAIN outputs = wave
    /\ phase \in {"report", "ok"} => Done = All

(* The observer knows the number of completed checks, unless it failed.    *)
Told ==
    /\ ~fault => progress = Cardinality(Done)
    /\ fault => phase = "failed"

(* A report is the one of a finished plan. *)
Reported ==
    report # <<>> \/ phase = "ok" =>
        /\ Done = All
        /\ report = [c \in Rows |-> Row(c)]
        /\ phase = IF FailedCapabilities = {} THEN "ok" ELSE "failed"

DInv == Fits /\ Types /\ Justified /\ Probing /\ Waits /\ Told /\ Reported

-----------------------------------------------------------------------------

LEMMA FitFacts ==
    ASSUME Fits
    PROVE  /\ IsFiniteSet(All) /\ Cardinality(All) = Len(plan.checks) /\ Len(plan.checks) \in Nat
           /\ \A c \in All : Needed(c) \subseteq All
           /\ \A c \in All : \A d \in Needed(c) : ~IsCapability(d)
           /\ \A c \in All : c \notin Needed(c)
<1>1. IsFiniteSet(All) /\ Cardinality(All) = Len(plan.checks) /\ Len(plan.checks) \in Nat
    BY DistinctCount DEF Fits, All
<1>2. \A c : Rank(c) \in 0 .. 4 /\ (IsCapability(c) => Rank(c) = 4)
    BY DEF Rank, IsCapability
<1>3. \A c \in All : \A d \in Needed(c) : d \in All /\ Rank(d) < Rank(c)
    BY DEF Fits, FitsAt
<1> QED
    BY <1>1, <1>2, <1>3

LEMMA FirstIn ==
    ASSUME Fits, NEW S, S \subseteq All, S # {}
    PROVE  First(S) \in S
<1> DEFINE T == {i \in DOMAIN plan.checks : plan.checks[i] \in S}
<1>1. T \subseteq Nat
    BY DEF Fits, Distinct
<1>2. T # {}
    BY DEF All, ToSet
<1>3. PICK m \in T : \A k \in T : m <= k
    BY <1>1, <1>2, LeastNumber
<1>4. Min(T) \in T
    BY <1>3 DEF Min
<1> QED
    BY <1>4 DEF First

(* With the same plan, its operators are the same. *)
LEMMA SamePlan ==
    ASSUME plan' = plan
    PROVE  /\ All' = All /\ Rows' = Rows /\ Fits' = Fits
           /\ \A c : Needed(c)' = Needed(c)
<1>1. All' = All /\ \A c : Needed(c)' = Needed(c)
    BY DEF All, Needed
<1>2. Rows' = Rows
    BY <1>1 DEF Rows
<1>3. \A c : FitsAt(c)' = FitsAt(c)
    BY <1>1 DEF FitsAt
<1>4. Fits' = Fits
    BY <1>1, <1>3 DEF Fits
<1> QED
    BY <1>1, <1>2, <1>4

LEMMA InitInv == ASSUME Init PROVE DInv
<1>1. Fits
    BY BuildFits DEF Init
<1>2. /\ \A c \in All : result[c] = "none" /\ data[c] = NoData
      /\ result \in [All -> {"none", "passed", "failed", "skipped"}]
      /\ data \in [All -> Publications \cup {NoData}]
      /\ wave = {} /\ outputs = <<>> /\ queue = {} /\ report = <<>> /\ progress = 0 /\ fault = FALSE
      /\ phase \in {"select", "failed"}
    BY DEF Init
<1>3. Done = {} /\ Passed = {}
    BY <1>2 DEF Done, Passed
<1>4. DOMAIN outputs = {}
    BY <1>2
<1>5. Types
  <2>1. progress \in 0 .. Len(plan.checks)
      BY <1>1, <1>2, FitFacts
  <2>2. phase \in {"select", "skip", "run", "collect", "report"} \cup Ended /\ fault \in BOOLEAN
      BY <1>2 DEF Ended
  <2>3. queue \subseteq All /\ queue \cap Done = {} /\ wave \subseteq All /\ DOMAIN outputs \subseteq wave
      BY <1>2, <1>3, <1>4
  <2> QED
      BY <1>2, <2>1, <2>2, <2>3 DEF Types
<1>6. Justified
    BY <1>2 DEF Justified
<1>7. Probing
    BY <1>2, <1>4 DEF Probing
<1>8. Waits
    BY <1>2 DEF Waits
<1>9. Told
    BY <1>2, <1>3, FS_EmptySet DEF Told
<1>10. Reported
    BY <1>2 DEF Reported
<1> QED
    BY <1>1, <1>5, <1>6, <1>7, <1>8, <1>9, <1>10 DEF DInv

(* What a check that is completed with a reason changes. *)
LEMMA Completes ==
    ASSUME DInv, NEW c \in All, c \notin Done, NEW v \in {"passed", "failed", "skipped"},
           result' = [result EXCEPT ![c] = v], plan' = plan,
           \A d \in All : d # c => data'[d] = data[d],
           IsCapability(c) => v = "passed",
           ~IsCapability(c) /\ v \in {"passed", "failed"} => Needed(c) \subseteq Passed,
           v = "skipped" => Unmet(c),
           Kind(c) = "verification" /\ v = "passed" => Verifies(c)
    PROVE  /\ result' \in [All -> {"none", "passed", "failed", "skipped"}]
           /\ \A d \in All : IsCapability(d) => result'[d] \in {"none", "passed"}
           /\ Done' = Done \cup {c}
           /\ Passed \subseteq Passed'
           /\ \A d \in All : Unmet(d) => Unmet(d)'
           /\ \A d \in All : Kind(d) = "verification" /\ Needed(d) \subseteq Passed => Verifies(d)' = Verifies(d)
           /\ Justified'
<1>1. All' = All /\ \A d : Needed(d)' = Needed(d)
    BY SamePlan
<1>2. /\ result[c] = "none" /\ result \in [All -> {"none", "passed", "failed", "skipped"}]
      /\ \A d \in All : IsCapability(d) => result[d] \in {"none", "passed"}
    BY DEF Done, DInv, Types
<1>3. result'[c] = v /\ \A d \in All : d # c => result'[d] = result[d]
    BY <1>2
<1>4. result' \in [All -> {"none", "passed", "failed", "skipped"}]
    BY <1>2
<1>5. \A d \in All : IsCapability(d) => result'[d] \in {"none", "passed"}
    BY <1>2, <1>3
<1>6. Done' = Done \cup {c}
    BY <1>1, <1>2, <1>3 DEF Done
<1>7. Passed \subseteq Passed'
    BY <1>1, <1>2, <1>3 DEF Passed
<1>8. \A d \in All : Needed(d) \subseteq All
    BY FitFacts DEF DInv
<1>9. \A d \in All : Unmet(d) => Unmet(d)'
    BY <1>1, <1>2, <1>3, <1>8 DEF Unmet
<1>10. ASSUME NEW d \in All, Kind(d) = "verification", Needed(d) \subseteq Passed
       PROVE  Verifies(d)' = Verifies(d)
  <2>1. plan.dependsOn[d] = <<PublicKey, <<"index", d[2], d[3]>>, <<"signature", d[2], d[3]>> >>
      BY <1>10 DEF DInv, Fits, FitsAt
  <2>2. plan.dependsOn[d][2] \in Needed(d) /\ plan.dependsOn[d][3] \in Needed(d)
    <3> DEFINE i == <<"index", d[2], d[3]>>
               g == <<"signature", d[2], d[3]>>
    <3> HIDE DEF i, g
    <3>1. plan.dependsOn[d] = <<PublicKey, i, g>>
        BY <2>1 DEF i, g
    <3>2. Needed(d) = {PublicKey, i, g}
        BY <3>1, Three DEF Needed
    <3> QED
        BY <3>1, <3>2
  <2>3. \A x \in Needed(d) : x # c /\ x \in All
      BY <1>10, <1>2 DEF Passed
  <2> QED
      BY <2>2, <2>3 DEF Verifies
<1>11. ASSUME NEW d \in All, ~IsCapability(d), result'[d] \in {"passed", "failed"}
       PROVE  Needed(d) \subseteq Passed
    BY <1>11, <1>3 DEF DInv, Justified
<1>12. ASSUME NEW d \in All, result'[d] = "skipped" PROVE Unmet(d)
    BY <1>12, <1>3 DEF DInv, Justified
<1>13. ASSUME NEW d \in All, Kind(d) = "verification", result'[d] = "passed"
       PROVE  Verifies(d)'
  <2>1. ~IsCapability(d) /\ Needed(d) \subseteq Passed
      BY <1>11, <1>13 DEF IsCapability
  <2>2. Verifies(d)
      BY <1>3, <1>13 DEF DInv, Justified
  <2> QED
      BY <1>10, <1>13, <2>1, <2>2
<1>14. Justified'
  <2>1. \A d \in All : ~IsCapability(d) /\ result'[d] \in {"passed", "failed"} => Needed(d) \subseteq Passed'
      BY <1>7, <1>11
  <2>2. \A d \in All : result'[d] = "skipped" => Unmet(d)'
      BY <1>9, <1>12
  <2> QED
      BY <1>1, <1>13, <2>1, <2>2 DEF Justified
<1> QED
    BY <1>4, <1>5, <1>6, <1>7, <1>9, <1>10, <1>14

LEMMA SameResults ==
    ASSUME UNCHANGED <<plan, result, data>>
    PROVE  /\ All' = All /\ Rows' = Rows /\ Done' = Done /\ Passed' = Passed
           /\ Fits' = Fits /\ Justified' = Justified
           /\ \A c : Needed(c)' = Needed(c) /\ Unmet(c)' = Unmet(c) /\ Outcomes(c)' = Outcomes(c)
<1>1. All' = All /\ Rows' = Rows /\ Fits' = Fits /\ \A c : Needed(c)' = Needed(c)
    BY SamePlan
<1>2. Done' = Done /\ Passed' = Passed
    BY <1>1 DEF Done, Passed
<1>3. \A c : Unmet(c)' = Unmet(c)
    BY <1>1 DEF Unmet
<1>4. \A c : Verifies(c)' = Verifies(c)
    BY DEF Verifies
<1>5. \A c : Outcomes(c)' = Outcomes(c)
    BY <1>4 DEF Outcomes, Successes
<1>6. Justified' = Justified
    BY <1>1, <1>2, <1>3, <1>4 DEF Justified
<1> QED
    BY <1>1, <1>2, <1>3, <1>5, <1>6

LEMMA SelectInv == ASSUME DInv, Select PROVE DInv'
<1>1. /\ phase = "select" /\ wave = {} /\ queue = {} /\ outputs = <<>> /\ DOMAIN outputs = {}
      /\ report = <<>> /\ fault = FALSE
  <2>1. phase = "select" /\ wave = {} /\ queue = {} /\ outputs = <<>>
      BY DEF Select, DInv, Waits
  <2>2. report = <<>> /\ fault = FALSE
      BY <2>1 DEF DInv, Reported, Told, Types
  <2> QED
      BY <2>1, <2>2
<1>2. /\ plan' = plan /\ result' = result /\ data' = data /\ outputs' = outputs
      /\ progress' = progress /\ fault' = fault /\ report' = report
      /\ wave' = {c \in All : Ready(c)} /\ queue' = {c \in All : Skips(c)}
      /\ phase' = IF Done = All THEN "report"
                  ELSE IF {c \in All : Skips(c)} # {} THEN "skip"
                  ELSE IF {c \in All : Ready(c)} # {} THEN "run" ELSE "failed"
    BY DEF Select
<1>3. /\ All' = All /\ Done' = Done /\ Passed' = Passed /\ Fits' = Fits /\ Justified' = Justified
      /\ \A c : Needed(c)' = Needed(c) /\ Unmet(c)' = Unmet(c)
    BY <1>2, SameResults
<1>4. \A c \in wave' : c \in All /\ c \notin Done /\ ~Skips(c)
                       /\ (~IsCapability(c) => Needed(c) \subseteq Passed)
  <2> TAKE c \in wave'
  <2>1. c \in All /\ Complete(c) /\ ~Skips(c)
      BY <1>2 DEF Ready
  <2>2. c \notin Done /\ Needed(c) \subseteq Done
      BY <2>1 DEF Complete, Done
  <2>3. ASSUME ~IsCapability(c), NEW d \in Needed(c) PROVE d \in Passed
    <3>1. ~Unmet(c)
        BY <2>1, <2>3 DEF Skips
    <3>2. d \in All /\ result[d] # "none" /\ result[d] \notin {"failed", "skipped"}
        BY <2>2, <2>3, <3>1 DEF Unmet, Done
    <3>3. result[d] = "passed"
        BY <3>2 DEF DInv, Types
    <3>4. ~IsCapability(d)
        BY <2>1, <2>3, FitFacts DEF DInv
    <3> QED
        BY <3>2, <3>3, <3>4 DEF Passed
  <2> QED
      BY <2>1, <2>2, <2>3
<1>5. \A c \in queue' : c \in All /\ c \notin Done /\ ~IsCapability(c) /\ Unmet(c) /\ Skips(c)
    BY <1>2 DEF Skips, Complete, Done
<1>6. Types'
  <2>1. queue' \subseteq All /\ queue' \cap Done = {} /\ wave' \subseteq All /\ DOMAIN outputs' \subseteq wave'
      BY <1>1, <1>2, <1>4, <1>5
  <2>2. phase' \in {"select", "skip", "run", "collect", "report"} \cup Ended
      BY <1>2 DEF Ended
  <2> QED
      BY <1>2, <1>3, <2>1, <2>2 DEF DInv, Types
<1>7. Probing'
    BY <1>1, <1>2, <1>3, <1>4 DEF Probing
<1>8. Waits'
  <2>1. phase' = "report" => Done = All
      BY <1>2
  <2>2. phase' = "skip" => queue' # {} /\ queue' \cap wave' = {}
      BY <1>2, <1>4, <1>5
  <2>3. phase' = "run" => queue' = {} /\ wave' # {}
      BY <1>2
  <2>4. wave' \cap Done = {}
      BY <1>4
  <2>5. phase' \in {"report", "skip", "run", "failed"}
      BY <1>2
  <2> QED
      BY <1>1, <1>2, <1>3, <1>5, <2>1, <2>2, <2>3, <2>4, <2>5 DEF Waits
<1>9. Told'
    BY <1>1, <1>2, <1>3 DEF DInv, Told
<1>10. Reported'
  <2>1. report' = <<>> /\ phase' # "ok"
      BY <1>1, <1>2
  <2> QED
      BY <2>1 DEF Reported
<1> QED
    BY <1>3, <1>6, <1>7, <1>8, <1>9, <1>10 DEF DInv

LEMMA ProbeInv == ASSUME DInv, NEW c \in wave, Probe(c) PROVE DInv'
<1>1. /\ phase = "run" /\ c \in wave \ DOMAIN outputs
      /\ UNCHANGED <<plan, result, data, wave, queue, progress, phase, fault, report>>
    BY DEF Probe
<1>2. PICK out \in Outcomes(c) :
         outputs' = [x \in DOMAIN outputs \cup {c} |-> IF x = c THEN out ELSE outputs[x]]
    BY DEF Probe
<1>3. /\ All' = All /\ Rows' = Rows /\ Done' = Done /\ Passed' = Passed
      /\ Fits' = Fits /\ Justified' = Justified
      /\ \A d : Needed(d)' = Needed(d) /\ Unmet(d)' = Unmet(d) /\ Outcomes(d)' = Outcomes(d)
    BY <1>1, SameResults
<1>4. report = <<>>
    BY <1>1 DEF DInv, Reported
<1>5. DOMAIN outputs' = DOMAIN outputs \cup {c}
    BY <1>2
<1>6. Types'
    BY <1>1, <1>3, <1>5 DEF DInv, Types
<1>7. Probing'
    BY <1>1, <1>2, <1>3, <1>5 DEF DInv, Probing
<1>8. Waits'
    BY <1>1, <1>3 DEF DInv, Waits
<1>9. Told' /\ Reported'
    BY <1>1, <1>3, <1>4 DEF DInv, Told, Reported
<1> QED
    BY <1>3, <1>6, <1>7, <1>8, <1>9 DEF DInv

LEMMA CollectInv == ASSUME DInv, Collect PROVE DInv'
<1>1. /\ phase = "run" /\ DOMAIN outputs = wave /\ queue' = wave /\ phase' = "collect"
      /\ UNCHANGED <<plan, result, data, wave, outputs, progress, fault, report>>
    BY DEF Collect
<1>2. /\ All' = All /\ Rows' = Rows /\ Done' = Done /\ Passed' = Passed
      /\ Fits' = Fits /\ Justified' = Justified
      /\ \A d : Needed(d)' = Needed(d) /\ Unmet(d)' = Unmet(d) /\ Outcomes(d)' = Outcomes(d)
    BY <1>1, SameResults
<1>3. report = <<>> /\ fault = FALSE /\ wave \cap Done = {} /\ wave # {}
    BY <1>1 DEF DInv, Reported, Told, Waits, Types
<1>4. Types'
    BY <1>1, <1>2, <1>3 DEF DInv, Types
<1>5. Probing'
    BY <1>1, <1>2 DEF DInv, Probing
<1>6. Waits'
    BY <1>1, <1>2, <1>3 DEF Waits
<1>7. Told' /\ Reported'
    BY <1>1, <1>2, <1>3 DEF DInv, Told, Reported
<1> QED
    BY <1>2, <1>4, <1>5, <1>6, <1>7 DEF DInv

LEMMA ReportInv == ASSUME DInv, Report PROVE DInv'
<1>1. /\ phase = "report"
      /\ UNCHANGED <<plan, result, data, wave, outputs, queue, progress>>
      /\ \/ /\ report' = [c \in Rows |-> Row(c)]
            /\ phase' = IF FailedCapabilities = {} THEN "ok" ELSE "failed"
            /\ fault' = fault
         \/ phase' = "failed" /\ fault' = TRUE /\ report' = report
    BY DEF Report, Rows
<1>2. /\ All' = All /\ Rows' = Rows /\ Done' = Done /\ Passed' = Passed
      /\ Fits' = Fits /\ Justified' = Justified
      /\ \A d : Needed(d)' = Needed(d) /\ Unmet(d)' = Unmet(d) /\ Outcomes(d)' = Outcomes(d)
    BY <1>1, SameResults
<1>3. report = <<>> /\ fault = FALSE /\ Done = All
    BY <1>1 DEF DInv, Reported, Told, Waits, Types
<1>4. phase' \in Ended
    BY <1>1 DEF Ended
<1>5. Types'
    BY <1>1, <1>2, <1>3, <1>4 DEF DInv, Types
<1>6. Probing'
    BY <1>1, <1>2 DEF DInv, Probing
<1>7. Waits'
    BY <1>2, <1>3, <1>4 DEF Waits, Ended
<1>8. Told'
    BY <1>1, <1>2, <1>3 DEF DInv, Told
<1>9. (\A c : Row(c)' = Row(c)) /\ FailedCapabilities' = FailedCapabilities
  <2>1. \A c : CapabilityStatus(c)' = CapabilityStatus(c)
      BY <1>1, <1>2 DEF CapabilityStatus
  <2>2. FailedCapabilities' = FailedCapabilities
      BY <1>2, <2>1 DEF FailedCapabilities
  <2>3. \A c : RootFailure(c)' = RootFailure(c)
      BY <1>1, <1>2 DEF RootFailure, Roots
  <2> QED
      BY <1>1, <2>1, <2>2, <2>3 DEF Row
<1>10. Reported'
    BY <1>1, <1>2, <1>3, <1>9 DEF Reported
<1> QED
    BY <1>2, <1>5, <1>6, <1>7, <1>8, <1>10 DEF DInv

LEMMA ObserveTells ==
    ASSUME DInv, fault = FALSE, plan' = plan, NEW next, Observe(next)
    PROVE  /\ Told' /\ progress' \in 0 .. Len(plan.checks) /\ fault' \in BOOLEAN
           /\ phase' \in {next, "failed"}
<1>1. /\ IsFiniteSet(All) /\ Cardinality(All) = Len(plan.checks) /\ Len(plan.checks) \in Nat
      /\ All' = All
    BY FitFacts, SamePlan DEF DInv
<1>2. Done' = {c \in All : result'[c] # "none"}
    BY <1>1 DEF Done
<1>3. Done' \in SUBSET All
    BY <1>2
<1>4. Cardinality(Done') \in Nat /\ Cardinality(Done') <= Cardinality(All)
    BY <1>1, <1>3, FS_Subset, FS_CardinalityType
<1>5. CASE progress' = Cardinality(Done') /\ phase' = next /\ fault' = fault
  <2>1. progress' \in 0 .. Len(plan.checks)
      BY <1>1, <1>4, <1>5
  <2>2. Told'
      BY <1>5 DEF Told
  <2> QED
      BY <1>5, <2>1, <2>2
<1>6. CASE phase' = "failed" /\ fault' = TRUE /\ progress' = progress
    BY <1>1, <1>6 DEF Told, DInv, Types
<1> QED
    BY <1>2, <1>5, <1>6 DEF Observe

LEMMA SkipInv == ASSUME DInv, Skip PROVE DInv'
<1> DEFINE c == First(queue)
<1>1. /\ phase = "skip" /\ plan' = plan /\ data' = data /\ wave' = wave /\ outputs' = outputs
      /\ report' = report /\ result' = [result EXCEPT ![c] = "skipped"] /\ queue' = queue \ {c}
      /\ Observe(AfterSkips)
    BY DEF Skip, Rest
<1>2. /\ queue # {} /\ outputs = <<>> /\ queue \cap wave = {} /\ wave \cap Done = {}
      /\ \A d \in queue : ~IsCapability(d) /\ Unmet(d)
      /\ report = <<>> /\ fault = FALSE
      /\ queue \subseteq All /\ queue \cap Done = {}
      /\ wave \subseteq All /\ DOMAIN outputs = {}
    BY <1>1 DEF DInv, Reported, Told, Waits, Types
<1>3. c \in queue /\ c \in All /\ c \notin Done /\ ~IsCapability(c) /\ Unmet(c)
    BY <1>2, FirstIn DEF DInv
<1>4. AfterSkips = IF queue \ {c} # {} THEN "skip" ELSE IF wave = {} THEN "select" ELSE "run"
    BY DEF AfterSkips, Rest
<1> HIDE DEF c
<1>5. /\ result' \in [All -> {"none", "passed", "failed", "skipped"}]
      /\ \A d \in All : IsCapability(d) => result'[d] \in {"none", "passed"}
      /\ Done' = Done \cup {c}
      /\ Passed \subseteq Passed'
      /\ \A d \in All : Unmet(d) => Unmet(d)'
      /\ Justified'
    BY <1>1, <1>3, Completes
<1>6. All' = All /\ Fits' = Fits /\ \A d : Needed(d)' = Needed(d)
    BY <1>1, SamePlan
<1>7. /\ Told' /\ progress' \in 0 .. Len(plan.checks) /\ fault' \in BOOLEAN
      /\ phase' \in {AfterSkips, "failed"}
    BY <1>1, <1>2, ObserveTells
<1>8. Types'
  <2>1. phase' \in {"select", "skip", "run", "collect", "report"} \cup Ended
      BY <1>4, <1>7 DEF Ended
  <2>2. queue' \subseteq All /\ queue' \cap Done' = {} /\ wave' \subseteq All /\ DOMAIN outputs' \subseteq wave'
      BY <1>1, <1>2, <1>5
  <2>3. data' \in [All -> Publications \cup {NoData}]
      BY <1>1 DEF DInv, Types
  <2> QED
      BY <1>1, <1>5, <1>6, <1>7, <2>1, <2>2, <2>3 DEF Types
<1>9. Probing'
  <2>1. \A d \in wave : ~IsCapability(d) => Needed(d) \subseteq Passed
      BY DEF DInv, Probing
  <2>2. DOMAIN outputs' = {}
      BY <1>1, <1>2
  <2> QED
      BY <1>1, <1>5, <1>6, <2>1, <2>2 DEF Probing
<1>10. Waits'
  <2>1. CASE phase' = "failed"
      BY <2>1 DEF Waits
  <2>2. CASE phase' = "skip"
    <3>1. queue' # {}
        BY <1>4, <1>7, <1>1, <2>2
    <3>2. \A d \in queue' : ~IsCapability(d) /\ Unmet(d)'
        BY <1>1, <1>2, <1>5
    <3>3. queue' \cap wave' = {} /\ wave' \cap Done' = {}
        BY <1>1, <1>2, <1>3, <1>5
    <3> QED
        BY <1>1, <1>2, <2>2, <3>1, <3>2, <3>3 DEF Waits
  <2>3. CASE phase' = "select"
    <3>1. queue' = {} /\ wave' = {}
        BY <1>4, <1>7, <1>1, <2>3
    <3> QED
        BY <1>1, <1>2, <2>3, <3>1 DEF Waits
  <2>4. CASE phase' = "run"
    <3>1. queue' = {} /\ wave' # {}
        BY <1>4, <1>7, <1>1, <2>4
    <3>2. wave' \cap Done' = {}
        BY <1>1, <1>2, <1>3, <1>5
    <3> QED
        BY <2>4, <3>1, <3>2 DEF Waits
  <2> QED
      BY <1>4, <1>7, <2>1, <2>2, <2>3, <2>4
<1>11. Reported'
  <2>1. report' = <<>> /\ phase' # "ok"
      BY <1>1, <1>2, <1>4, <1>7
  <2> QED
      BY <2>1 DEF Reported
<1> QED
    BY <1>5, <1>6, <1>7, <1>8, <1>9, <1>10, <1>11 DEF DInv

(* An output says what may be recorded. *)
LEMMA OutputTypes ==
    ASSUME NEW c, NEW out \in Outcomes(c)
    PROVE  /\ out.status \in {"passed", "failed"} /\ out.data \in Publications \cup {NoData}
           /\ IsCapability(c) => out.status = "passed"
           /\ Kind(c) = "verification" /\ out.status = "passed" => Verifies(c)
<1>1. CASE IsCapability(c)
  <2>1. out = Success(NoData)
      BY <1>1 DEF Outcomes
  <2> QED
      BY <1>1, <2>1 DEF Success, IsCapability
<1>2. CASE ~IsCapability(c)
  <2>1. out = Failure \/ out \in Successes(c)
      BY <1>2 DEF Outcomes
  <2>2. CASE out = Failure
      BY <1>2, <2>2 DEF Failure
  <2>3. CASE out \in Successes(c)
    <3>1. out.status = "passed" /\ out.data \in Publications \cup {NoData}
        BY <2>3 DEF Successes, Success
    <3>2. Kind(c) = "verification" => Verifies(c)
        BY <2>3 DEF Successes
    <3> QED
        BY <1>2, <3>1, <3>2
  <2> QED
      BY <2>1, <2>2, <2>3
<1> QED
    BY <1>1, <1>2

LEMMA RecordInv == ASSUME DInv, Record PROVE DInv'
<1> DEFINE c == First(queue)
           v == outputs[c].status
           next == IF queue \ {c} = {} THEN "select" ELSE "collect"
<1>1. /\ phase = "collect" /\ plan' = plan /\ report' = report
      /\ result' = [result EXCEPT ![c] = v]
      /\ data' = [data EXCEPT ![c] = outputs[c].data] /\ queue' = queue \ {c}
      /\ IF queue \ {c} = {} THEN wave' = {} /\ outputs' = <<>> ELSE wave' = wave /\ outputs' = outputs
      /\ Observe(next)
    BY DEF Record, Rest
<1>2. /\ queue # {} /\ queue = wave \ Done /\ DOMAIN outputs = wave
      /\ report = <<>> /\ fault = FALSE
      /\ queue \subseteq All /\ queue \cap Done = {} /\ wave \subseteq All
    BY <1>1 DEF DInv, Reported, Told, Waits, Types
<1>3. c \in queue /\ c \in All /\ c \notin Done /\ c \in wave
    BY <1>2, FirstIn DEF DInv
<1>4. /\ v \in {"passed", "failed"} /\ outputs[c].data \in Publications \cup {NoData}
      /\ IsCapability(c) => v = "passed"
      /\ Kind(c) = "verification" /\ v = "passed" => Verifies(c)
  <2>1. outputs[c] \in Outcomes(c)
      BY <1>2, <1>3 DEF DInv, Probing
  <2> QED
      BY <2>1, OutputTypes
<1>5. ~IsCapability(c) => Needed(c) \subseteq Passed
    BY <1>3 DEF DInv, Probing
<1>6. data \in [All -> Publications \cup {NoData}]
    BY DEF DInv, Types
<1>7. data' \in [All -> Publications \cup {NoData}] /\ \A d \in All : d # c => data'[d] = data[d]
    BY <1>1, <1>3, <1>4, <1>6
<1> HIDE DEF c, v
<1>8. /\ result' \in [All -> {"none", "passed", "failed", "skipped"}]
      /\ \A d \in All : IsCapability(d) => result'[d] \in {"none", "passed"}
      /\ Done' = Done \cup {c}
      /\ Passed \subseteq Passed'
      /\ \A d \in All : Kind(d) = "verification" /\ Needed(d) \subseteq Passed => Verifies(d)' = Verifies(d)
      /\ Justified'
    BY <1>1, <1>3, <1>4, <1>5, <1>7, Completes
<1>9. All' = All /\ Fits' = Fits /\ \A d : Needed(d)' = Needed(d)
    BY <1>1, SamePlan
<1>10. /\ Told' /\ progress' \in 0 .. Len(plan.checks) /\ fault' \in BOOLEAN
       /\ phase' \in {next, "failed"}
    BY <1>1, <1>2, ObserveTells
<1>11. /\ wave' \subseteq wave /\ DOMAIN outputs' = wave' /\ \A d \in DOMAIN outputs' : outputs'[d] = outputs[d]
  <2>1. DOMAIN <<>> = {}
      OBVIOUS
  <2> QED
      BY <1>1, <1>2, <2>1
<1>12. Types'
  <2>1. phase' \in {"select", "skip", "run", "collect", "report"} \cup Ended
      BY <1>10 DEF Ended
  <2>2. queue' \subseteq All /\ queue' \cap Done' = {} /\ wave' \subseteq All /\ DOMAIN outputs' \subseteq wave'
      BY <1>1, <1>2, <1>8, <1>11
  <2> QED
      BY <1>1, <1>7, <1>8, <1>9, <1>10, <2>1, <2>2 DEF Types
<1>13. Probing'
  <2>1. \A d \in wave : ~IsCapability(d) => Needed(d) \subseteq Passed
      BY DEF DInv, Probing
  <2>2. ASSUME NEW d \in wave PROVE Outcomes(d)' = Outcomes(d)
    <3>1. CASE Kind(d) = "verification"
      <4>1. ~IsCapability(d) /\ d \in All
          BY <1>2, <3>1 DEF IsCapability
      <4>2. Verifies(d)' = Verifies(d)
          BY <1>8, <2>1, <3>1, <4>1
      <4> QED
          BY <1>1, <4>2 DEF Outcomes, Successes
    <3>2. CASE Kind(d) # "verification"
        BY <1>1, <3>2 DEF Outcomes, Successes
    <3> QED
        BY <3>1, <3>2
  <2>3. \A d \in DOMAIN outputs' : outputs'[d] \in Outcomes(d)'
      BY <1>2, <1>11, <2>2 DEF DInv, Probing
  <2> QED
      BY <1>8, <1>9, <1>11, <2>1, <2>3 DEF Probing
<1>14. Waits'
  <2>1. CASE phase' = "failed"
      BY <2>1 DEF Waits
  <2>2. CASE phase' = "select"
    <3>1. queue' = {} /\ wave' = {} /\ outputs' = <<>>
        BY <1>1, <1>10, <2>2
    <3> QED
        BY <2>2, <3>1 DEF Waits
  <2>3. CASE phase' = "collect"
    <3>1. queue' # {} /\ wave' = wave /\ DOMAIN outputs' = wave'
        BY <1>1, <1>10, <1>11, <2>3
    <3>2. queue' = wave' \ Done'
        BY <1>1, <1>2, <1>8, <3>1
    <3> QED
        BY <2>3, <3>1, <3>2 DEF Waits
  <2> QED
      BY <1>10, <2>1, <2>2, <2>3
<1>15. Reported'
  <2>1. report' = <<>> /\ phase' # "ok"
      BY <1>1, <1>2, <1>10
  <2> QED
      BY <2>1 DEF Reported
<1> QED
    BY <1>8, <1>9, <1>10, <1>12, <1>13, <1>14, <1>15 DEF DInv

LEMMA NextInv == ASSUME DInv, [Next]_vars PROVE DInv'
<1>1. CASE UNCHANGED vars
  <2>1. UNCHANGED <<plan, result, data, wave, outputs, queue, progress, phase, fault, report>>
      BY <1>1 DEF vars
  <2>2. /\ All' = All /\ Rows' = Rows /\ Done' = Done /\ Passed' = Passed
        /\ Fits' = Fits /\ Justified' = Justified
        /\ \A d : Needed(d)' = Needed(d) /\ Unmet(d)' = Unmet(d) /\ Outcomes(d)' = Outcomes(d)
      BY <2>1, SameResults
  <2>3. (\A d : CapabilityStatus(d)' = CapabilityStatus(d)) /\ \A d : RootFailure(d)' = RootFailure(d)
      BY <2>1, <2>2 DEF CapabilityStatus, RootFailure, Roots
  <2>4. FailedCapabilities' = FailedCapabilities /\ \A d : Row(d)' = Row(d)
      BY <2>1, <2>2, <2>3 DEF FailedCapabilities, Row
  <2>5. Types' /\ Probing' /\ Waits' /\ Told'
      BY <2>1, <2>2 DEF DInv, Types, Probing, Waits, Told
  <2>6. Reported'
      BY <2>1, <2>2, <2>4 DEF DInv, Reported
  <2> QED
      BY <2>2, <2>5, <2>6 DEF DInv
<1> QED
    BY <1>1, SelectInv, SkipInv, ProbeInv, CollectInv, RecordInv, ReportInv DEF Next, Coordinate

-----------------------------------------------------------------------------
(* Chains and causes.                                                      *)

LEMMA BelowGrows ==
    ASSUME NEW S, NEW T, S \subseteq T
    PROVE  Below(S) \subseteq Below(T) /\ S \subseteq Below(S)
<1> QED
    BY DEF Below

(* What a check rests on has passed, at a distance too. *)
LEMMA ChainPassed ==
    ASSUME DInv, NEW c \in All, Needed(c) \subseteq Passed
    PROVE  c \in Chain(c) /\ \A d \in Chain(c) : d = c \/ d \in Passed
<1> DEFINE Q == {c} \cup Passed
<1>1. \A d \in Passed : Needed(d) \subseteq Passed
    BY DEF Passed, DInv, Justified
<1>2. ASSUME NEW S, S \subseteq Q PROVE Below(S) \subseteq Q
    BY <1>1, <1>2 DEF Below
<1> HIDE DEF Q
<1>3. Chain(c) \subseteq Q
  <2>1. {c} \subseteq Q
      BY DEF Q
  <2> QED
      BY <1>2, <2>1 DEF Chain
<1>4. c \in Chain(c)
    BY BelowGrows DEF Chain
<1> QED
    BY <1>3, <1>4 DEF Q

LEMMA DependencyAt ==
    ASSUME Fits, NEW x \in All, NEW i \in 1 .. Len(plan.dependsOn[x])
    PROVE  /\ plan.dependsOn[x][i] \in Needed(x) /\ plan.dependsOn[x][i] \in All
           /\ Rank(plan.dependsOn[x][i]) < Rank(x)
<1>1. FitsAt(x)
    BY DEF Fits
<1>2. plan.dependsOn[x][i] \in Needed(x)
    BY <1>1 DEF FitsAt
<1> QED
    BY <1>1, <1>2 DEF FitsAt

LEMMA RankType == \A x : Rank(x) \in 0 .. 4
BY DEF Rank

(* The dependencies of x below which f finds a failure. *)
Causes(f, x) == {i \in 1 .. Len(plan.dependsOn[x]) : result[f[plan.dependsOn[x][i]]] = "failed"}

FirstCause(f, x) == CHOOSE i \in Causes(f, x) : \A j \in Causes(f, x) : i <= j

LEMMA FirstCauseIn ==
    ASSUME NEW f, NEW x, Causes(f, x) # {}
    PROVE  FirstCause(f, x) \in Causes(f, x)
<1>1. Causes(f, x) \subseteq Nat
    BY DEF Causes
<1>2. \E i \in Causes(f, x) : \A j \in Causes(f, x) : i <= j
    BY <1>1, LeastNumber
<1> QED
    BY <1>2 DEF FirstCause

(* The recursive definition of the causes has a solution: dependencies go  *)
(* down, so five rounds settle all of them.                                *)
LEMMA RootsEquation ==
    ASSUME Fits
    PROVE  Roots = [x \in All |->
                      IF result[x] = "failed" \/ Causes(Roots, x) = {} THEN x
                      ELSE Roots[plan.dependsOn[x][FirstCause(Roots, x)]]]
<1> DEFINE Body(f, x) == IF result[x] = "failed" \/ Causes(f, x) = {} THEN x
                         ELSE f[plan.dependsOn[x][FirstCause(f, x)]]
           Round(f) == [x \in All |-> Body(f, x)]
           Agree(f, g, n) == \A x \in All : Rank(x) < n => f[x] = g[x]
<1>1. ASSUME NEW f, NEW g, NEW n \in Nat, Agree(f, g, n)
      PROVE  Agree(Round(f), Round(g), n + 1)
  <2> SUFFICES ASSUME NEW x \in All, Rank(x) < n + 1 PROVE Body(f, x) = Body(g, x)
      OBVIOUS
  <2>1. \A i \in 1 .. Len(plan.dependsOn[x]) : f[plan.dependsOn[x][i]] = g[plan.dependsOn[x][i]]
    <3> TAKE i \in 1 .. Len(plan.dependsOn[x])
    <3>1. plan.dependsOn[x][i] \in All /\ Rank(plan.dependsOn[x][i]) < Rank(x)
        BY DependencyAt
    <3>2. Rank(plan.dependsOn[x][i]) < n
        BY <3>1, RankType
    <3> QED
        BY <1>1, <3>1, <3>2
  <2>2. Causes(f, x) = Causes(g, x)
      BY <2>1 DEF Causes
  <2>3. FirstCause(f, x) = FirstCause(g, x)
      BY <2>2 DEF FirstCause
  <2>4. Causes(f, x) # {} => FirstCause(f, x) \in 1 .. Len(plan.dependsOn[x])
      BY FirstCauseIn DEF Causes
  <2> QED
      BY <2>1, <2>2, <2>3, <2>4
<1>2. \A f : Round(f) = [x \in All |-> Round(f)[x]]
    OBVIOUS
<1> DEFINE f0 == [x \in All |-> x]
           f1 == Round(f0)
           f2 == Round(f1)
           f3 == Round(f2)
           f4 == Round(f3)
           f5 == Round(f4)
<1>3. Agree(f0, f1, 0)
    BY RankType
<1>4. f5 = Round(f5)
  <2> HIDE DEF f0, Round, Agree
  <2>1. Agree(f1, f2, 0 + 1)
      BY <1>1, <1>3
  <2>2. Agree(f2, f3, (0 + 1) + 1)
      BY <1>1, <2>1
  <2>3. Agree(f3, f4, ((0 + 1) + 1) + 1)
      BY <1>1, <2>2
  <2>4. Agree(f4, f5, (((0 + 1) + 1) + 1) + 1)
      BY <1>1, <2>3
  <2>5. Agree(f5, Round(f5), ((((0 + 1) + 1) + 1) + 1) + 1)
      BY <1>1, <2>4
  <2>6. ((((0 + 1) + 1) + 1) + 1) + 1 = 5
      OBVIOUS
  <2>7. Agree(f5, Round(f5), 5)
      BY <2>5, <2>6
  <2>8. \A x \in All : f5[x] = Round(f5)[x]
      BY <2>7, RankType DEF Agree
  <2>9. f5 = [x \in All |-> f5[x]] /\ Round(f5) = [x \in All |-> Round(f5)[x]]
      BY <1>2
  <2> HIDE DEF f5
  <2> QED
      BY <2>8, <2>9
<1> HIDE DEF f5
<1>5. \E f : f = [x \in All |-> IF result[x] = "failed" \/ Causes(f, x) = {} THEN x
                                ELSE f[plan.dependsOn[x][FirstCause(f, x)]]]
    BY <1>4
<1>6. Roots = CHOOSE f : f = [x \in All |->
                                IF result[x] = "failed" \/ Causes(f, x) = {} THEN x
                                ELSE f[plan.dependsOn[x][FirstCause(f, x)]]]
    BY DEF Roots, Causes, FirstCause
<1> QED
    BY <1>5, <1>6

(* The cause of a check is itself or the cause of a dependency. *)
LEMMA RootsStep ==
    ASSUME Fits, NEW x \in All
    PROVE  /\ Roots[x] = x \/ \E d \in Needed(x) : Roots[x] = Roots[d]
           /\ result[x] = "failed" => Roots[x] = x
           /\ result[x] # "failed" /\ (\E d \in Needed(x) : result[Roots[d]] = "failed")
                 => result[Roots[x]] = "failed"
<1>1. Roots[x] = IF result[x] = "failed" \/ Causes(Roots, x) = {} THEN x
                 ELSE Roots[plan.dependsOn[x][FirstCause(Roots, x)]]
    BY RootsEquation
<1>2. Causes(Roots, x) # {} =>
         /\ plan.dependsOn[x][FirstCause(Roots, x)] \in Needed(x)
         /\ result[Roots[plan.dependsOn[x][FirstCause(Roots, x)]]] = "failed"
    BY FirstCauseIn, DependencyAt DEF Causes
<1>3. ASSUME NEW d \in Needed(x), result[Roots[d]] = "failed"
      PROVE  Causes(Roots, x) # {}
  <2>1. plan.dependsOn[x] \in Seq(Needed(x))
      BY DEF Fits, FitsAt
  <2>2. PICK i \in 1 .. Len(plan.dependsOn[x]) : d = plan.dependsOn[x][i]
      BY <2>1 DEF Needed, ToSet
  <2> QED
      BY <1>3, <2>2 DEF Causes
<1> QED
    BY <1>1, <1>2, <1>3

(* A check that did not pass has a failed check of its chain as its cause, *)
(* and what that one rests on has passed.                                  *)
LEMMA RootIsFailed ==
    ASSUME DInv, NEW c \in All, result[c] \in {"failed", "skipped"}
    PROVE  result[Roots[c]] = "failed"
<1> DEFINE Bad == {x \in All : result[x] \in {"failed", "skipped"} /\ result[Roots[x]] # "failed"}
           T == {Rank(x) : x \in Bad}
<1>1. Bad = {}
  <2> SUFFICES ASSUME Bad # {} PROVE FALSE
      OBVIOUS
  <2>1. T \subseteq Nat /\ T # {}
      BY RankType
  <2>2. PICK m \in T : \A k \in T : m <= k
      BY <2>1, LeastNumber
  <2>3. PICK x \in Bad : m = Rank(x)
      BY <2>2
  <2>4. result[x] = "skipped"
      BY <2>3, RootsStep DEF DInv
  <2>5. PICK d \in Needed(x) : result[d] \in {"failed", "skipped"}
      BY <2>3, <2>4 DEF DInv, Justified, Unmet
  <2>6. d \in All /\ Rank(d) < Rank(x)
      BY <2>3, <2>5 DEF DInv, Fits, FitsAt
  <2>7. d \notin Bad
      BY <2>2, <2>3, <2>6, RankType
  <2>8. result[Roots[d]] = "failed"
      BY <2>5, <2>6, <2>7
  <2> QED
      BY <2>3, <2>4, <2>5, <2>8, RootsStep DEF DInv
<1> QED
    BY <1>1

LEMMA RootInChain ==
    ASSUME Fits, NEW c \in All, ~IsCapability(c)
    PROVE  Roots[c] \in Chain(c)
<1>1. ASSUME NEW x, NEW d \in Needed(x) PROVE {d} \subseteq Below({x})
    BY DEF Below
<1>2. \A x \in All : \A d \in Needed(x) : d \in All /\ Rank(d) < Rank(x)
    BY DEF Fits, FitsAt
<1>3. \A x \in All : Rank(x) = 0 => Roots[x] \in {x}
    BY <1>2, RankType, RootsStep
<1>4. ASSUME NEW x \in All, Rank(x) <= 1 PROVE Roots[x] \in Below({x})
  <2>1. CASE Roots[x] = x
      BY <2>1, BelowGrows
  <2>2. ASSUME NEW d \in Needed(x), Roots[x] = Roots[d] PROVE Roots[x] \in Below({x})
    <3>1. Rank(d) = 0 /\ d \in All
        BY <1>2, <1>4, <2>2, RankType
    <3> QED
        BY <1>1, <1>3, <2>2, <3>1
  <2> QED
      BY <2>1, <2>2, RootsStep
<1>5. ASSUME NEW x \in All, Rank(x) <= 2 PROVE Roots[x] \in Below(Below({x}))
  <2>1. CASE Roots[x] = x
      BY <2>1, BelowGrows
  <2>2. ASSUME NEW d \in Needed(x), Roots[x] = Roots[d] PROVE Roots[x] \in Below(Below({x}))
    <3>1. Rank(d) <= 1 /\ d \in All
        BY <1>2, <1>5, <2>2, RankType
    <3>2. Below({d}) \subseteq Below(Below({x}))
        BY <1>1, BelowGrows
    <3> QED
        BY <1>4, <2>2, <3>1, <3>2
  <2> QED
      BY <2>1, <2>2, RootsStep
<1>6. ASSUME NEW x \in All, Rank(x) <= 3 PROVE Roots[x] \in Chain(x)
  <2>1. CASE Roots[x] = x
      BY <2>1, BelowGrows DEF Chain
  <2>2. ASSUME NEW d \in Needed(x), Roots[x] = Roots[d] PROVE Roots[x] \in Chain(x)
    <3>1. Rank(d) <= 2 /\ d \in All
        BY <1>2, <1>6, <2>2, RankType
    <3>2. Below({d}) \subseteq Below(Below({x}))
        BY <1>1, BelowGrows
    <3>3. Below(Below({d})) \subseteq Chain(x)
        BY <3>2, BelowGrows DEF Chain
    <3> QED
        BY <1>5, <2>2, <3>1, <3>3
  <2> QED
      BY <2>1, <2>2, RootsStep
<1>7. Rank(c) <= 3
  <2>1. Kind(c) \in {"configuration", "route", "https", "index", "signature", "verification", "capability"}
      BY DEF Fits, FitsAt
  <2>2. Kind(c) # "capability"
      BY DEF IsCapability
  <2> QED
      BY <2>1, <2>2 DEF Rank
<1> QED
    BY <1>6, <1>7

-----------------------------------------------------------------------------
(* The theorems.                                                           *)

(* The plan fits at every moment, results have their reasons, and waves    *)
(* rest on what has passed: Build and Run over any sources and endpoints.  *)
THEOREM InductiveInvariant == Spec => []DInv
<1>1. Init => DInv
    BY InitInv
<1>2. DInv /\ [Next]_vars => DInv'
    BY NextInv
<1> QED
    BY <1>1, <1>2, PTL DEF Spec

(* The variables of a run of the doctor keep their types. *)
THEOREM DoctorTyped == Spec => []TypeOK
<1>1. ASSUME DInv PROVE TypeOK
  <2>1. \A c \in All : result[c] \in {"none", "passed"} \cup
                         IF IsCapability(c) THEN {} ELSE {"failed", "skipped"}
      BY <1>1 DEF DInv, Types
  <2>2. \A c \in DOMAIN report : IsRow(c) /\ report[c].status \in {"passed", "warning", "failed"}
    <3>1. CASE report = <<>>
      <4>1. DOMAIN report = {}
          BY <3>1
      <4> QED
          BY <4>1
    <3>2. CASE report # <<>>
      <4>1. report = [c \in Rows |-> Row(c)]
          BY <1>1, <3>2 DEF DInv, Reported
      <4>2. \A c : Row(c).status \in {"passed", "warning", "failed"}
          BY DEF Row
      <4> QED
          BY <4>1, <4>2 DEF Rows
    <3> QED
        BY <3>1, <3>2
  <2>3. queue \subseteq All \ Done
      BY <1>1 DEF DInv, Types
  <2> QED
      BY <1>1, <2>1, <2>2, <2>3 DEF DInv, Types, TypeOK
<1> QED
    BY <1>1, InductiveInvariant, PTL

(* Whatever the sources, endpoints and outcomes: every check is completed  *)
(* and told once, and a report is made only of a finished plan (Run,       *)
(* observeProgress).                                                       *)
THEOREM EveryCheckIsTold == Spec => []EveryCheckReported
<1>1. ASSUME DInv PROVE EveryCheckReported
  <2>1. ~fault => progress = Cardinality(Done)
      BY <1>1 DEF DInv, Told
  <2>2. ASSUME phase \in {"report", "ok"} PROVE Done = All /\ progress = Len(plan.checks)
    <3>1. Done = All /\ ~fault
        BY <1>1, <2>2 DEF DInv, Waits, Told
    <3> QED
        BY <1>1, <2>1, <3>1, FitFacts DEF DInv
  <2> QED
      BY <2>1, <2>2 DEF EveryCheckReported
<1> QED
    BY <1>1, InductiveInvariant, PTL

LEMMA WorksIfPassed ==
    ASSUME DInv, NEW c \in All, ~IsCapability(c)
    PROVE  (\A d \in Chain(c) : result[d] = "passed") <=> result[c] = "passed"
<1>1. ASSUME result[c] = "passed" PROVE \A d \in Chain(c) : result[d] = "passed"
  <2>1. Needed(c) \subseteq Passed
      BY <1>1 DEF DInv, Justified
  <2> QED
      BY <1>1, <2>1, ChainPassed DEF Passed
<1>2. c \in Chain(c)
    BY BelowGrows DEF Chain
<1> QED
    BY <1>1, <1>2

LEMMA RowIsTrue ==
    ASSUME DInv, Done = All, NEW c \in Rows
    PROVE  /\ Row(c).status = "passed" <=> result[c] = "passed"
           /\ Row(c).status = "warning" =>
                 \E v \in Rows : v[1] = c[1] /\ v[2] = c[2] /\ result[v] = "passed"
           /\ Row(c).status # "passed" =>
                 /\ Row(c).cause \in Chain(c) /\ result[Row(c).cause] = "failed"
                 /\ \A d \in Chain(Row(c).cause) \ {Row(c).cause} : result[d] = "passed"
<1>1. c \in All /\ IsRow(c) /\ ~IsCapability(c)
    BY DEF Rows, IsRow, IsCapability
<1>2. Row(c).status = "passed" <=> result[c] = "passed"
    BY DEF Row
<1>3. ASSUME Row(c).status = "warning"
      PROVE  \E v \in Rows : v[1] = c[1] /\ v[2] = c[2] /\ result[v] = "passed"
  <2> DEFINE cap == <<"capability", c[2]>>
  <2>1. Kind(c) = "verification" /\ CapabilityStatus(cap) # "failed"
      BY <1>3 DEF Row
  <2>2. cap \in All /\ \A d \in Needed(cap) : Kind(d) = "verification" /\ d[2] = c[2]
      BY <1>1, <2>1 DEF DInv, Fits, FitsAt
  <2> HIDE DEF cap
  <2>3. PICK v \in Needed(cap) : result[v] = "passed"
      BY <2>1 DEF CapabilityStatus
  <2>4. v \in All /\ IsRow(v)
      BY <2>2, <2>3, FitFacts DEF DInv, IsRow
  <2> QED
      BY <2>1, <2>2, <2>3, <2>4 DEF Rows, Kind
<1>4. ASSUME Row(c).status # "passed"
      PROVE  /\ Row(c).cause \in Chain(c) /\ result[Row(c).cause] = "failed"
             /\ \A d \in Chain(Row(c).cause) \ {Row(c).cause} : result[d] = "passed"
  <2> DEFINE cause == Roots[c]
  <2>1. result[c] # "passed" /\ Row(c).cause = cause
      BY <1>2, <1>4 DEF Row, RootFailure
  <2>2. result[c] \in {"failed", "skipped"}
      BY <1>1, <2>1 DEF DInv, Types, Done
  <2>3. result[cause] = "failed"
      BY <1>1, <2>2, RootIsFailed
  <2>4. cause \in Chain(c)
      BY <1>1, RootInChain DEF DInv
  <2>5. cause \in All
    <3>1. \A S \in SUBSET All : Below(S) \in SUBSET All
        BY FitFacts DEF DInv, Below
    <3>2. Chain(c) \subseteq All
        BY <1>1, <3>1 DEF Chain
    <3> QED
        BY <2>4, <3>2
  <2> HIDE DEF cause
  <2>6. ~IsCapability(cause)
      BY <2>3, <2>5 DEF DInv, Types
  <2>7. Needed(cause) \subseteq Passed
      BY <2>3, <2>5, <2>6 DEF DInv, Justified
  <2>8. \A d \in Chain(cause) : d = cause \/ d \in Passed
      BY <2>5, <2>7, ChainPassed
  <2> QED
      BY <2>1, <2>3, <2>4, <2>8 DEF Passed
<1> QED
    BY <1>2, <1>3, <1>4

(* The rows, the causes they name and the exit status agree with what the  *)
(* probes found, in whatever order they returned (buildReport,             *)
(* visibleResults, rootFailure, runDoctor).                                *)
THEOREM ReportStaysTrue == Spec => []ReportIsTrue
<1>1. ASSUME DInv PROVE ReportIsTrue
  <2> DEFINE Works(c) == \A d \in Chain(c) : result[d] = "passed"
  <2>1. \A c \in All : ~IsCapability(c) => (Works(c) <=> result[c] = "passed")
      BY <1>1, WorksIfPassed
  <2> HIDE DEF Works
  <2>2. \A c \in Rows : c \in All /\ ~IsCapability(c)
      BY DEF Rows, IsRow, IsCapability
  <2>3. ASSUME NEW c \in DOMAIN report
        PROVE  /\ report[c].status = "passed" <=> Works(c)
               /\ report[c].status = "warning" =>
                     \E v \in DOMAIN report : v[1] = c[1] /\ v[2] = c[2] /\ Works(v)
               /\ report[c].status # "passed" =>
                     LET cause == report[c].cause IN
                     /\ cause \in Chain(c) /\ result[cause] = "failed"
                     /\ \A d \in Chain(cause) \ {cause} : result[d] = "passed"
    <3>1. report # <<>>
        OBVIOUS
    <3>2. Done = All /\ DOMAIN report = Rows /\ report[c] = Row(c) /\ c \in Rows
        BY <1>1, <3>1 DEF DInv, Reported
    <3> QED
        BY <1>1, <2>1, <2>2, <3>2, RowIsTrue
  <2>4. ASSUME ~fault, DOMAIN report # {}
        PROVE  phase = "ok" <=> \A k \in All : IsCapability(k) => \E d \in Needed(k) : Works(d)
    <3>1. report # <<>>
        BY <2>4
    <3>2. phase = "ok" <=> FailedCapabilities = {}
        BY <1>1, <3>1 DEF DInv, Reported
    <3>3. \A k \in All : CapabilityStatus(k) # "failed" <=> \E d \in Needed(k) : result[d] = "passed"
        BY DEF CapabilityStatus
    <3>4. \A k \in All : \A d \in Needed(k) : Works(d) <=> result[d] = "passed"
        BY <1>1, <2>1, FitFacts DEF DInv
    <3> QED
        BY <3>2, <3>3, <3>4 DEF FailedCapabilities
  <2>5. ASSUME NEW s, NEW k, <<"verification", s, k>> \in Done, result[<<"verification", s, k>>] = "passed"
        PROVE  data[<<"index", s, k>>] = data[<<"signature", s, k>>] /\ plan.key = "good"
    <3> DEFINE c == <<"verification", s, k>>
    <3>1. Kind(c) = "verification" /\ c[2] = s /\ c[3] = k /\ c \in All
        BY <2>5 DEF Kind, Done
    <3> HIDE DEF c
    <3>2. result[c] = "passed"
        BY <2>5 DEF c
    <3>3. Verifies(c)
        BY <1>1, <3>1, <3>2 DEF DInv, Justified
    <3>4. plan.dependsOn[c] = <<PublicKey, <<"index", s, k>>, <<"signature", s, k>> >>
        BY <1>1, <3>1 DEF DInv, Fits, FitsAt
    <3> QED
        BY <3>3, <3>4 DEF Verifies
  <2> QED
      BY <2>3, <2>4, <2>5 DEF ReportIsTrue, Works
<1> QED
    BY <1>1, InductiveInvariant, PTL

(* Nothing is probed over something that has not passed (readyChecks,      *)
(* runWave).                                                               *)
THEOREM ProbesRest == Spec => ProbedOverPassed
<1> DEFINE Over == \A c \in DOMAIN outputs' \ DOMAIN outputs :
                      ~IsCapability(c) => \A d \in Chain(c) \ {c} : result[d] = "passed"
<1>1. ASSUME DInv, [Next]_vars PROVE Over
  <2>1. ASSUME NEW c \in wave, Probe(c) PROVE Over
    <3>1. DOMAIN outputs' = DOMAIN outputs \cup {c} /\ c \in All
        BY <1>1, <2>1 DEF Probe, DInv, Types
    <3>2. ASSUME ~IsCapability(c), NEW d \in Chain(c) \ {c} PROVE result[d] = "passed"
      <4>1. Needed(c) \subseteq Passed
          BY <1>1, <3>2 DEF DInv, Probing
      <4> QED
          BY <1>1, <3>1, <3>2, <4>1, ChainPassed DEF Passed
    <3> QED
        BY <3>1, <3>2
  <2>2. ASSUME Coordinate \/ UNCHANGED vars PROVE Over
    <3>1. outputs' = outputs \/ outputs' = <<>>
        BY <2>2 DEF Coordinate, Select, Skip, Collect, Record, Report, vars
    <3>2. DOMAIN <<>> = {}
        OBVIOUS
    <3> QED
        BY <3>1, <3>2
  <2> QED
      BY <1>1, <2>1, <2>2 DEF Next
<1>2. DInv /\ [Next]_vars => [Over]_vars
    BY <1>1
<1> QED
    BY <1>2, InductiveInvariant, PTL DEF Spec, ProbedOverPassed
=============================================================================
