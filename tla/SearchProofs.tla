---------------------------- MODULE SearchProofs ----------------------------
(* Proofs about the two searches of module AddressGraph: what they find is    *)
(* sound on every database, and exact on those whose addresses have no more   *)
(* counterparties than the queries return.                                    *)
EXTENDS AnalyticsProofs, SequenceTheorems

(***************************************************************************)
(* Sequences without repetition                                            *)
(***************************************************************************)

Once(s) == \A i, j \in 1..Len(s) : s[i] = s[j] => i = j

LEMMA OnceCounts ==
  ASSUME NEW A, NEW s \in Seq(A), Once(s)
  PROVE  IsFiniteSet(ToSet(s)) /\ Cardinality(ToSet(s)) = Len(s)
<1>1. Len(s) \in Nat /\ DOMAIN s = 1..Len(s) /\ s \in [1..Len(s) -> A]
  BY LenProperties
<1>2. ToSet(s) = {s[i] : i \in 1..Len(s)}
  BY <1>1 DEF ToSet
<1>3. s \in Bijection(1..Len(s), ToSet(s))
  BY <1>1, <1>2 DEF Bijection, Injection, Surjection, IsInjective, Once
<1>4. IsFiniteSet(1..Len(s)) /\ Cardinality(1..Len(s)) = Len(s)
  BY <1>1, FS_Interval
<1>5. ExistsBijection(1..Len(s), ToSet(s))
  BY <1>3 DEF ExistsBijection
<1> QED
  BY <1>4, <1>5, FS_Bijection

LEMMA ToSetElements ==
  ASSUME NEW A, NEW s \in Seq(A)
  PROVE  /\ ToSet(s) \in SUBSET A
         /\ \A x : x \in ToSet(s) <=> \E i \in 1..Len(s) : s[i] = x
<1>1. DOMAIN s = 1..Len(s) /\ s \in [1..Len(s) -> A]
  BY LenProperties
<1> QED
  BY <1>1 DEF ToSet

LEMMA OnceJoined ==
  ASSUME NEW A, NEW s \in Seq(A), NEW t \in Seq(A), Once(s), Once(t),
         ToSet(s) \cap ToSet(t) = {}
  PROVE  /\ s \o t \in Seq(A) /\ Len(s \o t) = Len(s) + Len(t)
         /\ ToSet(s \o t) = ToSet(s) \cup ToSet(t)
         /\ Once(s \o t)
<1>1. /\ s \o t \in Seq(A) /\ Len(s \o t) = Len(s) + Len(t)
      /\ \A i \in 1..Len(s) + Len(t) : (s \o t)[i] = IF i <= Len(s) THEN s[i] ELSE t[i - Len(s)]
  BY ConcatProperties
<1>2. Len(s) \in Nat /\ Len(t) \in Nat
  BY LenProperties
<1> DEFINE u == s \o t
<1>3. \A i \in 1..Len(u) : /\ i \in 1..Len(s) => u[i] = s[i] /\ u[i] \in ToSet(s)
                           /\ i \notin 1..Len(s) => /\ i - Len(s) \in 1..Len(t)
                                                    /\ u[i] = t[i - Len(s)] /\ u[i] \in ToSet(t)
  BY <1>1, <1>2, ToSetElements
<1> HIDE DEF u
<1>4. Once(u)
  <2> SUFFICES ASSUME NEW i \in 1..Len(u), NEW j \in 1..Len(u), u[i] = u[j]
               PROVE  i = j
    BY DEF Once
  <2>1. i \in 1..Len(s) <=> j \in 1..Len(s)
    BY <1>3
  <2>2. CASE i \in 1..Len(s)
    BY <1>3, <2>1, <2>2 DEF Once
  <2>3. CASE i \notin 1..Len(s)
    <3>1. i - Len(s) = j - Len(s)
      BY <1>3, <2>1, <2>3 DEF Once
    <3> QED
      BY <1>2, <3>1
  <2> QED
    BY <2>2, <2>3
<1>5. ToSet(u) = ToSet(s) \cup ToSet(t)
  <2>1. u \in Seq(A) /\ Len(u) = Len(s) + Len(t)
    BY <1>1 DEF u
  <2>2. ASSUME NEW x \in ToSet(u)
        PROVE  x \in ToSet(s) \cup ToSet(t)
    <3>1. PICK i \in 1..Len(u) : u[i] = x
      BY <2>1, ToSetElements
    <3> QED
      BY <1>3, <3>1
  <2>3. ASSUME NEW x \in ToSet(s)
        PROVE  x \in ToSet(u)
    <3>1. PICK i \in 1..Len(s) : s[i] = x
      BY ToSetElements
    <3>2. i \in 1..Len(u)
      BY <1>2, <2>1
    <3> QED
      BY <1>3, <2>1, <3>1, <3>2, ToSetElements
  <2>4. ASSUME NEW x \in ToSet(t)
        PROVE  x \in ToSet(u)
    <3>1. PICK i \in 1..Len(t) : t[i] = x
      BY ToSetElements
    <3>2. i + Len(s) \in 1..Len(u) /\ i + Len(s) \notin 1..Len(s) /\ (i + Len(s)) - Len(s) = i
      BY <1>2, <2>1
    <3>3. u[i + Len(s)] = x
      BY <1>3, <3>1, <3>2
    <3> QED
      BY <2>1, <3>2, <3>3, ToSetElements
  <2> QED
    BY <2>2, <2>3, <2>4
<1> QED
  BY <1>1, <1>4, <1>5 DEF u

(***************************************************************************)
(* One query and the loop over its rows                                    *)
(***************************************************************************)

\* The rows of a query have no repetition, and are all there is if there are
\* no more than its LIMIT.
LEMMA ResultRows ==
  ASSUME NEW count, IsFiniteSet(DOMAIN count), NEW k \in Nat, NEW out \in Results(count, k)
  PROVE  /\ out \in Seq(DOMAIN count) /\ Once(out)
         /\ Cardinality(DOMAIN count) <= k => ToSet(out) = DOMAIN count
<1> DEFINE S == DOMAIN count
           n == Cardinality(S)
<1>1. n \in Nat
  BY FS_CardinalityType
<1>2. PICK s \in SetToSeqs(S) : out = SubSeq(s, 1, Min({Len(s), k}))
  BY DEF Results
<1>3. s \in [1..n -> S] /\ \A i, j \in 1..n : i # j => s[i] # s[j]
  BY <1>2 DEF SetToSeqs
<1> HIDE DEF S, n
<1>4. s \in Seq(S) /\ Len(s) = n
  BY <1>1, <1>3
<1>5. Min({n, k}) \in Nat /\ Min({n, k}) <= n /\ (n <= k => Min({n, k}) = n)
  <2>1. \E x \in {n, k} : \A y \in {n, k} : x <= y
    BY <1>1
  <2>2. Min({n, k}) \in {n, k} /\ \A y \in {n, k} : Min({n, k}) <= y
    BY <2>1 DEF Min
  <2> QED
    BY <1>1, <2>2
<1> DEFINE m == Min({n, k})
<1>6. out = SubSeq(s, 1, m)
  BY <1>2, <1>4
<1> HIDE DEF m
<1>7. m \in Nat /\ m <= n /\ (n <= k => m = n)
  BY <1>5 DEF m
<1>8. out \in Seq(S) /\ Len(out) = m /\ \A i \in 1..m : out[i] = s[i]
  <2>1. /\ out \in Seq(S)
        /\ Len(out) = IF 1 <= m THEN m - 1 + 1 ELSE 0
        /\ \A i \in 1..m - 1 + 1 : out[i] = s[1 + i - 1]
    BY <1>1, <1>4, <1>6, <1>7, SubSeqProperties
  <2>2. Len(out) = m
    BY <1>7, <2>1
  <2>3. \A i \in 1..m : out[i] = s[i]
    BY <1>7, <2>1
  <2> QED
    BY <2>1, <2>2, <2>3
<1>9. Once(out)
  BY <1>1, <1>3, <1>7, <1>8 DEF Once
<1>10. ASSUME n <= k
       PROVE  ToSet(out) = S
  <2>1. s \in Injection(1..n, S)
    BY <1>3 DEF Injection, IsInjective
  <2>2. IsFiniteSet(1..n) /\ Cardinality(1..n) = n
    BY <1>1, FS_Interval
  <2>3. s \in Surjection(1..n, S)
    <3>1. IsFiniteSet(S) /\ Cardinality(S) = n
      BY DEF S, n
    <3> QED
      BY <2>1, <2>2, <3>1, FS_Injection
  <2>4. \A x \in S : \E i \in 1..n : s[i] = x
    BY <2>3 DEF Surjection
  <2>5. \A x \in S : \E i \in 1..Len(out) : out[i] = x
    BY <1>7, <1>8, <1>10, <2>4
  <2>6. \A x \in S : x \in ToSet(out)
    BY <1>8, <2>5, ToSetElements
  <2>7. ToSet(out) \in SUBSET S
    BY <1>8, ToSetElements
  <2> QED
    BY <2>6, <2>7
<1> QED
  BY <1>8, <1>9, <1>10 DEF S, n

\* The loop over the rows keeps each new one once while there is room, and all
\* the new ones if room is left or was enough for every row.
IsKept(f, rows, seen, room) ==
  f = [i \in 0..Len(rows) |->
         IF i = 0 THEN <<>>
         ELSE IF rows[i] \in seen \/ Len(f[i - 1]) >= room THEN f[i - 1]
         ELSE Append(f[i - 1], rows[i])]

LEMMA AdmittedUnfolded ==
  ASSUME NEW rows, NEW seen, NEW room
  PROVE  Admitted(rows, seen, room) = (CHOOSE f : IsKept(f, rows, seen, room))[Len(rows)]
  BY Zenon DEF Admitted, IsKept

LEMMA KeptDefined ==
  ASSUME NEW A, NEW rows \in Seq(A), NEW seen, NEW room \in Nat
  PROVE  \E f : IsKept(f, rows, seen, room)
<1> DEFINE new(s, i) == IF rows[i] \in seen \/ Len(s) >= room THEN s ELSE Append(s, rows[i])
           Eq(f, n) == f = [i \in 0..n |-> IF i = 0 THEN <<>> ELSE new(f[i - 1], i)]
           T == {n \in Nat : \E f : Eq(f, n)}
<1> HIDE DEF new
<1>1. 0 \in T
  <2> DEFINE f == [i \in 0..0 |-> <<>>]
  <2>1. Eq(f, 0)
    OBVIOUS
  <2> HIDE DEF f, Eq
  <2> QED
    BY <2>1
<1>2. ASSUME NEW n \in Nat, n \in T
      PROVE  n + 1 \in T
  <2>1. PICK f : Eq(f, n)
    BY <1>2
  <2> DEFINE g == [i \in 0..(n + 1) |-> IF i = 0 THEN <<>> ELSE new(f[i - 1], i)]
  <2>2. \A i \in 0..n : g[i] = f[i]
    <3>1. \A i \in 0..n : f[i] = IF i = 0 THEN <<>> ELSE new(f[i - 1], i)
      BY <2>1
    <3>2. \A i \in 0..n : i \in 0..(n + 1)
      OBVIOUS
    <3> QED
      BY <3>1, <3>2
  <2>3. \A i \in 1..(n + 1) : g[i - 1] = f[i - 1]
    <3> HIDE DEF g
    <3>1. \A i \in 1..(n + 1) : i - 1 \in 0..n
      OBVIOUS
    <3> QED
      BY <2>2, <3>1
  <2>4. Eq(g, n + 1)
    <3>1. g = [i \in 0..(n + 1) |-> IF i = 0 THEN <<>> ELSE new(g[i - 1], i)]
      BY <2>3
    <3> QED
      BY <3>1
  <2> HIDE DEF g, Eq
  <2> QED
    BY <2>4
<1>3. Nat \subseteq T
  <2> HIDE DEF T
  <2> QED
    BY <1>1, <1>2, SetInduction
<1>4. PICK f : Eq(f, Len(rows))
  BY <1>3, LenProperties
<1> QED
  BY <1>4 DEF IsKept, new

NewRows(A, rows, seen, room, kept) ==
  /\ kept \in Seq(A) /\ Once(kept)
  /\ ToSet(kept) \subseteq ToSet(rows) \ seen
  /\ Len(kept) <= room
  /\ Len(kept) < room \/ Len(rows) <= room => ToSet(kept) = ToSet(rows) \ seen

LEMMA AdmittedRows ==
  ASSUME NEW A, NEW rows \in Seq(A), Once(rows), NEW seen, NEW room \in Nat
  PROVE  NewRows(A, rows, seen, room, Admitted(rows, seen, room))
<1> DEFINE kept == Admitted(rows, seen, room)
           n == Len(rows)
           f == CHOOSE g : IsKept(g, rows, seen, room)
           first(i) == {rows[j] : j \in 1..i} \ seen
           Good(i) == /\ f[i] \in Seq(A) /\ Once(f[i])
                      /\ ToSet(f[i]) \subseteq first(i)
                      /\ Len(f[i]) <= room /\ Len(f[i]) <= i
                      /\ Len(f[i]) < room \/ i <= room => ToSet(f[i]) = first(i)
           T == {i \in Nat : i <= n => Good(i)}
<1>1. n \in Nat /\ \A i \in 1..n : rows[i] \in A
  BY LenProperties, ElementOfSeq
<1>2. IsKept(f, rows, seen, room)
  BY KeptDefined
<1> HIDE DEF f
<1>3. /\ f[0] = <<>>
      /\ \A i \in 1..n : f[i] = IF rows[i] \in seen \/ Len(f[i - 1]) >= room THEN f[i - 1]
                                ELSE Append(f[i - 1], rows[i])
  <2>1. \A i \in 0..n : f[i] = IF i = 0 THEN <<>>
                             ELSE IF rows[i] \in seen \/ Len(f[i - 1]) >= room THEN f[i - 1]
                             ELSE Append(f[i - 1], rows[i])
    BY <1>2 DEF IsKept
  <2>2. 0 \in 0..n /\ \A i \in 1..n : i \in 0..n /\ i # 0
    BY <1>1
  <2> QED
    BY <2>1, <2>2
<1>4. 0 \in T
  <2>1. ToSet(<<>>) = {} /\ first(0) = {} /\ Len(<<>>) = 0 /\ <<>> \in Seq(A)
    BY DEF ToSet
  <2>2. Once(<<>>)
    BY <2>1 DEF Once
  <2> DEFINE s == f[0]
  <2>3. s = <<>>
    BY <1>3
  <2> HIDE DEF s, first
  <2>4. /\ s \in Seq(A) /\ Once(s) /\ ToSet(s) = first(0) /\ Len(s) = 0
    BY <2>1, <2>2, <2>3
  <2>5. Good(0)
    BY <2>4 DEF s
  <2> HIDE DEF Good
  <2> QED
    BY <2>5
<1>5. ASSUME NEW i \in Nat, i \in T
      PROVE  i + 1 \in T
  <2> SUFFICES ASSUME i + 1 <= n
               PROVE  Good(i + 1)
    OBVIOUS
  <2>1. Good(i)
    <3> HIDE DEF Good
    <3>1. i <= n
      BY <1>1
    <3> QED
      BY <1>5, <3>1
  <2> DEFINE s == f[i]
             x == rows[i + 1]
             t == f[i + 1]
  <2>2. t = IF x \in seen \/ Len(s) >= room THEN s ELSE Append(s, x)
    BY <1>1, <1>3
  <2>3. first(i + 1) = first(i) \cup ({x} \ seen)
    OBVIOUS
  <2>4. x \in A /\ x \notin first(i)
    <3>1. \A j \in 1..i : rows[j] # rows[i + 1]
      BY <1>1 DEF Once
    <3> QED
      BY <1>1, <3>1
  <2> HIDE DEF Good, T, first, x, s, t
  <2>5. /\ s \in Seq(A) /\ Once(s) /\ ToSet(s) \subseteq first(i)
        /\ Len(s) \in Nat /\ Len(s) <= room /\ Len(s) <= i
        /\ Len(s) < room \/ i <= room => ToSet(s) = first(i)
    BY <2>1, LenProperties DEF Good, s
  <2>6. CASE x \in seen \/ Len(s) >= room
    <3>1. t = s
      BY <2>2, <2>6
    <3>2. Len(s) < room \/ i + 1 <= room => x \in seen /\ ToSet(s) = first(i)
      BY <2>5, <2>6
    <3>3. Len(s) < room \/ i + 1 <= room => ToSet(s) = first(i + 1)
      BY <2>3, <3>2
    <3>4. ToSet(s) \subseteq first(i + 1) /\ Len(s) <= i + 1
      BY <2>3, <2>5
    <3> QED
      BY <2>5, <3>1, <3>3, <3>4 DEF Good, t
  <2>7. CASE ~(x \in seen \/ Len(s) >= room)
    <3>1. t = Append(s, x) /\ x \notin seen /\ Len(s) < room
      BY <2>2, <2>5, <2>7
    <3>2. t \in Seq(A) /\ Len(t) = Len(s) + 1 /\ t[Len(s) + 1] = x
          /\ \A j \in 1..Len(s) : t[j] = s[j]
      BY <2>4, <2>5, <3>1, AppendProperties
    <3>3. ToSet(t) = ToSet(s) \cup {x}
      <4>1. \A y : y \in ToSet(t) <=> \E j \in 1..Len(s) + 1 : t[j] = y
        BY <3>2, ToSetElements
      <4>2. \A y : y \in ToSet(s) <=> \E j \in 1..Len(s) : s[j] = y
        BY <2>5, ToSetElements
      <4>3. ASSUME NEW y
            PROVE  y \in ToSet(t) <=> y \in ToSet(s) \cup {x}
        <5>1. 1..Len(s) + 1 = (1..Len(s)) \cup {Len(s) + 1}
          BY <2>5
        <5> QED
          BY <3>2, <4>1, <4>2, <5>1
      <4> QED
        BY <4>3
    <3>4. Once(t)
      <4>1. \A j \in 1..Len(s) : s[j] # x
        BY <2>4, <2>5, ToSetElements
      <4> SUFFICES ASSUME NEW j \in 1..Len(t), NEW k \in 1..Len(t), t[j] = t[k]
                   PROVE  j = k
        BY DEF Once
      <4>2. /\ j \in 1..Len(s) \/ j = Len(s) + 1
            /\ k \in 1..Len(s) \/ k = Len(s) + 1
        BY <2>5, <3>2
      <4> QED
        BY <2>5, <3>2, <4>1, <4>2 DEF Once
    <3>5. ToSet(t) \subseteq first(i + 1) /\ ToSet(t) = first(i + 1)
      BY <2>3, <2>5, <3>1, <3>3
    <3>6. Len(t) <= room /\ Len(t) <= i + 1
      BY <2>5, <3>1, <3>2
    <3> QED
      BY <3>2, <3>4, <3>5, <3>6 DEF Good, t
  <2> QED
    BY <2>6, <2>7
<1>6. Nat \subseteq T
  <2> HIDE DEF T
  <2> QED
    BY <1>4, <1>5, SetInduction
<1>7. Good(n)
  <2> HIDE DEF Good
  <2> QED
    BY <1>1, <1>6
<1>8. kept = f[n]
  BY AdmittedUnfolded DEF f
<1>9. first(n) = ToSet(rows) \ seen
  <2>1. DOMAIN rows = 1..n
    BY LenProperties
  <2> QED
    BY <2>1 DEF ToSet
<1> HIDE DEF first
<1>10. NewRows(A, rows, seen, room, kept)
  BY <1>7, <1>8, <1>9 DEF NewRows
<1> QED
  BY <1>10

\* Both directions, one after the other.
BothRows(A, out, in, seen, room, spare, fresh, more) ==
  /\ fresh \in Seq(A) /\ Once(fresh) /\ more \in Seq(A) /\ Once(more)
  /\ Len(fresh) \in Nat /\ Len(fresh) <= room
  /\ Len(more) \in Nat /\ Len(more) <= spare
  /\ ToSet(fresh) \cap ToSet(more) = {}
  /\ ToSet(fresh) \subseteq ToSet(out) \ seen
  /\ ToSet(more) \subseteq ToSet(in) \ seen
  /\ /\ Len(fresh) < room \/ Len(out) <= room
     /\ Len(more) < spare \/ Len(in) <= spare
     => ToSet(fresh) \cup ToSet(more) = (ToSet(out) \cup ToSet(in)) \ seen

LEMMA TwoQueries ==
  ASSUME NEW A, NEW out \in Seq(A), NEW in \in Seq(A), Once(out), Once(in),
         NEW seen, NEW room \in Nat, NEW spare \in Nat,
         NEW fresh, fresh = Admitted(out, seen, room),
         NEW more, more = Admitted(in, seen \cup ToSet(fresh), spare)
  PROVE  BothRows(A, out, in, seen, room, spare, fresh, more)
<1>1. NewRows(A, out, seen, room, fresh)
  BY AdmittedRows
<1>2. NewRows(A, in, seen \cup ToSet(fresh), spare, more)
  BY AdmittedRows
<1>3. Len(fresh) \in Nat /\ Len(more) \in Nat
  BY <1>1, <1>2, LenProperties DEF NewRows
<1> QED
  BY <1>1, <1>2, <1>3 DEF NewRows, BothRows

(***************************************************************************)
(* Distance                                                                *)
(***************************************************************************)

\* A recursive function on the numbers: the stages of its computation exist
\* and agree.
IsLevels(w, ce, nb) ==
  w = [n \in Nat |-> IF n = 0 THEN {ce} ELSE w[n - 1] \cup UNION {nb[a] : a \in w[n - 1]}]

LEMMA LevelsDefined ==
  ASSUME NEW ce, NEW nb
  PROVE  \E w : IsLevels(w, ce, nb)
<1> DEFINE grown(s) == s \cup UNION {nb[a] : a \in s}
           Eq(f, n) == f = [i \in 0..n |-> IF i = 0 THEN {ce} ELSE grown(f[i - 1])]
           T == {n \in Nat : \E f : Eq(f, n)}
           stage(n) == CHOOSE f : Eq(f, n)
           w == [n \in Nat |-> stage(n)[n]]
<1> HIDE DEF grown
<1>1. 0 \in T
  <2> DEFINE f == [i \in 0..0 |-> {ce}]
  <2>1. Eq(f, 0)
    OBVIOUS
  <2> HIDE DEF f, Eq
  <2> QED
    BY <2>1
<1>2. ASSUME NEW n \in Nat, n \in T
      PROVE  n + 1 \in T
  <2>1. PICK f : Eq(f, n)
    BY <1>2
  <2> DEFINE g == [i \in 0..(n + 1) |-> IF i = 0 THEN {ce} ELSE grown(f[i - 1])]
  <2>2. \A i \in 0..n : g[i] = f[i]
    <3>1. \A i \in 0..n : f[i] = IF i = 0 THEN {ce} ELSE grown(f[i - 1])
      BY <2>1
    <3>2. \A i \in 0..n : i \in 0..(n + 1)
      OBVIOUS
    <3> QED
      BY <3>1, <3>2
  <2>3. \A i \in 1..(n + 1) : g[i - 1] = f[i - 1]
    <3> HIDE DEF g
    <3>1. \A i \in 1..(n + 1) : i - 1 \in 0..n
      OBVIOUS
    <3> QED
      BY <2>2, <3>1
  <2>4. Eq(g, n + 1)
    <3>1. \A i \in 0..(n + 1) : i # 0 => grown(g[i - 1]) = grown(f[i - 1])
      <4> HIDE DEF g
      <4>1. \A i \in 0..(n + 1) : i # 0 => i \in 1..(n + 1)
        OBVIOUS
      <4> QED
        BY <2>3, <4>1
    <3>2. g = [i \in 0..(n + 1) |-> IF i = 0 THEN {ce} ELSE grown(g[i - 1])]
      BY <3>1
    <3> QED
      BY <3>2
  <2> HIDE DEF g, Eq
  <2> QED
    BY <2>4
<1>3. Nat \subseteq T
  <2> HIDE DEF T
  <2> QED
    BY <1>1, <1>2, SetInduction
<1>4. \A n \in Nat : Eq(stage(n), n)
  <2> HIDE DEF Eq
  <2> QED
    BY <1>3
<1> HIDE DEF stage
<1>5. \A n \in Nat : \A i \in 0..n :
        stage(n)[i] = IF i = 0 THEN {ce} ELSE grown(stage(n)[i - 1])
  BY <1>4
<1>6. ASSUME NEW n \in Nat, NEW m \in Nat
      PROVE  \A k \in Nat : k <= n /\ k <= m => stage(n)[k] = stage(m)[k]
  <2> DEFINE Same == {k \in Nat : k <= n /\ k <= m => stage(n)[k] = stage(m)[k]}
  <2>1. 0 \in Same
    <3>1. 0 \in 0..n /\ 0 \in 0..m
      OBVIOUS
    <3> QED
      BY <1>5, <3>1
  <2>2. ASSUME NEW k \in Nat, k \in Same
        PROVE  k + 1 \in Same
    <3> SUFFICES ASSUME k + 1 <= n, k + 1 <= m
                 PROVE  stage(n)[k + 1] = stage(m)[k + 1]
      OBVIOUS
    <3>1. k + 1 \in 0..n /\ k + 1 \in 0..m /\ k + 1 # 0 /\ (k + 1) - 1 = k /\ k <= n /\ k <= m
      OBVIOUS
    <3>2. stage(n)[k + 1] = grown(stage(n)[k]) /\ stage(m)[k + 1] = grown(stage(m)[k])
      BY <1>5, <3>1
    <3> QED
      BY <2>2, <3>1, <3>2
  <2>3. Nat \subseteq Same
    <3> HIDE DEF Same
    <3> QED
      BY <2>1, <2>2, SetInduction
  <2> QED
    BY <2>3
<1>7. \A n \in Nat : w[n] = IF n = 0 THEN {ce} ELSE grown(w[n - 1])
  <2> TAKE n \in Nat
  <2>1. CASE n = 0
    <3>1. 0 \in 0..0
      OBVIOUS
    <3> QED
      BY <1>5, <2>1, <3>1
  <2>2. CASE n # 0
    <3>1. n \in 0..n /\ n - 1 \in Nat /\ n - 1 <= n /\ n - 1 <= n - 1
      BY <2>2
    <3>2. stage(n)[n] = grown(stage(n)[n - 1])
      BY <1>5, <2>2, <3>1
    <3>3. stage(n)[n - 1] = stage(n - 1)[n - 1]
      BY <1>6, <3>1
    <3> QED
      BY <2>2, <3>1, <3>2, <3>3
  <2> QED
    BY <2>1, <2>2
<1>8. w = [n \in Nat |-> IF n = 0 THEN {ce} ELSE grown(w[n - 1])]
  <2>1. w = [n \in Nat |-> w[n]]
    OBVIOUS
  <2> HIDE DEF w
  <2> QED
    BY <1>7, <2>1
<1> QED
  BY <1>8 DEF IsLevels, grown

\* The set of addresses one step further each time.
Levels(W, ce, nb) ==
  /\ W[0] = {ce}
  /\ \A n \in Nat : W[n] \in SUBSET Addresses
  /\ \A n \in Nat : W[n + 1] = W[n] \cup UNION {nb[a] : a \in W[n]}

LEMMA LevelsAreLevels ==
  ASSUME NEW ce \in Addresses, NEW nb \in [Addresses -> SUBSET Addresses],
         NEW W, IsLevels(W, ce, nb)
  PROVE  Levels(W, ce, nb)
<1>1. W[0] = {ce}
  BY DEF IsLevels
<1>2. \A n \in Nat : W[n + 1] = W[n] \cup UNION {nb[a] : a \in W[n]}
  <2> TAKE n \in Nat
  <2>1. n + 1 \in Nat /\ n + 1 # 0 /\ (n + 1) - 1 = n
    OBVIOUS
  <2>2. \A m \in Nat : m # 0 => W[m] = W[m - 1] \cup UNION {nb[a] : a \in W[m - 1]}
    BY DEF IsLevels
  <2> QED
    BY <2>1, <2>2
<1> DEFINE T == {n \in Nat : W[n] \in SUBSET Addresses}
<1>3. 0 \in T
  BY <1>1
<1>4. ASSUME NEW n \in Nat, n \in T
      PROVE  n + 1 \in T
  <2>1. \A a \in W[n] : nb[a] \in SUBSET Addresses
    BY <1>4
  <2> QED
    BY <1>2, <1>4, <2>1
<1>5. Nat \subseteq T
  <2> HIDE DEF T
  <2> QED
    BY <1>3, <1>4, SetInduction
<1> QED
  BY <1>1, <1>2, <1>5 DEF Levels

LEMMA NeighboursType ==
  ASSUME NEW c \in Chains
  PROVE  /\ \A a \in Addresses : /\ Called(c, a) \in SUBSET Addresses
                                 /\ Callers(c, a) \in SUBSET Addresses
         /\ Neighbours(c) \in [Addresses -> SUBSET Addresses]
         /\ Partners(c) \in [Addresses -> SUBSET Addresses]
<1>1. \A a \in Addresses : /\ Called(c, a) \in SUBSET Addresses
                           /\ Callers(c, a) \in SUBSET Addresses
  BY FiniteDatabases DEF Called, Callers, Sent, Received
<1>2. Neighbours(c) \in [Addresses -> SUBSET Addresses]
  BY <1>1 DEF Neighbours
<1>3. Partners(c) \in [Addresses -> SUBSET Addresses]
  BY <1>1 DEF Partners
<1> QED
  BY <1>1, <1>2, <1>3

LEMMA WithinIsLevels ==
  ASSUME NEW ce \in Addresses, NEW nb \in [Addresses -> SUBSET Addresses]
  PROVE  Levels(Within(nb, ce), ce, nb)
<1>1. Within(nb, ce) = CHOOSE w : IsLevels(w, ce, nb)
  BY Zenon DEF Within, IsLevels
<1>2. IsLevels(Within(nb, ce), ce, nb)
  BY <1>1, LevelsDefined
<1> QED
  BY <1>2, LevelsAreLevels

LEMMA LevelsGrow ==
  ASSUME NEW W, NEW ce, NEW nb, Levels(W, ce, nb), NEW m \in Nat, NEW n \in Nat, m <= n
  PROVE  W[m] \subseteq W[n]
<1> DEFINE T == {i \in Nat : W[m] \subseteq W[m + i]}
<1>1. 0 \in T
  OBVIOUS
<1>2. ASSUME NEW i \in Nat, i \in T
      PROVE  i + 1 \in T
  <2>1. W[(m + i) + 1] = W[m + i] \cup UNION {nb[a] : a \in W[m + i]} /\ m + (i + 1) = (m + i) + 1
    BY DEF Levels
  <2> QED
    BY <1>2, <2>1
<1>3. Nat \subseteq T
  <2> HIDE DEF T
  <2> QED
    BY <1>1, <1>2, SetInduction
<1>4. n - m \in Nat /\ m + (n - m) = n
  OBVIOUS
<1> QED
  BY <1>3, <1>4

LEMMA ClosedHoldsLevels ==
  ASSUME NEW W, NEW ce, NEW nb, Levels(W, ce, nb), NEW V, ce \in V, \A a \in V : nb[a] \subseteq V,
         NEW n \in Nat
  PROVE  W[n] \subseteq V
<1> DEFINE T == {i \in Nat : W[i] \subseteq V}
<1>1. 0 \in T
  BY DEF Levels
<1>2. ASSUME NEW i \in Nat, i \in T
      PROVE  i + 1 \in T
  <2>1. W[i + 1] = W[i] \cup UNION {nb[a] : a \in W[i]}
    BY DEF Levels
  <2> QED
    BY <1>2, <2>1
<1>3. Nat \subseteq T
  <2> HIDE DEF T
  <2> QED
    BY <1>1, <1>2, SetInduction
<1> QED
  BY <1>3

(***************************************************************************)
(* Breadth-first search                                                    *)
(***************************************************************************)

\* A queue of k entries as two functions: whom each names, and how far away.
Names(q) == [i \in 1..Len(q) |-> q[i][1]]
Steps(q) == [i \in 1..Len(q) |-> q[i][2]]

\* What holds of a search whatever its queries leave out: the queue holds
\* visited addresses with a number of steps they can be reached in, and no
\* address is further away than the depth allows.
Reached(W, dmax, V, k, x, h) ==
  /\ V \in SUBSET W[dmax]
  /\ \A i \in 1..k : x[i] \in V /\ x[i] \in W[h[i]] /\ h[i] <= dmax

\* What holds if they leave out nothing: the queue is ordered, its entries are
\* no nearer than they say, and what is visited is never ahead of a nearer
\* address; while there is room, what is visited and not queued has all its
\* neighbours visited, and everything as near as the head is visited.
Nearest(W, nb, V, k, x, h, full) ==
  /\ \A i \in 1..k : \A n \in Nat : n < h[i] => x[i] \notin W[n]
  /\ \A i, j \in 1..k : i <= j => h[i] <= h[j] /\ h[j] <= h[i] + 1
  /\ \A n \in Nat : V \subseteq W[n] \/ W[n] \subseteq V
  /\ k # 0 => V \subseteq W[h[1] + 1]
  /\ ~full => /\ \A a \in V : (\E i \in 1..k : x[i] = a) \/ nb[a] \subseteq V
              /\ k # 0 => W[h[1]] \subseteq V

\* The queue y, g after the head of x, h is served and s is queued for d.
Served(k, x, h, n, s, d, y, g) ==
  \A i \in 1..(k - 1) + n :
    /\ i <= k - 1 => y[i] = x[i + 1] /\ g[i] = h[i + 1]
    /\ i > k - 1 => y[i] = s[i - (k - 1)] /\ g[i] = d

LEMMA QueueType ==
  ASSUME NEW A, NEW q \in Seq(A \X Nat)
  PROVE  /\ Len(q) \in Nat /\ Names(q) \in [1..Len(q) -> A] /\ Steps(q) \in [1..Len(q) -> Nat]
         /\ q # <<>> <=> Len(q) # 0
         /\ q # <<>> => Head(q)[1] = Names(q)[1] /\ Head(q)[2] = Steps(q)[1]
<1>1. Len(q) \in Nat /\ (q # <<>> <=> Len(q) # 0)
  BY LenProperties, EmptySeq
<1>2. \A i \in 1..Len(q) : q[i] \in A \X Nat
  BY ElementOfSeq
<1>3. \A i \in 1..Len(q) : q[i][1] \in A /\ q[i][2] \in Nat
  BY <1>2
<1>4. q # <<>> => Head(q) = q[1] /\ 1 \in 1..Len(q)
  BY <1>1
<1> QED
  BY <1>1, <1>3, <1>4 DEF Names, Steps

LEMMA QueueServed ==
  ASSUME NEW A, NEW q \in Seq(A \X Nat), q # <<>>, NEW s \in Seq(A), NEW d \in Nat,
         NEW r, r = Tail(q) \o Enqueued(s, d)
  PROVE  /\ r \in Seq(A \X Nat) /\ Len(r) = (Len(q) - 1) + Len(s)
         /\ Served(Len(q), Names(q), Steps(q), Len(s), s, d, Names(r), Steps(r))
<1> DEFINE e == Enqueued(s, d)
           m == Len(q) - 1
<1>1. Len(s) \in Nat /\ DOMAIN s = 1..Len(s) /\ s \in [1..Len(s) -> A]
  BY LenProperties
<1>2. e = [i \in 1..Len(s) |-> <<s[i], d>>]
  BY <1>1 DEF Enqueued
<1>3. e \in Seq(A \X Nat) /\ Len(e) = Len(s) /\ \A i \in 1..Len(s) : e[i] = <<s[i], d>>
  BY <1>1, <1>2
<1>4. /\ Len(q) \in Nat \ {0}
      /\ Tail(q) \in Seq(A \X Nat) /\ Len(Tail(q)) = m
      /\ \A i \in 1..m : Tail(q)[i] = q[i + 1]
  BY LenProperties, EmptySeq, HeadTailProperties
<1> HIDE DEF e, m
<1>5. m \in Nat
  BY <1>4 DEF m
<1>6. /\ r \in Seq(A \X Nat) /\ Len(r) = m + Len(s)
      /\ \A i \in 1..m + Len(s) : r[i] = IF i <= m THEN Tail(q)[i] ELSE e[i - m]
  <2> DEFINE B == A \X Nat
             t == Tail(q)
  <2>1. t \in Seq(B) /\ e \in Seq(B) /\ Len(t) = m /\ Len(e) = Len(s) /\ r = t \o e
    BY <1>3, <1>4 DEF e
  <2> HIDE DEF B, t
  <2>2. /\ t \o e \in Seq(B) /\ Len(t \o e) = Len(t) + Len(e)
        /\ \A i \in 1..Len(t) + Len(e) : (t \o e)[i] = IF i <= Len(t) THEN t[i] ELSE e[i - Len(t)]
    BY <2>1, ConcatProperties
  <2>3. /\ r \in Seq(B) /\ Len(r) = m + Len(s)
        /\ \A i \in 1..m + Len(s) : r[i] = IF i <= m THEN t[i] ELSE e[i - m]
    BY <2>1, <2>2
  <2> QED
    BY <2>3 DEF B, t
<1>7. ASSUME NEW i \in 1..m + Len(s)
      PROVE  /\ i <= m => Names(r)[i] = Names(q)[i + 1] /\ Steps(r)[i] = Steps(q)[i + 1]
             /\ i > m => Names(r)[i] = s[i - m] /\ Steps(r)[i] = d
  <2>1. Names(r)[i] = r[i][1] /\ Steps(r)[i] = r[i][2]
    BY <1>6 DEF Names, Steps
  <2>2. CASE i <= m
    <3>1. i \in 1..m /\ i + 1 \in 1..Len(q)
      BY <1>4, <1>5, <2>2 DEF m
    <3>2. r[i] = q[i + 1]
      BY <1>4, <1>6, <2>2, <3>1
    <3>3. Names(q)[i + 1] = q[i + 1][1] /\ Steps(q)[i + 1] = q[i + 1][2]
      BY <3>1 DEF Names, Steps
    <3>4. ~(i > m)
      BY <1>5, <2>2
    <3>5. Names(r)[i] = Names(q)[i + 1] /\ Steps(r)[i] = Steps(q)[i + 1]
      BY <2>1, <3>2, <3>3
    <3> QED
      BY <3>4, <3>5
  <2>3. CASE ~(i <= m)
    <3>1. i - m \in 1..Len(s)
      BY <1>1, <1>5, <2>3
    <3> DEFINE p == r[i]
               b == s[i - m]
    <3>2. p = <<b, d>>
      BY <1>3, <1>6, <2>3, <3>1
    <3> HIDE DEF p, b
    <3>3. p[1] = b /\ p[2] = d
      BY <3>2
    <3> QED
      BY <2>1, <2>3, <3>3 DEF p, b
  <2> QED
    BY <2>2, <2>3
<1> QED
  BY <1>6, <1>7 DEF Served, m

LEMMA ReachedAtFirst ==
  ASSUME NEW ce \in Addresses, NEW nb, NEW W, Levels(W, ce, nb), NEW dmax \in Nat,
         NEW x, x[1] = ce, NEW h, h[1] = 0, NEW full \in BOOLEAN
  PROVE  Reached(W, dmax, {ce}, 1, x, h) /\ Nearest(W, nb, {ce}, 1, x, h, full)
<1>1. \A i \in 1..1 : i = 1
  OBVIOUS
<1>2. W[0] = {ce} /\ \A n \in Nat : {ce} \subseteq W[n]
  <2>1. W[0] = {ce}
    BY DEF Levels
  <2> QED
    BY <2>1, LevelsGrow
<1>3. {ce} \subseteq W[0 + 1]
  BY <1>2
<1>4. Reached(W, dmax, {ce}, 1, x, h)
  BY <1>1, <1>2 DEF Reached
<1>5. Nearest(W, nb, {ce}, 1, x, h, full)
  BY <1>1, <1>2, <1>3 DEF Nearest
<1> QED
  BY <1>4, <1>5

\* The entries of the new queue are old ones behind the head and new ones.
Entries(k, x, h, n, S, d, y, g) ==
  /\ \A i \in 1..(k - 1) + n :
       \/ i <= k - 1 /\ i + 1 \in 1..k /\ y[i] = x[i + 1] /\ g[i] = h[i + 1]
       \/ i > k - 1 /\ y[i] \in S /\ g[i] = d
  /\ \A i \in 2..k : i - 1 \in 1..(k - 1) + n /\ y[i - 1] = x[i]
  /\ \A b \in S : \E i \in 1..(k - 1) + n : y[i] = b

LEMMA ServedEntries ==
  ASSUME NEW A, NEW k \in Nat \ {0}, NEW x \in [1..k -> A], NEW h \in [1..k -> Nat],
         NEW n \in Nat, NEW s \in [1..n -> A], NEW S, S = {s[i] : i \in 1..n}, NEW d \in Nat,
         NEW y, NEW g, Served(k, x, h, n, s, d, y, g)
  PROVE  Entries(k, x, h, n, S, d, y, g)
<1>1. ASSUME NEW i \in 1..(k - 1) + n
      PROVE  \/ i <= k - 1 /\ i + 1 \in 1..k /\ y[i] = x[i + 1] /\ g[i] = h[i + 1]
             \/ i > k - 1 /\ y[i] \in S /\ g[i] = d
  <2>1. CASE i <= k - 1
    BY <2>1 DEF Served
  <2>2. CASE i > k - 1
    <3>1. i - (k - 1) \in 1..n
      BY <2>2
    <3> QED
      BY <2>2, <3>1 DEF Served
  <2> QED
    BY <2>1, <2>2
<1>2. ASSUME NEW i \in 2..k
      PROVE  i - 1 \in 1..(k - 1) + n /\ y[i - 1] = x[i]
  <2>1. i - 1 \in 1..(k - 1) + n /\ i - 1 <= k - 1 /\ (i - 1) + 1 = i
    OBVIOUS
  <2> QED
    BY <2>1 DEF Served
<1>3. ASSUME NEW b \in S
      PROVE  \E i \in 1..(k - 1) + n : y[i] = b
  <2>1. PICK j \in 1..n : s[j] = b
    OBVIOUS
  <2>2. (k - 1) + j \in 1..(k - 1) + n /\ (k - 1) + j > k - 1 /\ ((k - 1) + j) - (k - 1) = j
    OBVIOUS
  <2>3. y[(k - 1) + j] = b
    BY <2>1, <2>2 DEF Served
  <2> QED
    BY <2>2, <2>3
<1> QED
  BY <1>1, <1>2, <1>3 DEF Entries

\* Serving the head of the queue, d steps away: S are the neighbours that are
\* new and kept, queued one step further away.
LEMMA ReachedOnward ==
  ASSUME NEW ce, NEW nb, NEW W, Levels(W, ce, nb), NEW dmax \in Nat, NEW V,
         NEW k \in Nat \ {0}, NEW x \in [1..k -> Addresses], NEW h \in [1..k -> Nat],
         Reached(W, dmax, V, k, x, h), NEW d \in Nat, d = h[1], d < dmax,
         NEW n \in Nat, NEW s \in [1..n -> Addresses], NEW S, S = {s[i] : i \in 1..n},
         S \subseteq nb[x[1]],
         NEW y, NEW g, Served(k, x, h, n, s, d + 1, y, g)
  PROVE  Reached(W, dmax, V \cup S, (k - 1) + n, y, g)
<1>1. 1 \in 1..k /\ d + 1 \in Nat /\ d + 1 <= dmax
  OBVIOUS
<1>2. x[1] \in W[d]
  BY <1>1 DEF Reached
<1>3. S \subseteq W[d + 1]
  <2>1. W[d + 1] = W[d] \cup UNION {nb[a] : a \in W[d]}
    BY DEF Levels
  <2> QED
    BY <1>2, <2>1
<1>4. W[d + 1] \subseteq W[dmax]
  BY <1>1, LevelsGrow
<1>5. \A i \in 1..(k - 1) + n :
        \/ i <= k - 1 /\ i + 1 \in 1..k /\ y[i] = x[i + 1] /\ g[i] = h[i + 1]
        \/ i > k - 1 /\ y[i] \in S /\ g[i] = d + 1
  <2>1. Entries(k, x, h, n, S, d + 1, y, g)
    BY <1>1, ServedEntries
  <2> QED
    BY <2>1 DEF Entries
<1>6. ASSUME NEW i \in 1..(k - 1) + n
      PROVE  y[i] \in V \cup S /\ y[i] \in W[g[i]] /\ g[i] <= dmax
  <2>1. CASE i + 1 \in 1..k /\ y[i] = x[i + 1] /\ g[i] = h[i + 1]
    BY <2>1 DEF Reached
  <2>2. CASE y[i] \in S /\ g[i] = d + 1
    BY <1>1, <1>3, <2>2
  <2> QED
    BY <1>5, <2>1, <2>2
<1>7. V \cup S \in SUBSET W[dmax]
  BY <1>3, <1>4 DEF Reached
<1> QED
  BY <1>6, <1>7 DEF Reached

LEMMA NearestOnward ==
  ASSUME NEW ce, NEW nb, NEW W, Levels(W, ce, nb), NEW dmax \in Nat, NEW V,
         NEW k \in Nat \ {0}, NEW x \in [1..k -> Addresses], NEW h \in [1..k -> Nat],
         Reached(W, dmax, V, k, x, h), Nearest(W, nb, V, k, x, h, FALSE),
         NEW d \in Nat, d = h[1],
         NEW n \in Nat, NEW s \in [1..n -> Addresses], NEW S, S = {s[i] : i \in 1..n},
         S \subseteq nb[x[1]] \ V,
         NEW full \in BOOLEAN, ~full => S = nb[x[1]] \ V,
         NEW y, NEW g, Served(k, x, h, n, s, d + 1, y, g)
  PROVE  Nearest(W, nb, V \cup S, (k - 1) + n, y, g, full)
<1> DEFINE U == V \cup S
           l == (k - 1) + n
<1>1. 1 \in 1..k /\ d + 1 \in Nat /\ l \in Nat
  OBVIOUS
<1>2. x[1] \in W[d] /\ x[1] \in V
  BY <1>1 DEF Reached
<1>3. S \subseteq W[d + 1] /\ W[d] \subseteq V /\ V \subseteq W[d + 1]
  BY <1>2 DEF Levels, Nearest
<1>4. \A m \in Nat : m <= d => W[m] \subseteq V
  <2> TAKE m \in Nat
  <2> HAVE m <= d
  <2>1. W[m] \subseteq W[d]
    BY LevelsGrow
  <2> QED
    BY <1>3, <2>1
<1>5. \A m \in Nat : m >= d + 1 => W[d + 1] \subseteq W[m]
  BY <1>1, LevelsGrow
<1>6. /\ \A i \in 1..l : \/ i <= k - 1 /\ i + 1 \in 1..k /\ y[i] = x[i + 1] /\ g[i] = h[i + 1]
                         \/ i > k - 1 /\ y[i] \in S /\ g[i] = d + 1
      /\ \A i \in 2..k : i - 1 \in 1..l /\ y[i - 1] = x[i]
      /\ \A b \in S : \E i \in 1..l : y[i] = b
  <2>1. Entries(k, x, h, n, S, d + 1, y, g)
    BY <1>1, ServedEntries
  <2> QED
    BY <2>1 DEF Entries
<1>7. \A i \in 1..k : h[i] \in Nat /\ d <= h[i] /\ h[i] <= d + 1
  <2>1. \A i, j \in 1..k : i <= j => h[i] <= h[j] /\ h[j] <= h[i] + 1
    BY DEF Nearest
  <2>2. \A j \in 1..k : h[1] <= h[j] /\ h[j] <= h[1] + 1
    BY <1>1, <2>1
  <2> QED
    BY <2>2
<1> HIDE DEF U, l
<1>8. \A i \in 1..l : g[i] \in Nat /\ d <= g[i] /\ g[i] <= d + 1
  BY <1>1, <1>6, <1>7
\* No entry is nearer than it says.
<1>9. ASSUME NEW i \in 1..l, NEW m \in Nat, m < g[i]
      PROVE  y[i] \notin W[m]
  <2>1. CASE i + 1 \in 1..k /\ y[i] = x[i + 1] /\ g[i] = h[i + 1]
    BY <1>9, <2>1 DEF Nearest
  <2>2. CASE y[i] \in S /\ g[i] = d + 1
    <3>1. m <= d
      BY <1>9, <2>2
    <3> QED
      BY <1>4, <2>2, <3>1
  <2> QED
    BY <1>6, <2>1, <2>2
<1>10. ASSUME NEW i \in 1..l, NEW j \in 1..l, i <= j
       PROVE  g[i] <= g[j] /\ g[j] <= g[i] + 1
  <2>1. CASE j <= k - 1
    <3>1. i + 1 \in 1..k /\ j + 1 \in 1..k /\ i + 1 <= j + 1 /\ i <= k - 1
      BY <1>10, <2>1
    <3>2. g[i] = h[i + 1] /\ g[j] = h[j + 1]
      BY <1>6, <2>1, <3>1
    <3> QED
      BY <3>1, <3>2 DEF Nearest
  <2>2. CASE j > k - 1
    <3>1. g[j] = d + 1
      BY <1>6, <2>2
    <3> QED
      BY <1>8, <3>1
  <2> QED
    BY <2>1, <2>2
<1>11. U \subseteq W[d + 1]
  BY <1>3 DEF U
<1>12. ASSUME NEW m \in Nat
       PROVE  U \subseteq W[m] \/ W[m] \subseteq U
  <2>1. CASE m <= d
    BY <1>4, <2>1 DEF U
  <2>2. CASE m >= d + 1
    BY <1>5, <1>11, <2>2
  <2> QED
    BY <2>1, <2>2
<1>13. ASSUME l # 0
       PROVE  1 \in 1..l /\ U \subseteq W[g[1] + 1]
  <2>1. 1 \in 1..l
    BY <1>1, <1>13
  <2>2. g[1] + 1 \in Nat /\ g[1] + 1 >= d + 1
    BY <1>8, <2>1
  <2>3. W[d + 1] \subseteq W[g[1] + 1]
    BY <1>5, <2>2
  <2> QED
    BY <1>11, <2>1, <2>3
\* With room left, the head's neighbours are all visited now.
<1>14. ASSUME ~full, NEW b \in U
       PROVE  (\E i \in 1..l : y[i] = b) \/ nb[b] \subseteq U
  <2>1. CASE b \in S
    BY <1>6, <2>1
  <2>2. CASE b = x[1]
    BY <1>14, <2>2 DEF U
  <2>3. CASE b \in V /\ b # x[1]
    <3>1. (\E i \in 1..k : x[i] = b) \/ nb[b] \subseteq V
      BY <2>3 DEF Nearest
    <3>2. CASE nb[b] \subseteq V
      BY <3>2 DEF U
    <3>3. CASE \E i \in 1..k : x[i] = b
      <4>1. PICK i \in 1..k : x[i] = b
        BY <3>3
      <4>2. i \in 2..k
        BY <2>3, <4>1
      <4> QED
        BY <1>6, <4>1, <4>2
    <3> QED
      BY <3>1, <3>2, <3>3
  <2> QED
    BY <2>1, <2>2, <2>3 DEF U
\* When the head of the new queue is a step further, its level is complete.
<1>15. ASSUME ~full, l # 0
       PROVE  W[g[1]] \subseteq U
  <2>1. 1 \in 1..l
    BY <1>13, <1>15
  <2>2. CASE g[1] = d
    BY <1>3, <2>2 DEF U
  <2>3. CASE g[1] # d
    <3>1. g[1] = d + 1
      BY <1>8, <2>1, <2>3
    <3>2. \A i \in 1..l : g[i] > d
      BY <1>8, <1>10, <2>1, <3>1
    <3>3. ASSUME NEW z \in W[d]
          PROVE  nb[z] \subseteq U
      <4>1. z \in U
        BY <1>3 DEF U
      <4>2. \A i \in 1..l : y[i] # z
        BY <1>9, <3>2
      <4> QED
        BY <1>14, <1>15, <4>1, <4>2
    <3>4. W[d + 1] = W[d] \cup UNION {nb[z] : z \in W[d]}
      BY DEF Levels
    <3>5. W[d] \subseteq U
      BY <1>3 DEF U
    <3>6. W[d + 1] \subseteq U
      BY <3>3, <3>4, <3>5
    <3> QED
      BY <3>1, <3>6
  <2> QED
    BY <2>2, <2>3
<1>16. Nearest(W, nb, U, l, y, g, full)
  BY <1>9, <1>10, <1>12, <1>13, <1>14, <1>15 DEF Nearest
<1> QED
  BY <1>16 DEF U, l

\* At the end: with an empty queue, or with a head as far away as the depth.
LEMMA NearestAtLast ==
  ASSUME NEW ce \in Addresses, NEW nb, NEW W, Levels(W, ce, nb), NEW dmax \in Nat,
         NEW V, ce \in V, NEW k \in Nat, NEW x, NEW h \in [1..k -> Nat], NEW full \in BOOLEAN,
         Reached(W, dmax, V, k, x, h), Nearest(W, nb, V, k, x, h, full),
         k = 0 \/ h[1] >= dmax, ~full
  PROVE  V = W[dmax]
<1>1. V \subseteq W[dmax]
  BY DEF Reached
<1>2. CASE k = 0
  <2>1. \A a \in V : nb[a] \subseteq V
    BY <1>2 DEF Nearest
  <2>2. W[dmax] \subseteq V
    BY <2>1, ClosedHoldsLevels
  <2> QED
    BY <1>1, <2>2
<1>3. CASE k # 0 /\ h[1] >= dmax
  <2>1. 1 \in 1..k
    BY <1>3
  <2>2. h[1] = dmax
    <3>1. h[1] \in Nat /\ h[1] <= dmax
      BY <2>1 DEF Reached
    <3> QED
      BY <1>3, <3>1
  <2>3. W[h[1]] \subseteq V
    BY <1>3 DEF Nearest
  <2> QED
    BY <1>1, <2>2, <2>3
<1> QED
  BY <1>2, <1>3

(***************************************************************************)
(* The two searches                                                        *)
(***************************************************************************)

\* Whom a search follows, how far that leads, and whether it is out of room.
Followed == IF kind = "graph" THEN Neighbours(chain) ELSE Partners(chain)
Reach == Within(Followed, center)
Full == kind = "graph" /\ Len(found) >= limit

\* The counterparties a clustering query returns, and the databases on which
\* no LIMIT of a search's queries cuts anything off.
OftenCalled(c, a) ==
  {b \in Called(c, a) : Cardinality({r \in Sent(c, a) : r.tx.to = b}) >= MinCount}
OftenCallers(c, a) ==
  {b \in Callers(c, a) : Cardinality({r \in Received(c, a) : r.tx.from = b}) >= MinCount}

GraphRowsFit(c) ==
  \A a \in Addresses : Cardinality(Called(c, a)) <= FanOut /\ Cardinality(Callers(c, a)) <= FanOut
ClusterRowsFit(c) ==
  \A a \in Addresses : /\ Cardinality(OftenCalled(c, a)) <= ClusterFanOut
                       /\ Cardinality(OftenCallers(c, a)) <= ClusterFanOut
RowsFit == IF kind = "graph" THEN GraphRowsFit(chain) ELSE ClusterRowsFit(chain)

\* The inductive invariant: what holds on every database, ...
Request ==
  /\ chain \in Chains /\ center \in Addresses /\ depth \in Depths /\ limit \in NodeLimits
  /\ kind \in {"graph", "cluster"} /\ search \in {kind, "done"}

SoundInv ==
  /\ Request
  /\ found \in Seq(Addresses) /\ Once(found)
  /\ center \in visited
  /\ ToSet(found) = IF kind = "graph" THEN visited \ {center} ELSE visited
  /\ kind = "graph" => Len(found) <= limit
  /\ visited \subseteq Reach[depth]
  /\ interactions \in Nat
  /\ kind = "cluster" => interactions >= MinCount * (Len(found) - 1)
  /\ search # "done" =>
       /\ queue \in Seq(Addresses \X Nat)
       /\ Reached(Reach, depth, visited, Len(queue), Names(queue), Steps(queue))

\* ... and what holds where nothing is cut off.
ExactInv ==
  RowsFit =>
    /\ \A n \in Nat : visited \subseteq Reach[n] \/ Reach[n] \subseteq visited
    /\ search # "done" =>
         Nearest(Reach, Followed, visited, Len(queue), Names(queue), Steps(queue), Full)
    /\ search = "done" /\ ~Full => visited = Reach[depth]

LEMMA FollowedLevels ==
  ASSUME Request
  PROVE  /\ Followed \in [Addresses -> SUBSET Addresses]
         /\ Levels(Reach, center, Followed)
         /\ depth \in Nat /\ limit \in Nat
<1>1. Followed \in [Addresses -> SUBSET Addresses]
  BY NeighboursType DEF Request, Followed
<1>2. center \in Addresses /\ depth \in Nat /\ limit \in Nat
  BY SearchLimits DEF Request
<1> HIDE DEF Followed
<1>3. Levels(Within(Followed, center), center, Followed)
  BY <1>1, <1>2, WithinIsLevels
<1> QED
  BY <1>1, <1>2, <1>3 DEF Reach

LEMMA InitSound ==
  ASSUME Init
  PROVE  SoundInv /\ ExactInv
<1>1. Request
  BY DEF Init, Request
<1>2. /\ Levels(Reach, center, Followed) /\ depth \in Nat /\ limit \in Nat /\ center \in Addresses
  BY <1>1, FollowedLevels DEF Request
<1>3. queue = <<<<center, 0>>>> /\ visited = {center} /\ interactions = 0
  BY DEF Init
<1>4. queue \in Seq(Addresses \X Nat) /\ Len(queue) = 1
  BY <1>2, <1>3
<1>5. Names(queue)[1] = center /\ Steps(queue)[1] = 0
  BY <1>3, <1>4 DEF Names, Steps
<1>6. Full \in BOOLEAN
  BY DEF Full
<1>7. /\ Reached(Reach, depth, visited, Len(queue), Names(queue), Steps(queue))
      /\ Nearest(Reach, Followed, visited, Len(queue), Names(queue), Steps(queue), Full)
  BY <1>2, <1>3, <1>4, <1>5, <1>6, ReachedAtFirst
<1>8. /\ found \in Seq(Addresses) /\ Once(found)
      /\ ToSet(found) = IF kind = "graph" THEN visited \ {center} ELSE visited
      /\ kind = "graph" => Len(found) = 0
      /\ kind = "cluster" => Len(found) = 1
  <2>1. CASE kind = "cluster"
    <3>1. found = <<center>>
      BY <2>1 DEF Init
    <3>2. /\ found \in Seq(Addresses) /\ Len(found) = 1 /\ found[1] = center
          /\ DOMAIN found = 1..1
      BY <1>2, <3>1
    <3>3. ToSet(found) = {center}
      BY <3>2 DEF ToSet
    <3> QED
      BY <1>3, <2>1, <3>2, <3>3 DEF Once
  <2>2. CASE kind = "graph"
    <3>1. found = <<>>
      BY <2>2 DEF Init
    <3>2. found \in Seq(Addresses) /\ Len(found) = 0 /\ ToSet(found) = {}
      BY <3>1 DEF ToSet
    <3> QED
      BY <1>3, <2>2, <3>2 DEF Once
  <2> QED
    BY <1>1, <2>1, <2>2 DEF Request
<1>9. MinCount * (1 - 1) = 0
  BY SearchLimits
<1>10. SoundInv
  <2>1. kind = "graph" => Len(found) <= limit
    BY <1>2, <1>8
  <2>2. kind = "cluster" => interactions >= MinCount * (Len(found) - 1)
    <3>1. interactions >= MinCount * (1 - 1)
      BY <1>3, <1>9
    <3> QED
      BY <1>8, <3>1
  <2>3. visited \subseteq Reach[depth]
    BY <1>7 DEF Reached
  <2> QED
    BY <1>1, <1>3, <1>4, <1>7, <1>8, <2>1, <2>2, <2>3 DEF SoundInv
<1>11. ExactInv
  <2>1. search # "done"
    BY DEF Init
  <2>2. \A n \in Nat : visited \subseteq Reach[n] \/ Reach[n] \subseteq visited
    BY <1>7 DEF Nearest
  <2> QED
    BY <1>7, <2>1, <2>2 DEF ExactInv
<1> QED
  BY <1>10, <1>11

\* One turn of either loop: s are the addresses it adds.
Expansion(s) ==
  /\ s \in Seq(Addresses) /\ Once(s)
  /\ ToSet(s) \subseteq Followed[Current] \ visited
  /\ found' = found \o s
  /\ visited' = visited \cup ToSet(s)
  /\ queue' = Tail(queue) \o Enqueued(s, CurrentDepth + 1)
  /\ UNCHANGED <<chain, center, depth, limit, search, kind>>

LEMMA CurrentType ==
  ASSUME SoundInv, search # "done", queue # <<>>
  PROVE  /\ Current \in Addresses /\ CurrentDepth \in Nat
         /\ Len(queue) \in Nat \ {0} /\ 1 \in 1..Len(queue)
         /\ Names(queue) \in [1..Len(queue) -> Addresses]
         /\ Steps(queue) \in [1..Len(queue) -> Nat]
         /\ Current = Names(queue)[1] /\ CurrentDepth = Steps(queue)[1]
<1>1. queue \in Seq(Addresses \X Nat)
  BY DEF SoundInv
<1>2. /\ Len(queue) \in Nat /\ Len(queue) # 0
      /\ Names(queue) \in [1..Len(queue) -> Addresses]
      /\ Steps(queue) \in [1..Len(queue) -> Nat]
      /\ Head(queue)[1] = Names(queue)[1] /\ Head(queue)[2] = Steps(queue)[1]
  BY <1>1, QueueType
<1>3. 1 \in 1..Len(queue)
  BY <1>2
<1> QED
  BY <1>2, <1>3 DEF Current, CurrentDepth

LEMMA ExpandGraphAdds ==
  ASSUME SoundInv, ExpandGraph
  PROVE  \E s : /\ Expansion(s) /\ interactions' = interactions
                /\ kind = "graph" /\ Len(s) <= limit - Len(found)
                /\ RowsFit /\ Len(s) < limit - Len(found) => ToSet(s) = Followed[Current] \ visited
<1>1. /\ search = "graph" /\ queue # <<>> /\ Len(found) < limit
      /\ UNCHANGED <<chain, center, depth, limit, search, kind, interactions>>
  BY DEF ExpandGraph
<1>2. /\ kind = "graph" /\ Request /\ chain \in Chains /\ search # "done"
      /\ Len(found) \in Nat /\ limit \in Nat
  BY <1>1, FollowedLevels, LenProperties DEF SoundInv, Request
<1>3. Current \in Addresses /\ CurrentDepth \in Nat
  BY <1>1, <1>2, CurrentType
<1>4. /\ DOMAIN SentTo(Current) = Called(chain, Current)
      /\ DOMAIN ReceivedFrom(Current) = Callers(chain, Current)
  BY DEF SentTo, ReceivedFrom
<1>5. /\ Called(chain, Current) \in SUBSET Addresses /\ Callers(chain, Current) \in SUBSET Addresses
      /\ IsFiniteSet(Called(chain, Current)) /\ IsFiniteSet(Callers(chain, Current))
      /\ Followed[Current] = Called(chain, Current) \cup Callers(chain, Current)
  <2>1. Called(chain, Current) \in SUBSET Addresses /\ Callers(chain, Current) \in SUBSET Addresses
    BY <1>2, <1>3, NeighboursType
  <2>2. IsFiniteSet(Called(chain, Current)) /\ IsFiniteSet(Callers(chain, Current))
    BY <2>1, FiniteDatabases, FS_Subset
  <2> QED
    BY <1>2, <1>3, <2>1, <2>2 DEF Followed, Neighbours
<1>6. PICK out \in Results(SentTo(Current), FanOut), in \in Results(ReceivedFrom(Current), FanOut) :
        LET fresh == Admitted(out, visited, limit - Len(found))
            more == Admitted(in, visited \cup ToSet(fresh), limit - Len(found) - Len(fresh))
        IN /\ found' = found \o fresh \o more
           /\ visited' = visited \cup ToSet(fresh) \cup ToSet(more)
           /\ queue' = Tail(queue) \o Enqueued(fresh \o more, CurrentDepth + 1)
  BY DEF ExpandGraph
<1> DEFINE room == limit - Len(found)
           fresh == Admitted(out, visited, room)
           spare == room - Len(fresh)
           more == Admitted(in, visited \cup ToSet(fresh), spare)
           s == fresh \o more
<1>7. /\ found' = found \o fresh \o more
      /\ visited' = visited \cup ToSet(fresh) \cup ToSet(more)
      /\ queue' = Tail(queue) \o Enqueued(s, CurrentDepth + 1)
  BY <1>6
<1>8. /\ out \in Seq(Called(chain, Current)) /\ Once(out)
      /\ Cardinality(Called(chain, Current)) <= FanOut => ToSet(out) = Called(chain, Current)
  BY <1>4, <1>5, SearchLimits, ResultRows
<1>9. /\ in \in Seq(Callers(chain, Current)) /\ Once(in)
      /\ Cardinality(Callers(chain, Current)) <= FanOut => ToSet(in) = Callers(chain, Current)
  BY <1>4, <1>5, SearchLimits, ResultRows
<1>10. room \in Nat /\ room > 0
  BY <1>1, <1>2
<1>11. /\ out \in Seq(Addresses) /\ in \in Seq(Addresses)
       /\ ToSet(out) \in SUBSET Called(chain, Current)
       /\ ToSet(in) \in SUBSET Callers(chain, Current)
  BY <1>5, <1>8, <1>9, SeqMonotonic, ToSetElements
<1>12. fresh = Admitted(out, visited, room) /\ more = Admitted(in, visited \cup ToSet(fresh), spare)
  OBVIOUS
<1>13. spare = room - Len(fresh)
  OBVIOUS
<1> HIDE DEF room, fresh, more, spare, s
<1>14. spare \in Nat
  <2>1. NewRows(Addresses, out, visited, room, fresh)
    BY <1>8, <1>10, <1>11, <1>12, AdmittedRows
  <2>2. Len(fresh) \in Nat /\ Len(fresh) <= room
    BY <2>1, LenProperties DEF NewRows
  <2> QED
    BY <1>10, <1>13, <2>2
<1>15. /\ fresh \in Seq(Addresses) /\ Once(fresh) /\ more \in Seq(Addresses) /\ Once(more)
       /\ Len(fresh) \in Nat /\ Len(fresh) <= room
       /\ Len(more) \in Nat /\ Len(more) <= spare
       /\ ToSet(fresh) \cap ToSet(more) = {}
       /\ ToSet(fresh) \subseteq ToSet(out) \ visited
       /\ ToSet(more) \subseteq ToSet(in) \ visited
       /\ /\ Len(fresh) < room \/ Len(out) <= room
          /\ Len(more) < spare \/ Len(in) <= spare
          => ToSet(fresh) \cup ToSet(more) = (ToSet(out) \cup ToSet(in)) \ visited
  <2>1. BothRows(Addresses, out, in, visited, room, spare, fresh, more)
    BY <1>8, <1>9, <1>10, <1>11, <1>12, <1>14, TwoQueries
  <2> QED
    BY <2>1 DEF BothRows
<1>16. /\ s \in Seq(Addresses) /\ Len(s) = Len(fresh) + Len(more)
       /\ ToSet(s) = ToSet(fresh) \cup ToSet(more) /\ Once(s)
  BY <1>15, OnceJoined DEF s
<1>17. Expansion(s)
  <2>1. found \o fresh \o more = found \o s
    <3>1. found \in Seq(Addresses)
      BY DEF SoundInv
    <3> QED
      BY <1>15, <3>1, ConcatAssociative DEF s
  <2>2. ToSet(s) \subseteq Followed[Current] \ visited
    BY <1>5, <1>11, <1>15, <1>16
  <2>3. visited' = visited \cup ToSet(s)
    BY <1>7, <1>16
  <2> QED
    BY <1>1, <1>7, <1>16, <2>1, <2>2, <2>3 DEF Expansion
<1>18. Len(s) <= room
  BY <1>10, <1>13, <1>15, <1>16
<1>19. ASSUME RowsFit, Len(s) < room
       PROVE  ToSet(s) = Followed[Current] \ visited
  <2>1. ToSet(out) = Called(chain, Current) /\ ToSet(in) = Callers(chain, Current)
    BY <1>2, <1>3, <1>8, <1>9, <1>19 DEF RowsFit, GraphRowsFit
  <2>2. Len(fresh) < room /\ Len(more) < spare
    BY <1>10, <1>13, <1>15, <1>16, <1>19
  <2> QED
    BY <1>5, <1>15, <1>16, <2>1, <2>2
<1> QED
  BY <1>1, <1>2, <1>17, <1>18, <1>19 DEF room
\* The clustering queries between them return the partners of an address, with
\* their counts: an address with MinCount transactions one way has one.
LEMMA OftenIsPartner ==
  ASSUME NEW c \in Chains, NEW a \in Addresses
  PROVE  /\ OftenCalled(c, a) \in SUBSET Addresses /\ OftenCallers(c, a) \in SUBSET Addresses
         /\ IsFiniteSet(OftenCalled(c, a)) /\ IsFiniteSet(OftenCallers(c, a))
         /\ Partners(c)[a] = OftenCalled(c, a) \cup OftenCallers(c, a)
<1>1. Called(c, a) \in SUBSET Addresses /\ Callers(c, a) \in SUBSET Addresses
  BY NeighboursType
<1>2. OftenCalled(c, a) \in SUBSET Addresses /\ OftenCallers(c, a) \in SUBSET Addresses
  BY <1>1 DEF OftenCalled, OftenCallers
<1>3. IsFiniteSet(OftenCalled(c, a)) /\ IsFiniteSet(OftenCallers(c, a))
  BY <1>2, FiniteDatabases, FS_Subset
<1>4. \A S : Cardinality(S) >= MinCount => S # {}
  BY SearchLimits, FS_EmptySet
<1>5. \A b \in Addresses :
        Cardinality({r \in Sent(c, a) : r.tx.to = b}) >= MinCount => b \in Called(c, a)
  <2> TAKE b \in Addresses
  <2> DEFINE S == {r \in Sent(c, a) : r.tx.to = b}
  <2> HAVE Cardinality(S) >= MinCount
  <2>1. S # {}
    BY <1>4
  <2>2. PICK r \in Sent(c, a) : r.tx.to = b
    BY <2>1
  <2> QED
    BY <2>2, FiniteDatabases DEF Called
<1>6. \A b \in Addresses :
        Cardinality({r \in Received(c, a) : r.tx.from = b}) >= MinCount => b \in Callers(c, a)
  <2> TAKE b \in Addresses
  <2> DEFINE S == {r \in Received(c, a) : r.tx.from = b}
  <2> HAVE Cardinality(S) >= MinCount
  <2>1. S # {}
    BY <1>4
  <2>2. PICK r \in Received(c, a) : r.tx.from = b
    BY <2>1
  <2> QED
    BY <2>2 DEF Callers
<1>7. Partners(c)[a] = OftenCalled(c, a) \cup OftenCallers(c, a)
  BY <1>1, <1>5, <1>6 DEF Partners, OftenCalled, OftenCallers
<1> QED
  BY <1>2, <1>3, <1>7

LEMMA OftenCounts ==
  ASSUME chain \in Chains, NEW a \in Addresses
  PROVE  /\ DOMAIN AtLeast(SentTo(a), MinCount) = OftenCalled(chain, a)
         /\ DOMAIN AtLeast(ReceivedFrom(a), MinCount) = OftenCallers(chain, a)
         /\ \A b \in OftenCalled(chain, a) : SentTo(a)[b] \in Nat /\ SentTo(a)[b] >= MinCount
         /\ \A b \in OftenCallers(chain, a) :
              ReceivedFrom(a)[b] \in Nat /\ ReceivedFrom(a)[b] >= MinCount
<1>1. IsFiniteSet(Rows(chain))
  BY FiniteDatabases
<1>2. \A b : /\ {r \in Sent(chain, a) : r.tx.to = b} \in SUBSET Rows(chain)
             /\ {r \in Received(chain, a) : r.tx.from = b} \in SUBSET Rows(chain)
  BY DEF Sent, Received
<1>3. \A b : /\ Cardinality({r \in Sent(chain, a) : r.tx.to = b}) \in Nat
             /\ Cardinality({r \in Received(chain, a) : r.tx.from = b}) \in Nat
  BY <1>1, <1>2, FS_Subset, FS_CardinalityType
<1> QED
  BY <1>3 DEF AtLeast, SentTo, ReceivedFrom, OftenCalled, OftenCallers

LEMMA ExpandClusterAdds ==
  ASSUME SoundInv, ExpandCluster
  PROVE  \E s : /\ Expansion(s) /\ kind = "cluster"
                /\ RowsFit => ToSet(s) = Followed[Current] \ visited
                /\ interactions' \in Nat /\ interactions' >= interactions + MinCount * Len(s)
<1>1. /\ search = "cluster" /\ queue # <<>>
      /\ UNCHANGED <<chain, center, depth, limit, search, kind>>
  BY DEF ExpandCluster
<1>2. kind = "cluster" /\ chain \in Chains /\ search # "done" /\ interactions \in Nat
  BY <1>1 DEF SoundInv, Request
<1>3. Current \in Addresses /\ CurrentDepth \in Nat
  BY <1>1, <1>2, CurrentType
<1> DEFINE Out == OftenCalled(chain, Current)
           In == OftenCallers(chain, Current)
<1>4. /\ DOMAIN AtLeast(SentTo(Current), MinCount) = Out
      /\ DOMAIN AtLeast(ReceivedFrom(Current), MinCount) = In
      /\ \A b \in Out : SentTo(Current)[b] \in Nat /\ SentTo(Current)[b] >= MinCount
      /\ \A b \in In : ReceivedFrom(Current)[b] \in Nat /\ ReceivedFrom(Current)[b] >= MinCount
  BY <1>2, <1>3, OftenCounts
<1>5. /\ Out \in SUBSET Addresses /\ In \in SUBSET Addresses
      /\ IsFiniteSet(Out) /\ IsFiniteSet(In)
      /\ Followed[Current] = Out \cup In
  <2>1. Followed = Partners(chain)
    BY <1>2 DEF Followed
  <2> QED
    BY <1>2, <1>3, <2>1, OftenIsPartner
<1>6. PICK out \in Results(AtLeast(SentTo(Current), MinCount), ClusterFanOut),
           in \in Results(AtLeast(ReceivedFrom(Current), MinCount), ClusterFanOut) :
        LET fresh == Admitted(out, visited, Len(out))
            more == Admitted(in, visited \cup ToSet(fresh), Len(in))
        IN /\ found' = found \o fresh \o more
           /\ visited' = visited \cup ToSet(fresh) \cup ToSet(more)
           /\ queue' = Tail(queue) \o Enqueued(fresh \o more, CurrentDepth + 1)
           /\ interactions' = interactions
                + SumFunctionOnSet(SentTo(Current), ToSet(fresh))
                + SumFunctionOnSet(ReceivedFrom(Current), ToSet(more))
  BY DEF ExpandCluster
<1> DEFINE fresh == Admitted(out, visited, Len(out))
           more == Admitted(in, visited \cup ToSet(fresh), Len(in))
           s == fresh \o more
           first == SumFunctionOnSet(SentTo(Current), ToSet(fresh))
           second == SumFunctionOnSet(ReceivedFrom(Current), ToSet(more))
<1>7. /\ found' = found \o fresh \o more
      /\ visited' = visited \cup ToSet(fresh) \cup ToSet(more)
      /\ queue' = Tail(queue) \o Enqueued(s, CurrentDepth + 1)
      /\ interactions' = interactions + first + second
  BY <1>6
<1> HIDE DEF Out, In
<1>8. /\ out \in Seq(Out) /\ Once(out)
      /\ Cardinality(Out) <= ClusterFanOut => ToSet(out) = Out
  BY <1>4, <1>5, SearchLimits, ResultRows
<1>9. /\ in \in Seq(In) /\ Once(in)
      /\ Cardinality(In) <= ClusterFanOut => ToSet(in) = In
  BY <1>4, <1>5, SearchLimits, ResultRows
<1>10. /\ out \in Seq(Addresses) /\ in \in Seq(Addresses)
       /\ ToSet(out) \in SUBSET Out /\ ToSet(in) \in SUBSET In
       /\ Len(out) \in Nat /\ Len(in) \in Nat
  BY <1>5, <1>8, <1>9, SeqMonotonic, ToSetElements, LenProperties
<1>11. fresh = Admitted(out, visited, Len(out)) /\ more = Admitted(in, visited \cup ToSet(fresh), Len(in))
  OBVIOUS
<1> HIDE DEF fresh, more
<1>12. /\ fresh \in Seq(Addresses) /\ Once(fresh) /\ more \in Seq(Addresses) /\ Once(more)
       /\ Len(fresh) \in Nat /\ Len(more) \in Nat
       /\ ToSet(fresh) \cap ToSet(more) = {}
       /\ ToSet(fresh) \subseteq ToSet(out) \ visited
       /\ ToSet(more) \subseteq ToSet(in) \ visited
       /\ ToSet(fresh) \cup ToSet(more) = (ToSet(out) \cup ToSet(in)) \ visited
  <2>1. BothRows(Addresses, out, in, visited, Len(out), Len(in), fresh, more)
    BY <1>8, <1>9, <1>10, <1>11, TwoQueries
  <2> QED
    BY <1>10, <2>1 DEF BothRows
<1>13. /\ s \in Seq(Addresses) /\ Len(s) = Len(fresh) + Len(more)
       /\ ToSet(s) = ToSet(fresh) \cup ToSet(more) /\ Once(s)
  BY <1>12, OnceJoined
<1>14. first \in Nat /\ first >= MinCount * Len(fresh)
  <2>1. IsFiniteSet(ToSet(fresh)) /\ Cardinality(ToSet(fresh)) = Len(fresh)
    BY <1>12, OnceCounts
  <2>2. \A b \in ToSet(fresh) : SentTo(Current)[b] \in Nat /\ SentTo(Current)[b] >= MinCount
    BY <1>4, <1>10, <1>12
  <2>3. first \in Nat /\ first >= MinCount * Cardinality(ToSet(fresh))
    BY <2>1, <2>2, SearchLimits, SumAtLeast
  <2> QED
    BY <2>1, <2>3
<1>15. second \in Nat /\ second >= MinCount * Len(more)
  <2>1. IsFiniteSet(ToSet(more)) /\ Cardinality(ToSet(more)) = Len(more)
    BY <1>12, OnceCounts
  <2>2. \A b \in ToSet(more) : ReceivedFrom(Current)[b] \in Nat /\ ReceivedFrom(Current)[b] >= MinCount
    BY <1>4, <1>10, <1>12
  <2>3. second \in Nat /\ second >= MinCount * Cardinality(ToSet(more))
    BY <2>1, <2>2, SearchLimits, SumAtLeast
  <2> QED
    BY <2>1, <2>3
<1> HIDE DEF s, first, second
<1>16. interactions' \in Nat /\ interactions' >= interactions + MinCount * Len(s)
  <2>1. \A k, m, n \in Nat : k * (m + n) = k * m + k * n /\ k * m \in Nat /\ k * n \in Nat
    OBVIOUS
  <2>2. MinCount \in Nat
    BY SearchLimits
  <2>3. /\ MinCount * Len(s) = MinCount * Len(fresh) + MinCount * Len(more)
        /\ MinCount * Len(fresh) \in Nat /\ MinCount * Len(more) \in Nat
    BY <1>12, <1>13, <2>1, <2>2
  <2> DEFINE m == MinCount * Len(fresh)
             n == MinCount * Len(more)
  <2>4. m \in Nat /\ n \in Nat /\ first >= m /\ second >= n /\ MinCount * Len(s) = m + n
    BY <1>14, <1>15, <2>3
  <2> HIDE DEF m, n
  <2> QED
    BY <1>2, <1>7, <1>14, <1>15, <2>4
<1>17. Expansion(s)
  <2>1. found \o fresh \o more = found \o s
    <3>1. found \in Seq(Addresses)
      BY DEF SoundInv
    <3> QED
      BY <1>12, <3>1, ConcatAssociative DEF s
  <2>2. ToSet(s) \subseteq Followed[Current] \ visited
    BY <1>5, <1>10, <1>12, <1>13
  <2>3. visited' = visited \cup ToSet(s)
    BY <1>7, <1>13
  <2> QED
    BY <1>1, <1>7, <1>13, <2>1, <2>2, <2>3 DEF Expansion
<1>18. ASSUME RowsFit
       PROVE  ToSet(s) = Followed[Current] \ visited
  <2>1. ToSet(out) = Out /\ ToSet(in) = In
    BY <1>2, <1>3, <1>8, <1>9, <1>18 DEF RowsFit, ClusterRowsFit, Out, In
  <2> QED
    BY <1>5, <1>12, <1>13, <2>1
<1> QED
  BY <1>2, <1>16, <1>17, <1>18
LEMMA RequestKept ==
  ASSUME UNCHANGED <<chain, center, depth, limit, kind>>
  PROVE  Followed' = Followed /\ Reach' = Reach /\ (RowsFit' <=> RowsFit)
<1>1. Followed' = Followed
  BY DEF Followed
<1>2. RowsFit' <=> RowsFit
  BY DEF RowsFit
<1> HIDE DEF Followed
<1>3. Reach' = Reach
  BY <1>1 DEF Reach
<1> QED
  BY <1>1, <1>2, <1>3

\* The queue after one turn, as the lemmas about a search want it.
LEMMA ExpansionServes ==
  ASSUME SoundInv, search # "done", queue # <<>>, NEW s, Expansion(s)
  PROVE  /\ Len(s) \in Nat /\ s \in [1..Len(s) -> Addresses]
         /\ ToSet(s) = {s[i] : i \in 1..Len(s)}
         /\ queue' \in Seq(Addresses \X Nat) /\ Len(queue') = (Len(queue) - 1) + Len(s)
         /\ Served(Len(queue), Names(queue), Steps(queue), Len(s), s, CurrentDepth + 1,
                   Names(queue'), Steps(queue'))
<1>1. CurrentDepth + 1 \in Nat
  BY CurrentType
<1>2. s \in Seq(Addresses) /\ queue' = Tail(queue) \o Enqueued(s, CurrentDepth + 1)
  BY DEF Expansion
<1>3. queue \in Seq(Addresses \X Nat)
  BY DEF SoundInv
<1>4. Len(s) \in Nat /\ DOMAIN s = 1..Len(s) /\ s \in [1..Len(s) -> Addresses]
  BY <1>2, LenProperties
<1>5. ToSet(s) = {s[i] : i \in 1..Len(s)}
  BY <1>4 DEF ToSet
<1>6. /\ queue' \in Seq(Addresses \X Nat) /\ Len(queue') = (Len(queue) - 1) + Len(s)
      /\ Served(Len(queue), Names(queue), Steps(queue), Len(s), s, CurrentDepth + 1,
                Names(queue'), Steps(queue'))
  <2> DEFINE d == CurrentDepth + 1
  <2>1. d \in Nat /\ queue' = Tail(queue) \o Enqueued(s, d)
    BY <1>1, <1>2
  <2> HIDE DEF d
  <2>2. /\ queue' \in Seq(Addresses \X Nat) /\ Len(queue') = (Len(queue) - 1) + Len(s)
        /\ Served(Len(queue), Names(queue), Steps(queue), Len(s), s, d, Names(queue'), Steps(queue'))
    BY <1>2, <1>3, <2>1, QueueServed
  <2> QED
    BY <2>2 DEF d
<1> QED
  BY <1>4, <1>5, <1>6

LEMMA ExpansionSound ==
  ASSUME SoundInv, search # "done", queue # <<>>, CurrentDepth < depth, NEW s, Expansion(s),
         kind = "graph" => Len(s) <= limit - Len(found),
         interactions' \in Nat,
         kind = "cluster" => interactions' >= interactions + MinCount * Len(s)
  PROVE  SoundInv'
<1>1. Request /\ UNCHANGED <<chain, center, depth, limit, search, kind>>
  BY DEF SoundInv, Expansion
<1>2. Request'
  BY <1>1 DEF Request
<1>3. Reach' = Reach
  BY <1>1, RequestKept
<1>4. /\ s \in Seq(Addresses) /\ Once(s) /\ ToSet(s) \subseteq Followed[Current] \ visited
      /\ found' = found \o s /\ visited' = visited \cup ToSet(s)
  BY DEF Expansion
<1>5. /\ found \in Seq(Addresses) /\ Once(found) /\ center \in visited
      /\ ToSet(found) = IF kind = "graph" THEN visited \ {center} ELSE visited
      /\ Len(found) \in Nat /\ Len(s) \in Nat
  BY <1>4, LenProperties DEF SoundInv
<1>6. ToSet(found) \cap ToSet(s) = {}
  BY <1>4, <1>5
<1>7. /\ found' \in Seq(Addresses) /\ Len(found') = Len(found) + Len(s)
      /\ ToSet(found') = ToSet(found) \cup ToSet(s) /\ Once(found')
  BY <1>4, <1>5, <1>6, OnceJoined
<1>8. ToSet(found') = IF kind = "graph" THEN visited' \ {center} ELSE visited'
  BY <1>4, <1>5, <1>7
<1>9. kind = "graph" => Len(found') <= limit
  <2>1. limit \in Nat
    BY <1>1, FollowedLevels
  <2> QED
    BY <1>5, <1>7, <2>1
<1>10. kind = "cluster" => interactions' >= MinCount * (Len(found') - 1)
  <2>1. \A k \in Nat, m \in Int, n \in Nat : k * ((m + n) - 1) = k * (m - 1) + k * n
    OBVIOUS
  <2>2. MinCount \in Nat
    BY SearchLimits
  <2>3. MinCount * (Len(found') - 1) = MinCount * (Len(found) - 1) + MinCount * Len(s)
    BY <1>5, <1>7, <2>1, <2>2
  <2>4. \A k \in Nat, m \in Int : k * m \in Int
    OBVIOUS
  <2>5. MinCount * (Len(found) - 1) \in Int /\ MinCount * Len(s) \in Int
    BY <1>5, <2>2, <2>4
  <2> DEFINE m == MinCount * (Len(found) - 1)
             n == MinCount * Len(s)
  <2>6. kind = "cluster" => interactions >= m /\ interactions' >= interactions + n
    BY DEF SoundInv
  <2>7. m \in Int /\ n \in Int /\ MinCount * (Len(found') - 1) = m + n
    BY <2>3, <2>5
  <2>8. interactions \in Nat
    BY DEF SoundInv
  <2> HIDE DEF m, n
  <2> QED
    BY <2>6, <2>7, <2>8
<1>11. /\ queue' \in Seq(Addresses \X Nat)
       /\ Reached(Reach, depth, visited', Len(queue'), Names(queue'), Steps(queue'))
  <2>1. /\ Len(s) \in Nat /\ s \in [1..Len(s) -> Addresses]
        /\ ToSet(s) = {s[i] : i \in 1..Len(s)}
        /\ queue' \in Seq(Addresses \X Nat) /\ Len(queue') = (Len(queue) - 1) + Len(s)
        /\ Served(Len(queue), Names(queue), Steps(queue), Len(s), s, CurrentDepth + 1,
                  Names(queue'), Steps(queue'))
    BY ExpansionServes
  <2>2. /\ CurrentDepth \in Nat /\ Len(queue) \in Nat \ {0}
        /\ Names(queue) \in [1..Len(queue) -> Addresses]
        /\ Steps(queue) \in [1..Len(queue) -> Nat]
        /\ Current = Names(queue)[1] /\ CurrentDepth = Steps(queue)[1]
    BY CurrentType
  <2>3. Levels(Reach, center, Followed) /\ depth \in Nat
    BY <1>1, FollowedLevels
  <2>4. Reached(Reach, depth, visited, Len(queue), Names(queue), Steps(queue))
    BY DEF SoundInv
  <2>5. ToSet(s) \subseteq Followed[Names(queue)[1]]
    BY <1>4, <2>2
  <2>6. Reached(Reach, depth, visited \cup ToSet(s), (Len(queue) - 1) + Len(s),
                Names(queue'), Steps(queue'))
    BY <2>1, <2>2, <2>3, <2>4, <2>5, ReachedOnward
  <2> QED
    BY <1>4, <2>1, <2>6
<1>12. visited' \subseteq Reach[depth]
  BY <1>11 DEF Reached
<1> QED
  BY <1>1, <1>2, <1>3, <1>4, <1>5, <1>7, <1>8, <1>9, <1>10, <1>11, <1>12 DEF SoundInv

LEMMA ExpansionExact ==
  ASSUME SoundInv, ExactInv, search # "done", queue # <<>>, NEW s, Expansion(s),
         ~Full, RowsFit /\ ~Full' => ToSet(s) = Followed[Current] \ visited
  PROVE  ExactInv'
<1>1. Request /\ UNCHANGED <<chain, center, depth, limit, search, kind>>
  BY DEF SoundInv, Expansion
<1>2. Reach' = Reach /\ Followed' = Followed /\ (RowsFit' <=> RowsFit)
  BY <1>1, RequestKept
<1>3. ToSet(s) \subseteq Followed[Current] \ visited /\ visited' = visited \cup ToSet(s)
  BY DEF Expansion
<1>4. /\ Len(s) \in Nat /\ s \in [1..Len(s) -> Addresses]
      /\ ToSet(s) = {s[i] : i \in 1..Len(s)}
      /\ Len(queue') = (Len(queue) - 1) + Len(s)
      /\ Served(Len(queue), Names(queue), Steps(queue), Len(s), s, CurrentDepth + 1,
                Names(queue'), Steps(queue'))
  BY ExpansionServes
<1>5. /\ CurrentDepth \in Nat /\ Len(queue) \in Nat \ {0}
      /\ Names(queue) \in [1..Len(queue) -> Addresses]
      /\ Steps(queue) \in [1..Len(queue) -> Nat]
      /\ Current = Names(queue)[1] /\ CurrentDepth = Steps(queue)[1]
  BY CurrentType
<1>6. Levels(Reach, center, Followed) /\ depth \in Nat
  BY <1>1, FollowedLevels
<1>7. Reached(Reach, depth, visited, Len(queue), Names(queue), Steps(queue))
  BY DEF SoundInv
<1>8. ASSUME RowsFit
      PROVE  /\ Nearest(Reach, Followed, visited', Len(queue'), Names(queue'), Steps(queue'), Full')
             /\ \A n \in Nat : visited' \subseteq Reach[n] \/ Reach[n] \subseteq visited'
  <2>1. Full = FALSE /\ Full' \in BOOLEAN
    BY DEF Full
  <2>2. Nearest(Reach, Followed, visited, Len(queue), Names(queue), Steps(queue), Full)
    BY <1>8 DEF ExactInv
  <2>3. Nearest(Reach, Followed, visited, Len(queue), Names(queue), Steps(queue), FALSE)
    BY <2>1, <2>2
  <2>4. /\ ToSet(s) \subseteq Followed[Names(queue)[1]] \ visited
        /\ ~Full' => ToSet(s) = Followed[Names(queue)[1]] \ visited
    BY <1>3, <1>5, <1>8
  <2>5. Nearest(Reach, Followed, visited \cup ToSet(s), (Len(queue) - 1) + Len(s),
                Names(queue'), Steps(queue'), Full')
    <3>1. CASE Full' = FALSE
      <4>1. Nearest(Reach, Followed, visited \cup ToSet(s), (Len(queue) - 1) + Len(s),
                    Names(queue'), Steps(queue'), FALSE)
        BY <1>4, <1>5, <1>6, <1>7, <2>3, <2>4, <3>1, NearestOnward
      <4> QED
        BY <3>1, <4>1
    <3>2. CASE Full' = TRUE
      <4>1. Nearest(Reach, Followed, visited \cup ToSet(s), (Len(queue) - 1) + Len(s),
                    Names(queue'), Steps(queue'), TRUE)
        BY <1>4, <1>5, <1>6, <1>7, <2>3, <2>4, NearestOnward
      <4> QED
        BY <3>2, <4>1
    <3> QED
      BY <2>1, <3>1, <3>2
  <2>6. Nearest(Reach, Followed, visited', Len(queue'), Names(queue'), Steps(queue'), Full')
    BY <1>3, <1>4, <2>5
  <2> QED
    BY <2>6 DEF Nearest
<1> QED
  BY <1>1, <1>2, <1>8 DEF ExactInv
LEMMA FinishKeeps ==
  ASSUME SoundInv, ExactInv, Finish
  PROVE  SoundInv' /\ ExactInv'
<1>1. /\ search # "done" /\ search' = "done"
      /\ UNCHANGED <<chain, center, depth, limit, kind, visited, found, interactions>>
  BY DEF Finish
<1>2. Request /\ Request'
  BY <1>1 DEF SoundInv, Request
<1>3. Reach' = Reach /\ (RowsFit' <=> RowsFit) /\ (Full' <=> Full)
  <2>1. Full' <=> Full
    BY <1>1 DEF Full
  <2> QED
    BY <1>1, <2>1, RequestKept
<1>4. SoundInv'
  BY <1>1, <1>2, <1>3 DEF SoundInv
<1>5. ASSUME RowsFit, ~Full
      PROVE  visited = Reach[depth]
  <2>1. queue \in Seq(Addresses \X Nat) /\ center \in Addresses /\ center \in visited
    BY <1>1, <1>2 DEF SoundInv, Request
  <2>2. /\ Len(queue) \in Nat /\ Steps(queue) \in [1..Len(queue) -> Nat]
        /\ queue # <<>> <=> Len(queue) # 0
        /\ queue # <<>> => Head(queue)[2] = Steps(queue)[1]
    BY <2>1, QueueType
  <2>3. Len(queue) = 0 \/ Steps(queue)[1] >= depth
    <3>1. queue = <<>> \/ CurrentDepth >= depth
      BY <1>2, <1>5 DEF Finish, Full, Request
    <3> QED
      BY <2>2, <3>1 DEF CurrentDepth
  <2>4. Levels(Reach, center, Followed) /\ depth \in Nat
    BY <1>2, FollowedLevels
  <2>5. Reached(Reach, depth, visited, Len(queue), Names(queue), Steps(queue))
    BY <1>1 DEF SoundInv
  <2>6. Nearest(Reach, Followed, visited, Len(queue), Names(queue), Steps(queue), FALSE)
    <3>1. Full = FALSE
      BY <1>5 DEF Full
    <3>2. Nearest(Reach, Followed, visited, Len(queue), Names(queue), Steps(queue), Full)
      BY <1>1, <1>5 DEF ExactInv
    <3> QED
      BY <3>1, <3>2
  <2> QED
    BY <2>1, <2>2, <2>3, <2>4, <2>5, <2>6, NearestAtLast
<1>6. ExactInv'
  BY <1>1, <1>3, <1>5 DEF ExactInv
<1> QED
  BY <1>4, <1>6

LEMMA StepKeeps ==
  ASSUME SoundInv, ExactInv, [Next]_vars
  PROVE  SoundInv' /\ ExactInv'
<1>1. CASE ExpandGraph
  <2>1. /\ search = "graph" /\ search # "done" /\ queue # <<>>
        /\ CurrentDepth < depth /\ Len(found) < limit
    BY <1>1 DEF ExpandGraph
  <2>2. PICK s : /\ Expansion(s) /\ interactions' = interactions
                 /\ kind = "graph" /\ Len(s) <= limit - Len(found)
                 /\ RowsFit /\ Len(s) < limit - Len(found) => ToSet(s) = Followed[Current] \ visited
    BY <1>1, ExpandGraphAdds
  <2>3. interactions' \in Nat
    BY <2>2 DEF SoundInv
  <2>4. SoundInv'
    BY <2>1, <2>2, <2>3, ExpansionSound
  <2>5. Len(found) \in Nat /\ Len(s) \in Nat /\ limit \in Nat /\ Len(found') = Len(found) + Len(s)
    <3>1. found \in Seq(Addresses) /\ s \in Seq(Addresses) /\ found' = found \o s /\ Request
      BY <2>2 DEF SoundInv, Expansion
    <3> QED
      BY <3>1, LenProperties, ConcatProperties, FollowedLevels
  <2>6. ~Full
    BY <2>1, <2>5 DEF Full
  <2>7. ~Full' => Len(s) < limit - Len(found)
    <3>1. kind' = kind /\ limit' = limit
      BY <2>2 DEF Expansion
    <3> QED
      BY <2>2, <2>5, <3>1 DEF Full
  <2>8. RowsFit /\ ~Full' => ToSet(s) = Followed[Current] \ visited
    BY <2>2, <2>7
  <2> QED
    BY <2>1, <2>2, <2>4, <2>6, <2>8, ExpansionExact
<1>2. CASE ExpandCluster
  <2>1. search = "cluster" /\ search # "done" /\ queue # <<>> /\ CurrentDepth < depth
    BY <1>2 DEF ExpandCluster
  <2>2. PICK s : /\ Expansion(s) /\ kind = "cluster"
                 /\ RowsFit => ToSet(s) = Followed[Current] \ visited
                 /\ interactions' \in Nat /\ interactions' >= interactions + MinCount * Len(s)
    BY <1>2, ExpandClusterAdds
  <2>3. SoundInv'
    BY <2>1, <2>2, ExpansionSound
  <2>4. ~Full
    BY <2>2 DEF Full
  <2> QED
    BY <2>1, <2>2, <2>3, <2>4, ExpansionExact
<1>3. CASE Finish
  BY <1>3, FinishKeeps
<1>4. CASE UNCHANGED vars
  <2>1. /\ UNCHANGED <<chain, center, depth, limit, kind>>
        /\ UNCHANGED <<search, queue, visited, found, interactions>>
    BY <1>4 DEF vars
  <2>2. Followed' = Followed /\ Reach' = Reach /\ (RowsFit' <=> RowsFit)
    BY <2>1, RequestKept
  <2>3. SoundInv'
    BY <2>1, <2>2 DEF SoundInv, Request
  <2>4. Full' = Full
    BY <2>1 DEF Full
  <2>5. ExactInv'
    BY <2>1, <2>2, <2>4 DEF ExactInv
  <2> QED
    BY <2>3, <2>5
<1> QED
  BY <1>1, <1>2, <1>3, <1>4 DEF Next

LEMMA SearchInvariant == Spec => [](SoundInv /\ ExactInv)
<1>1. Init => SoundInv /\ ExactInv
  BY InitSound
<1>2. (SoundInv /\ ExactInv) /\ [Next]_vars => (SoundInv /\ ExactInv)'
  BY StepKeeps
<1> QED
  BY <1>1, <1>2, PTL DEF Spec

\* What a search promises whatever its LIMITs cut off, at every turn of its
\* loop: no address is found twice, the graph never holds its centre nor more
\* nodes than asked for, the cluster always its centre, neither anything
\* further away than the depth, and a cluster counts at least MinCount
\* interactions for every address but the centre.
SearchSound ==
  /\ Len(found) = Cardinality(ToSet(found))
  /\ kind = "graph" =>
       /\ center \notin ToSet(found) /\ Len(found) <= limit
       /\ ToSet(found) \subseteq Within(Neighbours(chain), center)[depth]
  /\ kind = "cluster" =>
       /\ center \in ToSet(found)
       /\ ToSet(found) \subseteq Within(Partners(chain), center)[depth]
       /\ interactions >= MinCount * (Len(found) - 1)

\* build_graph and find_clusters are sound on every database and with every
\* LIMIT, also in the middle of their loops.
THEOREM SearchesAreSound == Spec => []SearchSound
<1>1. SoundInv => SearchSound
  <2> SUFFICES ASSUME SoundInv
               PROVE  SearchSound
    OBVIOUS
  <2>1. Len(found) = Cardinality(ToSet(found))
    BY OnceCounts DEF SoundInv
  <2>2. ToSet(found) = IF kind = "graph" THEN visited \ {center} ELSE visited
    BY DEF SoundInv
  <2>3. center \in visited /\ visited \subseteq Reach[depth]
    BY DEF SoundInv
  <2>4. /\ kind = "graph" => Reach = Within(Neighbours(chain), center)
        /\ kind = "cluster" => Reach = Within(Partners(chain), center)
    BY DEF Reach, Followed
  <2>5. /\ kind = "graph" => Len(found) <= limit
        /\ kind = "cluster" => interactions >= MinCount * (Len(found) - 1)
    BY DEF SoundInv
  <2> QED
    BY <2>1, <2>2, <2>3, <2>4, <2>5 DEF SearchSound
<1> QED
  BY <1>1, SearchInvariant, PTL

\* build_graph is exact wherever no address has more counterparties in one
\* direction than its queries return: the nodes are the addresses within the
\* depth, and if the node limit stops the search, the nearest of them.
THEOREM GraphsAreExact == Spec => [](GraphRowsFit(chain) => GraphExact)
<1>1. SoundInv /\ ExactInv => (GraphRowsFit(chain) => GraphExact)
  <2> SUFFICES ASSUME SoundInv, ExactInv, GraphRowsFit(chain), kind = "graph", search = "done"
               PROVE  GraphExact
    BY DEF GraphExact
  <2> DEFINE W == Within(Neighbours(chain), center)
             nodes == ToSet(found)
             near(n) == W[n] \ {center}
  <2>1. RowsFit /\ Reach = W
    BY DEF RowsFit, Reach, Followed
  <2> HIDE DEF W
  <2>2. nodes = visited \ {center} /\ center \in visited /\ visited \subseteq W[depth]
    BY <2>1 DEF SoundInv
  <2>3. Len(found) = Cardinality(nodes) /\ Len(found) <= limit
    BY OnceCounts DEF SoundInv
  <2>4. Len(found) \in Nat /\ limit \in Nat /\ depth \in Nat
    BY FollowedLevels, LenProperties DEF SoundInv
  <2>5. \A n \in Nat : visited \subseteq W[n] \/ W[n] \subseteq visited
    BY <2>1 DEF ExactInv
  <2>6. Len(found) < limit => visited = W[depth]
    <3> HAVE Len(found) < limit
    <3>1. ~Full
      BY <2>4 DEF Full
    <3> QED
      BY <2>1, <3>1 DEF ExactInv
  <2> HIDE DEF nodes
  <2>7. nodes \subseteq near(depth) /\ (Len(found) < limit => nodes = near(depth))
    BY <2>2, <2>6
  <2>8. \A n \in 1..depth : nodes \ near(n) # {} => near(n) \subseteq nodes
    <3> TAKE n \in 1..depth
    <3>1. visited \subseteq W[n] \/ W[n] \subseteq visited
      BY <2>4, <2>5
    <3> QED
      BY <2>2, <3>1
  <2> QED
    BY <2>3, <2>7, <2>8 DEF GraphExact, W, nodes
<1> QED
  BY <1>1, SearchInvariant, PTL

\* find_clusters is exact wherever no address has more partners in one
\* direction than its queries return: the cluster is everything tied to the
\* centre within the depth, counted in full.
THEOREM ClustersAreExact == Spec => [](ClusterRowsFit(chain) => ClusterExact)
<1>1. SoundInv /\ ExactInv => (ClusterRowsFit(chain) => ClusterExact)
  <2> SUFFICES ASSUME SoundInv, ExactInv, ClusterRowsFit(chain), kind = "cluster", search = "done"
               PROVE  ClusterExact
    BY DEF ClusterExact
  <2>1. RowsFit /\ Reach = Within(Partners(chain), center) /\ ~Full
    BY DEF RowsFit, Reach, Followed, Full
  <2>2. visited = Reach[depth]
    BY <2>1 DEF ExactInv
  <2>3. ToSet(found) = visited /\ interactions >= MinCount * (Len(found) - 1)
    BY DEF SoundInv
  <2>4. Len(found) = Cardinality(ToSet(found))
    BY OnceCounts DEF SoundInv
  <2> QED
    BY <2>1, <2>2, <2>3, <2>4 DEF ClusterExact
<1> QED
  BY <1>1, SearchInvariant, PTL
=============================================================================
