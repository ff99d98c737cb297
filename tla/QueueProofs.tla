----------------------------- MODULE QueueProofs -----------------------------
(***************************************************************************)
(* Lemmas on numbers and sequences that the proofs of several components   *)
(* rest on, with the filter of Queues.                                     *)
(***************************************************************************)
EXTENDS Queues, SequenceTheorems, WellFoundedInduction, TLAPS

-----------------------------------------------------------------------------
(* Numbers *)

\* The least-number principle, for a set instead of a predicate.
LEMMA LeastNatural ==
    ASSUME NEW S \in SUBSET Nat, S # {}
    PROVE  \E n \in S : \A m \in S : n <= m
<1> DEFINE R == OpToRel(<, Nat)
<1>1. IsWellFoundedOn(R, Nat)
  BY NatLessThanWellFounded
<1>2. PICK n \in S : \A m \in S : ~ (<<m, n>> \in R)
  <2> HIDE DEF R
  <2> QED BY <1>1, WFMin
<1>3. \A m \in S : ~(m < n)
  BY <1>2 DEF OpToRel
<1> QED BY <1>3

\* The greatest number of a set that has a bound is its Max.
LEMMA MaxIsGreatest ==
    ASSUME NEW N \in Nat, NEW S \in SUBSET (0..N), S # {}
    PROVE  Max(S) \in S /\ \A k \in S : k <= Max(S)
<1> DEFINE D == {N - k : k \in S}
<1>1. D \in SUBSET Nat /\ D # {}
  <2>1. \A k \in S : k \in 0..N /\ N - k \in Nat
    OBVIOUS
  <2>2. \A d \in D : d \in Nat
    BY <2>1
  <2>3. PICK k \in S : TRUE
    OBVIOUS
  <2>4. N - k \in D
    BY <2>3
  <2> HIDE DEF D
  <2> QED BY <2>2, <2>4
<1>2. PICK d \in D : \A e \in D : d <= e
  <2> HIDE DEF D
  <2> QED BY <1>1, LeastNatural
<1>3. PICK m \in S : d = N - m
  OBVIOUS
<1>4. \A k \in S : m >= k
  <2>1. ASSUME NEW k \in S PROVE m >= k
    <3>1. d <= N - k
      BY <1>2
    <3>2. m \in 0..N /\ k \in 0..N
      OBVIOUS
    <3> HIDE DEF D
    <3> QED BY <1>3, <3>1, <3>2
  <2> QED BY <2>1
<1>5. Max(S) \in S /\ \A k \in S : Max(S) >= k
  BY <1>4 DEF Max
<1>6. \A k \in S : k \in Nat
  OBVIOUS
<1> QED BY <1>5, <1>6

\* The function that FoldLeft chooses: of a set of places, what the fold has
\* come to when it has taken their elements in order, g one step of it.
FoldsLeft(it, N, base, g) ==
    \A s \in SUBSET (1..N) :
       it[s] = IF s = {} THEN base ELSE g[<<it[s \ {Max(s)}], Max(s)>>]

\* There is one: a greatest number of places that has none would be one
\* place more than one that has.
LEMMA FoldLeftDefined ==
    ASSUME NEW N \in Nat, NEW T, NEW base \in T, NEW g \in [T \X (1..N) -> T]
    PROVE  \E it \in [SUBSET (1..N) -> T] : FoldsLeft(it, N, base, g)
<1> DEFINE Solved(m) == \E it \in [SUBSET (1..m) -> T] : FoldsLeft(it, m, base, g)
           unsolved == {m \in 0..N : ~Solved(m)}
<1>1. SUFFICES ASSUME unsolved # {} PROVE FALSE
  <2>1. ASSUME unsolved = {} PROVE Solved(N)
    <3> HIDE DEF Solved
    <3> QED BY <2>1
  <2> QED BY <2>1
<1>2. PICK m \in unsolved : \A k \in unsolved : m <= k
  <2>1. unsolved \in SUBSET Nat
    OBVIOUS
  <2> HIDE DEF unsolved
  <2> QED BY <1>1, <2>1, LeastNatural
<1>3. CASE m = 0
  <2>1. \A s \in SUBSET (1..0) : s = {}
    OBVIOUS
  <2>2. [s \in SUBSET (1..0) |-> base] \in [SUBSET (1..0) -> T]
    OBVIOUS
  <2>3. FoldsLeft([s \in SUBSET (1..0) |-> base], 0, base, g)
    BY <2>1 DEF FoldsLeft
  <2>4. Solved(0)
    BY <2>2, <2>3
  <2> QED BY <1>2, <1>3, <2>4
<1>4. CASE m # 0
  <2>1. m \in 1..N /\ m - 1 \in 0..N /\ ~(m <= m - 1)
    BY <1>2, <1>4
  <2>2. m - 1 \notin unsolved
    <3> HIDE DEF unsolved
    <3> QED BY <1>2, <2>1
  <2>3. PICK it \in [SUBSET (1..(m - 1)) -> T] : FoldsLeft(it, m - 1, base, g)
    BY <2>1, <2>2
  <2> DEFINE more == [s \in SUBSET (1..m) |-> IF m \in s THEN g[<<it[s \ {m}], m>>] ELSE it[s]]
  <2>4. \A s \in SUBSET (1..m) : s \ {m} \in SUBSET (1..(m - 1))
    BY <2>1
  <2>5. \A s \in SUBSET (1..m) : it[s \ {m}] \in T
    BY <2>3, <2>4
  <2>6. \A s \in SUBSET (1..m) : m \notin s => s = s \ {m}
    OBVIOUS
  <2>7. more \in [SUBSET (1..m) -> T]
    <3>1. ASSUME NEW s \in SUBSET (1..m)
          PROVE  (IF m \in s THEN g[<<it[s \ {m}], m>>] ELSE it[s]) \in T
      <4>1. CASE m \in s
        BY <2>1, <2>5, <4>1
      <4>2. CASE m \notin s
        BY <2>5, <2>6, <4>2
      <4> QED BY <4>1, <4>2
    <3> QED BY <3>1
  <2>8. ASSUME NEW s \in SUBSET (1..m), s # {}
        PROVE  more[s] = g[<<more[s \ {Max(s)}], Max(s)>>]
    <3>1. Max(s) \in s /\ \A k \in s : k <= Max(s)
      <4>1. m \in Nat /\ s \in SUBSET (0..m)
        BY <2>1
      <4> QED BY <2>8, <4>1, MaxIsGreatest
    <3>2. CASE m \in s
      <4>1. Max(s) = m
        <5>1. Max(s) \in 1..m /\ m <= Max(s)
          BY <3>1, <3>2
        <5> QED BY <2>1, <5>1
      <4>2. more[s \ {m}] = it[s \ {m}]
        BY <2>4, <2>1
      <4>3. more[s] = g[<<it[s \ {m}], m>>]
        BY <3>2
      <4> QED BY <4>1, <4>2, <4>3
    <3>3. CASE m \notin s
      <4>1. s \in SUBSET (1..(m - 1)) /\ s \ {Max(s)} \in SUBSET (1..m) /\ m \notin s \ {Max(s)}
        BY <2>4, <2>6, <3>3
      <4>2. more[s] = it[s] /\ more[s \ {Max(s)}] = it[s \ {Max(s)}]
        BY <3>3, <4>1
      <4>3. it[s] = g[<<it[s \ {Max(s)}], Max(s)>>]
        BY <2>3, <2>8, <4>1 DEF FoldsLeft
      <4> HIDE DEF more
      <4> QED BY <4>2, <4>3
    <3> QED BY <3>2, <3>3
  <2>9. more[{}] = base
    <3>1. more[{}] = it[{}] /\ {} \in SUBSET (1..(m - 1))
      OBVIOUS
    <3>2. it[{}] = base
      BY <2>3, <3>1 DEF FoldsLeft
    <3> QED BY <3>1, <3>2
  <2>10. FoldsLeft(more, m, base, g)
    <3> HIDE DEF more
    <3> QED BY <2>8, <2>9 DEF FoldsLeft
  <2>11. Solved(m)
    <3> HIDE DEF more
    <3> QED BY <2>7, <2>10
  <2> QED BY <1>2, <2>11
<1> QED BY <1>3, <1>4

\* What the fold has come to after the first k elements.
LEMMA FoldLeftPrefixes ==
    ASSUME NEW N \in Nat, NEW base, NEW g, NEW it, FoldsLeft(it, N, base, g)
    PROVE  /\ it[1..0] = base
           /\ \A k \in 1..N : it[1..k] = g[<<it[1..(k - 1)], k>>]
<1>1. it[1..0] = base
  <2>1. 1..0 = {} /\ {} \in SUBSET (1..N)
    OBVIOUS
  <2> QED BY <2>1 DEF FoldsLeft
<1>2. ASSUME NEW k \in 1..N PROVE it[1..k] = g[<<it[1..(k - 1)], k>>]
  <2>1. 1..k \in SUBSET (1..N) /\ 1..k # {} /\ k \in 1..k /\ 1..k \in SUBSET (0..N)
    OBVIOUS
  <2>2. Max(1..k) = k
    <3>1. Max(1..k) \in 1..k /\ \A i \in 1..k : i <= Max(1..k)
      BY <2>1, MaxIsGreatest
    <3> QED BY <2>1, <3>1
  <2>3. (1..k) \ {k} = 1..(k - 1)
    OBVIOUS
  <2> QED BY <2>1, <2>2, <2>3 DEF FoldsLeft
<1> QED BY <1>1, <1>2

-----------------------------------------------------------------------------
(* Sequences of a type *)

\* What a sequence of a type has at its places.
LEMMA Places ==
    ASSUME NEW T, NEW q \in Seq(T)
    PROVE  /\ Len(q) \in Nat /\ DOMAIN q = 1..Len(q) /\ ToSet(q) \subseteq T
           /\ \A i \in 1..Len(q) : q[i] \in T /\ q[i] \in ToSet(q)
           /\ \A e \in ToSet(q) : \E i \in 1..Len(q) : q[i] = e
BY LenProperties, ElementOfSeq DEF ToSet

\* The sequence that Retain has built after n elements of q.
Kept(f, q, S, n) ==
    f[n] = IF n = 0 THEN <<>>
           ELSE IF q[n] \in S THEN Append(f[n - 1], q[n]) ELSE f[n - 1]

\* Retain's recursion has a solution: a longest prefix without one would be
\* one element longer than a prefix that has one.
LEMMA RetainDefined ==
    ASSUME NEW T, NEW q \in Seq(T), NEW S
    PROVE  \E f \in [0..Len(q) -> Seq(T)] : \A n \in 0..Len(q) : Kept(f, q, S, n)
<1> DEFINE Solved(m) == \E f \in [0..m -> Seq(T)] : \A n \in 0..m : Kept(f, q, S, n)
           unsolved == {m \in 0..Len(q) : ~Solved(m)}
<1>1. Len(q) \in Nat /\ \A i \in 1..Len(q) : q[i] \in T
  BY LenProperties, ElementOfSeq
<1>2. SUFFICES ASSUME unsolved # {} PROVE FALSE
  <2>1. ASSUME unsolved = {} PROVE Solved(Len(q))
    <3>1. Len(q) \in 0..Len(q)
      BY <1>1
    <3> HIDE DEF Solved
    <3> QED BY <2>1, <3>1
  <2> QED BY <2>1
<1>3. PICK m \in unsolved : \A k \in unsolved : m <= k
  <2>1. unsolved \in SUBSET Nat
    BY <1>1
  <2> HIDE DEF unsolved
  <2> QED BY <1>2, <2>1, LeastNatural
<1>4. m # 0
  <2>1. <<>> \in Seq(T)
    BY EmptySeq
  <2>2. [n \in 0..0 |-> <<>>] \in [0..0 -> Seq(T)]
    BY <2>1
  <2>3. \A n \in 0..0 : Kept([k \in 0..0 |-> <<>>], q, S, n)
    <3>1. [k \in 0..0 |-> <<>>][0] = <<>> /\ \A n \in 0..0 : n = 0
      OBVIOUS
    <3> QED BY <3>1 DEF Kept
  <2>4. Solved(0)
    BY <2>2, <2>3
  <2> QED BY <1>3, <2>4
<1>5. m \in Nat /\ m - 1 \in 0..Len(q) /\ m \in 1..Len(q)
  BY <1>1, <1>3, <1>4
<1>6. Solved(m - 1)
  <2>1. m - 1 \notin unsolved
    <3>1. ~(m <= m - 1)
      BY <1>5
    <3> HIDE DEF unsolved
    <3> QED BY <1>3, <3>1
  <2> HIDE DEF Solved
  <2> QED BY <1>5, <2>1
<1>7. PICK f \in [0..(m - 1) -> Seq(T)] : \A n \in 0..(m - 1) : Kept(f, q, S, n)
  BY <1>6
<1> DEFINE last == IF q[m] \in S THEN Append(f[m - 1], q[m]) ELSE f[m - 1]
           g == [n \in 0..m |-> IF n = m THEN last ELSE f[n]]
<1>8. last \in Seq(T)
  BY <1>1, <1>5, AppendProperties
<1>9. g \in [0..m -> Seq(T)]
  BY <1>5, <1>8
<1>10. ASSUME NEW n \in 0..m PROVE Kept(g, q, S, n)
  <2>1. CASE n = m
    <3>1. g[m] = last /\ g[m - 1] = f[m - 1]
      BY <1>5
    <3> HIDE DEF g
    <3> QED BY <1>4, <2>1, <3>1 DEF Kept
  <2>2. CASE n # m
    <3>1. n \in 0..(m - 1)
      BY <1>5, <2>2
    <3>2. g[n] = f[n] /\ (n # 0 => g[n - 1] = f[n - 1])
      BY <1>5, <3>1
    <3>3. Kept(f, q, S, n)
      BY <1>7, <3>1
    <3> HIDE DEF g
    <3> QED BY <3>2, <3>3 DEF Kept
  <2> QED BY <2>1, <2>2
<1>11. Solved(m)
  <2> HIDE DEF g
  <2> QED BY <1>9, <1>10
<1> QED BY <1>3, <1>11

\* So Retain is the last element of a function that obeys the recursion.
LEMMA RetainSteps ==
    ASSUME NEW T, NEW q \in Seq(T), NEW S
    PROVE  \E f : /\ \A n \in 0..Len(q) : Kept(f, q, S, n)
                  /\ Retain(q, S) = f[Len(q)]
<1> DEFINE Solves(f) == f = [n \in 0..Len(q) |->
                                IF n = 0 THEN <<>>
                                ELSE IF q[n] \in S THEN Append(f[n - 1], q[n]) ELSE f[n - 1]]
<1>1. PICK h \in [0..Len(q) -> Seq(T)] : \A n \in 0..Len(q) : Kept(h, q, S, n)
  BY RetainDefined
<1>2. Solves(h)
  BY <1>1 DEF Kept
<1>3. Solves(CHOOSE f : Solves(f))
  <2> HIDE DEF Solves
  <2> QED BY <1>2
<1>4. Retain(q, S) = (CHOOSE f : Solves(f))[Len(q)]
  BY DEF Retain
<1> DEFINE k == CHOOSE f : Solves(f)
<1>5. \A n \in 0..Len(q) : Kept(k, q, S, n)
  <2>1. Solves(k)
    BY <1>3
  <2> HIDE DEF k
  <2> QED BY <2>1 DEF Kept
<1> HIDE DEF k
<1> QED BY <1>4, <1>5 DEF k

\* r is the first n elements of q without those outside S, in other words:
\* r takes each of its elements from a place of its own, and none of S is left.
Filters(r, q, n, S) ==
    \E pos \in [1..Len(r) -> 1..n] :
       /\ \A i, k \in 1..Len(r) : i # k => pos[i] # pos[k]
       /\ \A i \in 1..Len(r) : r[i] = q[pos[i]] /\ r[i] \in S
       /\ \A m \in 1..n : q[m] \in S => \E i \in 1..Len(r) : pos[i] = m

\* One more element, kept or left out.
LEMMA FiltersOneMore ==
    ASSUME NEW T, NEW q \in Seq(T), NEW S, NEW n \in 1..Len(q), NEW r \in Seq(T),
           Filters(r, q, n - 1, S)
    PROVE  LET r2 == IF q[n] \in S THEN Append(r, q[n]) ELSE r
           IN  r2 \in Seq(T) /\ Filters(r2, q, n, S)
<1> DEFINE r2 == IF q[n] \in S THEN Append(r, q[n]) ELSE r
<1>1. Len(r) \in Nat /\ n \in Nat /\ n >= 1 /\ q[n] \in T
  BY LenProperties, ElementOfSeq
<1>2. PICK pos \in [1..Len(r) -> 1..(n - 1)] :
          /\ \A i, k \in 1..Len(r) : i # k => pos[i] # pos[k]
          /\ \A i \in 1..Len(r) : r[i] = q[pos[i]] /\ r[i] \in S
          /\ \A m \in 1..(n - 1) : q[m] \in S => \E i \in 1..Len(r) : pos[i] = m
  BY DEF Filters
<1>3. \A m \in 1..(n - 1) : q[m] \in S => \E i \in 1..Len(r) : pos[i] = m
  BY <1>2
<1>4. CASE q[n] \in S
  <2>1. /\ r2 = Append(r, q[n]) /\ r2 \in Seq(T) /\ Len(r2) = Len(r) + 1
        /\ \A i \in 1..Len(r) : r2[i] = r[i]
        /\ r2[Len(r) + 1] = q[n]
    BY <1>1, <1>4, AppendProperties
  <2> HIDE DEF r2
  <2> DEFINE pos2 == [i \in 1..Len(r2) |-> IF i = Len(r) + 1 THEN n ELSE pos[i]]
  <2>2. \A i \in 1..Len(r2) : i = Len(r) + 1 \/ i \in 1..Len(r)
    BY <1>1, <2>1
  <2>3. /\ pos2 \in [1..Len(r2) -> 1..n]
        /\ \A i \in 1..Len(r) : pos2[i] = pos[i] /\ pos2[i] # n
        /\ pos2[Len(r) + 1] = n
    <3>1. n \in 1..n /\ \A i \in 1..Len(r) : pos[i] \in 1..n /\ pos[i] # n
      BY <1>1, <1>2
    <3>2. Len(r) + 1 \in 1..Len(r2) /\ \A i \in 1..Len(r) : i # Len(r) + 1 /\ i \in 1..Len(r2)
      BY <1>1, <2>1
    <3>3. \A i \in 1..Len(r2) : (IF i = Len(r) + 1 THEN n ELSE pos[i]) \in 1..n
      BY <2>2, <3>1
    <3>4. pos2 \in [1..Len(r2) -> 1..n]
      BY <3>3
    <3> QED BY <3>1, <3>2, <3>4
  <2> HIDE DEF pos2
  <2>4. \A i, k \in 1..Len(r2) : i # k => pos2[i] # pos2[k]
    BY <1>2, <2>2, <2>3
  <2>5. \A i \in 1..Len(r2) : r2[i] = q[pos2[i]] /\ r2[i] \in S
    BY <1>2, <1>4, <2>1, <2>2, <2>3
  <2>6. ASSUME NEW m \in 1..n, q[m] \in S PROVE \E i \in 1..Len(r2) : pos2[i] = m
    <3>1. CASE m = n
      BY <1>1, <2>1, <2>3, <3>1
    <3>2. CASE m # n
      <4>1. m \in 1..(n - 1)
        BY <1>1, <3>2
      <4>2. PICK i \in 1..Len(r) : pos[i] = m
        BY <1>3, <2>6, <4>1
      <4> QED BY <1>1, <2>1, <2>3, <4>2
    <3> QED BY <3>1, <3>2
  <2>7. \E p \in [1..Len(r2) -> 1..n] :
            /\ \A i, k \in 1..Len(r2) : i # k => p[i] # p[k]
            /\ \A i \in 1..Len(r2) : r2[i] = q[p[i]] /\ r2[i] \in S
            /\ \A m \in 1..n : q[m] \in S => \E i \in 1..Len(r2) : p[i] = m
    BY <2>3, <2>4, <2>5, <2>6
  <2>8. Filters(r2, q, n, S)
    BY <2>7 DEF Filters
  <2> QED BY <2>1, <2>8 DEF r2
<1>5. CASE q[n] \notin S
  <2>1. r2 = r
    BY <1>5
  <2>2. pos \in [1..Len(r) -> 1..n]
    BY <1>1, <1>2
  <2>3. \A m \in 1..n : q[m] \in S => m \in 1..(n - 1)
    BY <1>1, <1>5
  <2> HIDE DEF r2
  <2>4. Filters(r, q, n, S)
    BY <1>2, <1>3, <2>2, <2>3 DEF Filters
  <2> QED BY <2>1, <2>4 DEF r2
<1> QED BY <1>4, <1>5

\* Retain keeps what is in S, loses the rest, and repeats nothing.
LEMMA RetainFilters ==
    ASSUME NEW T, NEW q \in Seq(T), NEW S
    PROVE  Retain(q, S) \in Seq(T) /\ Filters(Retain(q, S), q, Len(q), S)
<1>1. Len(q) \in Nat
  BY LenProperties
<1>2. PICK f : (\A n \in 0..Len(q) : Kept(f, q, S, n)) /\ Retain(q, S) = f[Len(q)]
  BY RetainSteps
<1> DEFINE Good(n) == f[n] \in Seq(T) /\ Filters(f[n], q, n, S)
           bad == {n \in 0..Len(q) : ~Good(n)}
<1>3. ASSUME bad # {} PROVE FALSE
  <2>1. bad \in SUBSET Nat
    BY <1>1
  <2>2. PICK n \in bad : \A k \in bad : n <= k
    <3> HIDE DEF bad
    <3> QED BY <1>3, <2>1, LeastNatural
  <2>3. n \in 0..Len(q) /\ n \in Nat
    BY <1>1
  <2>4. CASE n = 0
    <3>1. f[0] = <<>>
      BY <1>1, <1>2 DEF Kept
    <3>2. <<>> \in Seq(T) /\ Len(<<>>) = 0
      BY EmptySeq
    <3>3. Filters(<<>>, q, 0, S)
      <4>1. [i \in 1..0 |-> 0] \in [1..0 -> 1..0] /\ \A i \in 1..0 : FALSE
        OBVIOUS
      <4>2. 1..Len(<<>>) = 1..0
        BY <3>2
      <4> QED BY <4>1, <4>2 DEF Filters
    <3> QED BY <2>4, <3>1, <3>2, <3>3
  <2>5. CASE n # 0
    <3>1. n - 1 \in 0..Len(q) /\ n \in 1..Len(q) /\ ~(n <= n - 1)
      BY <1>1, <2>3, <2>5
    <3>2. n - 1 \notin bad
      <4> HIDE DEF bad
      <4> QED BY <2>2, <3>1
    <3>3. Good(n - 1)
      <4> HIDE DEF Good
      <4> QED BY <3>1, <3>2
    <3>4. f[n] = IF q[n] \in S THEN Append(f[n - 1], q[n]) ELSE f[n - 1]
      BY <1>2, <2>3, <2>5 DEF Kept
    <3>5. Good(n)
      <4>1. PICK r \in Seq(T) : r = f[n - 1]
        BY <3>3
      <4>2. Filters(r, q, n - 1, S)
        BY <3>3, <4>1
      <4> QED BY <3>1, <3>4, <4>1, <4>2, FiltersOneMore
    <3>6. ~Good(n)
      <4> HIDE DEF Good
      <4> QED BY <2>2
    <3> HIDE DEF Good
    <3> QED BY <3>5, <3>6
  <2> QED BY <2>4, <2>5
<1>4. Good(Len(q))
  <2>1. Len(q) \in 0..Len(q)
    BY <1>1
  <2> HIDE DEF Good
  <2> QED BY <1>3, <2>1
<1> QED BY <1>2, <1>4

\* What a queue holds once a job is put in front of it or behind it.
LEMMA ConcatHolds ==
    ASSUME NEW T, NEW q \in Seq(T), NEW r \in Seq(T)
    PROVE  q \o r \in Seq(T) /\ ToSet(q \o r) = ToSet(q) \union ToSet(r)
<1>1. /\ q \o r \in Seq(T) /\ Len(q \o r) = Len(q) + Len(r)
      /\ \A i \in 1..(Len(q) + Len(r)) :
             (q \o r)[i] = IF i <= Len(q) THEN q[i] ELSE r[i - Len(q)]
  BY ConcatProperties
<1>2. /\ Len(q) \in Nat /\ Len(r) \in Nat
      /\ DOMAIN q = 1..Len(q) /\ DOMAIN r = 1..Len(r) /\ DOMAIN (q \o r) = 1..(Len(q) + Len(r))
  BY <1>1, LenProperties
<1>3. ASSUME NEW x \in ToSet(q \o r) PROVE x \in ToSet(q) \union ToSet(r)
  <2>1. PICK i \in 1..(Len(q) + Len(r)) : x = (q \o r)[i]
    BY <1>2 DEF ToSet
  <2>2. i <= Len(q) => i \in 1..Len(q)
    BY <1>2
  <2>3. ~(i <= Len(q)) => i - Len(q) \in 1..Len(r)
    BY <1>2
  <2> QED BY <1>1, <1>2, <2>1, <2>2, <2>3 DEF ToSet
<1>4. ASSUME NEW i \in 1..Len(q) PROVE q[i] \in ToSet(q \o r)
  <2>1. i \in 1..(Len(q) + Len(r)) /\ i <= Len(q)
    BY <1>2
  <2> QED BY <1>1, <1>2, <2>1 DEF ToSet
<1>5. ASSUME NEW i \in 1..Len(r) PROVE r[i] \in ToSet(q \o r)
  <2>1. Len(q) + i \in 1..(Len(q) + Len(r)) /\ ~(Len(q) + i <= Len(q)) /\ (Len(q) + i) - Len(q) = i
    BY <1>2
  <2> QED BY <1>1, <1>2, <2>1 DEF ToSet
<1> QED BY <1>1, <1>2, <1>3, <1>4, <1>5 DEF ToSet

LEMMA SingletonHolds ==
    ASSUME NEW T, NEW e \in T
    PROVE  <<e>> \in Seq(T) /\ Len(<<e>>) = 1 /\ <<e>>[1] = e /\ ToSet(<<e>>) = {e}
<1>1. <<e>> \in Seq(T) /\ Len(<<e>>) = 1 /\ <<e>>[1] = e
  OBVIOUS
<1>2. DOMAIN <<e>> = 1..1
  BY <1>1, LenProperties
<1> QED BY <1>1, <1>2 DEF ToSet

LEMMA FrontHolds ==
    ASSUME NEW T, NEW q \in Seq(T), NEW e \in T
    PROVE  <<e>> \o q \in Seq(T) /\ ToSet(<<e>> \o q) = ToSet(q) \union {e}
<1>1. PICK u \in Seq(T) : u = <<e>> /\ ToSet(u) = {e}
  <2>1. <<e>> \in Seq(T) /\ ToSet(<<e>>) = {e}
    BY SingletonHolds
  <2> QED BY <2>1, Zenon
<1>2. u \o q \in Seq(T) /\ ToSet(u \o q) = ToSet(u) \union ToSet(q)
  BY <1>1, ConcatHolds, Zenon
<1>3. <<e>> \o q = u \o q /\ ToSet(q) \union {e} = ToSet(u) \union ToSet(q)
  BY <1>1
<1> QED BY <1>2, <1>3, Zenon

LEMMA BackHolds ==
    ASSUME NEW T, NEW q \in Seq(T), NEW e \in T
    PROVE  Append(q, e) \in Seq(T) /\ ToSet(Append(q, e)) = ToSet(q) \union {e}
<1>1. PICK u \in Seq(T) : u = <<e>> /\ ToSet(u) = {e}
  <2>1. <<e>> \in Seq(T) /\ ToSet(<<e>>) = {e}
    BY SingletonHolds
  <2> QED BY <2>1, Zenon
<1>2. q \o u \in Seq(T) /\ ToSet(q \o u) = ToSet(q) \union ToSet(u)
  BY <1>1, ConcatHolds, Zenon
<1>3. Append(q, e) = q \o u /\ ToSet(q) \union {e} = ToSet(q) \union ToSet(u)
  BY <1>1, AppendIsConcat
<1> QED BY <1>2, <1>3, Zenon

\* Retain keeps exactly what is in S.
LEMMA RetainHolds ==
    ASSUME NEW T, NEW q \in Seq(T), NEW S
    PROVE  Retain(q, S) \in Seq(T) /\ ToSet(Retain(q, S)) = ToSet(q) \intersect S
<1>1. PICK r \in Seq(T) : r = Retain(q, S) /\ Filters(r, q, Len(q), S)
  BY RetainFilters
<1>2. DOMAIN q = 1..Len(q) /\ DOMAIN r = 1..Len(r)
  BY <1>1, LenProperties
<1>3. PICK pos \in [1..Len(r) -> 1..Len(q)] : \A i \in 1..Len(r) : r[i] = q[pos[i]] /\ r[i] \in S
  BY <1>1 DEF Filters
<1>4. ASSUME NEW x \in ToSet(r) PROVE x \in ToSet(q) \intersect S
  <2>1. PICK i \in 1..Len(r) : x = r[i]
    BY <1>2 DEF ToSet
  <2> QED BY <1>2, <1>3, <2>1 DEF ToSet
<1>5. ASSUME NEW x \in ToSet(q), x \in S PROVE x \in ToSet(r)
  <2>1. PICK i \in 1..Len(q) : x = q[i]
    BY <1>2 DEF ToSet
  <2>2. PICK k \in 1..Len(r) : r[k] = q[i]
    BY <1>1, <1>5, <2>1 DEF Filters
  <2> QED BY <1>2, <2>1, <2>2 DEF ToSet
<1> QED BY <1>1, <1>4, <1>5

\* A piece of a queue.
LEMMA Piece ==
    ASSUME NEW T, NEW q \in Seq(T), NEW m \in Nat \ {0}, NEW n \in Nat, n <= Len(q)
    PROVE  /\ SubSeq(q, m, n) \in Seq(T)
           /\ Len(SubSeq(q, m, n)) = IF m <= n THEN n - m + 1 ELSE 0
           /\ \A k \in 1..(n - m + 1) : SubSeq(q, m, n)[k] = q[m + k - 1]
<1>1. m \in Int /\ n \in Int /\ \A k \in m..n : q[k] \in T
  BY LenProperties, ElementOfSeq
<1> QED BY <1>1, SubSeqProperties

\* A queue that a job leaves keeps the others, each where it was or one place
\* further ahead.
LEMMA RemoveAtHolds ==
    ASSUME NEW T, NEW q \in Seq(T), NEW i \in 1..Len(q)
    PROVE  /\ RemoveAt(q, i) \in Seq(T) /\ Len(RemoveAt(q, i)) = Len(q) - 1
           /\ \A k \in 1..(Len(q) - 1) : RemoveAt(q, i)[k] = IF k < i THEN q[k] ELSE q[k + 1]
           /\ ToSet(q) = ToSet(RemoveAt(q, i)) \union {q[i]}
<1> DEFINE a == SubSeq(q, 1, i - 1)
           b == SubSeq(q, i + 1, Len(q))
           r == RemoveAt(q, i)
<1>1. Len(q) \in Nat /\ DOMAIN q = 1..Len(q) /\ \A k \in 1..Len(q) : q[k] \in T
  BY LenProperties, ElementOfSeq
<1>2. /\ a \in Seq(T) /\ Len(a) = i - 1 /\ \A k \in 1..(i - 1) : a[k] = q[k]
  <2>1. PICK n \in Nat : n = i - 1 /\ n <= Len(q)
    BY <1>1
  <2>2. /\ SubSeq(q, 1, n) \in Seq(T)
        /\ Len(SubSeq(q, 1, n)) = IF 1 <= n THEN n - 1 + 1 ELSE 0
        /\ \A k \in 1..(n - 1 + 1) : SubSeq(q, 1, n)[k] = q[1 + k - 1]
    <3>1. 1 \in Nat \ {0}
      OBVIOUS
    <3> QED BY <2>1, <3>1, Piece
  <2>3. n - 1 + 1 = n /\ \A k \in 1..n : 1 + k - 1 = k
    OBVIOUS
  <2> QED BY <2>1, <2>2, <2>3
<1>3. /\ b \in Seq(T) /\ Len(b) = Len(q) - i /\ \A k \in 1..(Len(q) - i) : b[k] = q[i + k]
  <2>1. PICK m \in Nat \ {0} : m = i + 1
    BY <1>1
  <2>8. PICK n \in Nat : n = Len(q)
    BY <1>1
  <2>2. /\ SubSeq(q, m, n) \in Seq(T)
        /\ Len(SubSeq(q, m, n)) = IF m <= n THEN n - m + 1 ELSE 0
        /\ \A k \in 1..(n - m + 1) : SubSeq(q, m, n)[k] = q[m + k - 1]
    BY <1>1, <2>8, Piece
  <2>3. /\ n - m + 1 = Len(q) - i /\ \A k \in 1..(Len(q) - i) : m + k - 1 = i + k
        /\ ~(m <= n) => Len(q) - i = 0
    <3>1. n - m + 1 = Len(q) - i /\ i \in Nat
      BY <1>1, <2>1, <2>8
    <3>2. \A k \in Nat : m + k - 1 = i + k
      BY <2>1, <3>1
    <3>3. ~(m <= n) => Len(q) - i = 0
      <4>1. i <= n /\ Len(q) = n /\ i \in Nat /\ n \in Nat /\ m = i + 1
        BY <1>1, <2>1, <2>8
      <4>2. ~(i + 1 <= n) => n - i = 0
        BY ONLY <4>1
      <4> QED BY <4>1, <4>2
    <3>4. \A k \in 1..(Len(q) - i) : k \in Nat
      BY <1>1
    <3> QED BY <3>1, <3>2, <3>3, <3>4
  <2>4. b = SubSeq(q, m, n)
    BY <2>1, <2>8, Zenon
  <2> HIDE DEF b
  <2>5. b \in Seq(T)
    BY <2>2, <2>4, Zenon
  <2>6. Len(b) = IF m <= n THEN n - m + 1 ELSE 0
    BY <2>2, <2>4, Zenon
  <2>7. \A k \in 1..(n - m + 1) : b[k] = q[m + k - 1]
    BY <2>2, <2>4, Zenon
  <2> QED BY <2>3, <2>5, <2>6, <2>7
<1> HIDE DEF a, b
<1>4. r = a \o b
  BY DEF RemoveAt, a, b
<1> HIDE DEF r
<1>5. /\ r \in Seq(T) /\ Len(r) = Len(q) - 1
      /\ \A k \in 1..(Len(q) - 1) : r[k] = IF k <= i - 1 THEN a[k] ELSE b[k - (i - 1)]
  <2>1. Len(a) + Len(b) = Len(q) - 1
    BY <1>1, <1>2, <1>3
  <2>2. /\ a \o b \in Seq(T) /\ Len(a \o b) = Len(a) + Len(b)
        /\ \A k \in 1..(Len(a) + Len(b)) :
               (a \o b)[k] = IF k <= Len(a) THEN a[k] ELSE b[k - Len(a)]
    BY <1>2, <1>3, ConcatProperties
  <2> QED BY <1>2, <1>4, <2>1, <2>2
<1>6. ASSUME NEW k \in 1..(Len(q) - 1) PROVE r[k] = IF k < i THEN q[k] ELSE q[k + 1]
  <2>1. CASE k < i
    <3>1. k <= i - 1 /\ k \in 1..(i - 1)
      BY <1>1, <2>1
    <3> QED BY <1>2, <1>5, <2>1, <3>1
  <2>2. CASE ~(k < i)
    <3>1. ~(k <= i - 1) /\ k - (i - 1) \in 1..(Len(q) - i) /\ i + (k - (i - 1)) = k + 1
      BY <1>1, <2>2
    <3> QED BY <1>3, <1>5, <2>2, <3>1
  <2> QED BY <2>1, <2>2
<1>7. DOMAIN r = 1..(Len(q) - 1)
  BY <1>5, LenProperties
<1>8. ASSUME NEW k \in 1..Len(q), k # i PROVE q[k] \in ToSet(r)
  <2>1. CASE k < i
    <3>1. k \in 1..(Len(q) - 1)
      BY <1>1, <2>1
    <3> QED BY <1>6, <1>7, <2>1, <3>1 DEF ToSet
  <2>2. CASE ~(k < i)
    <3>1. k - 1 \in 1..(Len(q) - 1) /\ ~(k - 1 < i) /\ (k - 1) + 1 = k
      BY <1>1, <1>8, <2>2
    <3> QED BY <1>6, <1>7, <3>1 DEF ToSet
  <2> QED BY <2>1, <2>2
<1>9. \A k \in 1..(Len(q) - 1) : k \in 1..Len(q) /\ k + 1 \in 1..Len(q)
  BY <1>1
<1>10. ASSUME NEW x \in ToSet(q), x # q[i] PROVE x \in ToSet(r)
  BY <1>1, <1>8, <1>10 DEF ToSet
<1>11. ASSUME NEW x \in ToSet(r) PROVE x \in ToSet(q)
  <2>1. PICK k \in 1..(Len(q) - 1) : x = r[k]
    BY <1>7 DEF ToSet
  <2>2. r[k] = q[k] \/ r[k] = q[k + 1]
    BY <1>6
  <2> QED BY <1>1, <1>9, <2>1, <2>2 DEF ToSet
<1>12. q[i] \in ToSet(q)
  BY <1>1 DEF ToSet
<1>13. ToSet(q) = ToSet(r) \union {q[i]}
  BY <1>10, <1>11, <1>12
<1> QED BY <1>5, <1>6, <1>13 DEF r

\* A sequence that names nothing twice, and what is left of it.
Distinct(q) == \A i, k \in 1..Len(q) : i # k => q[i] # q[k]

LEMMA RetainDistinct ==
    ASSUME NEW T, NEW q \in Seq(T), Distinct(q), NEW S
    PROVE  Distinct(Retain(q, S))
<1>1. PICK r \in Seq(T) : r = Retain(q, S) /\ Filters(r, q, Len(q), S)
  BY RetainFilters
<1>2. PICK pos \in [1..Len(r) -> 1..Len(q)] :
          /\ \A i, k \in 1..Len(r) : i # k => pos[i] # pos[k]
          /\ \A i \in 1..Len(r) : r[i] = q[pos[i]]
  BY <1>1 DEF Filters
<1>3. \A i \in 1..Len(r) : pos[i] \in 1..Len(q)
  BY <1>2
<1>4. ASSUME NEW i \in 1..Len(r), NEW k \in 1..Len(r), i # k PROVE r[i] # r[k]
  <2>1. pos[i] # pos[k] /\ pos[i] \in 1..Len(q) /\ pos[k] \in 1..Len(q)
    BY <1>2, <1>3, <1>4
  <2>2. q[pos[i]] # q[pos[k]]
    BY <2>1 DEF Distinct
  <2> QED BY <1>2, <2>2
<1>5. Distinct(r)
  BY <1>4 DEF Distinct
<1> QED BY <1>1, <1>5

-----------------------------------------------------------------------------
(* Sequences, of whatever they hold *)

\* A sequence.
Listed(q) == q \in Seq(ToSet(q))

LEMMA SeqIsListed ==
    ASSUME NEW S, NEW q \in Seq(S)
    PROVE  Listed(q)
<1>1. /\ Len(q) \in Nat /\ DOMAIN q = 1..Len(q)
      /\ q \in [1..Len(q) -> S]
  BY LenProperties
<1>2. \A i \in 1..Len(q) : q[i] \in ToSet(q)
  BY <1>1 DEF ToSet
<1>3. q = [i \in 1..Len(q) |-> q[i]]
  BY <1>1
<1>4. q \in [1..Len(q) -> ToSet(q)]
  BY <1>2, <1>3
<1> QED
  BY <1>1, <1>4, SeqDef DEF Listed

LEMMA EmptyIsListed == Listed(<<>>) /\ ToSet(<<>>) = {}
<1>1. <<>> \in Seq({})
  BY EmptySeq
<1>2. ToSet(<<>>) = {}
  BY DEF ToSet
<1> QED BY <1>1, <1>2 DEF Listed

LEMMA ListedShape ==
    ASSUME NEW q, Listed(q)
    PROVE  /\ Len(q) \in Nat /\ DOMAIN q = 1..Len(q)
           /\ \A i \in DOMAIN q : q[i] \in ToSet(q)
           /\ \A e \in ToSet(q) : \E i \in DOMAIN q : q[i] = e
BY LenProperties DEF Listed, ToSet

LEMMA AppendListed ==
    ASSUME NEW q, Listed(q), NEW e
    PROVE  /\ Listed(Append(q, e)) /\ ToSet(Append(q, e)) = ToSet(q) \union {e}
           /\ Len(Append(q, e)) = Len(q) + 1 /\ DOMAIN Append(q, e) = 1..(Len(q) + 1)
           /\ \A i \in 1..Len(q) : Append(q, e)[i] = q[i]
           /\ Append(q, e)[Len(q) + 1] = e
<1> DEFINE S == ToSet(q) \union {e}
           p == Append(q, e)
<1>1. q \in Seq(S)
  BY SeqMonotonic DEF Listed
<1>2. e \in S
  OBVIOUS
<1>3. Len(q) \in Nat /\ DOMAIN q = 1..Len(q)
  BY ListedShape
<1>4. p \in Seq(S) /\ Len(p) = Len(q) + 1
  <2> HIDE DEF S
  <2> QED BY <1>1, <1>2, AppendProperties
<1>5. \A i \in 1..Len(q) : p[i] = q[i]
  <2> HIDE DEF S
  <2> QED BY <1>1, <1>2, AppendProperties
<1>6. p[Len(q) + 1] = e
  <2> HIDE DEF S
  <2> QED BY <1>1, <1>2, AppendProperties
<1>7. Listed(p)
  BY <1>4, SeqIsListed
<1>8. DOMAIN p = 1..(Len(q) + 1)
  BY <1>4, <1>7, ListedShape
<1>9. ToSet(p) = S
  <2>1. ASSUME NEW a \in ToSet(p) PROVE a \in S
    <3>1. PICK i \in DOMAIN p : p[i] = a
      BY DEF ToSet
    <3>2. CASE i \in 1..Len(q)
      BY <1>3, <1>5, <3>1, <3>2 DEF ToSet
    <3>3. CASE i = Len(q) + 1
      BY <1>6, <3>1, <3>3
    <3> HIDE DEF S, p
    <3> QED BY <1>3, <1>8, <3>1, <3>2, <3>3
  <2>2. ASSUME NEW a \in ToSet(q) PROVE a \in ToSet(p)
    <3>1. PICK i \in 1..Len(q) : q[i] = a
      BY <1>3 DEF ToSet
    <3>2. i \in DOMAIN p /\ p[i] = a
      <4> HIDE DEF p
      <4> QED BY <1>3, <1>5, <1>8, <3>1
    <3> QED BY <3>2 DEF ToSet
  <2>3. e \in ToSet(p)
    <3>1. Len(q) + 1 \in DOMAIN p
      <4> HIDE DEF p
      <4> QED BY <1>3, <1>8
    <3> QED BY <1>6, <3>1 DEF ToSet
  <2> QED BY <2>1, <2>2, <2>3
<1> QED
  BY <1>4, <1>5, <1>6, <1>7, <1>8, <1>9

LEMMA TailListed ==
    ASSUME NEW q, Listed(q), q # <<>>
    PROVE  Listed(Tail(q)) /\ ToSet(q) = ToSet(Tail(q)) \union {Head(q)}
<1> DEFINE p == Tail(q)
<1>1. q \in Seq(ToSet(q)) /\ Len(q) \in Nat /\ DOMAIN q = 1..Len(q)
  BY ListedShape DEF Listed
<1>2. /\ Len(q) \in Nat \ {0} /\ Head(q) = q[1]
      /\ p \in Seq(ToSet(q)) /\ Len(p) = Len(q) - 1
      /\ \A i \in 1..Len(p) : p[i] = q[i + 1]
  BY <1>1, HeadTailProperties
<1>3. Listed(p)
  BY <1>2, SeqIsListed
<1>4. DOMAIN p = 1..Len(p)
  BY <1>3, ListedShape
<1> HIDE DEF p
<1>5. ASSUME NEW a \in ToSet(q) PROVE a \in ToSet(p) \union {Head(q)}
  <2>1. PICK i \in 1..Len(q) : q[i] = a
    BY <1>1 DEF ToSet
  <2>2. CASE i = 1
    BY <1>2, <2>1, <2>2
  <2>3. CASE i # 1
    <3>1. i - 1 \in 1..Len(p) /\ p[i - 1] = a
      BY <1>2, <2>1, <2>3
    <3> QED BY <1>4, <3>1 DEF ToSet
  <2> QED BY <2>2, <2>3
<1>6. ASSUME NEW a \in ToSet(p) PROVE a \in ToSet(q)
  <2>1. PICK i \in 1..Len(p) : p[i] = a
    BY <1>4 DEF ToSet
  <2>2. i + 1 \in 1..Len(q) /\ q[i + 1] = a
    BY <1>2, <2>1
  <2> QED BY <1>1, <2>2 DEF ToSet
<1>7. Head(q) \in ToSet(q)
  BY <1>1, <1>2 DEF ToSet
<1> QED
  BY <1>3, <1>5, <1>6, <1>7 DEF p

LEMMA RemoveListed ==
    ASSUME NEW q, Listed(q), NEW i \in DOMAIN q
    PROVE  /\ Listed(RemoveAt(q, i)) /\ Len(RemoveAt(q, i)) = Len(q) - 1
           /\ \A k \in 1..(Len(q) - 1) : RemoveAt(q, i)[k] = IF k < i THEN q[k] ELSE q[k + 1]
           /\ ToSet(q) = ToSet(RemoveAt(q, i)) \union {q[i]}
<1>1. q \in Seq(ToSet(q)) /\ i \in 1..Len(q)
  BY ListedShape DEF Listed
<1>2. /\ RemoveAt(q, i) \in Seq(ToSet(q)) /\ Len(RemoveAt(q, i)) = Len(q) - 1
      /\ \A k \in 1..(Len(q) - 1) : RemoveAt(q, i)[k] = IF k < i THEN q[k] ELSE q[k + 1]
      /\ ToSet(q) = ToSet(RemoveAt(q, i)) \union {q[i]}
  BY <1>1, RemoveAtHolds
<1>3. Listed(RemoveAt(q, i))
  BY <1>2, SeqIsListed
<1> QED BY <1>2, <1>3

\* One place of a sequence replaced.
LEMMA PutHolds ==
    ASSUME NEW T, NEW q \in Seq(T), NEW i \in 1..Len(q), NEW e \in T
    PROVE  /\ [q EXCEPT ![i] = e] \in Seq(T) /\ Len([q EXCEPT ![i] = e]) = Len(q)
           /\ [q EXCEPT ![i] = e][i] = e
           /\ \A k \in 1..Len(q) : k # i => [q EXCEPT ![i] = e][k] = q[k]
<1>1. PICK r : r = [q EXCEPT ![i] = e]
  OBVIOUS
<1>2. q \in [1..Len(q) -> T] /\ Len(q) \in Nat /\ DOMAIN q = 1..Len(q)
  BY LenProperties
<1>3. r \in [1..Len(q) -> T] /\ r[i] = e /\ \A k \in 1..Len(q) : k # i => r[k] = q[k]
  BY <1>1, <1>2
<1>4. r \in Seq(T) /\ Len(r) = Len(q)
  <2>1. r \in Seq(T)
    BY <1>2, <1>3, SeqDef
  <2>2. PICK m \in Nat, n \in Nat : m = Len(r) /\ n = Len(q) /\ 1..m = 1..n
    BY <1>2, <1>3, <2>1, LenProperties
  <2>3. m = n
    BY <2>2
  <2> QED BY <2>1, <2>2, <2>3
<1> QED BY <1>1, <1>3, <1>4

\* One more element, at place i.
LEMMA InsertAtHolds ==
    ASSUME NEW T, NEW q \in Seq(T), NEW i \in 1..(Len(q) + 1), NEW e \in T
    PROVE  /\ InsertAt(q, i, e) \in Seq(T) /\ Len(InsertAt(q, i, e)) = Len(q) + 1
           /\ InsertAt(q, i, e)[i] = e
           /\ \A k \in 1..(Len(q) + 1) : k # i =>
                 InsertAt(q, i, e)[k] = IF k < i THEN q[k] ELSE q[k - 1]
<1> DEFINE a == SubSeq(q, 1, i - 1)
           b == SubSeq(q, i, Len(q))
           h == a \o <<e>>
           r == InsertAt(q, i, e)
<1>1. PICK n \in Nat : n = Len(q)
  BY LenProperties
<1>2. PICK j \in Nat : j = i - 1 /\ i = j + 1 /\ j <= n
  BY <1>1
<1>3. a \in Seq(T) /\ Len(a) = j /\ \A k \in 1..j : a[k] = q[k]
  <2>1. /\ SubSeq(q, 1, j) \in Seq(T)
        /\ Len(SubSeq(q, 1, j)) = IF 1 <= j THEN j - 1 + 1 ELSE 0
        /\ \A k \in 1..(j - 1 + 1) : SubSeq(q, 1, j)[k] = q[1 + k - 1]
    <3>1. 1 \in Nat \ {0}
      OBVIOUS
    <3> QED BY <1>1, <1>2, <3>1, Piece
  <2>2. j - 1 + 1 = j /\ \A k \in 1..j : 1 + k - 1 = k
    OBVIOUS
  <2>3. a = SubSeq(q, 1, j)
    BY <1>2, Zenon
  <2> HIDE DEF a
  <2> QED BY <2>1, <2>2, <2>3
<1>4. b \in Seq(T) /\ Len(b) = n - j /\ \A k \in 1..(n - j) : b[k] = q[j + k]
  <2>1. PICK m \in Nat \ {0} : m = i
    BY <1>2
  <2>2. /\ SubSeq(q, m, n) \in Seq(T)
        /\ Len(SubSeq(q, m, n)) = IF m <= n THEN n - m + 1 ELSE 0
        /\ \A k \in 1..(n - m + 1) : SubSeq(q, m, n)[k] = q[m + k - 1]
    BY <1>1, Piece
  <2>3. b = SubSeq(q, m, n)
    BY <1>1, <2>1, Zenon
  <2>4. n - m + 1 = n - j /\ (~(m <= n) => n - j = 0) /\ \A k \in Nat : m + k - 1 = j + k
    BY <1>2, <2>1
  <2>5. \A k \in 1..(n - j) : k \in Nat
    BY <1>2
  <2> HIDE DEF b
  <2> QED BY <2>2, <2>3, <2>4, <2>5
<1> HIDE DEF a, b
<1>5. /\ h \in Seq(T) /\ Len(h) = j + 1 /\ h[j + 1] = e /\ \A k \in 1..j : h[k] = q[k]
  <2>1. PICK c \in Seq(T) : c = <<e>> /\ Len(c) = 1 /\ c[1] = e
    <3>1. <<e>> \in Seq(T) /\ Len(<<e>>) = 1 /\ <<e>>[1] = e
      BY SingletonHolds
    <3> QED BY <3>1, Zenon
  <2>2. /\ a \o c \in Seq(T) /\ Len(a \o c) = Len(a) + Len(c)
        /\ \A k \in 1..(Len(a) + Len(c)) : (a \o c)[k] = IF k <= Len(a) THEN a[k] ELSE c[k - Len(a)]
    BY <1>3, ConcatProperties
  <2>3. h = a \o c
    BY <2>1, Zenon
  <2> HIDE DEF h
  <2>4. Len(a) + Len(c) = j + 1 /\ j + 1 \in 1..(j + 1) /\ ~(j + 1 <= j) /\ (j + 1) - j = 1
    BY <1>3, <2>1
  <2>5. \A k \in 1..j : k \in 1..(j + 1) /\ k <= j
    OBVIOUS
  <2> QED BY <1>3, <2>1, <2>2, <2>3, <2>4, <2>5
<1> HIDE DEF h
<1>6. /\ r \in Seq(T) /\ Len(r) = n + 1
      /\ \A k \in 1..(n + 1) : r[k] = IF k <= j + 1 THEN h[k] ELSE b[k - (j + 1)]
  <2>1. /\ h \o b \in Seq(T) /\ Len(h \o b) = Len(h) + Len(b)
        /\ \A k \in 1..(Len(h) + Len(b)) : (h \o b)[k] = IF k <= Len(h) THEN h[k] ELSE b[k - Len(h)]
    BY <1>4, <1>5, ConcatProperties
  <2>2. Len(h) + Len(b) = n + 1
    BY <1>2, <1>4, <1>5
  <2>3. r = h \o b
    BY DEF InsertAt, h, a, b
  <2> HIDE DEF r
  <2> QED BY <1>5, <2>1, <2>2, <2>3
<1> HIDE DEF r
<1>7. r[i] = e
  BY <1>2, <1>5, <1>6
<1>8. ASSUME NEW k \in 1..(n + 1), k # i PROVE r[k] = IF k < i THEN q[k] ELSE q[k - 1]
  <2>1. CASE k < i
    <3>1. k \in 1..j /\ k <= j + 1
      BY <1>2, <2>1
    <3> QED BY <1>5, <1>6, <2>1, <3>1
  <2>2. CASE ~(k < i)
    <3>1. ~(k <= j + 1) /\ k - (j + 1) \in 1..(n - j) /\ j + (k - (j + 1)) = k - 1
      BY <1>2, <1>8, <2>2
    <3> QED BY <1>4, <1>6, <2>2, <3>1
  <2> QED BY <2>1, <2>2
<1> QED BY <1>1, <1>6, <1>7, <1>8 DEF r

LEMMA Narrow ==
    ASSUME NEW T, NEW q \in Seq(T), NEW U, ToSet(q) \subseteq U
    PROVE  q \in Seq(U)
<1>1. q \in [1..Len(q) -> T] /\ Len(q) \in Nat /\ DOMAIN q = 1..Len(q)
  BY LenProperties
<1>2. \A i \in 1..Len(q) : q[i] \in U
  BY <1>1 DEF ToSet
<1>3. q \in [1..Len(q) -> U]
  BY <1>1, <1>2
<1> QED BY <1>1, <1>3, SeqDef

LEMMA HeadHolds ==
    ASSUME NEW T, NEW q \in Seq(T), q # <<>>
    PROVE  /\ Head(q) \in T /\ Tail(q) \in Seq(T)
           /\ ToSet(q) = ToSet(Tail(q)) \union {Head(q)}
<1>1. Head(q) \in T /\ Tail(q) \in Seq(T)
  BY HeadTailProperties
<1>2. Listed(q)
  BY SeqIsListed
<1> QED BY <1>1, <1>2, TailListed

=============================================================================
