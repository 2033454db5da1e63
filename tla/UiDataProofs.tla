---------------------------- MODULE UiDataProofs ----------------------------
(* What the operators of Ui on lists and payloads return, for every list and  *)
(* payload there can be: the folds and recursive functions by induction over  *)
(* their length, the codecs byte by byte.                                     *)
EXTENDS Ui, FiniteSetTheorems, SequenceTheorems, WellFoundedInduction, TLAPS

-----------------------------------------------------------------------------
(* Induction, and what it says of folds. *)

LEMMA Smallest ==
  ASSUME NEW T \in SUBSET Nat, T # {}
  PROVE  \E m \in T : \A k \in T : m <= k
<1> DEFINE F == {0..i : i \in T}
<1>1. F \subseteq FiniteSubsetsOf(Nat) /\ F # {}
  <2>1. \A i \in T : IsFiniteSet(0..i) /\ 0..i \in SUBSET Nat
    BY FS_Interval
  <2> QED BY <2>1 DEF FiniteSubsetsOf
<1>2. PICK x \in F : \A y \in F : ~(<<y, x>> \in StrictSubsetOrdering(Nat))
  <2> HIDE DEF F
  <2>1. IsWellFoundedOn(StrictSubsetOrdering(Nat), FiniteSubsetsOf(Nat))
    BY FS_StrictSubsetOrderingWellFounded
  <2> QED BY <2>1, <1>1, WFMin, Zenon
<1>3. PICK m \in T : x = 0..m
  OBVIOUS
<1>4. ASSUME NEW k \in T, k < m PROVE FALSE
  <2>1. /\ 0..k \in SUBSET Nat /\ 0..m \in SUBSET Nat
        /\ 0..k \subseteq 0..m /\ 0..k # 0..m
    BY <1>4
  <2>2. <<0..k, 0..m>> \in StrictSubsetOrdering(Nat)
    BY <2>1 DEF StrictSubsetOrdering
  <2> QED BY <1>2, <1>3, <2>2
<1> QED BY <1>4

(* Induction, over the set of the numbers it holds of. *)
LEMMA Induction ==
  ASSUME NEW n \in Nat, NEW T, 0 \in T, \A k \in 1..n : k - 1 \in T => k \in T
  PROVE  \A k \in 0..n : k \in T
<1> SUFFICES ASSUME NEW j \in 0..n, j \notin T PROVE FALSE
  OBVIOUS
<1> DEFINE Bad == {k \in 0..n : k \notin T}
<1>1. PICK m \in Bad : \A k \in Bad : m <= k
  <2>1. Bad \in SUBSET Nat /\ Bad # {}
    OBVIOUS
  <2> HIDE DEF Bad
  <2> QED BY <2>1, Smallest
<1>2. m # 0 /\ m \in 1..n /\ m - 1 \in 0..n
  OBVIOUS
<1>3. m - 1 \in T
  BY <1>1, <1>2
<1> QED BY <1>2, <1>3

LEMMA MaxOf ==
  ASSUME NEW S \in SUBSET Int, NEW m \in S, \A y \in S : m >= y
  PROVE  Max(S) = m
<1>1. \A x \in S : (\A y \in S : x >= y) => x = m
  OBVIOUS
<1> QED BY <1>1 DEF Max

LEMMA Greatest ==
  ASSUME NEW n \in Nat, NEW d \in SUBSET (1..n), d # {}
  PROVE  \E x \in d : \A y \in d : y <= x
<1> DEFINE T == {n - x : x \in d}
<1>1. T \in SUBSET Nat /\ T # {}
  <2>1. \A x \in d : x \in 1..n /\ n - x \in Nat
    OBVIOUS
  <2> QED BY <2>1
<1>2. PICK m \in T : \A k \in T : m <= k
  <2> HIDE DEF T
  <2> QED BY <1>1, Smallest
<1>3. PICK x \in d : m = n - x
  OBVIOUS
<1>4. ASSUME NEW y \in d PROVE y <= x
  <2>1. n - y \in T /\ y \in 1..n /\ x \in 1..n
    OBVIOUS
  <2>2. m <= n - y
    BY <1>2, <2>1
  <2> QED BY <1>3, <2>1, <2>2
<1> QED BY <1>4

LEMMA MaxIn ==
  ASSUME NEW n \in Nat, NEW d \in SUBSET (1..n), d # {}
  PROVE  Max(d) \in d
<1>1. PICK x \in d : \A y \in d : y <= x
  BY Greatest
<1>2. d \in SUBSET Int /\ \A y \in d : x >= y
  BY <1>1
<1>3. Max(d) = x
  BY <1>2, MaxOf
<1> QED BY <1>3

LEMMA UpToMax ==
  ASSUME NEW k \in Nat \ {0}
  PROVE  Max(1..k) = k /\ (1..k) \ {k} = 1..(k - 1)
<1>1. 1..k \in SUBSET Int /\ k \in 1..k /\ \A y \in 1..k : k >= y
  OBVIOUS
<1>2. Max(1..k) = k
  BY <1>1, MaxOf
<1> QED BY <1>2

IsFold(it, n, V, base, step) ==
  /\ it \in [SUBSET (1..n) -> V]
  /\ \A s \in SUBSET (1..n) :
       it[s] = IF s = {} THEN base ELSE step[<<it[s \ {Max(s)}], Max(s)>>]

(* What a fold over the first n of a sequence is: a function on the sets of   *)
(* places that takes the last one off.                                        *)
LEMMA FoldExists ==
  ASSUME NEW n \in Nat, NEW V, NEW base \in V, NEW step \in [V \X (1..n) -> V]
  PROVE  \E it : IsFold(it, n, V, base, step)
<1> DEFINE Folds(it, m) ==
             \A s \in SUBSET (1..m) :
               it[s] = IF s = {} THEN base ELSE step[<<it[s \ {Max(s)}], Max(s)>>]
           T == {m \in 0..n : \E it \in [SUBSET (1..m) -> V] : Folds(it, m)}
<1>1. 0 \in T
  <2> DEFINE it == [s \in SUBSET (1..0) |-> base]
  <2>1. it \in [SUBSET (1..0) -> V]
    OBVIOUS
  <2>2. Folds(it, 0)
    OBVIOUS
  <2>3. 0 \in 0..n
    OBVIOUS
  <2> HIDE DEF it, Folds
  <2> QED BY <2>1, <2>2, <2>3
<1>2. ASSUME NEW m \in 1..n, m - 1 \in T PROVE m \in T
  <2>1. PICK g \in [SUBSET (1..(m - 1)) -> V] : Folds(g, m - 1)
    BY <1>2
  <2> DEFINE it == [s \in SUBSET (1..m) |-> IF m \in s THEN step[<<g[s \ {m}], m>>] ELSE g[s]]
  <2>2. \A s \in SUBSET (1..m) : s \ {m} \in SUBSET (1..(m - 1)) /\ (m \notin s => s = s \ {m})
    OBVIOUS
  <2>3. it \in [SUBSET (1..m) -> V]
    <3> SUFFICES ASSUME NEW s \in SUBSET (1..m)
                 PROVE  (IF m \in s THEN step[<<g[s \ {m}], m>>] ELSE g[s]) \in V
      OBVIOUS
    <3>1. s \ {m} \in SUBSET (1..(m - 1)) /\ (m \notin s => s = s \ {m})
      BY <2>2
    <3> QED BY <3>1
  <2>4. ASSUME NEW s \in SUBSET (1..m)
        PROVE  it[s] = IF s = {} THEN base ELSE step[<<it[s \ {Max(s)}], Max(s)>>]
    <3>1. CASE m \in s
      <4>1. Max(s) = m
        <5>1. s \in SUBSET Int /\ \A y \in s : m >= y
          OBVIOUS
        <5> QED BY <5>1, <3>1, MaxOf
      <4>2. it[s] = step[<<g[s \ {m}], m>>] /\ s # {}
        BY <3>1
      <4>3. it[s \ {m}] = g[s \ {m}]
        OBVIOUS
      <4> QED BY <4>1, <4>2, <4>3
    <3>2. CASE m \notin s
      <4>1. s \in SUBSET (1..(m - 1)) /\ it[s] = g[s]
        BY <2>2, <3>2
      <4>2. g[s] = IF s = {} THEN base ELSE step[<<g[s \ {Max(s)}], Max(s)>>]
        BY <2>1, <4>1
      <4>3. it[s \ {Max(s)}] = g[s \ {Max(s)}]
        BY <3>2
      <4> QED BY <4>1, <4>2, <4>3
    <3> QED BY <3>1, <3>2
  <2>5. Folds(it, m)
    BY <2>4
  <2> HIDE DEF it, Folds
  <2> QED BY <2>3, <2>5
<1>3. n \in T
  <2> HIDE DEF T
  <2>1. \A k \in 0..n : k \in T
    BY <1>1, <1>2, Induction
  <2> QED BY <2>1
<1>4. PICK it \in [SUBSET (1..n) -> V] : Folds(it, n)
  BY <1>3
<1>5. IsFold(it, n, V, base, step)
  BY <1>4 DEF IsFold
<1> QED BY <1>5

(* The same for a function defined by recursion on the places. *)
IsRecursion(f, n, V, base, step) ==
  /\ f \in [0..n -> V] /\ f[0] = base
  /\ \A k \in 1..n : f[k] = step[<<f[k - 1], k>>]

LEMMA RecursionExists ==
  ASSUME NEW n \in Nat, NEW V, NEW base \in V, NEW step \in [V \X (1..n) -> V]
  PROVE  \E f : IsRecursion(f, n, V, base, step)
<1>1. PICK it : IsFold(it, n, V, base, step)
  BY FoldExists
<1> DEFINE f == [k \in 0..n |-> it[1..k]]
<1>2. \A k \in 0..n : 1..k \in SUBSET (1..n)
  OBVIOUS
<1>3. f \in [0..n -> V]
  BY <1>1, <1>2 DEF IsFold
<1>4. f[0] = base
  <2>1. 1..0 = {} /\ 0 \in 0..n
    OBVIOUS
  <2> QED BY <1>1, <1>2, <2>1 DEF IsFold
<1>5. ASSUME NEW k \in 1..n PROVE f[k] = step[<<f[k - 1], k>>]
  <2>1. Max(1..k) = k /\ (1..k) \ {k} = 1..(k - 1) /\ 1..k # {}
    BY UpToMax
  <2>2. k \in 0..n /\ k - 1 \in 0..n /\ 1..k \in SUBSET (1..n)
    OBVIOUS
  <2>3. it[1..k] = step[<<it[1..(k - 1)], k>>]
    BY <1>1, <2>1, <2>2 DEF IsFold
  <2> QED BY <2>2, <2>3
<1>6. IsRecursion(f, n, V, base, step)
  <2> HIDE DEF f
  <2> QED BY <1>3, <1>4, <1>5 DEF IsRecursion
<1> QED BY <1>6

-----------------------------------------------------------------------------
(* Selected. *)

IsSelection(h, S, s, keep) ==
  /\ h \in [0..Len(s) -> Seq(S)]
  /\ h[0] = <<>> /\ h[Len(s)] = Selected(s, keep)
  /\ \A k \in 1..Len(s) : h[k] = h[k - 1] \o (IF s[k] \in keep THEN <<s[k]>> ELSE <<>>)

LEMMA SelectedSteps ==
  ASSUME NEW S, NEW s \in Seq(S), NEW keep
  PROVE  \E h : IsSelection(h, S, s, keep)
<1> DEFINE n == Len(s)
           V == Seq(S)
           bit(k) == IF s[k] \in keep THEN <<s[k]>> ELSE <<>>
           step == [p \in V \X (1..n) |-> p[1] \o bit(p[2])]
           Is(f) == f = [i \in 0..n |-> IF i = 0 THEN <<>> ELSE f[i - 1] \o bit(i)]
           h == CHOOSE f : Is(f)
<1>1. n \in Nat /\ <<>> \in V
  OBVIOUS
<1>2. \A k \in 1..n : bit(k) \in V
  OBVIOUS
<1>3. \A v \in V, k \in 1..n : v \o bit(k) \in V
  <2> HIDE DEF bit
  <2> QED BY <1>2, ConcatProperties
<1>4. step \in [V \X (1..n) -> V]
  <2> HIDE DEF bit, V, n
  <2> QED BY <1>3
<1>5. PICK f : IsRecursion(f, n, V, <<>>, step)
  <2> HIDE DEF step, V, n
  <2> QED BY <1>1, <1>4, RecursionExists
<1>6. Is(f)
  <2> HIDE DEF V, n, bit
  <2>1. f \in [0..n -> V] /\ f[0] = <<>>
    <3> HIDE DEF step
    <3> QED BY <1>5 DEF IsRecursion
  <2>2. ASSUME NEW i \in 1..n PROVE f[i] = f[i - 1] \o bit(i)
    <3>1. f[i] = step[<<f[i - 1], i>>]
      <4> HIDE DEF step
      <4> QED BY <1>5 DEF IsRecursion
    <3>2. i - 1 \in 0..n
      BY <1>1
    <3> QED BY <2>1, <3>1, <3>2
  <2>3. \A i \in 0..n : f[i] = IF i = 0 THEN <<>> ELSE f[i - 1] \o bit(i)
    BY <1>1, <2>1, <2>2
  <2> QED BY <2>1, <2>3
<1>7. Is(h)
  <2> HIDE DEF Is
  <2> QED BY <1>6
<1>8. Selected(s, keep) = h[n]
  BY DEF Selected
<1>9. h[0] = <<>> /\ \A k \in 1..n : h[k] = h[k - 1] \o bit(k)
  <2> HIDE DEF bit, h, n
  <2>1. 0 \in 0..n /\ \A k \in 1..n : k \in 0..n /\ k # 0
    BY <1>1
  <2> QED BY <1>7, <2>1
<1>10. h \in [0..n -> V]
  <2> DEFINE T == {k \in 0..n : h[k] \in V}
  <2>a. h = [k \in 0..n |-> h[k]]
    <3> HIDE DEF h, bit
    <3> QED BY <1>7
  <2> HIDE DEF h, bit, V, n
  <2>1. 0 \in T
    <3>1. 0 \in 0..n /\ h[0] \in V
      BY <1>1, <1>9
    <3> QED BY <3>1
  <2>2. ASSUME NEW k \in 1..n, k - 1 \in T PROVE k \in T
    <3>1. h[k - 1] \in V /\ k \in 0..n
      BY <1>1, <2>2
    <3>2. h[k] = h[k - 1] \o bit(k)
      BY <1>9
    <3>3. h[k] \in V
      BY <1>3, <3>1, <3>2
    <3> QED BY <3>1, <3>3
  <2>3. \A k \in 0..n : k \in T
    <3> HIDE DEF T
    <3> QED BY <1>1, <2>1, <2>2, Induction
  <2> QED BY <2>3, <2>a
<1>11. IsSelection(h, S, s, keep)
  <2> HIDE DEF h
  <2> QED BY <1>8, <1>9, <1>10 DEF IsSelection
<1> QED BY <1>11

(* What is selected is of the list and was to be kept, and nothing else of    *)
(* the list was.                                                              *)
SelectsFrom(sel, S, s, keep) ==
  /\ sel \in Seq(S \cap keep) /\ Len(sel) <= Len(s)
  /\ \A i \in 1..Len(s) : s[i] \in keep => \E j \in 1..Len(sel) : sel[j] = s[i]

LEMMA SelectedProps ==
  ASSUME NEW S, NEW s \in Seq(S), NEW keep
  PROVE  SelectsFrom(Selected(s, keep), S, s, keep)
<1>1. PICK h : IsSelection(h, S, s, keep)
  BY SelectedSteps
<1>0. Len(s) \in Nat /\ \A i \in 1..Len(s) : s[i] \in S
  OBVIOUS
<1>a. /\ h[0] = <<>>
      /\ \A k \in 1..Len(s) : h[k] = h[k - 1] \o (IF s[k] \in keep THEN <<s[k]>> ELSE <<>>)
  BY <1>1 DEF IsSelection
<1> DEFINE Has(k, x) == \E j \in 1..Len(h[k]) : h[k][j] = x
           Fine(k) == /\ h[k] \in Seq(S \cap keep) /\ Len(h[k]) <= k
                      /\ \A i \in 1..k : s[i] \in keep => Has(k, s[i])
           T == {k \in 0..Len(s) : Fine(k)}
<1>2. 0 \in T
  <2>1. 0 \in 0..Len(s) /\ h[0] = <<>>
    BY <1>0, <1>a
  <2>2. 1..0 = {} /\ <<>> \in Seq(S \cap keep) /\ Len(<<>>) = 0
    OBVIOUS
  <2>3. Fine(0)
    BY <2>1, <2>2
  <2> HIDE DEF Fine
  <2> QED BY <2>1, <2>3
<1>3. ASSUME NEW k \in 1..Len(s), k - 1 \in T PROVE k \in T
  <2>1. h[k - 1] \in Seq(S \cap keep) /\ Fine(k - 1)
    BY <1>3
  <2>a. k \in 0..Len(s) /\ s[k] \in S /\ k \in Nat
    BY <1>0
  <2>b. Len(h[k - 1]) \in Nat /\ Len(h[k - 1]) <= k - 1
    BY <2>1
  <2>2. CASE s[k] \in keep
    <3>1. h[k] = h[k - 1] \o <<s[k]>>
      BY <1>a, <2>2
    <3>2. <<s[k]>> \in Seq(S \cap keep) /\ Len(<<s[k]>>) = 1 /\ <<s[k]>>[1] = s[k]
      BY <2>2, <2>a
    <3>3. /\ h[k] \in Seq(S \cap keep) /\ Len(h[k]) = Len(h[k - 1]) + 1
          /\ \A j \in 1..Len(h[k]) : h[k][j] = IF j <= Len(h[k - 1]) THEN h[k - 1][j]
                                               ELSE <<s[k]>>[j - Len(h[k - 1])]
      BY <2>1, <3>1, <3>2, ConcatProperties
    <3> DEFINE m == Len(h[k - 1])
    <3>4. Len(h[k]) <= k /\ m + 1 \in 1..Len(h[k]) /\ \A j \in 1..m : j \in 1..Len(h[k])
      BY <2>b, <3>3
    <3>5. h[k][m + 1] = s[k] /\ \A j \in 1..m : h[k][j] = h[k - 1][j]
      BY <2>b, <3>2, <3>3, <3>4
    <3>6. ASSUME NEW i \in 1..k, s[i] \in keep PROVE Has(k, s[i])
      <4>1. CASE i = k
        BY <3>4, <3>5, <4>1
      <4>2. CASE i # k
        <5>1. i \in 1..(k - 1)
          BY <2>a, <4>2
        <5>2. PICK j \in 1..m : h[k - 1][j] = s[i]
          BY <2>1, <3>6, <5>1
        <5> QED BY <3>4, <3>5, <5>2
      <4> QED BY <4>1, <4>2
    <3>7. Fine(k)
      <4> HIDE DEF Has
      <4> QED BY <3>3, <3>4, <3>6
    <3> HIDE DEF Fine
    <3> QED BY <2>a, <3>7
  <2>3. CASE s[k] \notin keep
    <3>1. h[k] = h[k - 1] \o <<>>
      BY <1>a, <2>3
    <3>2. h[k] = h[k - 1]
      BY <2>1, <3>1, ConcatEmptySeq
    <3>3. \A i \in 1..k : s[i] \in keep => i \in 1..(k - 1)
      BY <2>a, <2>3
    <3>4. Fine(k)
      BY <2>1, <2>a, <2>b, <3>2, <3>3
    <3> HIDE DEF Fine
    <3> QED BY <2>a, <3>4
  <2> QED BY <2>2, <2>3
<1>4. \A k \in 0..Len(s) : k \in T
  <2> HIDE DEF T
  <2> QED BY <1>0, <1>2, <1>3, Induction
<1>5. Fine(Len(s))
  BY <1>0, <1>4
<1>6. Selected(s, keep) = h[Len(s)]
  BY <1>1 DEF IsSelection
<1>7. SelectsFrom(h[Len(s)], S, s, keep)
  <2> HIDE DEF T
  <2> QED BY <1>5 DEF SelectsFrom
<1> QED BY <1>6, <1>7

-----------------------------------------------------------------------------
(* The table of a scan. *)

Found == {[id |-> d.id, version |-> d.version, ip |-> d.ip] : d \in Datagrams}
Tables == {f \in Seq(Found) : Len(f) <= MaxResults}

LEMMA HandledKeeps ==
  ASSUME NEW found \in Tables, NEW d \in Datagrams
  PROVE  Handled(found, d) \in Tables
<1> DEFINE info == [id |-> d.id, version |-> d.version, ip |-> d.ip]
           same == {i \in DOMAIN found : found[i].id = d.id}
<1>1. info \in Found /\ found \in Seq(Found) /\ Len(found) <= MaxResults /\ MaxResults \in Nat
  BY UiAssumption DEF Found, Tables
<1>2. Handled(found, d) \in {found, [found EXCEPT ![CHOOSE i \in same : TRUE] = info]}
      \/ (Len(found) < MaxResults /\ Handled(found, d) = Append(found, info))
  BY DEF Handled
<1> HIDE DEF info, same
<1>3. \A i : [found EXCEPT ![i] = info] \in Seq(Found) /\ Len([found EXCEPT ![i] = info]) = Len(found)
  <2> TAKE i
  <2>1. [found EXCEPT ![i] = info] = [j \in 1..Len(found) |-> IF j = i THEN info ELSE found[j]]
    BY <1>1
  <2>2. \A j \in 1..Len(found) : (IF j = i THEN info ELSE found[j]) \in Found
    BY <1>1
  <2>3. Len(found) \in Nat
    BY <1>1
  <2> DEFINE g == [j \in 1..Len(found) |-> IF j = i THEN info ELSE found[j]]
  <2>4. g \in Seq(Found) /\ Len(g) = Len(found)
    BY <2>2, <2>3
  <2> QED BY <2>1, <2>4
<1>4. Len(found) < MaxResults => Append(found, info) \in Seq(Found) /\ Len(Append(found, info)) <= MaxResults
  BY <1>1, AppendProperties
<1> QED BY <1>1, <1>2, <1>3, <1>4 DEF Tables

LEMMA HandledAll ==
  ASSUME NEW found \in Tables, NEW rx \in Seq(Datagrams)
  PROVE  FoldLeft(Handled, found, rx) \in Tables
<1> DEFINE n == Len(rx)
           step == [p \in Tables \X (1..n) |-> Handled(p[1], rx[p[2]])]
           Is(it) == it = [d \in SUBSET DOMAIN rx |->
                             IF d = {} THEN found ELSE Handled(it[d \ {Max(d)}], rx[Max(d)])]
           F == CHOOSE it : Is(it)
<1>1. n \in Nat /\ DOMAIN rx = 1..n /\ \A k \in 1..n : rx[k] \in Datagrams
  OBVIOUS
<1>2. step \in [Tables \X (1..n) -> Tables]
  <2> HIDE DEF n
  <2> QED BY <1>1, HandledKeeps
<1>3. \E it : Is(it)
  <2> HIDE DEF step, n
  <2>1. PICK it : IsFold(it, n, Tables, found, step)
    BY <1>1, <1>2, FoldExists
  <2>2. ASSUME NEW d \in SUBSET (1..n), d # {}
        PROVE  it[d] = Handled(it[d \ {Max(d)}], rx[Max(d)])
    <3>1. Max(d) \in 1..n
      BY <1>1, <2>2, MaxIn
    <3>2. <<it[d \ {Max(d)}], Max(d)>> \in Tables \X (1..n)
      BY <2>1, <3>1 DEF IsFold
    <3>3. it[d] = step[<<it[d \ {Max(d)}], Max(d)>>]
      BY <2>1, <2>2 DEF IsFold
    <3> QED BY <3>2, <3>3 DEF step
  <2>3. it = [d \in SUBSET (1..n) |-> it[d]]
    BY <2>1 DEF IsFold
  <2>4. it[{}] = found
    BY <2>1 DEF IsFold
  <2>5. Is(it)
    BY <1>1, <2>2, <2>3, <2>4
  <2> QED BY <2>5
<1>4. Is(F)
  <2> HIDE DEF Is
  <2> QED BY <1>3
<1>5. FoldLeft(Handled, found, rx) = F[DOMAIN rx]
  BY DEF FoldLeft, MapThenFoldSet
<1> DEFINE T == {k \in 0..n : F[1..k] \in Tables}
<1>6. 0 \in T
  <2> HIDE DEF F, n
  <2>1. 1..0 = {} /\ 0 \in 0..n /\ {} \in SUBSET DOMAIN rx
    BY <1>1
  <2>2. F[{}] = found
    BY <1>4, <2>1
  <2> QED BY <2>1, <2>2
<1>7. ASSUME NEW k \in 1..n, k - 1 \in T PROVE k \in T
  <2> HIDE DEF F, n
  <2>1. Max(1..k) = k /\ (1..k) \ {k} = 1..(k - 1) /\ k \in 0..n
    BY UpToMax
  <2>2. 1..k \in SUBSET DOMAIN rx /\ 1..k # {}
    <3>1. k \in Nat \ {0} /\ 1 \in 1..k /\ \A i \in 1..k : i \in 1..n
      BY <1>1
    <3> QED BY <1>1, <3>1
  <2>3. F[1..k] = Handled(F[1..(k - 1)], rx[k])
    BY <1>4, <2>1, <2>2
  <2>4. F[1..k] \in Tables
    BY <1>1, <1>7, <2>3, HandledKeeps
  <2> QED BY <2>1, <2>4
<1>8. \A k \in 0..n : k \in T
  <2> HIDE DEF T, n
  <2> QED BY <1>1, <1>6, <1>7, Induction
<1>9. F[1..n] \in Tables
  <2> HIDE DEF F, n
  <2> QED BY <1>1, <1>8
<1> QED BY <1>1, <1>5, <1>9

-----------------------------------------------------------------------------
(* The records of a payload. *)

Walks == [read : Seq(Seq(Byte)), cut : BOOLEAN, rest : Seq(Byte)]
WalkStep(w, head) ==
  LET whole == head + w.rest[head]
      record == SubSeq(w.rest, 1, whole)
  IN IF w.cut \/ Len(w.rest) < head \/ Len(w.rest) < whole THEN [w EXCEPT !.cut = TRUE]
     ELSE IF Stays(record, head) THEN w
     ELSE [read |-> Append(w.read, record), cut |-> FALSE,
           rest |-> SubSeq(w.rest, whole + 1, Len(w.rest))]

LEMMA WalkStepTyped ==
  ASSUME NEW w \in Walks, NEW head \in Nat \ {0}
  PROVE  WalkStep(w, head) \in Walks
<1>0. /\ w.read \in Seq(Seq(Byte)) /\ w.rest \in Seq(Byte) /\ w.cut \in BOOLEAN /\ Len(w.rest) \in Nat
      /\ [w EXCEPT !.cut = TRUE] \in Walks
  <2>1. w.read \in Seq(Seq(Byte)) /\ w.rest \in Seq(Byte) /\ w.cut \in BOOLEAN
    BY DEF Walks
  <2>2. [w EXCEPT !.cut = TRUE] \in Walks
    BY DEF Walks
  <2>3. Len(w.rest) \in Nat
    BY <2>1
  <2> QED BY <2>1, <2>2, <2>3
<1> DEFINE whole == head + w.rest[head]
           record == SubSeq(w.rest, 1, whole)
           after == SubSeq(w.rest, whole + 1, Len(w.rest))
<1>1. ASSUME ~(Len(w.rest) < head), ~(Len(w.rest) < whole)
      PROVE  [read |-> Append(w.read, record), cut |-> FALSE, rest |-> after] \in Walks
  <2>1. head \in 1..Len(w.rest)
    BY <1>0, <1>1
  <2>2. w.rest[head] \in Byte
    BY <1>0, <2>1, ElementOfSeq
  <2>3. whole \in Nat /\ whole > 0
    BY <2>2 DEF Byte
  <2> HIDE DEF whole
  <2>4. \A i \in 1..Len(w.rest) : w.rest[i] \in Byte
    BY <1>0, ElementOfSeq
  <2>5. record \in Seq(Byte)
    <3>1. \A i \in 1..whole : w.rest[i] \in Byte
      BY <1>0, <1>1, <2>3, <2>4
    <3> QED BY <2>3, <3>1, SubSeqProperties
  <2>6. after \in Seq(Byte)
    <3>1. \A i \in (whole + 1)..Len(w.rest) : w.rest[i] \in Byte
      BY <1>0, <2>3, <2>4
    <3> QED BY <1>0, <1>1, <2>3, <3>1, SubSeqProperties
  <2> HIDE DEF record, after
  <2>7. Append(w.read, record) \in Seq(Seq(Byte))
    BY <1>0, <2>5, AppendProperties
  <2> QED BY <2>6, <2>7 DEF Walks
<1> HIDE DEF whole, record, after
<1>2. WalkStep(w, head) \in {[w EXCEPT !.cut = TRUE], w}
      \/ (/\ ~(Len(w.rest) < head) /\ ~(Len(w.rest) < whole)
          /\ WalkStep(w, head) = [read |-> Append(w.read, record), cut |-> FALSE, rest |-> after])
  BY DEF WalkStep, whole, record, after
<1> QED BY <1>0, <1>1, <1>2
LEMMA WalkTyped ==
  ASSUME NEW payload \in Seq(Byte), Len(payload) >= 2, NEW head \in Nat \ {0}
  PROVE  Walk(payload, head) \in Walks
<1> DEFINE n == payload[2]
           base == [read |-> <<>>, cut |-> FALSE, rest |-> SubSeq(payload, 3, Len(payload))]
           seq == [i \in 1..n |-> i]
           step == [p \in Walks \X (1..n) |-> WalkStep(p[1], head)]
           Is(it) == it = [d \in SUBSET DOMAIN seq |->
                             IF d = {} THEN base ELSE WalkStep(it[d \ {Max(d)}], head)]
           F == CHOOSE it : Is(it)
<1>1. n \in Nat /\ DOMAIN seq = 1..n
  <2>1. payload[2] \in Byte
    BY ElementOfSeq
  <2>2. \A b \in Byte : b \in Nat
    BY DEF Byte
  <2>3. n \in Nat
    BY <2>1, <2>2
  <2> HIDE DEF n
  <2> QED BY <2>3
<1>2. base \in Walks
  <2>1. \A i \in 3..Len(payload) : payload[i] \in Byte
    BY ElementOfSeq
  <2>2. SubSeq(payload, 3, Len(payload)) \in Seq(Byte)
    BY <2>1, SubSeqProperties
  <2> QED BY <2>2 DEF Walks
<1>3. step \in [Walks \X (1..n) -> Walks]
  <2> HIDE DEF n
  <2> QED BY WalkStepTyped
<1>4. \E it : Is(it)
  <2> HIDE DEF step, n, base, seq
  <2>1. PICK it : IsFold(it, n, Walks, base, step)
    BY <1>1, <1>2, <1>3, FoldExists
  <2>2. ASSUME NEW d \in SUBSET (1..n), d # {}
        PROVE  it[d] = WalkStep(it[d \ {Max(d)}], head)
    <3>1. Max(d) \in 1..n
      BY <1>1, <2>2, MaxIn
    <3>2. <<it[d \ {Max(d)}], Max(d)>> \in Walks \X (1..n)
      BY <2>1, <3>1 DEF IsFold
    <3>3. it[d] = step[<<it[d \ {Max(d)}], Max(d)>>]
      BY <2>1, <2>2 DEF IsFold
    <3> QED BY <3>2, <3>3 DEF step
  <2>3. it = [d \in SUBSET (1..n) |-> it[d]]
    BY <2>1 DEF IsFold
  <2>4. it[{}] = base
    BY <2>1 DEF IsFold
  <2>5. Is(it)
    BY <1>1, <2>2, <2>3, <2>4
  <2> QED BY <2>5
<1>5. Is(F)
  <2> HIDE DEF Is
  <2> QED BY <1>4
<1>6. Walk(payload, head) = F[DOMAIN seq]
  BY DEF Walk, FoldLeft, MapThenFoldSet, WalkStep
<1> DEFINE T == {k \in 0..n : F[1..k] \in Walks}
<1>7. 0 \in T
  <2> HIDE DEF F, n, base, seq
  <2>1. 1..0 = {} /\ 0 \in 0..n /\ {} \in SUBSET DOMAIN seq
    BY <1>1
  <2>2. F[{}] = base
    BY <1>5, <2>1
  <2> QED BY <1>2, <2>1, <2>2
<1>8. ASSUME NEW k \in 1..n, k - 1 \in T PROVE k \in T
  <2> HIDE DEF F, n, base, seq
  <2>1. Max(1..k) = k /\ (1..k) \ {k} = 1..(k - 1) /\ k \in 0..n
    BY <1>1, UpToMax
  <2>2. 1..k \in SUBSET DOMAIN seq /\ 1..k # {}
    <3>1. k \in Nat \ {0} /\ 1 \in 1..k /\ \A i \in 1..k : i \in 1..n
      BY <1>1
    <3> QED BY <1>1, <3>1
  <2>3. F[1..k] = WalkStep(F[1..(k - 1)], head)
    BY <1>5, <2>1, <2>2
  <2>4. F[1..k] \in Walks
    BY <1>8, <2>3, WalkStepTyped
  <2> QED BY <2>1, <2>4
<1>9. \A k \in 0..n : k \in T
  <2> HIDE DEF T, n
  <2> QED BY <1>1, <1>7, <1>8, Induction
<1>10. F[1..n] \in Walks
  <2> HIDE DEF F, n
  <2> QED BY <1>1, <1>9
<1> HIDE DEF F, n, seq
<1> QED BY <1>1, <1>6, <1>10

(* The last record of an id is one of the records and as long as was asked.   *)
LEMMA LastOfTyped ==
  ASSUME NEW records \in Seq(Seq(Byte)), NEW id, NEW head \in Nat, NEW size \in Nat,
         LastOf(records, id, head, size) # None
  PROVE  /\ LastOf(records, id, head, size) \in Seq(Byte)
         /\ Len(LastOf(records, id, head, size)) >= head + size
<1> DEFINE where == {i \in DOMAIN records : Id(records[i]) = id /\ Len(records[i]) >= head + size}
           last == CHOOSE i \in where : \A j \in where : j <= i
<1>1. where # {} /\ LastOf(records, id, head, size) = records[last]
  BY DEF LastOf
<1>2. Len(records) \in Nat /\ DOMAIN records = 1..Len(records)
  OBVIOUS
<1>3. where \in SUBSET (1..Len(records))
  BY <1>2
<1>4. last \in where
  <2>1. \E i \in where : \A j \in where : j <= i
    <3> HIDE DEF where
    <3> QED BY <1>1, <1>2, <1>3, Greatest
  <2> HIDE DEF where
  <2> QED BY <2>1
<1>5. records[last] \in Seq(Byte) /\ Len(records[last]) >= head + size
  <2> HIDE DEF last
  <2>1. last \in DOMAIN records /\ Len(records[last]) >= head + size
    BY <1>4
  <2> QED BY <1>2, <2>1, ElementOfSeq
<1> QED BY <1>1, <1>5

Ranges == [cool : Byte \X Byte, auto : Byte \X Byte, heat : Byte \X Byte]
RangesOf(caps) == caps.ranges \in Ranges \cup {<<>>}

LEMMA ParsedRanges ==
  ASSUME NEW payload \in Seq(Byte), Len(payload) >= 2
  PROVE  RangesOf(ParseCapabilities(payload))
<1> DEFINE w == Walk(payload, CapHead)
           t == LastOf(w.read, Temperatures, CapHead, 6)
<1>1. w.read \in Seq(Seq(Byte))
  <2>1. w \in Walks
    BY WalkTyped DEF CapHead
  <2> HIDE DEF w
  <2> QED BY <2>1 DEF Walks
<1>2. ParseCapabilities(payload).ranges =
        IF t = None THEN <<>> ELSE [cool |-> <<t[4], t[5]>>, auto |-> <<t[6], t[7]>>, heat |-> <<t[8], t[9]>>]
  BY DEF ParseCapabilities
<1>3. ASSUME t # None
      PROVE  [cool |-> <<t[4], t[5]>>, auto |-> <<t[6], t[7]>>, heat |-> <<t[8], t[9]>>] \in Ranges
  <2> HIDE DEF w
  <2>1. t \in Seq(Byte) /\ Len(t) >= 9
    <3>1. t \in Seq(Byte) /\ Len(t) >= CapHead + 6
      BY <1>1, <1>3, LastOfTyped DEF CapHead
    <3> QED BY <3>1 DEF CapHead
  <2> HIDE DEF t
  <2>2. \A i \in 4..9 : t[i] \in Byte
    BY <2>1, ElementOfSeq
  <2>3. t[4] \in Byte /\ t[5] \in Byte /\ t[6] \in Byte /\ t[7] \in Byte /\ t[8] \in Byte /\ t[9] \in Byte
    BY <2>2
  <2> QED BY <2>3 DEF Ranges
<1> HIDE DEF t
<1> QED BY <1>2, <1>3 DEF RangesOf

(* Whatever pages the AC answers with, its ranges are pairs of bytes. *)
LEMMA AnsweredRanges == \A caps \in CapAnswers : RangesOf(caps)
<1>1. ASSUME NEW dst, NEW src, RangesOf(dst), RangesOf(src)
      PROVE  RangesOf(MergeCapabilities(dst, src))
  BY <1>1 DEF RangesOf, MergeCapabilities
<1>2. ASSUME NEW page \in CapPages PROVE RangesOf(ParseCapabilities(page.base))
  BY <1>2, PayloadAssumption, ParsedRanges
<1>3. ASSUME NEW page \in CapPages, page.extra # <<>>
      PROVE  RangesOf(MergeCapabilities(ParseCapabilities(page.base), ParseCapabilities(page.extra)))
  BY <1>1, <1>2, <1>3, PayloadAssumption, ParsedRanges
<1> QED BY <1>2, <1>3 DEF CapAnswers
-----------------------------------------------------------------------------
(* The state, as the AC tells it and as it is told. *)

AcStates ==
  [power : BOOLEAN, target : Int, mode : 0..7, fan : Byte, swing : 0..15, eco : BOOLEAN,
   turbo : BOOLEAN, purifier : BOOLEAN, freezeProtection : BOOLEAN, sleep : BOOLEAN,
   followMe : BOOLEAN, display : BOOLEAN]

LEMMA BitsTyped ==
  ASSUME NEW b \in Nat
  PROVE  /\ \A i : Bit(b, i) \in BOOLEAN
         /\ Bits(b, 5, 3) \in 0..7 /\ Bits(b, 0, 4) \in 0..15 /\ Bits(b, 0, 5) \in 0..31
         /\ Bits(b, 4, 1) \in 0..1 /\ Bits(b, 0, 7) \in 0..127
<1>1. 2^0 = 1 /\ 2^1 = 2 /\ 2^3 = 8 /\ 2^4 = 16 /\ 2^5 = 32 /\ 2^7 = 128
  OBVIOUS
<1>2. \A i : Bit(b, i) \in BOOLEAN
  BY DEF Bit
<1>3. /\ Bits(b, 5, 3) = (b \div 32) % 8 /\ Bits(b, 0, 4) = (b \div 1) % 16 /\ Bits(b, 0, 5) = (b \div 1) % 32
      /\ Bits(b, 4, 1) = (b \div 16) % 2 /\ Bits(b, 0, 7) = (b \div 1) % 128
  BY <1>1 DEF Bits
<1>4. /\ (b \div 32) % 8 \in 0..7 /\ (b \div 1) % 16 \in 0..15 /\ (b \div 1) % 32 \in 0..31
      /\ (b \div 16) % 2 \in 0..1 /\ (b \div 1) % 128 \in 0..127
  OBVIOUS
<1> QED BY <1>2, <1>3, <1>4

LEMMA ParsedState ==
  ASSUME NEW p \in Seq(Byte), Len(p) >= 22
  PROVE  ParseState(p) \in AcStates
<1>1. \A i \in 1..22 : p[i] \in Nat
  <2>1. \A i \in 1..22 : p[i] \in Byte
    BY ElementOfSeq
  <2>2. \A b \in Byte : b \in Nat
    BY DEF Byte
  <2> QED BY <2>1, <2>2
<1>2. {2, 3, 4, 8, 9, 10, 11, 14, 22} \subseteq 1..22
  OBVIOUS
<1>3. /\ p[2] \in Nat /\ p[3] \in Nat /\ p[4] \in Nat /\ p[8] \in Nat /\ p[9] \in Nat /\ p[10] \in Nat
      /\ p[11] \in Nat /\ p[14] \in Nat /\ p[22] \in Nat
  BY <1>1, <1>2
<1>4. /\ Bits(p[14], 0, 5) \in Int /\ Bits(p[3], 4, 1) \in Int /\ Bits(p[3], 0, 4) \in Int
      /\ Bits(p[3], 5, 3) \in 0..7 /\ Bits(p[8], 0, 4) \in 0..15
  <2>1. Bits(p[14], 0, 5) \in 0..31
    BY <1>3, BitsTyped
  <2>2. Bits(p[3], 4, 1) \in 0..1 /\ Bits(p[3], 0, 4) \in 0..15 /\ Bits(p[3], 5, 3) \in 0..7
    BY <1>3, BitsTyped
  <2>3. Bits(p[8], 0, 4) \in 0..15
    BY <1>3, BitsTyped
  <2> QED BY <2>1, <2>2, <2>3
<1>5. Bits(p[4], 0, 7) \in Byte
  <2>1. Bits(p[4], 0, 7) \in 0..127
    BY <1>3, BitsTyped
  <2> QED BY <2>1 DEF Byte
<1>6. /\ Bit(p[2], 0) \in BOOLEAN /\ Bit(p[10], 4) \in BOOLEAN /\ Bit(p[10], 5) \in BOOLEAN
      /\ Bit(p[22], 7) \in BOOLEAN /\ Bit(p[11], 0) \in BOOLEAN /\ Bit(p[9], 7) \in BOOLEAN
  BY <1>3, BitsTyped
<1>7. 2 * (IF Bits(p[14], 0, 5) # 0 THEN Bits(p[14], 0, 5) + 12 ELSE Bits(p[3], 0, 4) + 16) + Bits(p[3], 4, 1) \in Int
  BY <1>4
<1>8. (p[15] # 112) \in BOOLEAN /\ (Bit(p[9], 5) \/ Bit(p[11], 1)) \in BOOLEAN
  OBVIOUS
<1> QED BY <1>4, <1>5, <1>6, <1>7, <1>8 DEF ParseState, AcStates

(* The bytes of a SetState that the AC reads. *)
LEMMA StateBytes ==
  ASSUME NEW s \in AcStates, NEW beep
  PROVE  LET b == SetState(s, beep)
             whole == s.target \div 2
         IN /\ b[2] = 2 + Set(beep, 64) + Set(s.power, 1)
            /\ b[3] = Set(whole \in 17..30, (whole - 16) % 16) + Set(s.target % 2 = 1, 16) + 32 * (s.mode % 8)
            /\ b[4] = s.fan /\ b[8] = 48 + (s.swing % 16)
            /\ b[9] = Set(s.followMe, 128) + Set(s.turbo, 32)
            /\ b[10] = Set(s.eco, 128) + Set(s.purifier, 32)
            /\ b[11] = Set(s.sleep, 1) + Set(s.turbo, 2)
            /\ b[19] = Set(whole \notin 17..30, (whole - 12) % 32)
            /\ b[22] = Set(s.freezeProtection, 128)
<1> HIDE DEF Set
<1> QED BY DEF SetState

LEMMA BitOf ==
  ASSUME NEW n, NEW m, NEW i, NEW c \in BOOLEAN, n = m, Bit(m, i) <=> c
  PROVE  Bit(n, i) = c
BY Zenon DEF Bit

LEMMA SetBits ==
  ASSUME NEW a \in BOOLEAN, NEW c \in BOOLEAN
  PROVE  /\ Bit(2 + Set(a, 64) + Set(c, 1), 0) = c
         /\ Bit(Set(a, 128) + Set(c, 32), 7) = a
         /\ Bit(Set(a, 128) + Set(c, 32), 5) = c
         /\ Bit(Set(a, 1) + Set(c, 2), 0) = a
         /\ Bit(Set(a, 1) + Set(c, 2), 1) = c
         /\ Bit(Set(a, 128), 7) = a
<1>0. 2^0 = 1 /\ 2^1 = 2 /\ 2^5 = 32 /\ 2^7 = 128
  OBVIOUS
<1>1. Bit(2 + Set(a, 64) + Set(c, 1), 0) = c
  <2>1. (c => 2 + Set(a, 64) + Set(c, 1) \in {67, 3}) /\ (~c => 2 + Set(a, 64) + Set(c, 1) \in {66, 2})
    BY DEF Set
  <2>2. Bit(67, 0) /\ Bit(3, 0) /\ ~Bit(66, 0) /\ ~Bit(2, 0)
    BY <1>0 DEF Bit, Bits
  <2> QED BY <2>1, <2>2, BitOf
<1>2. Bit(Set(a, 128) + Set(c, 32), 7) = a
  <2>1. (a => Set(a, 128) + Set(c, 32) \in {160, 128}) /\ (~a => Set(a, 128) + Set(c, 32) \in {32, 0})
    BY DEF Set
  <2>2. Bit(160, 7) /\ Bit(128, 7) /\ ~Bit(32, 7) /\ ~Bit(0, 7)
    BY <1>0 DEF Bit, Bits
  <2> QED BY <2>1, <2>2, BitOf
<1>3. Bit(Set(a, 128) + Set(c, 32), 5) = c
  <2>1. (c => Set(a, 128) + Set(c, 32) \in {160, 32}) /\ (~c => Set(a, 128) + Set(c, 32) \in {128, 0})
    BY DEF Set
  <2>2. Bit(160, 5) /\ Bit(32, 5) /\ ~Bit(128, 5) /\ ~Bit(0, 5)
    BY <1>0 DEF Bit, Bits
  <2> QED BY <2>1, <2>2, BitOf
<1>4. Bit(Set(a, 1) + Set(c, 2), 0) = a
  <2>1. (a => Set(a, 1) + Set(c, 2) \in {3, 1}) /\ (~a => Set(a, 1) + Set(c, 2) \in {2, 0})
    BY DEF Set
  <2>2. Bit(3, 0) /\ Bit(1, 0) /\ ~Bit(2, 0) /\ ~Bit(0, 0)
    BY <1>0 DEF Bit, Bits
  <2> QED BY <2>1, <2>2, BitOf
<1>5. Bit(Set(a, 1) + Set(c, 2), 1) = c
  <2>1. (c => Set(a, 1) + Set(c, 2) \in {3, 2}) /\ (~c => Set(a, 1) + Set(c, 2) \in {1, 0})
    BY DEF Set
  <2>2. Bit(3, 1) /\ Bit(2, 1) /\ ~Bit(1, 1) /\ ~Bit(0, 1)
    BY <1>0 DEF Bit, Bits
  <2> QED BY <2>1, <2>2, BitOf
<1>6. Bit(Set(a, 128), 7) = a
  <2>1. (a => Set(a, 128) \in {128}) /\ (~a => Set(a, 128) \in {0})
    BY DEF Set
  <2>2. Bit(128, 7) /\ ~Bit(0, 7)
    BY <1>0 DEF Bit, Bits
  <2> QED BY <2>1, <2>2, BitOf
<1> QED BY <1>1, <1>2, <1>3, <1>4, <1>5, <1>6
(* The nibbles of the third byte, by themselves. *)
LEMMA Nibbles ==
  ASSUME NEW n \in 0..15, NEW h \in 0..1, NEW m \in 0..7
  PROVE  /\ Bits(n + 16 * h + 32 * m, 0, 4) = n
         /\ Bits(n + 16 * h + 32 * m, 4, 1) = h
         /\ Bits(n + 16 * h + 32 * m, 5, 3) = m
<1>1. 2^0 = 1 /\ 2^1 = 2 /\ 2^3 = 8 /\ 2^4 = 16 /\ 2^5 = 32
  OBVIOUS
<1> DEFINE b == n + 16 * h + 32 * m
<1>2. /\ Bits(b, 0, 4) = (b \div 1) % 16 /\ Bits(b, 4, 1) = (b \div 16) % 2
      /\ Bits(b, 5, 3) = (b \div 32) % 8
  BY <1>1 DEF Bits
<1>3. (b \div 1) % 16 = n /\ (b \div 16) % 2 = h /\ (b \div 32) % 8 = m
  OBVIOUS
<1> QED BY <1>2, <1>3

(* What the AC takes from a SetState: everything but the display is as it was *)
(* composed, the temperature if it is of the range the fields can carry.      *)
LEMMA DeviceRead ==
  ASSUME NEW s \in AcStates, NEW beep, NEW display \in BOOLEAN
  PROVE  /\ DeviceReads(SetState(s, beep), display) \in AcStates
         /\ s.target \in 26..86 =>
              DeviceReads(SetState(s, beep), display) = [s EXCEPT !.display = display]
<1> DEFINE b == SetState(s, beep)
           whole == s.target \div 2
           n == Set(whole \in 17..30, (whole - 16) % 16)
           h == IF s.target % 2 = 1 THEN 1 ELSE 0
           alternate == Set(whole \notin 17..30, (whole - 12) % 32)
           target == 2 * (IF alternate # 0 THEN alternate + 12 ELSE n + 16) + h
<1>1. /\ s.target \in Int /\ s.mode \in 0..7 /\ s.fan \in Byte /\ s.swing \in 0..15
      /\ s.power \in BOOLEAN /\ s.eco \in BOOLEAN /\ s.turbo \in BOOLEAN /\ s.purifier \in BOOLEAN
      /\ s.freezeProtection \in BOOLEAN /\ s.sleep \in BOOLEAN /\ s.followMe \in BOOLEAN
  BY DEF AcStates
<1>2. whole \in Int /\ n \in 0..15 /\ h \in 0..1 /\ alternate \in 0..31
  <2>1. s.target \div 2 \in Int
    BY <1>1
  <2> QED BY <2>1 DEF Set
<1>3. /\ b[2] = 2 + Set(beep, 64) + Set(s.power, 1) /\ b[4] = s.fan /\ b[8] = 48 + (s.swing % 16)
      /\ b[9] = Set(s.followMe, 128) + Set(s.turbo, 32) /\ b[10] = Set(s.eco, 128) + Set(s.purifier, 32)
      /\ b[11] = Set(s.sleep, 1) + Set(s.turbo, 2) /\ b[22] = Set(s.freezeProtection, 128)
      /\ b[19] = alternate /\ b[3] = n + Set(s.target % 2 = 1, 16) + 32 * (s.mode % 8)
  <2> HIDE DEF b
  <2> QED BY StateBytes DEF b
<1>4. b[3] = n + 16 * h + 32 * s.mode
  <2>1. Set(s.target % 2 = 1, 16) = 16 * h
    BY DEF Set
  <2>2. s.mode % 8 = s.mode
    BY <1>1
  <2> HIDE DEF b, h, n
  <2> QED BY <1>3, <2>1, <2>2
<1>5. Bits(b[3], 0, 4) = n /\ Bits(b[3], 4, 1) = h /\ Bits(b[3], 5, 3) = s.mode
  <2> HIDE DEF b, h, n
  <2> QED BY <1>1, <1>2, <1>4, Nibbles
<1>6. Bits(b[8], 0, 4) = s.swing
  <2>1. 2^0 = 1 /\ 2^4 = 16
    OBVIOUS
  <2>2. \A v \in 0..15 : ((48 + (v % 16)) \div 1) % 16 = v
    OBVIOUS
  <2> HIDE DEF b
  <2> QED BY <1>1, <1>3, <2>1, <2>2 DEF Bits
<1>7. /\ Bit(b[10], 7) = s.eco /\ Bit(b[10], 5) = s.purifier /\ Bit(b[22], 7) = s.freezeProtection
      /\ Bit(b[11], 0) = s.sleep /\ Bit(b[11], 1) = s.turbo /\ Bit(b[9], 7) = s.followMe /\ Bit(b[9], 5) = s.turbo
  <2> HIDE DEF b
  <2>1. /\ Bit(Set(s.eco, 128) + Set(s.purifier, 32), 7) = s.eco
        /\ Bit(Set(s.eco, 128) + Set(s.purifier, 32), 5) = s.purifier
    BY <1>1, SetBits
  <2>2. /\ Bit(Set(s.sleep, 1) + Set(s.turbo, 2), 0) = s.sleep
        /\ Bit(Set(s.sleep, 1) + Set(s.turbo, 2), 1) = s.turbo
    BY <1>1, SetBits
  <2>3. /\ Bit(Set(s.followMe, 128) + Set(s.turbo, 32), 7) = s.followMe
        /\ Bit(Set(s.followMe, 128) + Set(s.turbo, 32), 5) = s.turbo
    BY <1>1, SetBits
  <2>4. Bit(Set(s.freezeProtection, 128), 7) = s.freezeProtection
    BY <1>1, SetBits
  <2> QED BY <1>3, <2>1, <2>2, <2>3, <2>4
<1>8. Bit(b[2], 0) = s.power
  <2>1. ASSUME NEW c \in BOOLEAN PROVE Bit(2 + Set(beep, 64) + Set(c, 1), 0) = c
    <3>1. Set(beep, 64) = Set(TRUE, 64) \/ Set(beep, 64) = Set(FALSE, 64)
      BY DEF Set
    <3>2. Bit(2 + Set(TRUE, 64) + Set(c, 1), 0) = c /\ Bit(2 + Set(FALSE, 64) + Set(c, 1), 0) = c
      BY SetBits, Zenon
    <3> QED BY <3>1, <3>2, Zenon
  <2> HIDE DEF b
  <2> QED BY <1>1, <1>3, <2>1, Zenon
<1>9. DeviceReads(b, display) =
        [power |-> s.power, target |-> target, mode |-> s.mode, fan |-> s.fan, swing |-> s.swing,
         eco |-> s.eco, turbo |-> s.turbo, purifier |-> s.purifier,
         freezeProtection |-> s.freezeProtection, sleep |-> s.sleep, followMe |-> s.followMe,
         display |-> display]
  <2> HIDE DEF b, n, h, alternate
  <2>1. (Bit(b[9], 5) /\ Bit(b[11], 1)) = s.turbo
    BY <1>1, <1>7, Zenon
  <2> QED BY <1>3, <1>5, <1>6, <1>7, <1>8, <2>1, Zenon DEF DeviceReads
<1>10. target \in Int
  <2> HIDE DEF n, h, alternate
  <2> QED BY <1>2
<1>11. ASSUME s.target \in 26..86 PROVE target = s.target
  <2>1. whole \in 13..43 /\ s.target = 2 * whole + h
    BY <1>11
  <2>2. CASE whole \in 17..30
    <3>1. n = whole - 16 /\ alternate = 0
      <4> HIDE DEF whole
      <4> QED BY <2>2 DEF Set
    <3> HIDE DEF n, alternate, whole, h
    <3> QED BY <1>2, <2>1, <3>1
  <2>3. CASE whole \notin 17..30
    <3>1. alternate = whole - 12 /\ alternate # 0
      <4> HIDE DEF whole
      <4> QED BY <2>1, <2>3 DEF Set
    <3> HIDE DEF n, alternate, whole, h
    <3> QED BY <1>2, <2>1, <3>1
  <2> QED BY <2>2, <2>3
<1> HIDE DEF b, target
<1>12. DeviceReads(b, display) \in AcStates
  BY <1>1, <1>9, <1>10 DEF AcStates
<1>13. ASSUME s.target \in 26..86 PROVE DeviceReads(b, display) = [s EXCEPT !.display = display]
  <2>1. s = [power |-> s.power, target |-> s.target, mode |-> s.mode, fan |-> s.fan, swing |-> s.swing,
             eco |-> s.eco, turbo |-> s.turbo, purifier |-> s.purifier,
             freezeProtection |-> s.freezeProtection, sleep |-> s.sleep, followMe |-> s.followMe,
             display |-> s.display]
    BY DEF AcStates
  <2> QED BY <1>9, <1>11, <1>13, <2>1
<1> QED BY <1>12, <1>13 DEF b
-----------------------------------------------------------------------------
(* The rows and options of the Control screen. *)

RowNames ==
  {"mode", "target", "fan", "swing", "eco", "turbo", "ieco", "outSilent", "purifier",
   "freezeProtection", "sleep", "followMe", "selfClean", "breezeAway", "breezeless",
   "flash", "rateSelect", "cascade", "freshAir", "display", "beep", "lock"}

LEMMA RowsTyped ==
  /\ LookedAt \in Seq(RowNames) /\ Len(LookedAt) \in Nat \ {0} /\ Len(Visible) \in Nat \ {0}
  /\ Len(Visible) <= Len(LookedAt) /\ Visible \in Seq(RowNames)
  /\ \A slot \in Nat : RowAt(slot) \in RowNames
<1>1. AllRows \in Seq(RowNames) /\ Len(AllRows) = 22 /\ AllRows[1] = "mode"
  BY DEF AllRows, RowNames
<1>2. "mode" \in Rows
  BY UiAssumption
<1>3. /\ LookedAt \in Seq(RowNames \cap Rows)
      /\ \E j \in 1..Len(LookedAt) : LookedAt[j] = "mode"
  <2> DEFINE L == Selected(AllRows, Rows)
  <2>1. /\ L \in Seq(RowNames \cap Rows)
        /\ \A i \in 1..Len(AllRows) : AllRows[i] \in Rows => \E j \in 1..Len(L) : L[j] = AllRows[i]
    <3>1. SelectsFrom(L, RowNames, AllRows, Rows)
      BY <1>1, SelectedProps
    <3> HIDE DEF L
    <3> QED BY <3>1 DEF SelectsFrom
  <2>2. 1 \in 1..Len(AllRows)
    BY <1>1
  <2> HIDE DEF L
  <2>3. \E j \in 1..Len(L) : L[j] = "mode"
    BY <1>1, <1>2, <2>1, <2>2
  <2> QED BY <2>1, <2>3 DEF L, LookedAt
<1>4. Available("mode")
  <2>1. "mode" \notin Props /\ "mode" \notin DOMAIN Denied /\ "mode" # "display"
    BY DEF Props, PropIds, Denied
  <2> QED BY <2>1, Zenon DEF Available
<1> DEFINE K == {row \in Rows : Available(row)}
<1>5. /\ Visible \in Seq((RowNames \cap Rows) \cap K) /\ Len(Visible) <= Len(LookedAt)
      /\ \E j \in 1..Len(Visible) : Visible[j] = "mode"
  <2> DEFINE V == Selected(LookedAt, K)
  <2>1. /\ V \in Seq((RowNames \cap Rows) \cap K) /\ Len(V) <= Len(LookedAt)
        /\ \A i \in 1..Len(LookedAt) : LookedAt[i] \in K => \E j \in 1..Len(V) : V[j] = LookedAt[i]
    <3>1. SelectsFrom(V, RowNames \cap Rows, LookedAt, K)
      <4> HIDE DEF K
      <4> QED BY <1>3, SelectedProps
    <3> HIDE DEF K, V
    <3> QED BY <3>1 DEF SelectsFrom
  <2>2. "mode" \in K
    BY <1>2, <1>4
  <2> HIDE DEF V, K
  <2>3. \E j \in 1..Len(V) : V[j] = "mode"
    BY <1>3, <2>1, <2>2
  <2> QED BY <2>1, <2>3 DEF V, Visible, K
<1> HIDE DEF K
<1>6. LookedAt \in Seq(RowNames) /\ Visible \in Seq(RowNames)
  <2>1. \A A, B : Seq(A \cap B) \subseteq Seq(A)
    OBVIOUS
  <2> QED BY <1>3, <1>5, <2>1
<1>7. Len(LookedAt) \in Nat \ {0} /\ Len(Visible) \in Nat \ {0}
  <2>1. Len(LookedAt) \in Nat /\ Len(Visible) \in Nat
    BY <1>6
  <2> QED BY <1>3, <1>5, <2>1
<1>8. ASSUME NEW slot \in Nat PROVE RowAt(slot) \in RowNames
  <2>1. "mode" \in RowNames
    BY DEF RowNames
  <2>2. CASE slot < Len(Visible)
    <3>1. slot + 1 \in 1..Len(Visible)
      BY <1>7, <2>2
    <3>2. Visible[slot + 1] \in RowNames
      BY <1>6, <3>1, ElementOfSeq
    <3> QED BY <2>2, <3>2 DEF RowAt
  <2> QED BY <2>1, <2>2 DEF RowAt
<1> QED BY <1>5, <1>6, <1>7, <1>8

LEMMA MinOf ==
  ASSUME NEW S \in SUBSET Int, NEW m \in S, \A y \in S : m <= y
  PROVE  Min(S) = m
<1>1. \A x \in S : (\A y \in S : x <= y) => x = m
  OBVIOUS
<1> QED BY <1>1 DEF Min

LEMMA OfTwo ==
  ASSUME NEW a \in Int, NEW b \in Int
  PROVE  /\ Max({a, b}) = IF a >= b THEN a ELSE b
         /\ Min({a, b}) = IF a <= b THEN a ELSE b
<1>1. CASE a >= b
  <2>1. Max({a, b}) = a
    BY <1>1, MaxOf
  <2>2. Min({a, b}) = b
    BY <1>1, MinOf
  <2> QED BY <1>1, <2>1, <2>2
<1>2. CASE ~(a >= b)
  <2>1. Max({a, b}) = b
    BY <1>2, MaxOf
  <2>2. Min({a, b}) = a
    BY <1>2, MinOf
  <2> QED BY <1>2, <2>1, <2>2
<1> QED BY <1>1, <1>2

CapsTyped == ac.caps = None \/ RangesOf(ac.caps)

LEMMA RangeTyped ==
  ASSUME CapsTyped
  PROVE  TempRange.lo \in Nat /\ TempRange.hi \in Nat /\ TempRange.lo <= TempRange.hi
<1> DEFINE r == ac.caps.ranges
           own == CASE ctl.desired.mode = Cool -> r.cool
                    [] ctl.desired.mode = Heat -> r.heat
                    [] OTHER -> IF Sound(r.auto) THEN r.auto ELSE r.cool
           lo == Max({TempMin, (own[1] + 1) \div 2})
           hi == Min({TempMax, (own[2] + 1) \div 2})
           whole == [lo |-> TempMin, hi |-> TempMax]
<1>1. TempMin \in Nat /\ TempMax \in Nat /\ TempMin < TempMax
  BY UiAssumption
<1>2. TempRange = IF ac.caps = None THEN whole
                  ELSE IF r = <<>> \/ ~Sound(own) \/ lo > hi THEN whole ELSE [lo |-> lo, hi |-> hi]
  <2> HIDE DEF whole
  <2> QED BY DEF TempRange, whole
<1>3. ASSUME ac.caps # None, r # <<>> PROVE lo \in Nat /\ hi \in Nat
  <2>1. r.cool \in Byte \X Byte /\ r.heat \in Byte \X Byte /\ r.auto \in Byte \X Byte
    BY <1>3 DEF CapsTyped, RangesOf, Ranges
  <2>2. own \in {r.cool, r.heat, r.auto}
    <3> HIDE DEF r
    <3> QED BY Zenon
  <2>3. own[1] \in Byte /\ own[2] \in Byte
    <3> HIDE DEF r, own
    <3> QED BY <2>1, <2>2
  <2> HIDE DEF own
  <2>4. (own[1] + 1) \div 2 \in Nat /\ (own[2] + 1) \div 2 \in Nat
    BY <2>3 DEF Byte
  <2>5. lo = IF TempMin >= (own[1] + 1) \div 2 THEN TempMin ELSE (own[1] + 1) \div 2
    BY <1>1, <2>4, OfTwo
  <2>6. hi = IF TempMax <= (own[2] + 1) \div 2 THEN TempMax ELSE (own[2] + 1) \div 2
    <3> DEFINE x == (own[2] + 1) \div 2
    <3>1. x \in Int
      BY <2>4
    <3> HIDE DEF x
    <3>2. Min({TempMax, x}) = IF TempMax <= x THEN TempMax ELSE x
      BY <1>1, <3>1, OfTwo
    <3> QED BY <3>2 DEF x
  <2> QED BY <1>1, <2>4, <2>5, <2>6
<1>4. CASE TempRange = whole
  BY <1>1, <1>4
<1>5. CASE ac.caps # None /\ r # <<>> /\ ~(lo > hi) /\ TempRange = [lo |-> lo, hi |-> hi]
  <2>1. lo \in Nat /\ hi \in Nat
    BY <1>3, <1>5
  <2> HIDE DEF lo, hi, r
  <2> QED BY <1>5, <2>1
<1> HIDE DEF r, own, lo, hi, whole
<1> QED BY <1>2, <1>4, <1>5

(* The raw values of a row. *)
RawOf(row) ==
  IF row = "mode" THEN {Off} \cup (1..5)
  ELSE IF row = "fan" THEN Byte
  ELSE IF row = "swing" THEN 0..15 ELSE Nat

LEMMA ValuesTyped ==
  ASSUME NEW V, NEW E, \A e \in E : e[1] \in V, NEW entries \in Seq(E)
  PROVE  /\ Values(entries) \in Seq(V) /\ Len(Values(entries)) = Len(entries)
         /\ Kept(entries) \in Seq(V) /\ Len(Kept(entries)) <= Len(entries)
         /\ \A i \in 1..Len(entries) : entries[i][2] = "any" => Kept(entries) # <<>>
<1>1. ASSUME NEW s \in Seq(E) PROVE Values(s) \in Seq(V) /\ Len(Values(s)) = Len(s)
  <2>1. Len(s) \in Nat /\ DOMAIN s = 1..Len(s) /\ \A i \in 1..Len(s) : s[i][1] \in V
    BY <1>1
  <2> DEFINE v == [i \in 1..Len(s) |-> s[i][1]]
  <2>2. v \in Seq(V) /\ Len(v) = Len(s)
    BY <2>1
  <2> QED BY <2>1, <2>2 DEF Values
<1> DEFINE keep == {e \in ToSet(entries) : e[2] = "any" \/ Supports(e[2])}
           kept == Selected(entries, keep)
<1>2. /\ kept \in Seq(E \cap keep) /\ Len(kept) <= Len(entries)
      /\ \A i \in 1..Len(entries) : entries[i] \in keep => \E j \in 1..Len(kept) : kept[j] = entries[i]
  <2>1. SelectsFrom(kept, E, entries, keep)
    <3> HIDE DEF keep
    <3> QED BY SelectedProps
  <2> HIDE DEF keep, kept
  <2> QED BY <2>1 DEF SelectsFrom
<1>3. ASSUME NEW i \in 1..Len(entries), entries[i][2] = "any" PROVE entries[i] \in keep
  BY <1>3 DEF ToSet
<1>4. Kept(entries) = Values(kept)
  BY DEF Kept
<1> HIDE DEF keep, kept
<1>5. kept \in Seq(E)
  <2>1. Seq(E \cap keep) \subseteq Seq(E)
    OBVIOUS
  <2> QED BY <1>2, <2>1
<1>6. Values(kept) \in Seq(V) /\ Len(Values(kept)) = Len(kept)
  BY <1>1, <1>5
<1>7. ASSUME NEW i \in 1..Len(entries), entries[i][2] = "any" PROVE Values(kept) # <<>>
  <2>1. \E j \in 1..Len(kept) : kept[j] = entries[i]
    BY <1>2, <1>3, <1>7
  <2>2. Len(kept) # 0
    BY <1>5, <2>1
  <2> QED BY <1>6, <2>2
<1>8. Values(entries) \in Seq(V) /\ Len(Values(entries)) = Len(entries)
  BY <1>1
<1> QED BY <1>2, <1>4, <1>6, <1>7, <1>8
LEMMA OptionsOfMode ==
  Options("mode") \in Seq(RawOf("mode")) /\ Len(Options("mode")) \in 1..6
<1> DEFINE V == {Off} \cup (1..5)
           E == {<<Off, "any">>, <<1, "autoMode">>, <<Cool, "coolMode">>, <<3, "dryMode">>,
                 <<Heat, "heatMode">>, <<5, "any">>}
<1>1. ModeOptions \in Seq(E) /\ Len(ModeOptions) = 6 /\ ModeOptions[1] = <<Off, "any">>
  BY DEF ModeOptions
<1>2. \A e \in E : e[1] \in V
  BY DEF Off, Cool, Heat
<1>3. Kept(ModeOptions) \in Seq(V) /\ Len(Kept(ModeOptions)) <= 6 /\ Kept(ModeOptions) # <<>>
  <2>1. /\ Kept(ModeOptions) \in Seq(V) /\ Len(Kept(ModeOptions)) <= Len(ModeOptions)
        /\ \A i \in 1..Len(ModeOptions) : ModeOptions[i][2] = "any" => Kept(ModeOptions) # <<>>
    <3> HIDE DEF V, E
    <3> QED BY <1>1, <1>2, ValuesTyped
  <2>2. 1 \in 1..Len(ModeOptions) /\ ModeOptions[1][2] = "any"
    BY <1>1
  <2> QED BY <1>1, <2>1, <2>2
<1>4. Len(Kept(ModeOptions)) \in 1..6
  <2> HIDE DEF V
  <2> DEFINE n == Len(Kept(ModeOptions))
  <2>1. n \in Nat \ {0} /\ n <= 6
    BY <1>3, EmptySeq
  <2> HIDE DEF n
  <2>2. n \in 1..6
    BY <2>1
  <2> QED BY <2>2 DEF n
<1>5. Options("mode") = Kept(ModeOptions)
  BY Zenon DEF Options
<1>6. RawOf("mode") = V
  BY DEF RawOf
<1> HIDE DEF V
<1> QED BY <1>3, <1>4, <1>5, <1>6

LEMMA OptionsOfTarget ==
  ASSUME CapsTyped
  PROVE  Options("target") \in Seq(RawOf("target")) /\ Len(Options("target")) \in 1..16
<1> DEFINE t == TempRange
           count == Min({MaxOptions, t.hi - t.lo + 1})
           opts == [i \in 1..count |-> 2 * (t.lo + i - 1)]
<1>1. t.lo \in Nat /\ t.hi \in Nat /\ t.lo <= t.hi
  BY RangeTyped
<1> HIDE DEF t
<1>2. count \in 1..16
  <2> DEFINE x == t.hi - t.lo + 1
  <2>1. x \in Int /\ x >= 1
    BY <1>1
  <2> HIDE DEF x
  <2>2. Min({16, x}) = IF 16 <= x THEN 16 ELSE x
    BY <2>1, OfTwo
  <2>3. Min({16, x}) \in 1..16
    BY <2>1, <2>2
  <2> QED BY <2>3 DEF MaxOptions, x
<1>3. opts \in Seq(Nat) /\ Len(opts) = count
  <2> HIDE DEF count
  <2> QED BY <1>1, <1>2
<1>4. Options("target") = opts
  <2>1. "target" # "mode"
    OBVIOUS
  <2> QED BY <2>1, Zenon DEF Options, t
<1>5. RawOf("target") = Nat
  BY DEF RawOf
<1> HIDE DEF opts, count
<1> QED BY <1>2, <1>3, <1>4, <1>5

LEMMA OptionsOfFan ==
  Options("fan") \in Seq(RawOf("fan")) /\ Len(Options("fan")) \in 1..6
<1> DEFINE E == {<<102, "fanAuto">>, <<20, "fanSilent">>, <<40, "fanLow">>, <<60, "fanMedium">>, <<80, "fanHigh">>}
           named == Kept(FanOptions)
           first == IF named = <<>> THEN Values(FanOptions) ELSE named
           custom == IF Supports("fanCustom") THEN <<100>> ELSE <<>>
<1>1. FanOptions \in Seq(E) /\ Len(FanOptions) = 5
  BY DEF FanOptions
<1>2. \A e \in E : e[1] \in Byte
  BY DEF Byte
<1>3. /\ Values(FanOptions) \in Seq(Byte) /\ Len(Values(FanOptions)) = 5
      /\ named \in Seq(Byte) /\ Len(named) <= 5
  <2> HIDE DEF E
  <2> QED BY <1>1, <1>2, ValuesTyped
<1> HIDE DEF named
<1>4. first \in Seq(Byte) /\ Len(first) \in 1..5
  <2>1. CASE named = <<>>
    BY <1>3, <2>1
  <2>2. CASE named # <<>>
    <3>1. Len(named) \in Nat \ {0}
      BY <1>3, <2>2, EmptySeq
    <3>2. first = named
      BY <2>2
    <3> DEFINE n == Len(named)
    <3>3. n \in Nat \ {0} /\ n <= 5
      BY <1>3, <3>1
    <3> HIDE DEF first, n
    <3>4. n \in 1..5
      BY <3>3
    <3> QED BY <1>3, <3>2, <3>4 DEF n
  <2> QED BY <2>1, <2>2
<1>5. custom \in Seq(Byte) /\ Len(custom) \in 0..1
  <2>1. /\ <<100>> \in Seq(Byte) /\ Len(<<100>>) = 1
        /\ <<>> \in Seq(Byte) /\ Len(<<>>) = 0
    <3>1. 100 \in Byte
      BY DEF Byte
    <3> QED BY <3>1
  <2> QED BY <2>1
<1>6. Options("fan") = first \o custom
  <2>1. "fan" # "mode" /\ "fan" # "target"
    OBVIOUS
  <2> QED BY <2>1, Zenon DEF Options, named
<1> HIDE DEF first, custom
<1>7. first \o custom \in Seq(Byte) /\ Len(first \o custom) = Len(first) + Len(custom)
  BY <1>4, <1>5, ConcatProperties
<1>8. RawOf("fan") = Byte
  BY DEF RawOf
<1>9. Len(first \o custom) \in 1..6
  <2> DEFINE n == Len(first)
             m == Len(custom)
  <2>1. n \in 1..5 /\ m \in 0..1
    BY <1>4, <1>5
  <2> HIDE DEF n, m
  <2>2. n + m \in 1..6
    BY <2>1
  <2> QED BY <1>7, <2>2 DEF n, m
<1> QED BY <1>6, <1>7, <1>8, <1>9

LEMMA OptionsOfSwing ==
  Options("swing") \in Seq(RawOf("swing")) /\ Len(Options("swing")) \in 1..4
<1> DEFINE vertical == Supports("swingVertical")
           horizontal == Supports("swingHorizontal")
           a == IF vertical THEN <<12>> ELSE <<>>
           b == IF horizontal THEN <<3>> ELSE <<>>
           c == IF vertical /\ horizontal THEN <<15>> ELSE <<>>
           opts == <<0>> \o a \o b \o c
<1>1. /\ <<0>> \in Seq(0..15) /\ a \in Seq(0..15) /\ b \in Seq(0..15) /\ c \in Seq(0..15)
      /\ Len(<<0>>) = 1 /\ Len(a) \in 0..1 /\ Len(b) \in 0..1 /\ Len(c) \in 0..1
  <2>1. \A v \in 0..15 : <<v>> \in Seq(0..15) /\ Len(<<v>>) = 1
    OBVIOUS
  <2> DEFINE S == Seq(0..15)
  <2>2. /\ <<>> \in S /\ Len(<<>>) = 0 /\ <<0>> \in S /\ Len(<<0>>) = 1
        /\ <<3>> \in S /\ Len(<<3>>) = 1 /\ <<12>> \in S /\ Len(<<12>>) = 1
        /\ <<15>> \in S /\ Len(<<15>>) = 1 /\ 0 \in 0..1 /\ 1 \in 0..1
    BY <2>1
  <2>3. a \in {<<12>>, <<>>} /\ b \in {<<3>>, <<>>} /\ c \in {<<15>>, <<>>}
    OBVIOUS
  <2> HIDE DEF a, b, c, S
  <2>4. a \in S /\ Len(a) \in 0..1
    BY <2>2, <2>3, Zenon
  <2>5. b \in S /\ Len(b) \in 0..1
    BY <2>2, <2>3, Zenon
  <2>6. c \in S /\ Len(c) \in 0..1
    BY <2>2, <2>3, Zenon
  <2> QED BY <2>2, <2>4, <2>5, <2>6 DEF S
<1>2. Options("swing") = opts
  <2>1. "swing" # "mode" /\ "swing" # "target" /\ "swing" # "fan"
    OBVIOUS
  <2> QED BY <2>1, Zenon DEF Options
<1> HIDE DEF a, b, c
<1>3. <<0>> \o a \in Seq(0..15) /\ Len(<<0>> \o a) = 1 + Len(a)
  BY <1>1, ConcatProperties
<1>4. <<0>> \o a \o b \in Seq(0..15) /\ Len(<<0>> \o a \o b) = 1 + Len(a) + Len(b)
  BY <1>1, <1>3, ConcatProperties
<1>5. opts \in Seq(0..15) /\ Len(opts) = 1 + Len(a) + Len(b) + Len(c)
  BY <1>1, <1>4, ConcatProperties
<1>6. RawOf("swing") = 0..15
  BY DEF RawOf
<1> HIDE DEF opts
<1>7. Len(opts) \in 1..4
  <2> DEFINE i == Len(a)
             j == Len(b)
             k == Len(c)
  <2>1. i \in 0..1 /\ j \in 0..1 /\ k \in 0..1
    BY <1>1
  <2> HIDE DEF i, j, k
  <2>2. 1 + i + j + k \in 1..4
    BY <2>1
  <2> QED BY <1>5, <2>2 DEF i, j, k
<1> QED BY <1>2, <1>5, <1>6, <1>7

LEMMA OptionsTyped ==
  ASSUME CapsTyped, NEW row \in RowNames
  PROVE  Options(row) \in Seq(RawOf(row)) /\ Len(Options(row)) \in 1..16
<1>1. CASE row \in {"mode", "target", "fan", "swing"}
  BY <1>1, OptionsOfMode, OptionsOfTarget, OptionsOfFan, OptionsOfSwing
<1>2. CASE row \notin {"mode", "target", "fan", "swing"}
  <2>1. Options(row) \in {<<100, 1, 20, 40, 60, 80>>, <<100, 50, 75>>, <<100>>, <<0, 1, 2>>,
                          <<0, 40, 60, 80, 100>>, <<0, 1>>}
    <3>1. CASE row = "rateSelect"
      <4> DEFINE rates == IF Says("rateSelect5Level") THEN <<100, 1, 20, 40, 60, 80>>
                          ELSE IF Says("rateSelect2Level") THEN <<100, 50, 75>> ELSE <<100>>
      <4>1. Options("rateSelect") = rates
        <5>1. /\ "rateSelect" # "mode" /\ "rateSelect" # "target" /\ "rateSelect" # "fan"
              /\ "rateSelect" # "swing"
          OBVIOUS
        <5> QED BY <5>1, Zenon DEF Options
      <4>2. rates \in {<<100, 1, 20, 40, 60, 80>>, <<100, 50, 75>>, <<100>>}
        BY Zenon
      <4> QED BY <3>1, <4>1, <4>2
    <3>2. CASE row # "rateSelect"
      BY <1>2, <3>2, Zenon DEF Options
    <3> QED BY <3>1, <3>2
  <2>2. RawOf(row) = Nat
    BY <1>2 DEF RawOf
  <2>3. /\ <<100, 1, 20, 40, 60, 80>> \in Seq(Nat) /\ Len(<<100, 1, 20, 40, 60, 80>>) = 6
        /\ <<100, 50, 75>> \in Seq(Nat) /\ Len(<<100, 50, 75>>) = 3
        /\ <<100>> \in Seq(Nat) /\ Len(<<100>>) = 1
    OBVIOUS
  <2>4. /\ <<0, 1, 2>> \in Seq(Nat) /\ Len(<<0, 1, 2>>) = 3
        /\ <<0, 40, 60, 80, 100>> \in Seq(Nat) /\ Len(<<0, 40, 60, 80, 100>>) = 5
        /\ <<0, 1>> \in Seq(Nat) /\ Len(<<0, 1>>) = 2
    OBVIOUS
  <2>5. Options(row) \in Seq(Nat) /\ Len(Options(row)) \in {1, 2, 3, 5, 6}
    BY <2>1, <2>3, <2>4, Zenon
  <2> QED BY <2>2, <2>5
<1> QED BY <1>1, <1>2

LEMMA IndexTyped ==
  ASSUME CapsTyped, NEW row \in RowNames
  PROVE  ValueIndex(row, Options(row)) \in 0..(Len(Options(row)) - 1)
<1> DEFINE options == Options(row)
           same == {i \in DOMAIN options : options[i] = RawValue(row)}
<1>1. DOMAIN options = 1..Len(options) /\ Len(options) \in 1..16
  <2>1. options \in Seq(RawOf(row)) /\ Len(options) \in 1..16
    BY OptionsTyped
  <2> HIDE DEF options
  <2> QED BY <2>1
<1>2. ValueIndex(row, options) = IF same = {} THEN 0 ELSE Min(same) - 1
  BY DEF ValueIndex
<1> HIDE DEF options
<1>3. ASSUME same # {} PROVE Min(same) \in 1..Len(options)
  <2>1. same \in SUBSET Nat /\ same \in SUBSET Int /\ same \subseteq 1..Len(options)
    BY <1>1
  <2> HIDE DEF same
  <2>2. PICK m \in same : \A k \in same : m <= k
    BY <1>3, <2>1, Smallest
  <2>3. Min(same) = m
    BY <2>1, <2>2, MinOf
  <2> QED BY <2>1, <2>2, <2>3
<1> HIDE DEF same
<1> QED BY <1>1, <1>2, <1>3 DEF options

LEMMA CycledTyped ==
  ASSUME NEW count \in Nat \ {0}, NEW value \in Nat, NEW delta \in {-1, 1}
  PROVE  Cycled(value, delta, count) \in 0..(count - 1)
<1>1. value + delta + count \in Nat
  OBVIOUS
<1> QED BY <1>1 DEF Cycled
=============================================================================
