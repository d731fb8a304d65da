-------------------------- MODULE UsageReportProofs --------------------------
(***************************************************************************)
(* Proofs about the rows of a report: of what lists they are made          *)
(* (UsageRows), which login each shows whatever commands change them       *)
(* (AccountConfig), and what numbers it may show (UsageReport), for any    *)
(* configurations, credentials, answers and deadlines.                     *)
(*                                                                         *)
(* The lists are made by folds.  What a fold gives is proved without an    *)
(* induction theorem, from the least index at which it would not hold.     *)
(* What a row may show is proved of each fetcher of ProviderFetch by       *)
(* itself; the invariant says that a finished row is what its fetcher      *)
(* makes of the answers heard, and that an answer was heard only where the *)
(* fetcher had asked.                                                      *)
(***************************************************************************)
EXTENDS UsageReport, AccountConfig, WellFoundedInduction, SequenceTheorems, FiniteSetTheorems, TLAPS

-----------------------------------------------------------------------------
(* The least of a set, and induction from it.                              *)

LEMMA Least ==
    ASSUME NEW T \in SUBSET Nat, T # {}
    PROVE  \E x \in T : \A y \in T : x <= y
<1> DEFINE R == {ss \in Nat \X Nat : ss[1] < ss[2]}
<1>1. R = OpToRel(<, Nat)
  BY DEF OpToRel
<1>2. IsWellFoundedOn(R, Nat)
  BY <1>1, NatLessThanWellFounded
<1> HIDE DEF R
<1>3. \E x \in T : \A y \in T : ~ (<<y, x>> \in R)
  BY <1>2, WFMin
<1>4. \A x, y \in T : <<y, x>> \in R <=> y < x
  BY DEF R
<1>5. PICK x \in T : \A y \in T : ~ (y < x)
  BY <1>3, <1>4
<1>6. \A y \in T : y \in Nat /\ x \in Nat
  OBVIOUS
<1>7. \A y \in T : x <= y
  BY <1>5, <1>6
<1> QED BY <1>7

LEMMA SetInduction ==
    ASSUME NEW T, 0 \in T, \A n \in Nat : n \in T => n + 1 \in T
    PROVE  Nat \subseteq T
<1> SUFFICES ASSUME Nat \ T # {} PROVE FALSE
  OBVIOUS
<1>1. PICK x \in Nat \ T : \A y \in Nat \ T : x <= y
  <2>1. (Nat \ T) \in SUBSET Nat
    OBVIOUS
  <2> QED BY <2>1, Least
<1>2. x # 0 /\ x - 1 \in Nat
  OBVIOUS
<1>3. x - 1 \in T
  BY <1>1, <1>2
<1>4. x - 1 + 1 = x
  BY <1>1
<1> QED BY <1>2, <1>3, <1>4

LEMMA MaxWithTop ==
    ASSUME NEW n \in Nat, NEW s \in SUBSET (1 .. n + 1), n + 1 \in s
    PROVE  Max(s) = n + 1
<1>1. \A x \in s : (\A y \in s : x >= y) <=> x = n + 1
  OBVIOUS
<1> QED BY <1>1 DEF Max

LEMMA MaxIsIn ==
    ASSUME NEW n \in Nat, NEW s \in SUBSET (1 .. n), s # {}
    PROVE  Max(s) \in s
<1> DEFINE T == {k \in Nat : \A x \in s : x <= k}
<1>1. n \in T /\ T \in SUBSET Nat
  OBVIOUS
<1>2. PICK k \in T : \A j \in T : k <= j
  BY <1>1, Least
<1>3. k \in Nat /\ \A x \in s : x \in Nat /\ 1 <= x /\ x <= k
  OBVIOUS
<1>4. k \in s
  <2> SUFFICES ASSUME k \notin s PROVE FALSE
    OBVIOUS
  <2>0. PICK z \in s : TRUE
    OBVIOUS
  <2>1. k > 0 /\ k - 1 \in Nat
    BY <1>3, <2>0
  <2>2. \A x \in s : x <= k - 1
    BY <1>3, <2>1
  <2>3. k - 1 \in T
    BY <2>1, <2>2
  <2> QED BY <1>2, <1>3, <2>3
<1>5. \A y \in s : k >= y
  BY <1>3
<1>6. \E x \in s : \A y \in s : x >= y
  BY <1>4, <1>5
<1> QED BY <1>6 DEF Max

\* The graph of a left fold over the sets of indices.
FoldsTo(g, X, seq, base, op) ==
    /\ g \in [SUBSET (1 .. Len(seq)) -> X]
    /\ \A s \in SUBSET (1 .. Len(seq)) :
          g[s] = IF s = {} THEN base ELSE op[<< g[s \ {Max(s)}], seq[Max(s)] >>]

LEMMA FoldGraph ==
    ASSUME NEW X, NEW D, NEW seq \in Seq(D), NEW base \in X, NEW op \in [X \X D -> X]
    PROVE  \E g : FoldsTo(g, X, seq, base, op)
<1> DEFINE Good(n, g) == \A s \in SUBSET (1 .. n) :
               g[s] = IF s = {} THEN base ELSE op[<< g[s \ {Max(s)}], seq[Max(s)] >>]
           Built(n) == n <= Len(seq) => \E g \in [SUBSET (1 .. n) -> X] : Good(n, g)
           T == {n \in Nat : Built(n)}
<1> HIDE DEF Built
<1>1. Built(0)
  <2> DEFINE g == [s \in SUBSET (1 .. 0) |-> base]
  <2>1. \A s \in SUBSET (1 .. 0) : s = {}
    OBVIOUS
  <2>2. g \in [SUBSET (1 .. 0) -> X] /\ Good(0, g)
    BY <2>1
  <2> HIDE DEF g
  <2> QED BY <2>2 DEF Built
<1>2. ASSUME NEW n \in Nat, Built(n) PROVE Built(n + 1)
  <2> SUFFICES ASSUME n + 1 <= Len(seq)
               PROVE  \E g \in [SUBSET (1 .. n + 1) -> X] : Good(n + 1, g)
    BY DEF Built
  <2>0. Len(seq) \in Nat /\ n <= Len(seq)
    BY LenProperties
  <2>1. PICK f \in [SUBSET (1 .. n) -> X] : Good(n, f)
    BY <1>2, <2>0 DEF Built
  <2> DEFINE g == [s \in SUBSET (1 .. n + 1) |->
                     IF n + 1 \in s THEN op[<< f[s \ {n + 1}], seq[n + 1] >>] ELSE f[s]]
  <2>2. \A s \in SUBSET (1 .. n + 1) : s \ {n + 1} \in SUBSET (1 .. n)
    OBVIOUS
  <2>3. \A s \in SUBSET (1 .. n + 1) : n + 1 \notin s => s \in SUBSET (1 .. n)
    OBVIOUS
  <2>4. seq[n + 1] \in D
    BY <2>0, ElementOfSeq
  <2>5. g \in [SUBSET (1 .. n + 1) -> X]
    BY <2>2, <2>3, <2>4
  <2>6. ASSUME NEW s \in SUBSET (1 .. n + 1)
        PROVE  g[s] = IF s = {} THEN base ELSE op[<< g[s \ {Max(s)}], seq[Max(s)] >>]
    <3>1. CASE n + 1 \in s
      <4>1. Max(s) = n + 1
        BY <3>1, MaxWithTop
      <4>2. g[s \ {n + 1}] = f[s \ {n + 1}]
        BY <2>2
      <4> QED BY <3>1, <4>1, <4>2
    <3>2. CASE n + 1 \notin s
      <4>1. s \in SUBSET (1 .. n) /\ g[s] = f[s]
        BY <3>2, <2>3
      <4>2. (s \ {Max(s)}) \in SUBSET (1 .. n + 1) /\ n + 1 \notin s \ {Max(s)}
        BY <3>2
      <4>3. g[s \ {Max(s)}] = f[s \ {Max(s)}]
        BY <4>2
      <4> HIDE DEF g
      <4> QED BY <4>1, <4>3, <2>1
    <3> QED BY <3>1, <3>2
  <2> HIDE DEF g
  <2>7. Good(n + 1, g)
    BY <2>6
  <2> QED BY <2>5, <2>7
<1>3. Nat \subseteq T
  <2>1. 0 \in T /\ \A n \in Nat : n \in T => n + 1 \in T
    BY <1>1, <1>2
  <2> HIDE DEF T
  <2> QED BY <2>1, SetInduction
<1>4. Len(seq) \in Nat
  BY LenProperties
<1>5. Built(Len(seq))
  BY <1>3, <1>4
<1>6. \E g \in [SUBSET (1 .. Len(seq)) -> X] : Good(Len(seq), g)
  <2>1. Len(seq) <= Len(seq)
    BY <1>4
  <2> HIDE DEF Good
  <2> QED BY <2>1, <1>5, Zenon DEF Built
<1> QED BY <1>6 DEF FoldsTo

LEMMA InitialIndices ==
    ASSUME NEW n \in Nat, NEW i \in 1 .. n
    PROVE  /\ (1 .. i) \in SUBSET (1 .. n)
           /\ (1 .. i) # {}
           /\ Max(1 .. i) = i
           /\ (1 .. i) \ {i} = 1 .. i - 1
<1>1. i - 1 \in Nat /\ (1 .. i) \in SUBSET (1 .. (i - 1) + 1) /\ (i - 1) + 1 \in 1 .. i /\ (i - 1) + 1 = i
  OBVIOUS
<1>2. Max(1 .. i) = i
  BY <1>1, MaxWithTop
<1>3. (1 .. i) \in SUBSET (1 .. n) /\ (1 .. i) \ {i} = 1 .. i - 1
  OBVIOUS
<1>4. 1 .. i # {}
  BY <1>1
<1> QED BY <1>1, <1>2, <1>3, <1>4

LEMMA UpsertTyped ==
    ASSUME NEW l \in Seq(Entries), NEW e \in Entries
    PROVE  upsertEntry(l, e) \in Seq(Entries)
BY DEF upsertEntry

UpsertRun(h, seq) ==
    /\ h \in [0 .. Len(seq) -> Seq(Entries)]
    /\ h[0] = << >>
    /\ \A i \in 1 .. Len(seq) : h[i] = upsertEntry(h[i - 1], seq[i])
    /\ h[Len(seq)] = FoldLeft(upsertEntry, << >>, seq)

LEMMA UpsertRuns ==
    ASSUME NEW seq \in Seq(Entries)
    PROVE  \E h : UpsertRun(h, seq)
<1> DEFINE X == Seq(Entries)
           Step(acc, x) == upsertEntry(acc, x)
           op == [p \in X \X Entries |-> Step(p[1], p[2])]
<1>0. \A l \in X, e \in Entries : Step(l, e) \in X
  BY UpsertTyped
<1>1. op \in [X \X Entries -> X] /\ << >> \in X
  <2> HIDE DEF Step
  <2> QED BY <1>0
<1>2. DOMAIN seq = 1 .. Len(seq) /\ Len(seq) \in Nat /\ \A i \in 1 .. Len(seq) : seq[i] \in Entries
  BY LenProperties, ElementOfSeq
<1>3. \A l \in X, e \in Entries : op[<< l, e >>] = Step(l, e)
  BY Zenon
<1> HIDE DEF op
<1>4. PICK g : FoldsTo(g, X, seq, << >>, op)
  <2> HIDE DEF X
  <2> QED BY <1>1, FoldGraph
<1>5. \A s \in SUBSET (1 .. Len(seq)) : s # {} => Max(s) \in s
  BY <1>2, MaxIsIn
<1> DEFINE F == CHOOSE f : f = [s \in SUBSET (DOMAIN seq) |->
                     IF s = {} THEN << >> ELSE Step(f[s \ {Max(s)}], seq[Max(s)])]
           h == [i \in 0 .. Len(seq) |-> F[1 .. i]]
<1>7. FoldLeft(upsertEntry, << >>, seq) = F[DOMAIN seq]
  BY DEF FoldLeft, MapThenFoldSet
<1> HIDE DEF Step
<1>6. \A s \in SUBSET (1 .. Len(seq)) :
         g[s] = IF s = {} THEN << >> ELSE Step(g[s \ {Max(s)}], seq[Max(s)])
  BY <1>2, <1>3, <1>4, <1>5 DEF FoldsTo
<1>8. \A s \in SUBSET (1 .. Len(seq)) :
         F[s] = IF s = {} THEN << >> ELSE Step(F[s \ {Max(s)}], seq[Max(s)])
  <2>1. g = [s \in SUBSET (DOMAIN seq) |->
                     IF s = {} THEN << >> ELSE Step(g[s \ {Max(s)}], seq[Max(s)])]
    BY <1>2, <1>4, <1>6 DEF FoldsTo
  <2>2. F = [s \in SUBSET (DOMAIN seq) |->
                     IF s = {} THEN << >> ELSE Step(F[s \ {Max(s)}], seq[Max(s)])]
    BY <2>1
  <2> HIDE DEF F
  <2> QED BY <1>2, <2>2
<1> HIDE DEF F
<1>9. h[0] = << >>
  <2>1. 1 .. 0 = {} /\ 0 \in 0 .. Len(seq) /\ {} \in SUBSET (1 .. Len(seq))
    BY <1>2
  <2> QED BY <1>8, <2>1
<1>10. \A i \in 1 .. Len(seq) : h[i] = Step(h[i - 1], seq[i])
  <2> SUFFICES ASSUME NEW i \in 1 .. Len(seq) PROVE h[i] = Step(h[i - 1], seq[i])
    OBVIOUS
  <2>1. h[i] = F[1 .. i] /\ h[i - 1] = F[1 .. i - 1]
    BY <1>2
  <2>2. /\ (1 .. i) \in SUBSET (1 .. Len(seq))
        /\ (1 .. i) # {}
        /\ Max(1 .. i) = i /\ (1 .. i) \ {i} = 1 .. i - 1
    BY <1>2, InitialIndices
  <2> HIDE DEF h
  <2> QED BY <1>8, <2>1, <2>2
<1>11. h[Len(seq)] = FoldLeft(upsertEntry, << >>, seq)
  BY <1>2, <1>7
<1> HIDE DEF h
<1>12. \A i \in 0 .. Len(seq) : h[i] \in X
  <2> DEFINE T == {i \in Nat : i <= Len(seq) => h[i] \in X}
  <2> HIDE DEF X
  <2>1. 0 \in T
    BY <1>1, <1>9
  <2>2. ASSUME NEW i \in Nat, i \in T PROVE i + 1 \in T
    <3>1. CASE i + 1 <= Len(seq)
      <4>1. h[i] \in X /\ i + 1 \in 1 .. Len(seq) /\ i + 1 - 1 = i
        BY <1>2, <2>2, <3>1
      <4>2. h[i + 1] = Step(h[i], seq[i + 1]) /\ seq[i + 1] \in Entries
        BY <1>2, <1>10, <4>1
      <4> QED BY <1>0, <4>1, <4>2
    <3> QED BY <3>1
  <2>3. Nat \subseteq T
    <3> HIDE DEF T
    <3> QED BY <2>1, <2>2, SetInduction
  <2> QED BY <1>2, <2>3
<1>13. h \in [0 .. Len(seq) -> X]
  BY <1>2, <1>12 DEF h
<1> QED BY <1>9, <1>10, <1>11, <1>13 DEF Step, UpsertRun

DistinctRun(h, D, seq) ==
    /\ h \in [0 .. Len(seq) -> Seq(D)]
    /\ h[0] = << >>
    /\ \A i \in 1 .. Len(seq) : h[i] = IF seq[i] \in ToSet(h[i - 1]) THEN h[i - 1] ELSE Append(h[i - 1], seq[i])
    /\ h[Len(seq)] = Distinct(seq)

LEMMA DistinctRuns ==
    ASSUME NEW D, NEW seq \in Seq(D)
    PROVE  \E h : DistinctRun(h, D, seq)
<1> DEFINE X == Seq(D)
           Step(acc, x) == IF x \in ToSet(acc) THEN acc ELSE Append(acc, x)
           op == [p \in X \X D |-> Step(p[1], p[2])]
<1>0. \A l \in X, e \in D : Step(l, e) \in X
  BY AppendProperties
<1>1. op \in [X \X D -> X] /\ << >> \in X
  <2> HIDE DEF Step
  <2> QED BY <1>0
<1>2. DOMAIN seq = 1 .. Len(seq) /\ Len(seq) \in Nat /\ \A i \in 1 .. Len(seq) : seq[i] \in D
  BY LenProperties, ElementOfSeq
<1>3. \A l \in X, e \in D : op[<< l, e >>] = Step(l, e)
  BY Zenon
<1> HIDE DEF op
<1>4. PICK g : FoldsTo(g, X, seq, << >>, op)
  <2> HIDE DEF X
  <2> QED BY <1>1, FoldGraph
<1>5. \A s \in SUBSET (1 .. Len(seq)) : s # {} => Max(s) \in s
  BY <1>2, MaxIsIn
<1> DEFINE F == CHOOSE f : f = [s \in SUBSET (DOMAIN seq) |->
                     IF s = {} THEN << >> ELSE Step(f[s \ {Max(s)}], seq[Max(s)])]
           h == [i \in 0 .. Len(seq) |-> F[1 .. i]]
<1>7. Distinct(seq) = F[DOMAIN seq]
  BY DEF Distinct, FoldLeft, MapThenFoldSet
<1> HIDE DEF Step
<1>6. \A s \in SUBSET (1 .. Len(seq)) :
         g[s] = IF s = {} THEN << >> ELSE Step(g[s \ {Max(s)}], seq[Max(s)])
  BY <1>2, <1>3, <1>4, <1>5 DEF FoldsTo
<1>8. \A s \in SUBSET (1 .. Len(seq)) :
         F[s] = IF s = {} THEN << >> ELSE Step(F[s \ {Max(s)}], seq[Max(s)])
  <2>1. g = [s \in SUBSET (DOMAIN seq) |->
                     IF s = {} THEN << >> ELSE Step(g[s \ {Max(s)}], seq[Max(s)])]
    BY <1>2, <1>4, <1>6 DEF FoldsTo
  <2>2. F = [s \in SUBSET (DOMAIN seq) |->
                     IF s = {} THEN << >> ELSE Step(F[s \ {Max(s)}], seq[Max(s)])]
    BY <2>1
  <2> HIDE DEF F
  <2> QED BY <1>2, <2>2
<1> HIDE DEF F
<1>9. h[0] = << >>
  <2>1. 1 .. 0 = {} /\ 0 \in 0 .. Len(seq) /\ {} \in SUBSET (1 .. Len(seq))
    BY <1>2
  <2> QED BY <1>8, <2>1
<1>10. \A i \in 1 .. Len(seq) : h[i] = Step(h[i - 1], seq[i])
  <2> SUFFICES ASSUME NEW i \in 1 .. Len(seq) PROVE h[i] = Step(h[i - 1], seq[i])
    OBVIOUS
  <2>1. h[i] = F[1 .. i] /\ h[i - 1] = F[1 .. i - 1]
    BY <1>2
  <2>2. /\ (1 .. i) \in SUBSET (1 .. Len(seq))
        /\ (1 .. i) # {}
        /\ Max(1 .. i) = i /\ (1 .. i) \ {i} = 1 .. i - 1
    BY <1>2, InitialIndices
  <2> HIDE DEF h
  <2> QED BY <1>8, <2>1, <2>2
<1>11. h[Len(seq)] = Distinct(seq)
  BY <1>2, <1>7
<1> HIDE DEF h
<1>12. \A i \in 0 .. Len(seq) : h[i] \in X
  <2> DEFINE T == {i \in Nat : i <= Len(seq) => h[i] \in X}
  <2> HIDE DEF X
  <2>1. 0 \in T
    BY <1>1, <1>9
  <2>2. ASSUME NEW i \in Nat, i \in T PROVE i + 1 \in T
    <3>1. CASE i + 1 <= Len(seq)
      <4>1. h[i] \in X /\ i + 1 \in 1 .. Len(seq) /\ i + 1 - 1 = i
        BY <1>2, <2>2, <3>1
      <4>2. h[i + 1] = Step(h[i], seq[i + 1]) /\ seq[i + 1] \in D
        BY <1>2, <1>10, <4>1
      <4> QED BY <1>0, <4>1, <4>2
    <3> QED BY <3>1
  <2>3. Nat \subseteq T
    <3> HIDE DEF T
    <3> QED BY <2>1, <2>2, SetInduction
  <2> QED BY <1>2, <2>3
<1>13. h \in [0 .. Len(seq) -> X]
  BY <1>2, <1>12 DEF h
<1> QED BY <1>9, <1>10, <1>11, <1>13 DEF Step, DistinctRun

AmongRun(h, D, seq, S) ==
    /\ h \in [0 .. Len(seq) -> Seq(D)]
    /\ h[0] = << >>
    /\ \A i \in 1 .. Len(seq) : h[i] = IF seq[i] \in S THEN Append(h[i - 1], seq[i]) ELSE h[i - 1]
    /\ h[Len(seq)] = Among(seq, S)

LEMMA AmongRuns ==
    ASSUME NEW D, NEW S, NEW seq \in Seq(D)
    PROVE  \E h : AmongRun(h, D, seq, S)
<1> DEFINE X == Seq(D)
           Step(acc, x) == IF x \in S THEN Append(acc, x) ELSE acc
           op == [p \in X \X D |-> Step(p[1], p[2])]
<1>0. \A l \in X, e \in D : Step(l, e) \in X
  BY AppendProperties
<1>1. op \in [X \X D -> X] /\ << >> \in X
  <2> HIDE DEF Step
  <2> QED BY <1>0
<1>2. DOMAIN seq = 1 .. Len(seq) /\ Len(seq) \in Nat /\ \A i \in 1 .. Len(seq) : seq[i] \in D
  BY LenProperties, ElementOfSeq
<1>3. \A l \in X, e \in D : op[<< l, e >>] = Step(l, e)
  BY Zenon
<1> HIDE DEF op
<1>4. PICK g : FoldsTo(g, X, seq, << >>, op)
  <2> HIDE DEF X
  <2> QED BY <1>1, FoldGraph
<1>5. \A s \in SUBSET (1 .. Len(seq)) : s # {} => Max(s) \in s
  BY <1>2, MaxIsIn
<1> DEFINE F == CHOOSE f : f = [s \in SUBSET (DOMAIN seq) |->
                     IF s = {} THEN << >> ELSE Step(f[s \ {Max(s)}], seq[Max(s)])]
           h == [i \in 0 .. Len(seq) |-> F[1 .. i]]
<1>7. Among(seq, S) = F[DOMAIN seq]
  BY DEF Among, FoldLeft, MapThenFoldSet
<1> HIDE DEF Step
<1>6. \A s \in SUBSET (1 .. Len(seq)) :
         g[s] = IF s = {} THEN << >> ELSE Step(g[s \ {Max(s)}], seq[Max(s)])
  BY <1>2, <1>3, <1>4, <1>5 DEF FoldsTo
<1>8. \A s \in SUBSET (1 .. Len(seq)) :
         F[s] = IF s = {} THEN << >> ELSE Step(F[s \ {Max(s)}], seq[Max(s)])
  <2>1. g = [s \in SUBSET (DOMAIN seq) |->
                     IF s = {} THEN << >> ELSE Step(g[s \ {Max(s)}], seq[Max(s)])]
    BY <1>2, <1>4, <1>6 DEF FoldsTo
  <2>2. F = [s \in SUBSET (DOMAIN seq) |->
                     IF s = {} THEN << >> ELSE Step(F[s \ {Max(s)}], seq[Max(s)])]
    BY <2>1
  <2> HIDE DEF F
  <2> QED BY <1>2, <2>2
<1> HIDE DEF F
<1>9. h[0] = << >>
  <2>1. 1 .. 0 = {} /\ 0 \in 0 .. Len(seq) /\ {} \in SUBSET (1 .. Len(seq))
    BY <1>2
  <2> QED BY <1>8, <2>1
<1>10. \A i \in 1 .. Len(seq) : h[i] = Step(h[i - 1], seq[i])
  <2> SUFFICES ASSUME NEW i \in 1 .. Len(seq) PROVE h[i] = Step(h[i - 1], seq[i])
    OBVIOUS
  <2>1. h[i] = F[1 .. i] /\ h[i - 1] = F[1 .. i - 1]
    BY <1>2
  <2>2. /\ (1 .. i) \in SUBSET (1 .. Len(seq))
        /\ (1 .. i) # {}
        /\ Max(1 .. i) = i /\ (1 .. i) \ {i} = 1 .. i - 1
    BY <1>2, InitialIndices
  <2> HIDE DEF h
  <2> QED BY <1>8, <2>1, <2>2
<1>11. h[Len(seq)] = Among(seq, S)
  BY <1>2, <1>7
<1> HIDE DEF h
<1>12. \A i \in 0 .. Len(seq) : h[i] \in X
  <2> DEFINE T == {i \in Nat : i <= Len(seq) => h[i] \in X}
  <2> HIDE DEF X
  <2>1. 0 \in T
    BY <1>1, <1>9
  <2>2. ASSUME NEW i \in Nat, i \in T PROVE i + 1 \in T
    <3>1. CASE i + 1 <= Len(seq)
      <4>1. h[i] \in X /\ i + 1 \in 1 .. Len(seq) /\ i + 1 - 1 = i
        BY <1>2, <2>2, <3>1
      <4>2. h[i + 1] = Step(h[i], seq[i + 1]) /\ seq[i + 1] \in D
        BY <1>2, <1>10, <4>1
      <4> QED BY <1>0, <4>1, <4>2
    <3> QED BY <3>1
  <2>3. Nat \subseteq T
    <3> HIDE DEF T
    <3> QED BY <2>1, <2>2, SetInduction
  <2> QED BY <1>2, <2>3
<1>13. h \in [0 .. Len(seq) -> X]
  BY <1>2, <1>12 DEF h
<1> QED BY <1>9, <1>10, <1>11, <1>13 DEF Step, AmongRun

-----------------------------------------------------------------------------
(* Lists without duplicates, filtered and flattened.                       *)

LEMMA AppendIs ==
    ASSUME NEW D, NEW s \in Seq(D), NEW e \in D
    PROVE  /\ Append(s, e) \in Seq(D)
           /\ ToSet(Append(s, e)) = ToSet(s) \union {e}
           /\ IsInjective(s) /\ e \notin ToSet(s) => IsInjective(Append(s, e))
<1> DEFINE t == Append(s, e)
<1>1. /\ t \in Seq(D) /\ Len(t) = Len(s) + 1 /\ Len(s) \in Nat
      /\ DOMAIN s = 1 .. Len(s) /\ DOMAIN t = 1 .. Len(s) + 1
      /\ \A i \in 1 .. Len(s) : t[i] = s[i]
      /\ t[Len(s) + 1] = e
  BY AppendProperties, LenProperties
<1> HIDE DEF t
<1>2. 1 .. Len(s) + 1 = 1 .. Len(s) \union {Len(s) + 1}
  BY <1>1
<1>3. ToSet(t) = ToSet(s) \union {e}
  BY <1>1, <1>2 DEF ToSet
<1>4. ASSUME IsInjective(s), e \notin ToSet(s) PROVE IsInjective(t)
  <2> SUFFICES ASSUME NEW i \in DOMAIN t, NEW j \in DOMAIN t, t[i] = t[j] PROVE i = j
    BY DEF IsInjective
  <2>1. \A k \in 1 .. Len(s) : s[k] # e
    BY <1>1, <1>4 DEF ToSet
  <2> QED BY <1>1, <1>2, <1>4, <2>1 DEF IsInjective
<1> QED BY <1>1, <1>3, <1>4 DEF t

LEMMA SetOfPrefix ==
    ASSUME NEW D, NEW seq \in Seq(D)
    PROVE  /\ {seq[j] : j \in 1 .. 0} = {}
           /\ {seq[j] : j \in 1 .. Len(seq)} = ToSet(seq)
           /\ \A i \in 1 .. Len(seq) :
                 {seq[j] : j \in 1 .. i} = {seq[j] : j \in 1 .. i - 1} \union {seq[i]}
<1>1. DOMAIN seq = 1 .. Len(seq) /\ Len(seq) \in Nat
  BY LenProperties
<1>2. \A i \in 1 .. Len(seq) : 1 .. i = 1 .. i - 1 \union {i}
  BY <1>1
<1> QED BY <1>1, <1>2 DEF ToSet

LEMMA DistinctIs ==
    ASSUME NEW D, NEW seq \in Seq(D)
    PROVE  /\ Distinct(seq) \in Seq(D)
           /\ ToSet(Distinct(seq)) = ToSet(seq)
           /\ IsInjective(Distinct(seq))
<1>0. PICK h : DistinctRun(h, D, seq)
  BY DistinctRuns
<1>1. /\ h \in [0 .. Len(seq) -> Seq(D)]
      /\ h[0] = << >>
      /\ \A i \in 1 .. Len(seq) :
            h[i] = IF seq[i] \in ToSet(h[i - 1]) THEN h[i - 1] ELSE Append(h[i - 1], seq[i])
      /\ h[Len(seq)] = Distinct(seq)
  BY <1>0 DEF DistinctRun
<1>2. Len(seq) \in Nat /\ \A i \in 1 .. Len(seq) : seq[i] \in D
  BY LenProperties, ElementOfSeq
<1> DEFINE Made(i) == ToSet(h[i]) = {seq[j] : j \in 1 .. i} /\ IsInjective(h[i])
           T == {i \in Nat : i <= Len(seq) => Made(i)}
<1>3. 0 \in T
  BY <1>1, SetOfPrefix DEF ToSet, IsInjective
<1>4. ASSUME NEW i \in Nat, i \in T PROVE i + 1 \in T
  <2>1. CASE i + 1 <= Len(seq)
    <3>1. /\ i + 1 \in 1 .. Len(seq) /\ (i + 1) - 1 = i
          /\ h[i] \in Seq(D) /\ seq[i + 1] \in D
          /\ h[i + 1] = IF seq[i + 1] \in ToSet(h[i]) THEN h[i] ELSE Append(h[i], seq[i + 1])
      BY <1>1, <1>2, <2>1
    <3>2. Made(i) /\ {seq[j] : j \in 1 .. i + 1} = {seq[j] : j \in 1 .. i} \union {seq[i + 1]}
      BY <1>2, <1>4, <2>1, <3>1, SetOfPrefix
    <3>3. CASE seq[i + 1] \in ToSet(h[i])
      BY <3>1, <3>2, <3>3
    <3>4. CASE seq[i + 1] \notin ToSet(h[i])
      <4>1. /\ ToSet(h[i + 1]) = ToSet(h[i]) \union {seq[i + 1]}
            /\ IsInjective(h[i + 1])
        BY <3>1, <3>2, <3>4, AppendIs
      <4> QED BY <3>2, <4>1
    <3> QED BY <3>3, <3>4
  <2> QED BY <2>1
<1> HIDE DEF T
<1>5. Len(seq) \in T
  BY <1>2, <1>3, <1>4, SetInduction
<1>6. Made(Len(seq))
  BY <1>2, <1>5 DEF T
<1> QED BY <1>1, <1>2, <1>6, SetOfPrefix

LEMMA AmongIs ==
    ASSUME NEW D, NEW S, NEW seq \in Seq(D)
    PROVE  /\ Among(seq, S) \in Seq(D)
           /\ ToSet(Among(seq, S)) = ToSet(seq) \cap S
           /\ IsInjective(seq) => IsInjective(Among(seq, S))
<1>0. PICK h : AmongRun(h, D, seq, S)
  BY AmongRuns
<1>1. /\ h \in [0 .. Len(seq) -> Seq(D)]
      /\ h[0] = << >>
      /\ \A i \in 1 .. Len(seq) :
            h[i] = IF seq[i] \in S THEN Append(h[i - 1], seq[i]) ELSE h[i - 1]
      /\ h[Len(seq)] = Among(seq, S)
  BY <1>0 DEF AmongRun
<1>2. DOMAIN seq = 1 .. Len(seq) /\ Len(seq) \in Nat /\ \A i \in 1 .. Len(seq) : seq[i] \in D
  BY LenProperties, ElementOfSeq
<1> DEFINE Made(i) == /\ ToSet(h[i]) = {seq[j] : j \in 1 .. i} \cap S
                      /\ IsInjective(seq) => IsInjective(h[i])
           T == {i \in Nat : i <= Len(seq) => Made(i)}
<1>3. 0 \in T
  BY <1>1, SetOfPrefix DEF ToSet, IsInjective
<1>4. ASSUME NEW i \in Nat, i \in T PROVE i + 1 \in T
  <2>1. CASE i + 1 <= Len(seq)
    <3>1. /\ i + 1 \in 1 .. Len(seq) /\ (i + 1) - 1 = i
          /\ h[i] \in Seq(D) /\ seq[i + 1] \in D
          /\ h[i + 1] = IF seq[i + 1] \in S THEN Append(h[i], seq[i + 1]) ELSE h[i]
      BY <1>1, <1>2, <2>1
    <3>2. Made(i)
      BY <1>2, <1>4, <2>1
    <3>5. {seq[j] : j \in 1 .. i + 1} = {seq[j] : j \in 1 .. i} \union {seq[i + 1]}
      BY <3>1, SetOfPrefix
    <3>3. CASE seq[i + 1] \notin S
      BY <3>1, <3>2, <3>3, <3>5
    <3>4. CASE seq[i + 1] \in S
      <4>1. IsInjective(seq) => seq[i + 1] \notin {seq[j] : j \in 1 .. i}
        BY <1>2, <3>1 DEF IsInjective
      <4>2. /\ ToSet(h[i + 1]) = ToSet(h[i]) \union {seq[i + 1]}
            /\ IsInjective(seq) => IsInjective(h[i + 1])
        BY <3>1, <3>2, <3>4, <4>1, AppendIs
      <4> QED BY <3>2, <3>4, <3>5, <4>2
    <3> QED BY <3>3, <3>4
  <2> QED BY <2>1
<1> HIDE DEF T
<1>5. Len(seq) \in T
  BY <1>2, <1>3, <1>4, SetInduction
<1>6. Made(Len(seq))
  BY <1>2, <1>5 DEF T
<1> QED BY <1>1, <1>2, <1>6, SetOfPrefix

LEMMA ConcatIs ==
    ASSUME NEW D, NEW s \in Seq(D), NEW t \in Seq(D)
    PROVE  /\ s \o t \in Seq(D)
           /\ ToSet(s \o t) = ToSet(s) \union ToSet(t)
           /\ IsInjective(s) /\ IsInjective(t) /\ ToSet(s) \cap ToSet(t) = {} => IsInjective(s \o t)
<1> DEFINE u == s \o t
<1>1. /\ u \in Seq(D) /\ Len(u) = Len(s) + Len(t) /\ Len(s) \in Nat /\ Len(t) \in Nat
      /\ DOMAIN s = 1 .. Len(s) /\ DOMAIN t = 1 .. Len(t) /\ DOMAIN u = 1 .. Len(s) + Len(t)
      /\ \A i \in 1 .. Len(s) + Len(t) : u[i] = IF i <= Len(s) THEN s[i] ELSE t[i - Len(s)]
  BY ConcatProperties, LenProperties
<1> HIDE DEF u
<1>2. \A i \in DOMAIN u : \/ i \in DOMAIN s /\ u[i] = s[i]
                          \/ i - Len(s) \in DOMAIN t /\ u[i] = t[i - Len(s)]
  BY <1>1
<1>3. \A i \in DOMAIN s : i \in DOMAIN u /\ u[i] = s[i]
  BY <1>1
<1>4. \A i \in DOMAIN t : i + Len(s) \in DOMAIN u /\ u[i + Len(s)] = t[i]
  BY <1>1
<1>5. ToSet(u) = ToSet(s) \union ToSet(t)
  BY <1>2, <1>3, <1>4 DEF ToSet
<1>6. ASSUME IsInjective(s), IsInjective(t), ToSet(s) \cap ToSet(t) = {} PROVE IsInjective(u)
  <2> SUFFICES ASSUME NEW i \in DOMAIN u, NEW j \in DOMAIN u, u[i] = u[j] PROVE i = j
    BY DEF IsInjective
  <2>1. \A a \in DOMAIN s, b \in DOMAIN t : s[a] # t[b]
    BY <1>6 DEF ToSet
  <2>2. i \in Int /\ j \in Int
    BY <1>1
  <2> QED BY <1>1, <1>2, <1>6, <2>1, <2>2 DEF IsInjective
<1> QED BY <1>1, <1>5, <1>6 DEF u

\* What FlattenSeq has made of the first i sequences.
FlattenRun(f, D, ss) ==
    /\ f \in [1 .. Len(ss) -> Seq(D)]
    /\ \A i \in 1 .. Len(ss) : f[i] = IF i = 1 THEN ss[i] ELSE f[i - 1] \o ss[i]
    /\ FlattenSeq(ss) = f[Len(ss)]

LEMMA FlattenRuns ==
    ASSUME NEW D, NEW ss \in Seq(Seq(D)), ss # << >>
    PROVE  \E f : FlattenRun(f, D, ss)
<1> DEFINE Runs(f, n) == \A i \in 1 .. n : f[i] = IF i = 1 THEN ss[i] ELSE f[i - 1] \o ss[i]
           Built(n) == n <= Len(ss) => \E f \in [1 .. n -> Seq(D)] : Runs(f, n)
           T == {n \in Nat : Built(n)}
<1>0. Len(ss) \in Nat \ {0} /\ \A i \in 1 .. Len(ss) : ss[i] \in Seq(D)
  BY EmptySeq, ElementOfSeq
<1>1. Built(0)
  <2> DEFINE f == [i \in 1 .. 0 |-> << >>]
  <2>1. f \in [1 .. 0 -> Seq(D)] /\ Runs(f, 0)
    OBVIOUS
  <2> HIDE DEF f
  <2> QED BY <2>1
<1>2. ASSUME NEW n \in Nat, Built(n) PROVE Built(n + 1)
  <2> SUFFICES ASSUME n + 1 <= Len(ss) PROVE \E f \in [1 .. n + 1 -> Seq(D)] : Runs(f, n + 1)
    OBVIOUS
  <2>1. PICK f \in [1 .. n -> Seq(D)] : Runs(f, n)
    BY <1>0, <1>2
  <2> DEFINE last == IF n = 0 THEN ss[1] ELSE f[n] \o ss[n + 1]
             g == [i \in 1 .. n + 1 |-> IF i = n + 1 THEN last ELSE f[i]]
  <2>2. last \in Seq(D)
    BY <1>0, ConcatProperties
  <2>3. g \in [1 .. n + 1 -> Seq(D)]
    BY <2>2
  <2>4. Runs(g, n + 1)
    <3> SUFFICES ASSUME NEW i \in 1 .. n + 1
                 PROVE  g[i] = IF i = 1 THEN ss[i] ELSE g[i - 1] \o ss[i]
      OBVIOUS
    <3>1. i # 1 => i - 1 \in 1 .. n /\ g[i - 1] = f[i - 1]
      OBVIOUS
    <3>2. CASE i = n + 1
      BY <3>1, <3>2
    <3>3. CASE i \in 1 .. n
      <4>0. i # n + 1
        BY <3>3
      <4>1. g[i] = f[i]
        <5> HIDE DEF last
        <5> QED BY <4>0
      <4>2. f[i] = IF i = 1 THEN ss[i] ELSE f[i - 1] \o ss[i]
        BY <2>1, <3>3
      <4> HIDE DEF g
      <4> QED BY <3>1, <4>1, <4>2
    <3> QED BY <3>2, <3>3
  <2> HIDE DEF g
  <2> QED BY <2>3, <2>4
<1> HIDE DEF Built
<1>3. Nat \subseteq T
  <2>1. 0 \in T /\ \A n \in Nat : n \in T => n + 1 \in T
    BY <1>1, <1>2
  <2> HIDE DEF T
  <2> QED BY <2>1, SetInduction
<1>4. Built(Len(ss))
  BY <1>0, <1>3
<1>5. PICK f \in [1 .. Len(ss) -> Seq(D)] : Runs(f, Len(ss))
  <2>1. Len(ss) <= Len(ss)
    BY <1>0
  <2> QED BY <1>4, <2>1, Zenon DEF Built
<1> DEFINE F == CHOOSE g : g = [i \in 1 .. Len(ss) |-> IF i = 1 THEN ss[i] ELSE g[i - 1] \o ss[i]]
<1>6. FlattenSeq(ss) = F[Len(ss)]
  BY <1>0 DEF FlattenSeq
<1>7. f = [i \in 1 .. Len(ss) |-> IF i = 1 THEN ss[i] ELSE f[i - 1] \o ss[i]]
  BY <1>5
<1>8. F = [i \in 1 .. Len(ss) |-> IF i = 1 THEN ss[i] ELSE F[i - 1] \o ss[i]]
  BY <1>7
<1> HIDE DEF F
<1>9. \A i \in 1 .. Len(ss) : F[i] = IF i = 1 THEN ss[i] ELSE F[i - 1] \o ss[i]
  BY <1>8
<1>10. \A i \in 1 .. Len(ss) : F[i] \in Seq(D)
  <2> DEFINE U == {n \in Nat : n + 1 <= Len(ss) => F[n + 1] \in Seq(D)}
  <2>1. 0 \in U
    BY <1>0, <1>9
  <2>2. ASSUME NEW n \in Nat, n \in U PROVE n + 1 \in U
    <3>1. CASE (n + 1) + 1 <= Len(ss)
      <4>1. /\ F[n + 1] \in Seq(D)
            /\ (n + 1) + 1 \in 1 .. Len(ss) /\ (n + 1) + 1 # 1 /\ ((n + 1) + 1) - 1 = n + 1
        BY <1>0, <2>2, <3>1
      <4>2. F[(n + 1) + 1] = F[n + 1] \o ss[(n + 1) + 1] /\ ss[(n + 1) + 1] \in Seq(D)
        BY <1>0, <1>9, <4>1
      <4>3. F[(n + 1) + 1] \in Seq(D)
        BY <4>1, <4>2, ConcatProperties
      <4> QED BY <4>3
    <3> QED BY <3>1
  <2>3. Nat \subseteq U
    <3> HIDE DEF U
    <3> QED BY <2>1, <2>2, SetInduction
  <2>4. \A i \in 1 .. Len(ss) : i - 1 \in Nat /\ (i - 1) + 1 = i /\ i <= Len(ss)
    BY <1>0
  <2>5. \A i \in 1 .. Len(ss) : i - 1 \in U
    <3> HIDE DEF U
    <3> QED BY <2>3, <2>4
  <2> QED BY <2>4, <2>5
<1>11. F \in [1 .. Len(ss) -> Seq(D)]
  <2>1. DOMAIN F = 1 .. Len(ss) /\ F = [i \in 1 .. Len(ss) |-> F[i]]
    BY <1>8
  <2> QED BY <1>10, <2>1
<1> QED BY <1>6, <1>9, <1>11 DEF FlattenRun

LEMMA FlattenIs ==
    ASSUME NEW D, NEW ss \in Seq(Seq(D))
    PROVE  /\ FlattenSeq(ss) \in Seq(D)
           /\ ToSet(FlattenSeq(ss)) = UNION {ToSet(ss[i]) : i \in DOMAIN ss}
           /\ /\ \A i \in DOMAIN ss : IsInjective(ss[i])
              /\ \A i, k \in DOMAIN ss : i # k => ToSet(ss[i]) \cap ToSet(ss[k]) = {}
              => IsInjective(FlattenSeq(ss))
<1>0. /\ Len(ss) \in Nat /\ DOMAIN ss = 1 .. Len(ss)
      /\ \A i \in 1 .. Len(ss) : ss[i] \in Seq(D)
  BY LenProperties, ElementOfSeq
<1>1. CASE ss = << >>
  BY <1>1 DEF FlattenSeq, ToSet, IsInjective
<1>2. CASE ss # << >>
  <2>1. PICK f : FlattenRun(f, D, ss)
    BY <1>2, FlattenRuns
  <2>2. /\ f \in [1 .. Len(ss) -> Seq(D)]
        /\ \A i \in 1 .. Len(ss) : f[i] = IF i = 1 THEN ss[i] ELSE f[i - 1] \o ss[i]
        /\ FlattenSeq(ss) = f[Len(ss)]
        /\ Len(ss) > 0
    BY <1>0, <1>2, <2>1, EmptySeq DEF FlattenRun
  <2> DEFINE Parts(i) == {ToSet(ss[k]) : k \in 1 .. i}
             Apart == /\ \A i \in DOMAIN ss : IsInjective(ss[i])
                      /\ \A i, k \in DOMAIN ss : i # k => ToSet(ss[i]) \cap ToSet(ss[k]) = {}
             Made(i) == /\ ToSet(f[i]) = UNION Parts(i)
                        /\ Apart => IsInjective(f[i])
             T == {n \in Nat : n + 1 <= Len(ss) => Made(n + 1)}
  <2>3. 0 \in T
    <3>1. f[1] = ss[1] /\ 1 \in DOMAIN ss
      BY <1>0, <2>2
    <3>2. UNION Parts(1) = ToSet(ss[1])
      OBVIOUS
    <3> QED BY <3>1, <3>2
  <2>4. ASSUME NEW n \in Nat, n \in T PROVE n + 1 \in T
    <3> DEFINE m == (n + 1) + 1
    <3>1. CASE m <= Len(ss)
      <4>1. /\ m \in 1 .. Len(ss) /\ m # 1 /\ m - 1 = n + 1 /\ n + 1 \in 1 .. Len(ss)
            /\ Made(n + 1)
        BY <1>0, <2>4, <3>1
      <4>7. \A k \in 1 .. n + 1 : k \in DOMAIN ss /\ k # m
        BY <1>0, <4>1
      <4>8. m \in DOMAIN ss /\ n + 1 \in DOMAIN ss
        BY <1>0, <4>1
      <4>2. f[m] = f[n + 1] \o ss[m] /\ f[n + 1] \in Seq(D) /\ ss[m] \in Seq(D)
        BY <1>0, <2>2, <4>1
      <4>3. 1 .. m = 1 .. n + 1 \union {m} /\ m \notin 1 .. n + 1
        OBVIOUS
      <4> HIDE DEF m
      <4>4. UNION Parts(m) = (UNION Parts(n + 1)) \union ToSet(ss[m])
        BY <4>3
      <4>5. ToSet(f[m]) = UNION Parts(m)
        <5>1. ToSet(f[n + 1]) = UNION Parts(n + 1)
          BY <4>1
        <5>2. ToSet(f[m]) = ToSet(f[n + 1]) \union ToSet(ss[m])
          BY <4>2, ConcatIs
        <5> HIDE DEF Parts
        <5> QED BY <4>4, <5>1, <5>2
      <4>6. ASSUME Apart PROVE IsInjective(f[m])
        <5>1. \A k \in 1 .. n + 1 : ToSet(ss[k]) \cap ToSet(ss[m]) = {}
          BY <4>6, <4>7, <4>8
        <5>2. ToSet(f[n + 1]) \cap ToSet(ss[m]) = {}
          BY <4>1, <5>1
        <5>3. IsInjective(f[n + 1]) /\ IsInjective(ss[m])
          BY <4>1, <4>6, <4>8
        <5> QED BY <4>2, <5>2, <5>3, ConcatIs
      <4> QED BY <4>5, <4>6 DEF m
    <3> QED BY <3>1
  <2>5. Made(Len(ss))
    <3>1. Nat \subseteq T
      <4> HIDE DEF T
      <4> QED BY <2>3, <2>4, SetInduction
    <3>2. Len(ss) - 1 \in Nat /\ (Len(ss) - 1) + 1 = Len(ss)
      BY <1>0, <2>2
    <3>3. Len(ss) - 1 \in T
      <4> HIDE DEF T
      <4> QED BY <3>1, <3>2
    <3>4. (Len(ss) - 1) + 1 <= Len(ss)
      BY <1>0
    <3> HIDE DEF Made
    <3>5. Made((Len(ss) - 1) + 1)
      BY <3>3, <3>4
    <3> QED BY <3>2, <3>5
  <2>6. f[Len(ss)] \in Seq(D)
    <3>1. Len(ss) \in 1 .. Len(ss)
      BY <1>0, <2>2
    <3> QED BY <2>2, <3>1
  <2> QED BY <1>0, <2>2, <2>5, <2>6
<1> QED BY <1>1, <1>2

-----------------------------------------------------------------------------
(* The entries of the accounts keys.                                       *)

Valid(e)      == e.home # None /\ e.provider \in AccountKinds
SameKey(e, f) == e.provider = f.provider /\ e.name = f.name
KeysOnce(l)   == \A a, b \in DOMAIN l : SameKey(l[a], l[b]) => a = b

LEMMA UpsertIs ==
    ASSUME NEW l \in Seq(Entries), NEW e \in Entries, Valid(e), KeysOnce(l)
    PROVE  /\ upsertEntry(l, e) \in Seq(Entries)
           /\ KeysOnce(upsertEntry(l, e))
           /\ ToSet(upsertEntry(l, e)) = {x \in ToSet(l) : ~SameKey(x, e)} \union {e}
<1> DEFINE r == upsertEntry(l, e)
           same == {i \in 1 .. Len(l) : l[i].provider = e.provider /\ l[i].name = e.name}
<1>0. DOMAIN l = 1 .. Len(l) /\ Len(l) \in Nat
  BY LenProperties
<1>1. r \in Seq(Entries)
  BY UpsertTyped
<1>2. CASE same = {}
  <2>1. r = Append(l, e)
    BY <1>2 DEF upsertEntry, Valid
  <2>2. \A x \in ToSet(l) : ~SameKey(x, e)
    BY <1>0, <1>2 DEF ToSet, SameKey
  <2>3. /\ Len(r) = Len(l) + 1 /\ DOMAIN r = 1 .. Len(l) + 1
        /\ \A i \in 1 .. Len(l) : r[i] = l[i]
        /\ r[Len(l) + 1] = e
    BY <1>1, <2>1, AppendProperties, LenProperties
  <2> HIDE DEF r
  <2>4. \A i \in DOMAIN r : (i \in 1 .. Len(l) /\ r[i] \in ToSet(l)) \/ i = Len(l) + 1
    BY <1>0, <2>3 DEF ToSet
  <2>5. KeysOnce(r)
    BY <1>0, <2>2, <2>3, <2>4 DEF KeysOnce, SameKey
  <2>6. ToSet(r) = ToSet(l) \union {e}
    BY <2>1, AppendIs
  <2> QED BY <1>1, <2>2, <2>5, <2>6 DEF r
<1>3. CASE same # {}
  <2> DEFINE i == CHOOSE j \in same : TRUE
  <2>1. i \in 1 .. Len(l) /\ SameKey(l[i], e)
    BY <1>3 DEF SameKey
  <2>2. r = [l EXCEPT ![i] = e]
    BY <1>3 DEF upsertEntry, Valid
  <2> HIDE DEF r, i
  <2>3. DOMAIN r = DOMAIN l /\ \A j \in DOMAIN l : r[j] = IF j = i THEN e ELSE l[j]
    BY <2>2
  <2>4. \A j \in DOMAIN l : SameKey(r[j], l[j])
    BY <2>1, <2>3 DEF SameKey
  <2>5. KeysOnce(r)
    BY <2>3, <2>4 DEF KeysOnce, SameKey
  <2>6. \A j \in DOMAIN l : j # i => ~SameKey(l[j], e)
    BY <1>0, <2>1 DEF KeysOnce, SameKey
  <2>7. ToSet(r) = {x \in ToSet(l) : ~SameKey(x, e)} \union {e}
    BY <1>0, <2>1, <2>3, <2>6 DEF ToSet
  <2> QED BY <1>1, <2>5, <2>7 DEF r
<1> QED BY <1>2, <1>3

\* Of the valid entries of a list, the last with each name is kept.
Survives(s, n, j) ==
    Valid(s[j]) /\ \A k \in 1 .. n : j < k /\ Valid(s[k]) => ~SameKey(s[k], s[j])

Kept(l, s, n) ==
    /\ KeysOnce(l)
    /\ \A e \in ToSet(l) : \E j \in 1 .. n : s[j] = e /\ Survives(s, n, j)
    /\ \A j \in 1 .. n : Valid(s[j]) => \E e \in ToSet(l) : SameKey(e, s[j])

LEMMA KeptStep ==
    ASSUME NEW s \in Seq(Entries), NEW l \in Seq(Entries), NEW n \in Nat, n + 1 <= Len(s),
           Kept(l, s, n)
    PROVE  Kept(upsertEntry(l, s[n + 1]), s, n + 1)
<1> DEFINE x == s[n + 1]
           r == upsertEntry(l, x)
<1>0. /\ x \in Entries /\ n + 1 \in 1 .. n + 1
      /\ \A j \in 1 .. n : j \in 1 .. n + 1 /\ j < n + 1
      /\ \A j \in 1 .. n + 1 : j \in 1 .. n \/ j = n + 1
  BY LenProperties, ElementOfSeq
<1>1. CASE ~Valid(x)
  <2>1. r = l
    BY <1>1 DEF upsertEntry, Valid
  <2>2. \A j \in 1 .. n : Survives(s, n, j) => Survives(s, n + 1, j)
    BY <1>0, <1>1 DEF Survives
  <2> HIDE DEF x, r
  <2>3. \A e \in ToSet(r) : \E j \in 1 .. n + 1 : s[j] = e /\ Survives(s, n + 1, j)
    BY <1>0, <2>1, <2>2 DEF Kept
  <2>4. \A j \in 1 .. n + 1 : Valid(s[j]) => \E e \in ToSet(r) : SameKey(e, s[j])
    BY <1>0, <1>1, <2>1 DEF Kept, x
  <2> QED BY <2>1, <2>3, <2>4 DEF Kept, r, x
<1>2. CASE Valid(x)
  <2>1. KeysOnce(r) /\ ToSet(r) = {e \in ToSet(l) : ~SameKey(e, x)} \union {x}
    BY <1>0, <1>2, UpsertIs DEF Kept
  <2> HIDE DEF r
  <2>2. Survives(s, n + 1, n + 1)
    BY <1>0, <1>2 DEF Survives
  <2>3. ASSUME NEW e \in ToSet(l), ~SameKey(e, x)
        PROVE  \E j \in 1 .. n + 1 : s[j] = e /\ Survives(s, n + 1, j)
    <3>1. PICK j \in 1 .. n : s[j] = e /\ Survives(s, n, j)
      BY DEF Kept
    <3>2. ~SameKey(x, s[j])
      BY <2>3, <3>1 DEF SameKey
    <3> QED BY <1>0, <3>1, <3>2 DEF Survives
  <2>4. \A e \in ToSet(r) : \E j \in 1 .. n + 1 : s[j] = e /\ Survives(s, n + 1, j)
    BY <1>0, <2>1, <2>2, <2>3
  <2>5. ASSUME NEW j \in 1 .. n + 1, Valid(s[j]) PROVE \E e \in ToSet(r) : SameKey(e, s[j])
    <3>1. CASE SameKey(s[j], x)
      BY <2>1, <3>1 DEF SameKey
    <3>2. CASE ~SameKey(s[j], x)
      <4>1. j \in 1 .. n
        BY <1>0, <3>2 DEF SameKey
      <4>2. PICK e \in ToSet(l) : SameKey(e, s[j])
        BY <2>5, <4>1 DEF Kept
      <4>3. ~SameKey(e, x)
        BY <3>2, <4>2 DEF SameKey
      <4> QED BY <2>1, <4>2, <4>3
    <3> QED BY <3>1, <3>2
  <2> QED BY <2>1, <2>4, <2>5 DEF Kept, r
<1> QED BY <1>1, <1>2

LEMMA EntriesAre ==
    ASSUME NEW c \in Configurations
    PROVE  LET s == c.legacy \o c.listed
           IN  /\ s \in Seq(Entries)
               /\ AccountConfigEntries(c) \in Seq(Entries)
               /\ Kept(AccountConfigEntries(c), s, Len(s))
<1> DEFINE s == c.legacy \o c.listed
<1>1. s \in Seq(Entries) /\ Len(s) \in Nat
  BY ConcatProperties, LenProperties DEF Configurations
<1>2. AccountConfigEntries(c) = FoldLeft(upsertEntry, << >>, s)
  BY DEF AccountConfigEntries
<1> HIDE DEF s
<1>3. PICK h : UpsertRun(h, s)
  BY <1>1, UpsertRuns
<1>4. /\ h \in [0 .. Len(s) -> Seq(Entries)] /\ h[0] = << >>
      /\ \A i \in 1 .. Len(s) : h[i] = upsertEntry(h[i - 1], s[i])
      /\ h[Len(s)] = AccountConfigEntries(c)
  BY <1>2, <1>3 DEF UpsertRun
<1> DEFINE T == {n \in Nat : n <= Len(s) => Kept(h[n], s, n)}
<1>5. 0 \in T
  <2>1. Kept(<< >>, s, 0)
    BY DEF Kept, KeysOnce, ToSet
  <2> QED BY <1>4, <2>1
<1>6. ASSUME NEW n \in Nat, n \in T PROVE n + 1 \in T
  <2>1. CASE n + 1 <= Len(s)
    <3>1. /\ n + 1 \in 1 .. Len(s) /\ (n + 1) - 1 = n /\ n \in 0 .. Len(s)
          /\ Kept(h[n], s, n) /\ h[n] \in Seq(Entries)
      BY <1>1, <1>4, <1>6, <2>1
    <3>2. h[n + 1] = upsertEntry(h[n], s[n + 1])
      BY <1>4, <3>1
    <3>3. Kept(h[n + 1], s, n + 1)
      BY <1>1, <2>1, <3>1, <3>2, KeptStep
    <3> QED BY <3>3
  <2> QED BY <2>1
<1>7. Kept(h[Len(s)], s, Len(s))
  <2>1. Nat \subseteq T
    <3> HIDE DEF T
    <3> QED BY <1>5, <1>6, SetInduction
  <2> QED BY <1>1, <2>1
<1>8. h[Len(s)] \in Seq(Entries)
  BY <1>1, <1>4
<1> QED BY <1>1, <1>4, <1>7, <1>8 DEF s

-----------------------------------------------------------------------------
(* The accounts key written anew.                                          *)

LEMMA KeysTell ==
    ASSUME NEW l \in Seq(Entries), KeysOnce(l)
    PROVE  /\ \A e, f \in ToSet(l) : SameKey(e, f) => e = f
           /\ IsInjective(l)
BY DEF KeysOnce, SameKey, ToSet, IsInjective

LEMMA GroupedIs ==
    ASSUME NEW l \in Seq(Entries), \A e \in ToSet(l) : Valid(e)
    PROVE  /\ accountEntriesForConfig(l) \in Seq(Entries)
           /\ ToSet(accountEntriesForConfig(l)) = ToSet(l)
<1> DEFINE kinds == << "codex", "grok", "kimi", "qwen" >>
           Of(i) == {e \in ToSet(l) : e.provider = kinds[i]}
           ss == [i \in 1 .. 4 |-> Among(l, Of(i))]
<1>1. accountEntriesForConfig(l) = FlattenSeq(ss)
  BY DEF accountEntriesForConfig
<1>2. \A i \in 1 .. 4 : Among(l, Of(i)) \in Seq(Entries) /\ ToSet(Among(l, Of(i))) = Of(i)
  <2> SUFFICES ASSUME NEW i \in 1 .. 4
               PROVE  Among(l, Of(i)) \in Seq(Entries) /\ ToSet(Among(l, Of(i))) = Of(i)
    OBVIOUS
  <2>1. ToSet(l) \cap Of(i) = Of(i)
    OBVIOUS
  <2> HIDE DEF Of
  <2> QED BY <2>1, AmongIs
<1>3. \A p \in AccountKinds : \E i \in 1 .. 4 : kinds[i] = p
  <2>1. kinds[1] = "codex" /\ kinds[2] = "grok" /\ kinds[3] = "kimi" /\ kinds[4] = "qwen"
    OBVIOUS
  <2> HIDE DEF kinds
  <2> QED BY <2>1 DEF AccountKinds
<1>4. UNION {Of(i) : i \in 1 .. 4} = ToSet(l)
  <2>1. \A e \in ToSet(l) : \E i \in 1 .. 4 : e \in Of(i)
    BY <1>3 DEF Valid
  <2> HIDE DEF kinds
  <2> QED BY <2>1
<1> HIDE DEF Of
<1>5. DOMAIN ss = 1 .. 4 /\ ss \in Seq(Seq(Entries))
  BY <1>2
<1>6. UNION {ToSet(ss[i]) : i \in DOMAIN ss} = UNION {Of(i) : i \in 1 .. 4}
  BY <1>2, <1>5
<1> HIDE DEF ss
<1> QED BY <1>1, <1>4, <1>5, <1>6, FlattenIs

EntrySet(c) == ToSet(AccountConfigEntries(c))

LEMMA EntrySetIs ==
    ASSUME NEW c \in Configurations
    PROVE  /\ AccountConfigEntries(c) \in Seq(Entries)
           /\ KeysOnce(AccountConfigEntries(c))
           /\ EntrySet(c) \subseteq Entries
           /\ \A e \in EntrySet(c) : Valid(e)
           /\ \A e, f \in EntrySet(c) : SameKey(e, f) => e = f
           /\ \A e \in ToSet(c.legacy) : Valid(e) => \E f \in EntrySet(c) : SameKey(f, e)
<1> DEFINE l == AccountConfigEntries(c)
           s == c.legacy \o c.listed
<1>1. l \in Seq(Entries) /\ Kept(l, s, Len(s))
  BY EntriesAre
<1>2. /\ c.legacy \in Seq(Entries) /\ c.listed \in Seq(Entries)
      /\ s \in Seq(Entries) /\ DOMAIN s = 1 .. Len(s)
      /\ ToSet(c.legacy) \subseteq ToSet(s)
  <2>1. c.legacy \in Seq(Entries) /\ c.listed \in Seq(Entries)
    BY DEF Configurations
  <2> QED BY <2>1, ConcatIs, LenProperties
<1> HIDE DEF l, s
<1>3. ToSet(l) \subseteq Entries
  BY <1>1, LenProperties, ElementOfSeq DEF ToSet
<1>4. \A e \in ToSet(l) : Valid(e)
  BY <1>1 DEF Kept, Survives
<1>5. ASSUME NEW e \in ToSet(c.legacy), Valid(e) PROVE \E f \in ToSet(l) : SameKey(f, e)
  <2>1. PICK i \in 1 .. Len(s) : s[i] = e
    BY <1>2 DEF ToSet
  <2> QED BY <1>1, <1>5, <2>1 DEF Kept
<1> QED BY <1>1, <1>3, <1>4, <1>5, KeysTell DEF EntrySet, Kept, l

\* The accounts key written anew: what it lists is read back, and beside it
\* only what the legacy key alone has.
LEMMA Rewritten ==
    ASSUME NEW c \in Configurations, NEW b \in Seq(Entries),
           \A e \in ToSet(b) : Valid(e),
           \A e, f \in ToSet(b) : SameKey(e, f) => e = f,
           NEW d, d = [c EXCEPT !.listed = accountEntriesForConfig(b)]
    PROVE  /\ d \in Configurations /\ d.legacy = c.legacy
           /\ ToSet(b) \subseteq EntrySet(d)
           /\ \A e \in EntrySet(d) :
                 \/ e \in ToSet(b)
                 \/ e \in ToSet(c.legacy) /\ \A f \in ToSet(b) : ~SameKey(f, e)
<1> DEFINE l == AccountConfigEntries(d)
           s == d.legacy \o d.listed
<1>1. /\ d \in Configurations /\ d.legacy = c.legacy /\ d.listed \in Seq(Entries)
      /\ d.legacy \in Seq(Entries)
      /\ ToSet(d.listed) = ToSet(b)
  BY GroupedIs DEF Configurations
<1>2. l \in Seq(Entries) /\ Kept(l, s, Len(s))
  BY <1>1, EntriesAre
<1>3. /\ DOMAIN d.legacy = 1 .. Len(d.legacy) /\ DOMAIN d.listed = 1 .. Len(d.listed)
      /\ Len(d.legacy) \in Nat /\ Len(d.listed) \in Nat
      /\ Len(s) = Len(d.legacy) + Len(d.listed)
      /\ \A i \in 1 .. Len(d.legacy) + Len(d.listed) :
            s[i] = IF i <= Len(d.legacy) THEN d.legacy[i] ELSE d.listed[i - Len(d.legacy)]
  BY <1>1, LenProperties, ConcatProperties
<1> HIDE DEF l, s
<1>4. \A j \in 1 .. Len(s) : \/ j <= Len(d.legacy) /\ s[j] \in ToSet(c.legacy)
                             \/ j > Len(d.legacy) /\ s[j] \in ToSet(b)
  <2> SUFFICES ASSUME NEW j \in 1 .. Len(s)
               PROVE  \/ j <= Len(d.legacy) /\ s[j] \in ToSet(c.legacy)
                      \/ j > Len(d.legacy) /\ s[j] \in ToSet(b)
    OBVIOUS
  <2>1. CASE j <= Len(d.legacy)
    <3>1. j \in DOMAIN d.legacy /\ s[j] = d.legacy[j]
      BY <1>3, <2>1
    <3>2. s[j] \in ToSet(d.legacy)
      BY <3>1 DEF ToSet
    <3> QED BY <1>1, <2>1, <3>2
  <2>2. CASE ~(j <= Len(d.legacy))
    <3>1. j - Len(d.legacy) \in DOMAIN d.listed /\ s[j] = d.listed[j - Len(d.legacy)] /\ j > Len(d.legacy)
      BY <1>3, <2>2
    <3>2. s[j] \in ToSet(d.listed)
      BY <3>1 DEF ToSet
    <3> QED BY <1>1, <3>1, <3>2
  <2> QED BY <2>1, <2>2
<1>5. \A e \in ToSet(b) : \E k \in 1 .. Len(s) : k > Len(d.legacy) /\ s[k] = e
  <2> SUFFICES ASSUME NEW e \in ToSet(b)
               PROVE  \E k \in 1 .. Len(s) : k > Len(d.legacy) /\ s[k] = e
    OBVIOUS
  <2>1. PICK i \in 1 .. Len(d.listed) : d.listed[i] = e
    BY <1>1, <1>3 DEF ToSet
  <2>2. i + Len(d.legacy) \in 1 .. Len(s) /\ i + Len(d.legacy) > Len(d.legacy)
        /\ s[i + Len(d.legacy)] = d.listed[i]
    BY <1>3
  <2> QED BY <2>1, <2>2
<1>6. ASSUME NEW e \in ToSet(b) PROVE e \in ToSet(l)
  <2>1. PICK k \in 1 .. Len(s) : k > Len(d.legacy) /\ s[k] = e
    BY <1>5
  <2>2. PICK f \in ToSet(l) : SameKey(f, e)
    BY <1>2, <2>1 DEF Kept
  <2>3. PICK j \in 1 .. Len(s) : s[j] = f /\ Survives(s, Len(s), j)
    BY <1>2 DEF Kept
  <2>4. ~(j < k)
    BY <2>1, <2>2, <2>3 DEF Survives, SameKey
  <2>5. j > Len(d.legacy)
    BY <1>3, <2>1, <2>4
  <2>6. f \in ToSet(b)
    BY <1>3, <1>4, <2>3, <2>5
  <2> QED BY <2>2, <2>6
<1>7. ASSUME NEW e \in ToSet(l), e \notin ToSet(b)
      PROVE  e \in ToSet(c.legacy) /\ \A f \in ToSet(b) : ~SameKey(f, e)
  <2>1. PICK j \in 1 .. Len(s) : s[j] = e /\ Survives(s, Len(s), j)
    BY <1>2 DEF Kept
  <2>2. j <= Len(d.legacy) /\ e \in ToSet(c.legacy)
    BY <1>4, <1>7, <2>1
  <2>3. ASSUME NEW f \in ToSet(b), SameKey(f, e) PROVE FALSE
    <3>1. PICK k \in 1 .. Len(s) : k > Len(d.legacy) /\ s[k] = f
      BY <1>5
    <3>2. j < k
      BY <1>3, <2>2, <3>1
    <3> QED BY <2>1, <2>3, <3>1, <3>2 DEF Survives
  <2> QED BY <2>2, <2>3
<1> QED BY <1>1, <1>6, <1>7 DEF EntrySet, l

LEMMA UpsertAccountIs ==
    ASSUME NEW c \in Configurations, NEW p \in AccountKinds, NEW n \in STRING,
           NEW h \in STRING \ {None}
    PROVE  LET d == upsertAccount(c, p, n, h)
           IN  /\ d \in Configurations /\ d.legacy = c.legacy
               /\ \E f \in Entries :
                     /\ Same(f, p, n) /\ f.home = h
                     /\ (\A e \in EntrySet(c) : ~Same(e, p, n)) => ~f.token
                     /\ EntrySet(d) = {e \in EntrySet(c) : ~Same(e, p, n)} \union {f}
<1> DEFINE l == AccountConfigEntries(c)
           there == {i \in DOMAIN l : Same(l[i], p, n)}
           new == [provider |-> p, name |-> n, home |-> h, token |-> FALSE]
           b == IF there = {} THEN Append(l, new)
                ELSE [i \in DOMAIN l |-> IF i \in there THEN [l[i] EXCEPT !.home = h] ELSE l[i]]
           d == upsertAccount(c, p, n, h)
<1>1. d = [c EXCEPT !.listed = accountEntriesForConfig(b)]
  BY DEF upsertAccount
<1>2. /\ l \in Seq(Entries) /\ KeysOnce(l) /\ DOMAIN l = 1 .. Len(l) /\ Len(l) \in Nat
      /\ \A i \in DOMAIN l : l[i] \in Entries /\ Valid(l[i])
      /\ ToSet(l) = EntrySet(c)
  BY EntrySetIs, LenProperties, ElementOfSeq DEF EntrySet, ToSet
<1>3. \A e, f \in EntrySet(c) : SameKey(e, f) => e = f
  BY EntrySetIs
<1>4. new \in Entries /\ Valid(new) /\ Same(new, p, n)
  <2>1. p \in STRING
    <3> HIDE DEF l, there, new, b, d
    <3> QED BY LiteralsAssumption
  <2>2. new \in Entries
    BY <2>1 DEF Entries
  <2>3. Valid(new) /\ Same(new, p, n)
    BY DEF Valid, Same
  <2> QED BY <2>2, <2>3
<1>5. \E f \in Entries :
         /\ Same(f, p, n) /\ f.home = h /\ Valid(f)
         /\ (\A e \in EntrySet(c) : ~Same(e, p, n)) => ~f.token
         /\ b \in Seq(Entries)
         /\ ToSet(b) = {e \in EntrySet(c) : ~Same(e, p, n)} \union {f}
  <2>1. CASE there = {}
    <3>1. b = Append(l, new)
      BY <2>1
    <3>2. \A e \in ToSet(l) : ~Same(e, p, n)
      BY <2>1 DEF ToSet
    <3>4. ~new.token /\ new.home = h
      OBVIOUS
    <3> HIDE DEF b, l, new
    <3>3. b \in Seq(Entries) /\ ToSet(b) = ToSet(l) \union {new}
      BY <1>2, <1>4, <3>1, AppendIs
    <3> QED BY <1>2, <1>4, <3>2, <3>3, <3>4
  <2>2. CASE there # {}
    <3>1. PICK i \in DOMAIN l : Same(l[i], p, n)
      BY <2>2
    <3>2. \A j \in DOMAIN l : Same(l[j], p, n) => j = i
      BY <1>2, <3>1 DEF KeysOnce, SameKey, Same
    <3> DEFINE f == [l[i] EXCEPT !.home = h]
    <3>3. f \in Entries /\ Same(f, p, n) /\ f.home = h /\ Valid(f)
      BY <1>2, <3>1 DEF Entries, Same, Valid
    <3>4. DOMAIN b = DOMAIN l /\ \A j \in DOMAIN l : b[j] = IF j = i THEN f ELSE l[j]
      BY <2>2, <3>1, <3>2
    <3>5. b \in Seq(Entries)
      <4>1. b = [j \in 1 .. Len(l) |-> b[j]] /\ \A j \in 1 .. Len(l) : b[j] \in Entries
        BY <1>2, <2>2, <3>3, <3>4
      <4> HIDE DEF b
      <4> QED BY <1>2, <4>1
    <3>6. l[i] \in EntrySet(c)
      BY <1>2 DEF ToSet
    <3> HIDE DEF b, f
    <3>7. ToSet(b) = {e \in ToSet(l) : ~Same(e, p, n)} \union {f}
      BY <3>1, <3>2, <3>4 DEF ToSet
    <3> QED BY <1>2, <3>1, <3>3, <3>5, <3>6, <3>7
  <2> QED BY <2>1, <2>2
<1>6. PICK f \in Entries :
         /\ Same(f, p, n) /\ f.home = h /\ Valid(f)
         /\ (\A e \in EntrySet(c) : ~Same(e, p, n)) => ~f.token
         /\ b \in Seq(Entries)
         /\ ToSet(b) = {e \in EntrySet(c) : ~Same(e, p, n)} \union {f}
  BY <1>5
<1> HIDE DEF b, d
<1>7. \A e \in ToSet(b) : Valid(e)
  BY <1>6, EntrySetIs
<1>8. \A e, g \in ToSet(b) : SameKey(e, g) => e = g
  BY <1>3, <1>6 DEF SameKey, Same
<1>9. /\ d \in Configurations /\ d.legacy = c.legacy
      /\ ToSet(b) \subseteq EntrySet(d)
      /\ \A e \in EntrySet(d) :
            \/ e \in ToSet(b)
            \/ e \in ToSet(c.legacy) /\ \A g \in ToSet(b) : ~SameKey(g, e)
  BY <1>1, <1>6, <1>7, <1>8, Rewritten
<1>10. ASSUME NEW e \in EntrySet(d), e \notin ToSet(b) PROVE FALSE
  <2>1. Valid(e) /\ e \in ToSet(c.legacy) /\ \A g \in ToSet(b) : ~SameKey(g, e)
    BY <1>9, <1>10, EntrySetIs
  <2>2. PICK g \in EntrySet(c) : SameKey(g, e)
    BY <2>1, EntrySetIs
  <2> QED BY <1>6, <2>1, <2>2 DEF SameKey, Same
<1>11. EntrySet(d) = ToSet(b)
  BY <1>9, <1>10
<1> QED BY <1>6, <1>9, <1>11 DEF d

LEMMA WithoutAccountIs ==
    ASSUME NEW c \in Configurations, NEW p, NEW n
    PROVE  LET d == withoutAccount(c, p, n)
           IN  /\ d \in Configurations /\ d.legacy = c.legacy
               /\ {e \in EntrySet(c) : ~Same(e, p, n)} = {e \in EntrySet(d) : ~Same(e, p, n)}
               /\ \A e \in EntrySet(d) : Same(e, p, n) => e \in ToSet(c.legacy)
<1> DEFINE l == AccountConfigEntries(c)
           others == {e \in ToSet(l) : ~Same(e, p, n)}
           b == Among(l, others)
           d == withoutAccount(c, p, n)
<1>1. d = [c EXCEPT !.listed = accountEntriesForConfig(b)]
  BY DEF withoutAccount
<1>2. l \in Seq(Entries) /\ ToSet(l) = EntrySet(c)
  BY EntrySetIs DEF EntrySet
<1>3. b \in Seq(Entries) /\ ToSet(b) = {e \in EntrySet(c) : ~Same(e, p, n)}
  <2>1. ToSet(l) \cap others = {e \in EntrySet(c) : ~Same(e, p, n)}
    BY <1>2
  <2> HIDE DEF l, others
  <2> QED BY <1>2, <2>1, AmongIs
<1> HIDE DEF b, d
<1>4. \A e \in ToSet(b) : Valid(e)
  BY <1>3, EntrySetIs
<1>5. \A e, g \in ToSet(b) : SameKey(e, g) => e = g
  BY <1>3, EntrySetIs
<1>6. /\ d \in Configurations /\ d.legacy = c.legacy
      /\ ToSet(b) \subseteq EntrySet(d)
      /\ \A e \in EntrySet(d) :
            \/ e \in ToSet(b)
            \/ e \in ToSet(c.legacy) /\ \A g \in ToSet(b) : ~SameKey(g, e)
  BY <1>1, <1>3, <1>4, <1>5, Rewritten
<1>7. ASSUME NEW e \in EntrySet(d), e \notin ToSet(b) PROVE Same(e, p, n) /\ e \in ToSet(c.legacy)
  <2>1. Valid(e) /\ e \in ToSet(c.legacy) /\ \A g \in ToSet(b) : ~SameKey(g, e)
    BY <1>6, <1>7, EntrySetIs
  <2>2. PICK g \in EntrySet(c) : SameKey(g, e)
    BY <2>1, EntrySetIs
  <2> QED BY <1>3, <2>1, <2>2 DEF SameKey, Same
<1> QED BY <1>3, <1>6, <1>7 DEF d

-----------------------------------------------------------------------------
(* The names rows are made for, and the rows.                              *)

\* The names rows are made for.
RowNames == Standalone \union ToSet(Tools)

ToolNames == {"claude", "commandcode", "cursor-agent", "opencode", "codex",
              "agy", "copilot", "kimi", "qwen", "mmx"}
ProviderNames == {"agy", "claude", "commandcode", "cursor-agent", "copilot", "opencode", "codex",
                  "kimi", "zai", "qwen", "deepseek", "openrouter", "minimax", "grok"}

LEMMA NamesAre == ToSet(Tools) = ToolNames /\ ToSet(providers) = ProviderNames
<1>1. ToSet(Tools) = ToolNames
  BY DEF Tools, ToolNames, ToSet
<1>2. ToSet(providers) = ProviderNames
  BY DEF providers, ProviderNames, ToSet
<1> QED BY <1>1, <1>2

\* The registry entry of a row's name: its own, but of MiniMax.
EntryOf(n) == IF n = "mmx" THEN "minimax" ELSE n

LEMMA RowNameFacts ==
    ASSUME NEW n \in RowNames
    PROVE  /\ NormalizeToolName(n) = n
           /\ lookupProviderName(n) = EntryOf(n)
           /\ EntryOf(n) \in ToSet(providers)
           /\ n \in STRING
           /\ EntryOf(n) \in AccountKinds => EntryOf(n) = n
           /\ n \in AccountKinds => EntryOf(n) = n
<1>1. n \in ToolNames \union {"zai", "deepseek", "openrouter", "grok"}
  BY NamesAre DEF RowNames, Standalone
<1>2. NormalizeToolName(n) = n
  BY <1>1 DEF NormalizeToolName, ToolNames
<1>3. \A p \in ProviderNames : n = p \/ n \in Aliases[p] <=> p = EntryOf(n)
  <2>1. \A p \in ProviderNames :
           Aliases[p] = IF p = "agy" THEN {"antigravity", "gemini"}
                        ELSE IF p = "zai" THEN {"zhipu"}
                        ELSE IF p = "minimax" THEN {"mmx"} ELSE {}
    BY NamesAre DEF Aliases
  <2> SUFFICES ASSUME NEW p \in ProviderNames
               PROVE  n = p \/ n \in Aliases[p] <=> p = EntryOf(n)
    OBVIOUS
  <2>2. n # "antigravity" /\ n # "gemini" /\ n # "zhipu" /\ n # "minimax" /\ p # "mmx"
    BY <1>1 DEF ToolNames, ProviderNames
  <2> QED BY <2>1, <2>2 DEF EntryOf
<1>4. EntryOf(n) \in ProviderNames
  BY <1>1 DEF ToolNames, ProviderNames, EntryOf
<1>5. {p \in ToSet(providers) : n = p \/ n \in Aliases[p]} = {EntryOf(n)}
  BY <1>3, <1>4, NamesAre
<1>6. lookupProviderName(n) = EntryOf(n)
  BY <1>5 DEF lookupProviderName
<1>7. n \in STRING
  BY LiteralsAssumption DEF RowNames
<1>8. /\ EntryOf(n) \in AccountKinds => EntryOf(n) = n
      /\ n \in AccountKinds => EntryOf(n) = n
  BY DEF AccountKinds, EntryOf
<1> QED BY <1>2, <1>4, <1>6, <1>7, <1>8, NamesAre

LEMMA StandaloneIs ==
    ASSUME NEW n
    PROVE  LookupStandalone(n) \in Standalone \union {None} /\ None \notin RowNames
<1>1. None \notin RowNames
  BY NamesAre DEF None, RowNames, Standalone, ToolNames
<1> QED BY <1>1 DEF LookupStandalone

LEMMA FunctionIsSeq ==
    ASSUME NEW D, NEW k \in Nat, NEW f \in [1 .. k -> D]
    PROVE  f \in Seq(D) /\ Len(f) = k /\ DOMAIN f = 1 .. k
OBVIOUS

LEMMA SeqWithin ==
    ASSUME NEW D, NEW s \in Seq(D), NEW E, ToSet(s) \subseteq E
    PROVE  s \in Seq(E)
<1>1. DOMAIN s = 1 .. Len(s) /\ Len(s) \in Nat
  BY LenProperties
<1>2. s = [i \in 1 .. Len(s) |-> s[i]] /\ \A i \in 1 .. Len(s) : s[i] \in E
  BY <1>1 DEF ToSet
<1>3. s \in [1 .. Len(s) -> E]
  BY <1>2
<1> QED BY <1>1, <1>3, FunctionIsSeq

\* A list of tools, each of them once.
ToolList(ts) == ts \in Seq(ToSet(Tools)) /\ IsInjective(ts)

LEMMA OrderedTools ==
    ASSUME NEW order, Len(order) \in Nat
    PROVE  ToolList(GetOrderedTools(order)) /\ ToSet(GetOrderedTools(order)) = ToSet(Tools)
<1> DEFINE f == [i \in 1 .. Len(order) |->
                    IF Len(order[i]) = 1 THEN NormalizeToolName(order[i][1]) ELSE None]
           D == {f[i] : i \in 1 .. Len(order)} \union ToSet(Tools)
           s == Distinct(f \o Tools)
<1>1. f \in Seq(D) /\ Tools \in Seq(D)
  <2>1. f \in [1 .. Len(order) -> D]
    OBVIOUS
  <2>2. Tools \in [1 .. 10 -> D]
    BY DEF Tools, ToSet
  <2> HIDE DEF f, D
  <2>3. f \in Seq(D)
    BY <2>1, FunctionIsSeq
  <2>4. Tools \in Seq(D)
    BY <2>2, FunctionIsSeq
  <2> QED BY <2>3, <2>4
<1> HIDE DEF f, D
<1>2. f \o Tools \in Seq(D) /\ ToSet(f \o Tools) = ToSet(f) \union ToSet(Tools)
  BY <1>1, ConcatIs
<1>3. s \in Seq(D) /\ IsInjective(s) /\ ToSet(s) = ToSet(f) \union ToSet(Tools)
  BY <1>2, DistinctIs
<1>4. GetOrderedTools(order) = Among(s, ToSet(Tools))
  BY DEF GetOrderedTools, f
<1> HIDE DEF s
<1>6. ToSet(s) \cap ToSet(Tools) = ToSet(Tools)
  BY <1>3
<1>5. /\ GetOrderedTools(order) \in Seq(D)
      /\ ToSet(GetOrderedTools(order)) = ToSet(Tools)
      /\ IsInjective(GetOrderedTools(order))
  BY <1>3, <1>4, <1>6, AmongIs
<1> QED BY <1>5, SeqWithin DEF ToolList

LEMMA FilteredTools ==
    ASSUME NEW enabled, NEW tools, ToolList(tools)
    PROVE  ToolList(GetFilteredTools(enabled, tools))
<1>1. CASE enabled = << >>
  BY <1>1 DEF GetFilteredTools
<1>2. CASE enabled # << >>
  <2>1. \E S : GetFilteredTools(enabled, tools) = Among(tools, S)
    BY <1>2 DEF GetFilteredTools
  <2> QED BY <2>1, AmongIs DEF ToolList
<1> QED BY <1>1, <1>2

LEMMA SelectedIs ==
    ASSUME NEW c \in Configurations
    PROVE  ToolList(SelectedTools(c))
<1> DEFINE order == IF c.order # << >> THEN c.order
                    ELSE [i \in 1 .. Len(providers) |-> << providers[i] >>]
<1>1. Len(order) \in Nat
  <2>1. Len(providers) = 14
    BY DEF providers
  <2>2. c.order \in Seq(LabelNames)
    BY DEF Configurations
  <2> QED BY <2>1, <2>2, LenProperties
<1>2. SelectedTools(c) = GetFilteredTools(c.enabled, GetOrderedTools(order))
  BY DEF SelectedTools
<1> HIDE DEF order
<1> QED BY <1>1, <1>2, OrderedTools, FilteredTools

LEMMA AccountsAre ==
    ASSUME NEW c \in Configurations, NEW p
    PROVE  LET accounts == AccountsForProvider(c, p)
           IN  /\ accounts \in Seq(Entries) /\ IsInjective(accounts)
               /\ ToSet(accounts) = {e \in EntrySet(c) : e.provider = p /\ ~e.token}
               /\ \A e \in ToSet(accounts) :
                     e \in Entries /\ e.provider = p /\ p \in AccountKinds /\ e.home # None
               /\ \A e, f \in ToSet(accounts) : e.name = f.name => e = f
<1> DEFINE l == AccountConfigEntries(c)
           S == {e \in ToSet(l) : e.provider = p /\ ~e.token}
           accounts == AccountsForProvider(c, p)
<1>1. /\ l \in Seq(Entries) /\ IsInjective(l) /\ ToSet(l) = EntrySet(c)
      /\ EntrySet(c) \subseteq Entries
      /\ \A e \in EntrySet(c) : Valid(e)
      /\ \A e, f \in EntrySet(c) : SameKey(e, f) => e = f
  BY EntrySetIs, KeysTell DEF EntrySet
<1>2. accounts = Among(l, S)
  BY DEF AccountsForProvider
<1>3. S = {e \in EntrySet(c) : e.provider = p /\ ~e.token} /\ ToSet(l) \cap S = S
  BY <1>1
<1> HIDE DEF l, S, accounts
<1>4. accounts \in Seq(Entries) /\ IsInjective(accounts) /\ ToSet(accounts) = S
  BY <1>1, <1>2, <1>3, AmongIs
<1>5. \A e \in S : e \in Entries /\ e.provider = p /\ p \in AccountKinds /\ e.home # None
  BY <1>1, <1>3 DEF Valid
<1>6. \A e, f \in S : e.name = f.name => e = f
  BY <1>1, <1>3 DEF SameKey
<1> QED BY <1>3, <1>4, <1>5, <1>6 DEF accounts

LEMMA SingletonIsSeq ==
    ASSUME NEW D, NEW x \in D
    PROVE  << x >> \in Seq(D)
OBVIOUS

RowRecords == [label : Seq(STRING), provider : ToSet(providers), home : STRING]

\* The row of account e of the provider n, one of several or the only one.
AccountRow(n, e, several) ==
    [label |-> IF several THEN << n, e.name >> ELSE << n >>, provider |-> n, home |-> e.home]

PlainRow(n) == [label |-> << n >>, provider |-> EntryOf(n), home |-> None]

Several(c, n) == \E e, f \in ToSet(AccountsForProvider(c, n)) : e # f

LEMMA RowsAre ==
    ASSUME NEW c \in Configurations, NEW n \in RowNames
    PROVE  /\ RowsOf(c, n) \in Seq(RowRecords) /\ IsInjective(RowsOf(c, n))
           /\ ToSet(RowsOf(c, n)) =
                 IF ToSet(AccountsForProvider(c, n)) = {} THEN {PlainRow(n)}
                 ELSE {AccountRow(n, e, Several(c, n)) : e \in ToSet(AccountsForProvider(c, n))}
<1> DEFINE accounts == AccountsForProvider(c, n)
           rows == accountFetchJobs(c, n)
           several == Several(c, n)
<1>1. /\ accounts \in Seq(Entries) /\ IsInjective(accounts)
      /\ \A e \in ToSet(accounts) :
            e \in Entries /\ e.provider = n /\ n \in AccountKinds /\ e.home # None
      /\ \A e, f \in ToSet(accounts) : e.name = f.name => e = f
  BY AccountsAre
<1>2. /\ NormalizeToolName(n) = n /\ lookupProviderName(n) = EntryOf(n)
      /\ EntryOf(n) \in ToSet(providers) /\ n \in STRING /\ None \in STRING
      /\ n \in AccountKinds => EntryOf(n) = n
  BY RowNameFacts, LiteralsAssumption
<1>3. DOMAIN accounts = 1 .. Len(accounts) /\ Len(accounts) \in Nat
  BY <1>1, LenProperties
<1>4. Len(accounts) > 1 <=> several
  <2>1. ASSUME Len(accounts) > 1 PROVE several
    <3>1. 1 \in DOMAIN accounts /\ 2 \in DOMAIN accounts /\ accounts[1] # accounts[2]
      BY <1>1, <1>3, <2>1 DEF IsInjective
    <3> QED BY <3>1 DEF ToSet, Several
  <2>2. ASSUME several PROVE Len(accounts) > 1
    <3>1. PICK i, k \in DOMAIN accounts : accounts[i] # accounts[k]
      BY <2>2 DEF ToSet, Several
    <3> QED BY <1>3, <3>1
  <2> QED BY <2>1, <2>2
<1>5. rows = [i \in 1 .. Len(accounts) |-> AccountRow(n, accounts[i], several)]
  <2>1. rows = [i \in 1 .. Len(accounts) |->
                  [label |-> IF Len(accounts) > 1 THEN << n, accounts[i].name >> ELSE << n >>,
                   provider |-> n, home |-> accounts[i].home]]
    BY <1>2 DEF accountFetchJobs
  <2> QED BY <1>4, <2>1 DEF AccountRow
<1> HIDE DEF several, accounts, rows
<1>6. \A i \in 1 .. Len(accounts) : accounts[i] \in ToSet(accounts)
  BY <1>3 DEF ToSet
<1>7. \A i \in 1 .. Len(accounts) : AccountRow(n, accounts[i], several) \in RowRecords
  <2> SUFFICES ASSUME NEW i \in 1 .. Len(accounts)
               PROVE  AccountRow(n, accounts[i], several) \in RowRecords
    OBVIOUS
  <2>1. accounts[i].name \in STRING /\ accounts[i].home \in STRING /\ n \in ToSet(providers)
    BY <1>1, <1>2, <1>6 DEF Entries
  <2>2. << n, accounts[i].name >> \in Seq(STRING) /\ << n >> \in Seq(STRING)
    BY <1>2, <2>1
  <2> QED BY <2>1, <2>2 DEF AccountRow, RowRecords
<1>8. rows \in Seq(RowRecords) /\ DOMAIN rows = 1 .. Len(accounts) /\ Len(rows) = Len(accounts)
  <2>1. rows \in [1 .. Len(accounts) -> RowRecords]
    BY <1>5, <1>7
  <2> QED BY <1>3, <2>1, FunctionIsSeq
<1>9. CASE accounts = << >>
  <2>1. rows = << >>
    BY <1>3, <1>8, <1>9, EmptySeq
  <2>2. RowsOf(c, n) = << PlainRow(n) >>
    BY <1>2, <2>1 DEF RowsOf, PlainRow, rows
  <2>3. PlainRow(n) \in RowRecords
    <3>1. << n >> \in Seq(STRING)
      BY <1>2, SingletonIsSeq
    <3> QED BY <1>2, <3>1 DEF PlainRow, RowRecords
  <2>4. ToSet(accounts) = {}
    BY <1>9 DEF ToSet
  <2>5. ToSet(<< PlainRow(n) >>) = {PlainRow(n)} /\ IsInjective(<< PlainRow(n) >>)
    BY DEF ToSet, IsInjective
  <2> QED BY <2>2, <2>3, <2>4, <2>5 DEF accounts
<1>10. CASE accounts # << >>
  <2>1. 1 \in DOMAIN accounts /\ rows # << >>
    BY <1>1, <1>3, <1>8, <1>10, EmptySeq
  <2>2. RowsOf(c, n) = rows
    BY <2>1 DEF RowsOf, rows
  <2>3. ToSet(accounts) # {}
    BY <2>1 DEF ToSet
  <2>4. ToSet(rows) = {AccountRow(n, e, several) : e \in ToSet(accounts)}
    BY <1>3, <1>5, <1>8 DEF ToSet
  <2>5. \A i, k \in 1 .. Len(accounts) :
           AccountRow(n, accounts[i], several) = AccountRow(n, accounts[k], several) => i = k
    <3> SUFFICES ASSUME NEW i \in 1 .. Len(accounts), NEW k \in 1 .. Len(accounts),
                        AccountRow(n, accounts[i], several) = AccountRow(n, accounts[k], several),
                        i # k
                 PROVE  FALSE
      OBVIOUS
    <3>1. accounts[i] # accounts[k] /\ several
      BY <1>1, <1>3, <1>6 DEF IsInjective, Several, accounts, several
    <3>2. << n, accounts[i].name >> = << n, accounts[k].name >>
      BY <3>1 DEF AccountRow
    <3>3. accounts[i].name = accounts[k].name
      BY <3>2
    <3> QED BY <1>1, <1>6, <3>1, <3>3
  <2>6. IsInjective(rows)
    BY <1>5, <1>8, <2>5 DEF IsInjective
  <2> QED BY <1>8, <2>2, <2>3, <2>4, <2>6 DEF accounts, several
<1> QED BY <1>9, <1>10

\* The names of rows an entry of a list stands for, one or none.
NamesOf(c, n) ==
    IF LookupStandalone(n) # None
    THEN IF LookupStandalone(n) \in standaloneAllowedNames(c) THEN << LookupStandalone(n) >> ELSE << >>
    ELSE LET t == NormalizeToolName(n[1])
             known == Len(n) = 1 \/ SplitAccountProviderLabel(n)
         IN  IF known /\ t \in ToSet(SelectedTools(c)) THEN << t >> ELSE << >>

\* Jobs(c) as the rows of a list of names.
EmittedNames(c) ==
    LET requested == orderedRequestedNames(c)
    IN  Distinct(FlattenSeq([i \in 1 .. Len(requested) |-> NamesOf(c, requested[i])]) \o SelectedTools(c))

EmittedFor(c, em) ==
    /\ em = EmittedNames(c)
    /\ em \in Seq(RowNames) /\ IsInjective(em)
    /\ ToSet(em) = ToSet(SelectedTools(c)) \union standaloneAllowedNames(c)
    /\ Jobs(c) = FlattenSeq([i \in 1 .. Len(em) |-> RowsOf(c, em[i])])

LEMMA EmittedIs ==
    ASSUME NEW c \in Configurations
    PROVE  \E em : EmittedFor(c, em)
<1> DEFINE selected == SelectedTools(c)
           allowed  == standaloneAllowedNames(c)
           namesOf(n) ==
               IF LookupStandalone(n) # None
               THEN IF LookupStandalone(n) \in allowed THEN << LookupStandalone(n) >> ELSE << >>
               ELSE LET t == NormalizeToolName(n[1])
                        known == Len(n) = 1 \/ SplitAccountProviderLabel(n)
                    IN  IF known /\ t \in ToSet(selected) THEN << t >> ELSE << >>
           requested == orderedRequestedNames(c)
           ss == [i \in 1 .. Len(requested) |-> namesOf(requested[i])]
           named == FlattenSeq(ss)
           em == Distinct(named \o selected)
<1>1. Jobs(c) = FlattenSeq([i \in 1 .. Len(em) |-> RowsOf(c, em[i])])
  BY DEF Jobs, Emitted
<1>2. /\ c.order \in Seq(LabelNames) /\ c.enabled \in Seq(LabelNames)
      /\ requested \in Seq(LabelNames) /\ ToSet(requested) = ToSet(c.order) \union ToSet(c.enabled)
  <2>1. c.order \in Seq(LabelNames) /\ c.enabled \in Seq(LabelNames)
    BY DEF Configurations
  <2>2. /\ c.order \o c.enabled \in Seq(LabelNames)
        /\ ToSet(c.order \o c.enabled) = ToSet(c.order) \union ToSet(c.enabled)
    BY <2>1, ConcatIs
  <2> QED BY <2>1, <2>2, DistinctIs DEF orderedRequestedNames
<1>3. /\ selected \in Seq(ToSet(Tools)) /\ IsInjective(selected) /\ ToSet(selected) \subseteq ToSet(Tools)
  <2>1. selected \in Seq(ToSet(Tools)) /\ IsInjective(selected)
    BY SelectedIs DEF ToolList
  <2> QED BY <2>1, LenProperties, ElementOfSeq DEF ToSet
<1>4. /\ allowed \subseteq Standalone
      /\ \A a \in allowed : \E n \in ToSet(requested) : LookupStandalone(n) = a
  <2>1. allowed \subseteq {LookupStandalone(n) : n \in ToSet(requested)} \ {None}
    BY <1>2 DEF standaloneAllowedNames
  <2> QED BY <2>1, StandaloneIs
<1> DEFINE Names2 == ToSet(selected) \union allowed
<1>5. Names2 \subseteq RowNames
  BY <1>3, <1>4 DEF RowNames
<1>6. \A n : /\ namesOf(n) \in Seq(Names2)
             /\ LookupStandalone(n) \in allowed => ToSet(namesOf(n)) = {LookupStandalone(n)}
  <2> SUFFICES ASSUME NEW n
               PROVE  /\ namesOf(n) \in Seq(Names2)
                      /\ LookupStandalone(n) \in allowed => ToSet(namesOf(n)) = {LookupStandalone(n)}
    OBVIOUS
  <2>1. None \notin allowed
    BY DEF standaloneAllowedNames
  <2>2. \A x \in Names2 : << x >> \in Seq(Names2) /\ ToSet(<< x >>) = {x}
    BY DEF ToSet
  <2>3. << >> \in Seq(Names2)
    OBVIOUS
  <2> HIDE DEF allowed, selected
  <2>4. CASE LookupStandalone(n) # None
    BY <2>1, <2>2, <2>3, <2>4
  <2>5. CASE LookupStandalone(n) = None
    <3>1. namesOf(n) = << >> \/ \E t \in ToSet(selected) : namesOf(n) = << t >>
      BY <2>5
    <3> QED BY <2>1, <2>2, <2>3, <2>5, <3>1
  <2> QED BY <2>4, <2>5
<1> HIDE DEF selected, allowed, namesOf, requested, Names2
<1>7. DOMAIN requested = 1 .. Len(requested) /\ Len(requested) \in Nat
  BY <1>2, LenProperties
<1>8. ss \in Seq(Seq(Names2)) /\ DOMAIN ss = 1 .. Len(requested)
  <2>1. ss \in [1 .. Len(requested) -> Seq(Names2)]
    BY <1>6
  <2> HIDE DEF ss
  <2> QED BY <1>7, <2>1, FunctionIsSeq
<1>9. \A i \in 1 .. Len(requested) : ss[i] = namesOf(requested[i])
  OBVIOUS
<1> HIDE DEF ss
<1>10. /\ named \in Seq(Names2)
       /\ ToSet(named) = UNION {ToSet(ss[i]) : i \in DOMAIN ss}
  BY <1>8, FlattenIs
<1>11. allowed \subseteq ToSet(named)
  <2> SUFFICES ASSUME NEW a \in allowed
               PROVE  \E i \in DOMAIN ss : a \in ToSet(ss[i])
    BY <1>10
  <2>1. PICK n \in ToSet(requested) : LookupStandalone(n) = a
    BY <1>4
  <2>2. PICK i \in 1 .. Len(requested) : requested[i] = n
    BY <1>7, <2>1 DEF ToSet
  <2>3. ToSet(ss[i]) = {a}
    BY <1>6, <1>9, <2>1, <2>2
  <2> QED BY <1>8, <2>2, <2>3
<1> HIDE DEF named
<1>12. ToSet(named) \subseteq Names2
  BY <1>10, LenProperties, ElementOfSeq DEF ToSet
<1>13. selected \in Seq(Names2)
  BY <1>3, SeqWithin DEF Names2
<1>14. named \o selected \in Seq(Names2) /\ ToSet(named \o selected) = ToSet(named) \union ToSet(selected)
  BY <1>10, <1>13, ConcatIs
<1>15. em \in Seq(Names2) /\ IsInjective(em) /\ ToSet(em) = ToSet(named) \union ToSet(selected)
  BY <1>14, DistinctIs
<1>16. ToSet(em) = Names2
  BY <1>11, <1>12, <1>15 DEF Names2
<1> HIDE DEF em
<1>17. em \in Seq(RowNames)
  BY <1>5, <1>15, <1>16, SeqWithin
<1>18. em = EmittedNames(c)
  BY DEF EmittedNames, NamesOf, em, named, ss, namesOf, requested, selected, allowed
<1> QED BY <1>1, <1>15, <1>16, <1>17, <1>18 DEF EmittedFor, Names2, selected, allowed

RowSet(c, n) ==
    IF ToSet(AccountsForProvider(c, n)) = {} THEN {PlainRow(n)}
    ELSE {AccountRow(n, e, Several(c, n)) : e \in ToSet(AccountsForProvider(c, n))}

EmittedSet(c) == ToSet(SelectedTools(c)) \union standaloneAllowedNames(c)

LEMMA RowSetFacts ==
    ASSUME NEW c \in Configurations, NEW n \in RowNames
    PROVE  /\ RowSet(c, n) # {}
           /\ \A r \in RowSet(c, n) : r.label[1] = n /\ r.provider = EntryOf(n)
           /\ \A r, q \in RowSet(c, n) : r.label = q.label => r = q
           /\ {r.home : r \in RowSet(c, n)} =
                 IF ToSet(AccountsForProvider(c, n)) = {} THEN {None}
                 ELSE {e.home : e \in ToSet(AccountsForProvider(c, n))}
<1> DEFINE A == ToSet(AccountsForProvider(c, n))
<1>1. /\ \A e \in A : n \in AccountKinds
      /\ \A e, f \in A : e.name = f.name => e = f
      /\ n \in AccountKinds => EntryOf(n) = n
  BY AccountsAre, RowNameFacts
<1>2. CASE A = {}
  <2>1. RowSet(c, n) = {PlainRow(n)}
    BY <1>2 DEF RowSet
  <2>2. PlainRow(n).label[1] = n /\ PlainRow(n).provider = EntryOf(n) /\ PlainRow(n).home = None
    BY DEF PlainRow
  <2> QED BY <1>2, <2>1, <2>2
<1>3. CASE A # {}
  <2>1. RowSet(c, n) = {AccountRow(n, e, Several(c, n)) : e \in A}
    BY <1>3 DEF RowSet
  <2>2. \A e \in A : LET r == AccountRow(n, e, Several(c, n))
                     IN  r.label[1] = n /\ r.provider = n /\ r.home = e.home
    BY DEF AccountRow
  <2>3. \A e, f \in A : AccountRow(n, e, Several(c, n)).label = AccountRow(n, f, Several(c, n)).label
                        => e = f
    <3> SUFFICES ASSUME NEW e \in A, NEW f \in A,
                        AccountRow(n, e, Several(c, n)).label = AccountRow(n, f, Several(c, n)).label,
                        e # f
                 PROVE  FALSE
      OBVIOUS
    <3>1. Several(c, n)
      BY DEF Several
    <3>2. << n, e.name >> = << n, f.name >>
      BY <3>1 DEF AccountRow
    <3>3. e.name = f.name
      BY <3>2
    <3> QED BY <1>1, <3>3
  <2> HIDE DEF A
  <2> QED BY <1>1, <1>3, <2>1, <2>2, <2>3 DEF A
<1> QED BY <1>2, <1>3

\* The rows of a report: those of the names it has, each once and with a label
\* of its own.
LEMMA JobsAre ==
    ASSUME NEW c \in Configurations
    PROVE  /\ Jobs(c) \in Seq(RowRecords) /\ IsInjective(Jobs(c))
           /\ EmittedSet(c) \subseteq RowNames
           /\ ToSet(Jobs(c)) = UNION {RowSet(c, n) : n \in EmittedSet(c)}
           /\ \A r, q \in ToSet(Jobs(c)) : r.label = q.label => r = q
<1>1. PICK em : EmittedFor(c, em)
  BY EmittedIs
<1> DEFINE ss == [i \in 1 .. Len(em) |-> RowsOf(c, em[i])]
<1>2. /\ em \in Seq(RowNames) /\ IsInjective(em) /\ ToSet(em) = EmittedSet(c)
      /\ Jobs(c) = FlattenSeq(ss)
  BY <1>1 DEF EmittedFor, EmittedSet
<1>3. DOMAIN em = 1 .. Len(em) /\ Len(em) \in Nat /\ \A i \in 1 .. Len(em) : em[i] \in RowNames
  BY <1>2, LenProperties, ElementOfSeq
<1>4. EmittedSet(c) \subseteq RowNames
  BY <1>2, <1>3 DEF ToSet
<1>5. \A i \in 1 .. Len(em) : /\ ss[i] \in Seq(RowRecords) /\ IsInjective(ss[i])
                              /\ ToSet(ss[i]) = RowSet(c, em[i])
  BY <1>3, RowsAre DEF RowSet
<1>6. ss \in Seq(Seq(RowRecords)) /\ DOMAIN ss = 1 .. Len(em)
  <2>1. ss \in [1 .. Len(em) -> Seq(RowRecords)]
    BY <1>5
  <2> HIDE DEF ss
  <2> QED BY <1>3, <2>1, FunctionIsSeq
<1> HIDE DEF ss
<1>7. \A i, k \in DOMAIN ss : i # k => ToSet(ss[i]) \cap ToSet(ss[k]) = {}
  <2> SUFFICES ASSUME NEW i \in DOMAIN ss, NEW k \in DOMAIN ss, i # k,
                      NEW r \in ToSet(ss[i]), r \in ToSet(ss[k])
               PROVE  FALSE
    OBVIOUS
  <2>0. i \in 1 .. Len(em) /\ k \in 1 .. Len(em) /\ r \in RowSet(c, em[i]) /\ r \in RowSet(c, em[k])
    BY <1>5, <1>6
  <2>1. em[i] # em[k]
    BY <1>2, <1>3, <2>0 DEF IsInjective
  <2>2. r.label[1] = em[i] /\ r.label[1] = em[k]
    BY <1>3, <2>0, RowSetFacts
  <2> QED BY <2>1, <2>2
<1>8. /\ FlattenSeq(ss) \in Seq(RowRecords)
      /\ ToSet(FlattenSeq(ss)) = UNION {ToSet(ss[i]) : i \in DOMAIN ss}
      /\ IsInjective(FlattenSeq(ss))
  BY <1>5, <1>6, <1>7, FlattenIs
<1>9. ToSet(Jobs(c)) = UNION {RowSet(c, n) : n \in EmittedSet(c)}
  <2>1. {ToSet(ss[i]) : i \in DOMAIN ss} = {RowSet(c, n) : n \in EmittedSet(c)}
    <3>1. {ToSet(ss[i]) : i \in DOMAIN ss} = {RowSet(c, em[i]) : i \in 1 .. Len(em)}
      BY <1>5, <1>6
    <3>2. EmittedSet(c) = {em[i] : i \in 1 .. Len(em)}
      BY <1>2, <1>3 DEF ToSet
    <3> QED BY <3>1, <3>2
  <2> QED BY <1>2, <1>8, <2>1
<1>10. ASSUME NEW r \in ToSet(Jobs(c)), NEW q \in ToSet(Jobs(c)), r.label = q.label PROVE r = q
  <2>1. PICK n \in EmittedSet(c), m \in EmittedSet(c) : r \in RowSet(c, n) /\ q \in RowSet(c, m)
    BY <1>9
  <2>2. n = m
    <3>1. r.label[1] = n
      BY <1>4, <2>1, RowSetFacts
    <3>2. q.label[1] = m
      BY <1>4, <2>1, RowSetFacts
    <3> QED BY <1>10, <3>1, <3>2
  <2> QED BY <1>4, <1>10, <2>1, <2>2, RowSetFacts
<1> QED BY <1>2, <1>4, <1>8, <1>9, <1>10

\* With several accounts, or none, the directory a reset credit is spent in is
\* the one its row reads.
LEMMA CreditHome ==
    ASSUME NEW c \in Configurations, Len(AccountsForProvider(c, "codex")) # 1,
           NEW r \in ToSet(Jobs(c)), r.provider = "codex"
    PROVE  resolveCodexAccountHome(c, r.label) = r.home
<1> DEFINE accounts == AccountsForProvider(c, "codex")
<1>1. /\ accounts \in Seq(Entries)
      /\ \A e, f \in ToSet(accounts) : e.name = f.name => e = f
      /\ DOMAIN accounts = 1 .. Len(accounts) /\ Len(accounts) \in Nat
  BY AccountsAre, LenProperties
<1>2. "codex" \in RowNames
  BY NamesAre DEF RowNames, ToolNames
<1>3. r \in RowSet(c, "codex")
  <2>1. PICK n \in EmittedSet(c) : r \in RowSet(c, n) /\ n \in RowNames
    BY JobsAre
  <2>2. EntryOf(n) = "codex"
    BY <2>1, RowSetFacts
  <2>3. n = "codex"
    BY <2>2 DEF EntryOf
  <2> QED BY <2>1, <2>3
<1>4. CASE ToSet(accounts) = {}
  <2>1. r.label = << "codex" >> /\ r.home = None
    BY <1>3, <1>4 DEF RowSet, PlainRow
  <2> QED BY <2>1 DEF resolveCodexAccountHome
<1>5. CASE ToSet(accounts) # {}
  <2>1. PICK e \in ToSet(accounts) : r = AccountRow("codex", e, Several(c, "codex"))
    BY <1>3, <1>5 DEF RowSet
  <2>2. PICK i \in 1 .. Len(accounts) : accounts[i] = e
    BY <1>1, <2>1 DEF ToSet
  <2>3. 1 \in DOMAIN accounts /\ 2 \in DOMAIN accounts
    <3>1. Len(accounts) # 1
      OBVIOUS
    <3> HIDE DEF accounts
    <3> QED BY <1>1, <2>2, <3>1
  <2>4. accounts[1] # accounts[2]
    <3>1. IsInjective(accounts)
      BY AccountsAre
    <3> QED BY <2>3, <3>1 DEF IsInjective
  <2>5. Several(c, "codex")
    BY <2>3, <2>4 DEF Several, ToSet
  <2>6. r.label = << "codex", e.name >> /\ r.home = e.home
    BY <2>1, <2>5 DEF AccountRow
  <2> DEFINE S == {f \in ToSet(accounts) : f.name = r.label[2]}
             mine == Among(accounts, S)
  <2>7. resolveCodexAccountHome(c, r.label) = IF mine = << >> THEN "error" ELSE mine[1].home
    <3>1. r.label # << "codex" >>
      <4>1. Len(<< "codex" >>) = 1 /\ Len(<< "codex", e.name >>) = 2
        OBVIOUS
      <4> QED BY <2>6, <4>1
    <3> QED BY <3>1 DEF resolveCodexAccountHome
  <2>8. r.label[2] = e.name
    BY <2>6
  <2>9. S = {e} /\ ToSet(accounts) \cap S = S
    BY <1>1, <2>1, <2>8
  <2> HIDE DEF S, accounts
  <2>10. mine \in Seq(Entries) /\ ToSet(mine) = {e}
    BY <1>1, <2>9, AmongIs
  <2> HIDE DEF mine
  <2>11. mine # << >> /\ mine[1] = e
    <3>1. DOMAIN mine = 1 .. Len(mine) /\ Len(mine) \in Nat
      BY <2>10, LenProperties
    <3>2. 1 \in DOMAIN mine
      <4>1. PICK k \in DOMAIN mine : mine[k] = e
        BY <2>10 DEF ToSet
      <4> QED BY <3>1, <4>1
    <3>3. mine[1] = e
      BY <2>10, <3>2 DEF ToSet
    <3> QED BY <3>1, <3>2, <3>3
  <2> QED BY <2>6, <2>7, <2>11
<1> QED BY <1>4, <1>5

-----------------------------------------------------------------------------
(* What the commands keep.                                                 *)

LEMMA NameIsLabel ==
    ASSUME NEW x \in STRING
    PROVE  << x >> \in LabelNames
<1>1. << x >> \in Seq(STRING)
  BY SingletonIsSeq
<1>2. << x >> # << >>
  OBVIOUS
<1> QED BY <1>1, <1>2 DEF LabelNames

LEMMA StandaloneLabel ==
    ASSUME NEW n
    PROVE  << << LookupStandalone(n) >> >> \in Seq(LabelNames) /\ << >> \in Seq(LabelNames)
<1>1. LookupStandalone(n) \in STRING
  BY StandaloneIs, LiteralsAssumption
<1>2. << LookupStandalone(n) >> \in LabelNames
  BY <1>1, NameIsLabel
<1>3. << << LookupStandalone(n) >> >> \in Seq(LabelNames)
  BY <1>2, SingletonIsSeq
<1> QED BY <1>3

\* The standalone providers a list names, and their labels.
StandaloneOf(raw) == {LookupStandalone(n) : n \in ToSet(raw)} \ {None}
StandaloneLabels(raw) == {<< p >> : p \in StandaloneOf(raw)}

LEMMA StandaloneAppended ==
    ASSUME NEW dst \in Seq(LabelNames), NEW raw \in Seq(LabelNames)
    PROVE  /\ appendStandaloneEntries(dst, raw) \in Seq(LabelNames)
           /\ ToSet(appendStandaloneEntries(dst, raw)) = ToSet(dst) \union StandaloneLabels(raw)
<1> DEFINE named(n) == IF LookupStandalone(n) = None THEN << >> ELSE << << LookupStandalone(n) >> >>
           ss == [i \in DOMAIN raw |-> named(raw[i])]
<1>1. appendStandaloneEntries(dst, raw) = Distinct(dst \o FlattenSeq(ss))
  BY DEF appendStandaloneEntries
<1>2. \A n : named(n) \in Seq(LabelNames)
  <2> SUFFICES ASSUME NEW n PROVE named(n) \in Seq(LabelNames)
    OBVIOUS
  <2>2. << << LookupStandalone(n) >> >> \in Seq(LabelNames) /\ << >> \in Seq(LabelNames)
    BY StandaloneLabel
  <2> QED BY <2>2
<1>6. \A n : ToSet(named(n)) = IF LookupStandalone(n) = None THEN {} ELSE {<< LookupStandalone(n) >>}
  BY DEF ToSet
<1>7. \A i \in DOMAIN raw : ss[i] = named(raw[i])
  OBVIOUS
<1>8. DOMAIN ss = DOMAIN raw
  OBVIOUS
<1> HIDE DEF named
<1>3. ss \in Seq(Seq(LabelNames))
  <2>1. DOMAIN raw = 1 .. Len(raw) /\ Len(raw) \in Nat
    BY LenProperties
  <2>2. ss \in [1 .. Len(raw) -> Seq(LabelNames)]
    BY <1>2, <2>1
  <2> HIDE DEF ss
  <2> QED BY <2>1, <2>2, FunctionIsSeq
<1> HIDE DEF ss
<1>4. FlattenSeq(ss) \in Seq(LabelNames) /\ ToSet(FlattenSeq(ss)) = UNION {ToSet(ss[i]) : i \in DOMAIN ss}
  BY <1>3, FlattenIs
<1>9. UNION {ToSet(ss[i]) : i \in DOMAIN ss} = StandaloneLabels(raw)
  <2>1. \A i \in DOMAIN ss : ToSet(ss[i]) = IF LookupStandalone(raw[i]) = None THEN {}
                                           ELSE {<< LookupStandalone(raw[i]) >>}
    BY <1>6, <1>7, <1>8
  <2>2. \A n : n \in ToSet(raw) <=> \E i \in DOMAIN ss : raw[i] = n
    BY <1>8 DEF ToSet
  <2>3. ASSUME NEW x
        PROVE  x \in StandaloneLabels(raw)
                  <=> \E i \in DOMAIN ss : LookupStandalone(raw[i]) # None /\ x = << LookupStandalone(raw[i]) >>
    BY <2>2 DEF StandaloneLabels, StandaloneOf
  <2>4. ASSUME NEW x
        PROVE  x \in UNION {ToSet(ss[i]) : i \in DOMAIN ss}
                  <=> \E i \in DOMAIN ss : LookupStandalone(raw[i]) # None /\ x = << LookupStandalone(raw[i]) >>
    BY <2>1
  <2> QED BY <2>3, <2>4
<1>5. /\ dst \o FlattenSeq(ss) \in Seq(LabelNames)
      /\ ToSet(dst \o FlattenSeq(ss)) = ToSet(dst) \union StandaloneLabels(raw)
  BY <1>4, <1>9, ConcatIs
<1> QED BY <1>1, <1>5, DistinctIs

LEMMA OrderMerged ==
    ASSUME NEW new \in Seq(LabelNames), NEW old \in Seq(LabelNames)
    PROVE  mergeStandaloneIntoOrder(new, old) \in Seq(LabelNames)
<1> DEFINE kept(n) ==
               IF LookupStandalone(n) # None THEN << << LookupStandalone(n) >> >>
               ELSE IF Len(n) = 1 /\ << NormalizeToolName(n[1]) >> \in ToSet(new)
                    THEN << << NormalizeToolName(n[1]) >> >>
               ELSE << >>
           ss == [i \in DOMAIN old |-> kept(old[i])]
<1>1. mergeStandaloneIntoOrder(new, old) = Distinct(FlattenSeq(ss) \o new)
  BY DEF mergeStandaloneIntoOrder
<1>2. \A n : kept(n) \in Seq(LabelNames)
  <2> SUFFICES ASSUME NEW n PROVE kept(n) \in Seq(LabelNames)
    OBVIOUS
  <2>2. << << LookupStandalone(n) >> >> \in Seq(LabelNames) /\ << >> \in Seq(LabelNames)
    BY StandaloneLabel
  <2>3. ToSet(new) \subseteq LabelNames
    BY LenProperties, ElementOfSeq DEF ToSet
  <2>4. \A x \in ToSet(new) : << x >> \in Seq(LabelNames)
    BY <2>3, SingletonIsSeq
  <2> QED BY <2>2, <2>4
<1> HIDE DEF kept
<1>3. ss \in Seq(Seq(LabelNames))
  <2>1. DOMAIN old = 1 .. Len(old) /\ Len(old) \in Nat
    BY LenProperties
  <2>2. ss \in [1 .. Len(old) -> Seq(LabelNames)]
    BY <1>2, <2>1
  <2> HIDE DEF ss
  <2> QED BY <2>1, <2>2, FunctionIsSeq
<1> HIDE DEF ss
<1>4. FlattenSeq(ss) \in Seq(LabelNames)
  BY <1>3, FlattenIs
<1>5. FlattenSeq(ss) \o new \in Seq(LabelNames)
  BY <1>4, ConcatIs
<1> QED BY <1>1, <1>5, DistinctIs

LEMMA PickedIs ==
    ASSUME NEW c \in Configurations, NEW S
    PROVE  /\ Picked(c, S) \in Configurations
           /\ Picked(c, S).legacy = c.legacy
           /\ AccountConfigEntries(Picked(c, S)) = AccountConfigEntries(c)
           /\ EntrySet(Picked(c, S)) = EntrySet(c)
<1> DEFINE tools   == GetOrderedTools(c.order)
           checked == Among(tools, S)
           names(ts) == [i \in DOMAIN ts |-> << ts[i] >>]
           enabled == appendStandaloneEntries(
                          appendStandaloneEntries(names(checked), c.enabled), c.order)
           order == mergeStandaloneIntoOrder(names(tools), c.order)
<1>1. Picked(c, S) = [c EXCEPT !.enabled = enabled, !.order = order]
  BY DEF Picked
<1>2. /\ c.order \in Seq(LabelNames) /\ c.enabled \in Seq(LabelNames)
      /\ c.legacy \in Seq(Entries) /\ c.listed \in Seq(Entries)
  BY DEF Configurations
<1>3. tools \in Seq(ToSet(Tools)) /\ checked \in Seq(ToSet(Tools))
  <2>1. tools \in Seq(ToSet(Tools))
    BY <1>2, LenProperties, OrderedTools DEF ToolList
  <2> QED BY <2>1, AmongIs
<1>4. ASSUME NEW ts \in Seq(ToSet(Tools)) PROVE names(ts) \in Seq(LabelNames)
  <2>1. DOMAIN ts = 1 .. Len(ts) /\ Len(ts) \in Nat /\ \A i \in 1 .. Len(ts) : ts[i] \in STRING
    BY LenProperties, ElementOfSeq, LiteralsAssumption
  <2>2. \A i \in 1 .. Len(ts) : << ts[i] >> \in LabelNames
    BY <2>1, NameIsLabel
  <2>3. names(ts) \in [1 .. Len(ts) -> LabelNames]
    BY <2>1, <2>2
  <2> QED BY <2>1, <2>3, FunctionIsSeq
<1> HIDE DEF tools, checked, names
<1>5. names(tools) \in Seq(LabelNames) /\ names(checked) \in Seq(LabelNames)
  BY <1>3, <1>4
<1>6. order \in Seq(LabelNames)
  BY <1>2, <1>5, OrderMerged
<1>7. enabled \in Seq(LabelNames)
  <2>1. appendStandaloneEntries(names(checked), c.enabled) \in Seq(LabelNames)
    BY <1>2, <1>5, StandaloneAppended
  <2> QED BY <1>2, <2>1, StandaloneAppended
<1> HIDE DEF enabled, order
<1>8. /\ Picked(c, S) \in Configurations
      /\ Picked(c, S).legacy = c.legacy /\ Picked(c, S).listed = c.listed
  BY <1>1, <1>6, <1>7 DEF Configurations
<1> QED BY <1>8 DEF EntrySet, AccountConfigEntries

\* What the user is told of the accounts, of a configuration c.
ToldOf(c, t) ==
    \A x \in Labels :
        LET homes == {e.home : e \in {f \in EntrySet(c) : Same(f, x[1], x[2])}}
        IN  /\ t[x] \in Homes \union TmpHomes => homes = {t[x]}
            /\ t[x] = Gone /\ (\A e \in ToSet(c.legacy) : ~Same(e, x[1], x[2])) => homes = {}

Tellings == [Labels -> Homes \union TmpHomes \union {Gone, None}]

LEMMA LabelParts ==
    ASSUME NEW x \in Labels, NEW p, NEW n, x # << p, n >>
    PROVE  \A e : Same(e, p, n) => ~Same(e, x[1], x[2])
BY DEF Labels, Same

LEMMA ToldWhenAdded ==
    ASSUME NEW c \in Configurations, NEW p \in AccountKinds, NEW n \in STRING,
           NEW h \in Homes \union TmpHomes, NEW t \in Tellings, ToldOf(c, t)
    PROVE  /\ upsertAccount(c, p, n, h) \in Configurations
           /\ [t EXCEPT ![<< p, n >>] = h] \in Tellings
           /\ ToldOf(upsertAccount(c, p, n, h), [t EXCEPT ![<< p, n >>] = h])
<1> DEFINE d == upsertAccount(c, p, n, h)
           u == [t EXCEPT ![<< p, n >>] = h]
<1>1. h \in STRING \ {None}
  BY HomesAssumption
<1>2. /\ d \in Configurations /\ d.legacy = c.legacy
      /\ \E f \in Entries :
            /\ Same(f, p, n) /\ f.home = h
            /\ EntrySet(d) = {e \in EntrySet(c) : ~Same(e, p, n)} \union {f}
  BY <1>1, UpsertAccountIs
<1>3. PICK f \in Entries :
            /\ Same(f, p, n) /\ f.home = h
            /\ EntrySet(d) = {e \in EntrySet(c) : ~Same(e, p, n)} \union {f}
  BY <1>2
<1>4. u \in Tellings
  BY DEF Tellings
<1>5. \A x \in Labels : u[x] = IF x = << p, n >> THEN h ELSE t[x]
  BY DEF Tellings
<1> HIDE DEF d, u
<1>6. ASSUME NEW x \in Labels
      PROVE  LET homes == {e.home : e \in {g \in EntrySet(d) : Same(g, x[1], x[2])}}
             IN  /\ u[x] \in Homes \union TmpHomes => homes = {u[x]}
                 /\ u[x] = Gone /\ (\A e \in ToSet(d.legacy) : ~Same(e, x[1], x[2])) => homes = {}
  <2>1. CASE x = << p, n >>
    <3>1. {g \in EntrySet(d) : Same(g, x[1], x[2])} = {f}
      BY <1>3, <2>1
    <3>2. u[x] = h /\ h # Gone
      BY <1>5, <2>1, HomesAssumption
    <3> QED BY <1>3, <3>1, <3>2
  <2>2. CASE x # << p, n >>
    <3>1. {g \in EntrySet(d) : Same(g, x[1], x[2])} = {g \in EntrySet(c) : Same(g, x[1], x[2])}
      BY <1>3, <2>2, LabelParts
    <3> QED BY <1>2, <1>5, <2>2, <3>1 DEF ToldOf
  <2> QED BY <2>1, <2>2
<1> QED BY <1>2, <1>4, <1>6 DEF ToldOf, d, u

LEMMA ToldWhenRemoved ==
    ASSUME NEW c \in Configurations, NEW p, NEW n, NEW t \in Tellings, ToldOf(c, t)
    PROVE  /\ withoutAccount(c, p, n) \in Configurations
           /\ [t EXCEPT ![<< p, n >>] = Gone] \in Tellings
           /\ ToldOf(withoutAccount(c, p, n), [t EXCEPT ![<< p, n >>] = Gone])
<1> DEFINE d == withoutAccount(c, p, n)
           u == [t EXCEPT ![<< p, n >>] = Gone]
<1>1. /\ d \in Configurations /\ d.legacy = c.legacy
      /\ {e \in EntrySet(c) : ~Same(e, p, n)} = {e \in EntrySet(d) : ~Same(e, p, n)}
      /\ \A e \in EntrySet(d) : Same(e, p, n) => e \in ToSet(c.legacy)
  BY WithoutAccountIs
<1>2. u \in Tellings
  BY DEF Tellings
<1>3. \A x \in Labels : u[x] = IF x = << p, n >> THEN Gone ELSE t[x]
  BY DEF Tellings
<1> HIDE DEF d, u
<1>4. ASSUME NEW x \in Labels
      PROVE  LET homes == {e.home : e \in {g \in EntrySet(d) : Same(g, x[1], x[2])}}
             IN  /\ u[x] \in Homes \union TmpHomes => homes = {u[x]}
                 /\ u[x] = Gone /\ (\A e \in ToSet(d.legacy) : ~Same(e, x[1], x[2])) => homes = {}
  <2>1. CASE x = << p, n >>
    <3>1. u[x] = Gone /\ Gone \notin Homes \union TmpHomes
      BY <1>3, <2>1, HomesAssumption
    <3>2. ASSUME \A e \in ToSet(d.legacy) : ~Same(e, x[1], x[2])
          PROVE  {g \in EntrySet(d) : Same(g, x[1], x[2])} = {}
      BY <1>1, <2>1, <3>2
    <3> QED BY <3>1, <3>2
  <2>2. CASE x # << p, n >>
    <3>1. {g \in EntrySet(d) : Same(g, x[1], x[2])} = {g \in EntrySet(c) : Same(g, x[1], x[2])}
      BY <1>1, <2>2, LabelParts
    <3> QED BY <1>1, <1>3, <2>2, <3>1 DEF ToldOf
  <2> QED BY <2>1, <2>2
<1> QED BY <1>1, <1>2, <1>4 DEF ToldOf, d, u

AccountInv == AccountTypeOK /\ AccountsAreAsTold

LEMMA ToldIs ==
    /\ AccountsAreAsTold <=> ToldOf(cfg, told)
    /\ AccountsAreAsTold' <=> ToldOf(cfg', told')
BY DEF AccountsAreAsTold, ToldOf, EntrySet

LEMMA ClosedIs ==
    /\ Closed \in [at : {"closed", "picker", "loggedIn"}, cfg : Configurations,
                   login : Logins \union {None}, tmp : TmpHomes \union {None}]
    /\ Closed.at = "closed"
<1>1. EmptyConfig \in Configurations
  BY DEF EmptyConfig, Configurations
<1> QED BY <1>1 DEF Closed

LEMMA NothingTold ==
    ASSUME NEW c
    PROVE  /\ [x \in Labels |-> None] \in Tellings
           /\ ToldOf(c, [x \in Labels |-> None])
<1>1. None \notin Homes \union TmpHomes
  BY HomesAssumption
<1>2. None # Gone
  BY DEF None, Gone
<1> QED BY <1>1, <1>2 DEF Tellings, ToldOf

\* Writing the file from what the picker had read.
LEMMA OverwriteKeeps ==
    ASSUME AccountTypeOK, NEW c \in Configurations, NEW t, Overwrite(c, t),
           flow.cfg = cfg => t \in Tellings /\ ToldOf(c, t)
    PROVE  /\ cfg' \in Configurations /\ told' \in Tellings /\ ToldOf(cfg', told')
           /\ flow' = Closed
BY NothingTold DEF Overwrite

LEMMA AccountInitially == AccountInit => AccountInv
<1> SUFFICES ASSUME AccountInit PROVE AccountInv
  OBVIOUS
<1>1. AccountTypeOK
  <2>1. cfg \in Configurations /\ 0 \in 0 .. MaxCommands
    BY ConfigsAssumption DEF AccountInit
  <2>2. told \in [Labels -> Homes \union TmpHomes \union {Gone, None}]
    BY DEF AccountInit
  <2>3. login \in [Homes \union TmpHomes -> Logins \union {None}]
    BY DEF AccountInit
  <2>4. flow = Closed /\ commands = 0
    BY DEF AccountInit
  <2>5. flow.at # "loggedIn"
    BY <2>4, ClosedIs
  <2> QED BY <2>1, <2>2, <2>3, <2>4, <2>5, ClosedIs DEF AccountTypeOK
<1>2. AccountsAreAsTold
  BY NothingTold, ToldIs DEF AccountInit
<1> QED BY <1>1, <1>2 DEF AccountInv

\* Where a new account's credentials end up.
LEMMA NewHome ==
    ASSUME AccountTypeOK, NEW n \in Names \union {None},
           flow.at = "loggedIn", AliasOf(flow.login, n) # None
    PROVE  /\ AliasOf(flow.login, n) \in STRING
           /\ HomeOf(flow.login, n) \in Homes
           /\ HomeAfterRename(flow.login, n) \in Homes \union TmpHomes
<1>1. flow.login \in Logins /\ flow.tmp \in TmpHomes
  BY DEF AccountTypeOK
<1>2. /\ AliasOf(flow.login, n) \in STRING
      /\ HomeOf(flow.login, n) \in Homes
  BY <1>1, NamesAssumption, HomesAssumption DEF AliasOf, HomeOf
<1> QED BY <1>1, <1>2 DEF HomeAfterRename

LEMMA AccountStep == AccountInv /\ [AccountNext]_accountVars => AccountInv'
<1> SUFFICES ASSUME AccountInv, [AccountNext]_accountVars PROVE AccountInv'
  OBVIOUS
<1> DEFINE Flows == [at : {"closed", "picker", "loggedIn"}, cfg : Configurations,
                     login : Logins \union {None}, tmp : TmpHomes \union {None}]
           LoginOK == flow.at = "loggedIn" => /\ flow.tmp \in TmpHomes /\ flow.login \in Logins
                                              /\ login[flow.tmp] = flow.login
<1>0. /\ cfg \in Configurations /\ flow \in Flows /\ LoginOK
      /\ login \in [Homes \union TmpHomes -> Logins \union {None}]
      /\ told \in Tellings /\ ToldOf(cfg, told)
      /\ commands \in 0 .. MaxCommands
  BY ToldIs DEF AccountInv, AccountTypeOK, Tellings
<1>a. AccountTypeOK
  BY DEF AccountInv
<1>b. (/\ cfg' \in Configurations /\ flow' \in Flows /\ LoginOK'
       /\ login' \in [Homes \union TmpHomes -> Logins \union {None}]
       /\ told' \in Tellings /\ ToldOf(cfg', told')
       /\ commands' \in 0 .. MaxCommands) => AccountInv'
  BY ToldIs DEF AccountInv, AccountTypeOK, Tellings
<1>c. Closed \in Flows /\ Closed.at = "closed"
  BY ClosedIs
<1> HIDE DEF Flows
<1>d. Command => commands' \in 0 .. MaxCommands
  BY <1>0, ConfigsAssumption DEF Command
<1>1. ASSUME NEW p \in AddTo, NEW n \in Names, NEW h \in Homes \ {DefaultHome},
             configAccountAdd(p, n, h)
      PROVE  AccountInv'
  <2>1. p \in AccountKinds /\ n \in STRING /\ h \in Homes \union TmpHomes
    BY ConfigsAssumption, NamesAssumption
  <2>2. cfg' \in Configurations /\ told' \in Tellings /\ ToldOf(cfg', told')
    BY <1>0, <1>1, <2>1, ToldWhenAdded DEF configAccountAdd
  <2>3. commands' \in 0 .. MaxCommands /\ login' = login /\ flow' = flow
    BY <1>1, <1>d DEF configAccountAdd
  <2> QED BY <1>0, <1>b, <2>2, <2>3
<1>2. ASSUME NEW p \in AddTo, NEW n \in Names, configAccountRemove(p, n)
      PROVE  AccountInv'
  <2>2. cfg' \in Configurations /\ told' \in Tellings /\ ToldOf(cfg', told')
    BY <1>0, <1>2, ToldWhenRemoved DEF configAccountRemove
  <2>3. commands' \in 0 .. MaxCommands /\ login' = login /\ flow' = flow
    BY <1>2, <1>d DEF configAccountRemove
  <2> QED BY <1>0, <1>b, <2>2, <2>3
<1>3. ASSUME NEW h \in Homes, NEW l \in Logins, codexLogin(h, l)
      PROVE  AccountInv'
  <2>1. /\ commands' \in 0 .. MaxCommands /\ cfg' = cfg /\ told' = told /\ flow' = flow
        /\ login' = [login EXCEPT ![h] = l]
    BY <1>3, <1>d DEF codexLogin
  <2>2. LoginOK'
    BY <1>0, <2>1, HomesAssumption
  <2>3. login' \in [Homes \union TmpHomes -> Logins \union {None}]
    BY <1>0, <2>1
  <2> QED BY <1>0, <1>b, <2>1, <2>2, <2>3
<1>4. ASSUME OpenPicker PROVE AccountInv'
  <2>1. /\ commands' \in 0 .. MaxCommands /\ cfg' = cfg /\ told' = told /\ login' = login
        /\ flow' = [Closed EXCEPT !.at = "picker", !.cfg = cfg]
    BY <1>4, <1>d DEF OpenPicker
  <2>2. flow' \in Flows /\ flow'.at = "picker"
    BY <1>0, <1>c, <2>1 DEF Flows
  <2> QED BY <1>0, <1>b, <2>1, <2>2
<1>5. ASSUME ClosePicker PROVE AccountInv'
  BY <1>0, <1>5, <1>b, <1>c DEF ClosePicker
<1>6. ASSUME NEW S, ConfirmPicker(S) PROVE AccountInv'
  <2>1. /\ Overwrite(Picked(flow.cfg, S), told)
        /\ commands' = commands /\ login' = login
    BY <1>6 DEF ConfirmPicker
  <2>2. flow.cfg \in Configurations
    BY <1>0 DEF Flows
  <2>3. /\ Picked(flow.cfg, S) \in Configurations
        /\ ToldOf(flow.cfg, told) => ToldOf(Picked(flow.cfg, S), told)
    BY <2>2, PickedIs DEF ToldOf
  <2>4. cfg' \in Configurations /\ told' \in Tellings /\ ToldOf(cfg', told') /\ flow' = Closed
    BY <1>0, <1>a, <2>1, <2>3, OverwriteKeeps
  <2> QED BY <1>0, <1>b, <1>c, <2>1, <2>4
<1>7. ASSUME NEW n, runDisconnectCodexAccountFlow(n) PROVE AccountInv'
  <2>1. /\ Overwrite(withoutAccount(flow.cfg, "codex", n), [told EXCEPT ![<< "codex", n >>] = Gone])
        /\ commands' = commands /\ login' = login
    BY <1>7 DEF runDisconnectCodexAccountFlow
  <2>2. flow.cfg \in Configurations
    BY <1>0 DEF Flows
  <2>3. /\ withoutAccount(flow.cfg, "codex", n) \in Configurations
        /\ flow.cfg = cfg =>
              /\ [told EXCEPT ![<< "codex", n >>] = Gone] \in Tellings
              /\ ToldOf(withoutAccount(flow.cfg, "codex", n), [told EXCEPT ![<< "codex", n >>] = Gone])
    BY <1>0, <2>2, ToldWhenRemoved, WithoutAccountIs
  <2>4. cfg' \in Configurations /\ told' \in Tellings /\ ToldOf(cfg', told') /\ flow' = Closed
    BY <1>a, <2>1, <2>3, OverwriteKeeps
  <2> QED BY <1>0, <1>b, <1>c, <2>1, <2>4
<1>8. ASSUME NEW n, NEW l \in Logins, runReconnectCodexAccountFlow(n, l) PROVE AccountInv'
  <2>1. /\ \E h : login' = [login EXCEPT ![h] = l]
        /\ flow' = Closed /\ cfg' = cfg /\ told' = told /\ commands' = commands
    BY <1>8 DEF runReconnectCodexAccountFlow
  <2>2. login' \in [Homes \union TmpHomes -> Logins \union {None}]
    BY <1>0, <2>1
  <2> QED BY <1>0, <1>b, <1>c, <2>1, <2>2
<1>9. ASSUME NEW l \in Logins, runAddCodexAccountFlow(l) PROVE AccountInv'
  <2>1. PICK t \in Unused : /\ login' = [login EXCEPT ![t] = l]
                            /\ flow' = [flow EXCEPT !.at = "loggedIn", !.login = l, !.tmp = t]
    BY <1>9 DEF runAddCodexAccountFlow
  <2>2. cfg' = cfg /\ told' = told /\ commands' = commands /\ t \in TmpHomes
    BY <1>9 DEF runAddCodexAccountFlow, Unused
  <2>3. login' \in [Homes \union TmpHomes -> Logins \union {None}] /\ login'[t] = l
    BY <1>0, <2>1, <2>2
  <2>4. flow' \in Flows /\ flow'.tmp = t /\ flow'.login = l
    BY <1>0, <2>1, <2>2 DEF Flows
  <2> QED BY <1>0, <1>b, <2>2, <2>3, <2>4
<1>10. ASSUME NEW n, NothingToAdd(n) PROVE AccountInv'
  <2>1. /\ login' = [login EXCEPT ![flow.tmp] = None]
        /\ flow' = Closed /\ cfg' = cfg /\ told' = told /\ commands' = commands
    BY <1>10 DEF NothingToAdd
  <2>2. login' \in [Homes \union TmpHomes -> Logins \union {None}]
    BY <1>0, <2>1
  <2> QED BY <1>0, <1>b, <1>c, <2>1, <2>2
<1>11. ASSUME NEW n \in Names \union {None}, NEW saved, Register(n, saved) PROVE AccountInv'
  <2> DEFINE alias == AliasOf(flow.login, n)
             home  == HomeAfterRename(flow.login, n)
             new   == upsertAccount(flow.cfg, "codex", alias, home)
             says  == [told EXCEPT ![<< "codex", alias >>] = home]
  <2>1. /\ flow.at = "loggedIn" /\ alias # None /\ commands' = commands
        /\ login' = IF login[HomeOf(flow.login, n)] = None
                    THEN [login EXCEPT ![flow.tmp] = None, ![HomeOf(flow.login, n)] = flow.login]
                    ELSE login
        /\ \/ Overwrite(new, says)
           \/ flow' = Closed /\ cfg' = cfg /\ told' = told
    BY <1>11 DEF Register
  <2>2. flow.cfg \in Configurations /\ flow.login \in Logins
    BY <1>0, <2>1 DEF Flows
  <2>3. alias \in STRING /\ home \in Homes \union TmpHomes /\ "codex" \in AccountKinds
    BY <1>a, <2>1, NewHome DEF AccountKinds
  <2>4. home \in STRING \ {None}
    BY <2>3, HomesAssumption
  <2> HIDE DEF alias, home
  <2>5. /\ new \in Configurations
        /\ flow.cfg = cfg => says \in Tellings /\ ToldOf(new, says)
    <3>1. new \in Configurations
      BY <2>2, <2>3, <2>4, UpsertAccountIs
    <3> QED BY <1>0, <2>2, <2>3, <3>1, ToldWhenAdded
  <2> HIDE DEF new, says
  <2>6. login' \in [Homes \union TmpHomes -> Logins \union {None}]
    BY <1>0, <2>1, <2>2
  <2>7. flow' = Closed /\ cfg' \in Configurations /\ told' \in Tellings /\ ToldOf(cfg', told')
    BY <1>0, <1>a, <2>1, <2>5, OverwriteKeeps DEF Overwrite
  <2> QED BY <1>0, <1>b, <1>c, <2>1, <2>6, <2>7
<1>12. ASSUME UNCHANGED accountVars PROVE AccountInv'
  BY <1>0, <1>b, <1>12 DEF accountVars
<1>13. NextPicker => AccountInv'
  BY <1>4, <1>5, <1>6, <1>7, <1>8, <1>9, <1>10, <1>11 DEF NextPicker
<1> QED BY <1>1, <1>2, <1>3, <1>12, <1>13 DEF AccountNext

\* The inductive invariant of the commands: what they keep has its type, and the
\* entries of the file are what the user was told of them.  No command breaks
\* it, the interactive one that was open while others ran included
\* (cmd/config.go:1041-1065, 1117-1138, 1200-1363).
THEOREM AccountsInductive == AccountSpec => []AccountInv
<1> QED BY AccountInitially, AccountStep, PTL DEF AccountSpec

\* An account the user was told is registered in a directory is read from that
\* directory, and one he was told is removed is not read unless the legacy key
\* lists it, whatever commands came between and for any number of them
\* (cmd/config.go:1041-1065, 1117-1138, 1343-1363).
THEOREM AccountsAsTold == AccountSpec => []AccountsAreAsTold
<1>1. AccountInv => AccountsAreAsTold
  BY DEF AccountInv
<1> QED BY <1>1, AccountsInductive, PTL

\* With several accounts, or none, the directory a reset credit is spent in is the
\* one the row of its label reads, in every configuration the commands reach
\* (cmd/usage_reset_credit.go:136-158, accounts.go).
THEOREM CreditToItsRow == AccountSpec => []CreditGoesToItsRow
<1>1. AccountInv => CreditGoesToItsRow
  <2> SUFFICES ASSUME AccountInv, Len(AccountsForProvider(cfg, "codex")) # 1,
                      NEW i \in DOMAIN Jobs(cfg), Jobs(cfg)[i].provider = "codex"
               PROVE  resolveCodexAccountHome(cfg, Jobs(cfg)[i].label) = Jobs(cfg)[i].home
    BY DEF CreditGoesToItsRow
  <2>1. cfg \in Configurations
    BY DEF AccountInv, AccountTypeOK
  <2>2. Jobs(cfg)[i] \in ToSet(Jobs(cfg))
    BY DEF ToSet
  <2> QED BY <2>1, <2>2, CreditHome
<1> QED BY <1>1, AccountsInductive, PTL

\* A login that registers a new account is the login its row shows, whether or not
\* the directory it should have had was taken (cmd/config.go:1257-1271).
THEOREM NewAccountsShown == AccountSpec => NewAccountShowsItsLogin
<1> DEFINE Shown == \A n \in Names \union {None} :
          /\ Register(n, TRUE)
          /\ ValidateAccountAlias(AliasOf(flow.login, n))
          /\ ~Registered(flow.cfg, "codex", AliasOf(flow.login, n))
          => \E e \in ToSet(AccountsForProvider(cfg', "codex")) :
                e.name = AliasOf(flow.login, n) /\ login'[e.home] = flow.login
<1>1. ASSUME AccountInv PROVE Shown
  <2> SUFFICES ASSUME NEW n \in Names \union {None}, Register(n, TRUE),
                      ValidateAccountAlias(AliasOf(flow.login, n)),
                      ~Registered(flow.cfg, "codex", AliasOf(flow.login, n))
               PROVE  \E e \in ToSet(AccountsForProvider(cfg', "codex")) :
                         e.name = AliasOf(flow.login, n) /\ login'[e.home] = flow.login
    OBVIOUS
  <2> DEFINE l == flow.login
             alias == AliasOf(l, n)
             home  == HomeAfterRename(l, n)
             new   == upsertAccount(flow.cfg, "codex", alias, home)
  <2>1. /\ flow.at = "loggedIn" /\ alias # None
        /\ login' = IF login[HomeOf(l, n)] = None
                    THEN [login EXCEPT ![flow.tmp] = None, ![HomeOf(l, n)] = l]
                    ELSE login
        /\ cfg' = new
    BY DEF Register, Overwrite
  <2>2. /\ flow.cfg \in Configurations
        /\ login \in [Homes \union TmpHomes -> Logins \union {None}]
        /\ flow.tmp \in TmpHomes /\ login[flow.tmp] = l
    BY <1>1, <2>1 DEF AccountInv, AccountTypeOK
  <2>3. alias \in STRING /\ HomeOf(l, n) \in Homes /\ home \in Homes \union TmpHomes /\ "codex" \in AccountKinds
    BY <1>1, <2>1, NewHome DEF AccountInv, AccountKinds
  <2>4. home \in STRING \ {None}
    BY <2>3, HomesAssumption
  <2>5. login'[home] = l
    BY <2>1, <2>2, <2>3 DEF HomeAfterRename
  <2> HIDE DEF alias, home
  <2>6. \A e \in EntrySet(flow.cfg) : ~Same(e, "codex", alias)
    BY DEF Registered, EntrySet, alias
  <2>7. /\ new \in Configurations
        /\ \E f \in EntrySet(new) : Same(f, "codex", alias) /\ f.home = home /\ ~f.token
    BY <2>2, <2>3, <2>4, <2>6, UpsertAccountIs
  <2>8. PICK f \in EntrySet(new) : Same(f, "codex", alias) /\ f.home = home /\ ~f.token
    BY <2>7
  <2>9. f \in ToSet(AccountsForProvider(new, "codex"))
    BY <2>7, <2>8, AccountsAre DEF Same
  <2> QED BY <2>1, <2>5, <2>8, <2>9 DEF Same, alias
<1>2. AccountInv => [Shown]_accountVars
  BY <1>1
<1> QED BY <1>2, AccountsInductive, PTL DEF NewAccountShowsItsLogin

-----------------------------------------------------------------------------
(* The rows of a report.                                                   *)

LEMMA EntryTells ==
    ASSUME NEW n \in RowNames, NEW m \in RowNames, EntryOf(n) = EntryOf(m)
    PROVE  n = m
<1>1. "minimax" \notin RowNames
  BY NamesAre DEF RowNames, ToolNames, Standalone
<1> QED BY <1>1 DEF EntryOf

\* The rows of a provider are those of one name.
LEMMA RowsOfProvider ==
    ASSUME NEW c \in Configurations, NEW n \in EmittedSet(c)
    PROVE  {r \in ToSet(Jobs(c)) : r.provider = EntryOf(n)} = RowSet(c, n)
<1>1. /\ EmittedSet(c) \subseteq RowNames
      /\ ToSet(Jobs(c)) = UNION {RowSet(c, m) : m \in EmittedSet(c)}
  BY JobsAre
<1>2. ASSUME NEW m \in EmittedSet(c), NEW r \in RowSet(c, m), r.provider = EntryOf(n)
      PROVE  r \in RowSet(c, n)
  <2>1. EntryOf(m) = EntryOf(n)
    BY <1>1, <1>2, RowSetFacts
  <2> QED BY <1>1, <1>2, <2>1, EntryTells
<1>3. \A r \in RowSet(c, n) : r.provider = EntryOf(n)
  BY <1>1, RowSetFacts
<1> QED BY <1>1, <1>2, <1>3

\* Rows of one provider have a directory each, where its accounts have.
LEMMA RowsApart ==
    ASSUME NEW c \in Configurations,
           \A p \in AccountKinds : \A e, f \in ToSet(AccountsForProvider(c, p)) :
               e.home = f.home => e = f,
           NEW r \in ToSet(Jobs(c)), NEW q \in ToSet(Jobs(c)), r # q, r.provider = q.provider
    PROVE  /\ r.provider \in AccountKinds
           /\ None \notin {r.home, q.home} /\ r.home # q.home
<1>1. PICK n \in EmittedSet(c) : r \in RowSet(c, n) /\ r.provider = EntryOf(n) /\ n \in RowNames
  BY JobsAre, RowSetFacts
<1>2. q \in RowSet(c, n)
  BY <1>1, RowsOfProvider
<1> DEFINE A == ToSet(AccountsForProvider(c, n))
<1>3. A # {} /\ RowSet(c, n) = {AccountRow(n, e, Several(c, n)) : e \in A}
  BY <1>1, <1>2 DEF RowSet
<1>4. PICK e \in A, f \in A : r = AccountRow(n, e, Several(c, n)) /\ q = AccountRow(n, f, Several(c, n))
  BY <1>1, <1>2, <1>3
<1>5. r.provider = n /\ r.home = e.home /\ q.home = f.home /\ e # f
  BY <1>4 DEF AccountRow
<1>6. n \in AccountKinds /\ e.home # None /\ f.home # None
  BY <1>4, AccountsAre
<1> QED BY <1>4, <1>5, <1>6

\* As many labels as rows.
LEMMA LabelsCount ==
    ASSUME NEW c \in Configurations
    PROVE  Cardinality({Jobs(c)[i].label : i \in DOMAIN Jobs(c)}) = Len(Jobs(c))
<1> DEFINE jobs == Jobs(c)
           L == {jobs[i].label : i \in DOMAIN jobs}
           f == [i \in 1 .. Len(jobs) |-> jobs[i].label]
<1>1. /\ jobs \in Seq(RowRecords) /\ IsInjective(jobs)
      /\ \A r, q \in ToSet(jobs) : r.label = q.label => r = q
  BY JobsAre
<1>2. DOMAIN jobs = 1 .. Len(jobs) /\ Len(jobs) \in Nat
  BY <1>1, LenProperties
<1> HIDE DEF jobs
<1>3. f \in Bijection(1 .. Len(jobs), L)
  <2>1. f \in Surjection(1 .. Len(jobs), L)
    BY <1>2 DEF Surjection
  <2>2. \A i, k \in 1 .. Len(jobs) : jobs[i].label = jobs[k].label => i = k
    BY <1>1, <1>2 DEF ToSet, IsInjective
  <2>3. f \in Injection(1 .. Len(jobs), L)
    BY <1>2, <2>2 DEF Injection, IsInjective
  <2> QED BY <2>1, <2>3 DEF Bijection
<1>4. ExistsBijection(1 .. Len(jobs), L)
  BY <1>3 DEF ExistsBijection
<1>5. IsFiniteSet(1 .. Len(jobs)) /\ Cardinality(1 .. Len(jobs)) = Len(jobs)
  <2>1. IsFiniteSet(1 .. Len(jobs)) /\ Cardinality(1 .. Len(jobs)) = IF 1 > Len(jobs) THEN 0 ELSE Len(jobs) - 1 + 1
    BY <1>2, FS_Interval
  <2> QED BY <1>2, <2>1
<1> HIDE DEF L, f
<1> QED BY <1>4, <1>5, FS_Bijection DEF L, jobs

\* Accounts are those of the registry entry.
LEMMA EntryAccounts ==
    ASSUME NEW c \in Configurations, NEW n \in RowNames
    PROVE  ToSet(AccountsForProvider(c, EntryOf(n))) = ToSet(AccountsForProvider(c, n))
<1>1. EntryOf(n) \in AccountKinds \/ n \in AccountKinds => EntryOf(n) = n
  BY RowNameFacts
<1>2. \A p : p \notin AccountKinds => ToSet(AccountsForProvider(c, p)) = {}
  BY AccountsAre
<1> QED BY <1>1, <1>2

LEMMA ReportedIs ==
    ASSUME case.cfg \in Configurations
    PROVE  Reported = {EntryOf(n) : n \in EmittedSet(case.cfg)}
<1> DEFINE c == case.cfg
<1>1. /\ EmittedSet(c) \subseteq RowNames
      /\ \A n \in RowNames : lookupProviderName(n) = EntryOf(n) /\ EntryOf(n) \in ToSet(providers)
  BY JobsAre, RowNameFacts
<1>2. \A n \in standaloneAllowedNames(c) : EntryOf(n) = n
  <2> SUFFICES ASSUME NEW n \in standaloneAllowedNames(c) PROVE n # "mmx"
    BY DEF EntryOf
  <2>1. n \in Standalone
    BY StandaloneIs DEF standaloneAllowedNames
  <2> QED BY <2>1 DEF Standalone
<1>3. EmittedSet(c) = ToSet(SelectedTools(c)) \union standaloneAllowedNames(c)
  BY DEF EmittedSet
<1> QED BY <1>1, <1>2, <1>3 DEF Reported

LEMMA RowsOnce ==
    ASSUME case.cfg \in Configurations, job = Jobs(case.cfg), DOMAIN row = DOMAIN job
    PROVE  EveryRowOnce
<1> DEFINE c == case.cfg
           Homes2(p) == {e.home : e \in ToSet(AccountsForProvider(c, p))}
<1>1. /\ EmittedSet(c) \subseteq RowNames
      /\ ToSet(job) = UNION {RowSet(c, n) : n \in EmittedSet(c)}
      /\ Reported = {EntryOf(n) : n \in EmittedSet(c)}
  BY JobsAre, ReportedIs
<1>2. Cardinality({job[i].label : i \in Rows}) = Len(job)
  BY LabelsCount DEF Rows
<1>3. {job[i].provider : i \in Rows} = Reported
  <2>1. {job[i].provider : i \in Rows} = {r.provider : r \in ToSet(job)}
    BY DEF Rows, ToSet
  <2>2. \A n \in EmittedSet(c) : RowSet(c, n) # {} /\ \A r \in RowSet(c, n) : r.provider = EntryOf(n)
    BY <1>1, RowSetFacts
  <2>3. \A r \in ToSet(job) : \E n \in EmittedSet(c) : r.provider = EntryOf(n)
    BY <1>1, <2>2
  <2>4. \A n \in EmittedSet(c) : \E r \in ToSet(job) : r.provider = EntryOf(n)
    BY <1>1, <2>2
  <2>5. \A p : p \in {r.provider : r \in ToSet(job)} <=> p \in {EntryOf(n) : n \in EmittedSet(c)}
    <3> DEFINE P == {r.provider : r \in ToSet(job)}
               E == {EntryOf(n) : n \in EmittedSet(c)}
    <3>1. \A p : p \in P => p \in E
      BY <2>3
    <3>2. \A p : p \in E => p \in P
      BY <2>4
    <3> HIDE DEF P, E
    <3>3. \A p : p \in P <=> p \in E
      BY <3>1, <3>2
    <3> QED BY <3>3 DEF P, E
  <2>6. {r.provider : r \in ToSet(job)} = {EntryOf(n) : n \in EmittedSet(c)}
    BY <2>5
  <2> QED BY <1>1, <2>1, <2>6
<1>4. ASSUME NEW p \in Reported
      PROVE  {job[i].home : i \in {j \in Rows : job[j].provider = p}} =
                 IF Homes2(p) = {} THEN {None} ELSE Homes2(p)
  <2>1. PICK n \in EmittedSet(c) : p = EntryOf(n) /\ n \in RowNames
    BY <1>1
  <2>2. {job[i].home : i \in {j \in Rows : job[j].provider = p}} =
            {r.home : r \in {q \in ToSet(job) : q.provider = p}}
    BY DEF Rows, ToSet
  <2>3. {q \in ToSet(job) : q.provider = p} = RowSet(c, n)
    BY <2>1, RowsOfProvider
  <2>4. {r.home : r \in RowSet(c, n)} =
            IF ToSet(AccountsForProvider(c, n)) = {} THEN {None}
            ELSE {e.home : e \in ToSet(AccountsForProvider(c, n))}
    BY <2>1, RowSetFacts
  <2>5. ToSet(AccountsForProvider(c, p)) = ToSet(AccountsForProvider(c, n))
    BY <2>1, EntryAccounts
  <2>6. Homes2(p) = {e.home : e \in ToSet(AccountsForProvider(c, n))}
    BY <2>5
  <2>7. Homes2(p) = {} <=> ToSet(AccountsForProvider(c, n)) = {}
    BY <2>6
  <2> HIDE DEF Homes2
  <2> QED BY <2>2, <2>3, <2>4, <2>6, <2>7
<1> QED BY <1>2, <1>3, <1>4 DEF EveryRowOnce

-----------------------------------------------------------------------------
(* Which of two elements of a list comes first.                            *)

\* The first k elements of s.
Firsts(s, k) == {s[j] : j \in 1 .. k}

\* One of X comes in s before any of Y.
Leads(s, X, Y) ==
    \E k \in 0 .. Len(s) : Firsts(s, k) \cap X # {} /\ Firsts(s, k) \cap Y = {}

LEMMA FirstsGrow ==
    ASSUME NEW s, NEW i \in Nat, NEW k \in Nat
    PROVE  i <= k => Firsts(s, i) \subseteq Firsts(s, k)
BY DEF Firsts

LEMMA LeadsOneWay ==
    ASSUME NEW D, NEW s \in Seq(D), NEW X, NEW Y
    PROVE  ~(Leads(s, X, Y) /\ Leads(s, Y, X))
<1> SUFFICES ASSUME Leads(s, X, Y), Leads(s, Y, X) PROVE FALSE
  OBVIOUS
<1>1. PICK i \in 0 .. Len(s) : Firsts(s, i) \cap X # {} /\ Firsts(s, i) \cap Y = {}
  BY DEF Leads
<1>2. PICK k \in 0 .. Len(s) : Firsts(s, k) \cap Y # {} /\ Firsts(s, k) \cap X = {}
  BY DEF Leads
<1>3. Len(s) \in Nat /\ i \in Nat /\ k \in Nat /\ (i <= k \/ k <= i)
  BY LenProperties
<1>4. Firsts(s, i) \subseteq Firsts(s, k) \/ Firsts(s, k) \subseteq Firsts(s, i)
  BY <1>3, FirstsGrow
<1> QED BY <1>1, <1>2, <1>4

LEMMA LeadsSomeWay ==
    ASSUME NEW D, NEW s \in Seq(D), NEW X, NEW Y, X \cap Y = {}, ToSet(s) \cap X # {}
    PROVE  Leads(s, X, Y) \/ Leads(s, Y, X)
<1>1. DOMAIN s = 1 .. Len(s) /\ Len(s) \in Nat
  BY LenProperties
<1> DEFINE T == {k \in 0 .. Len(s) : Firsts(s, k) \cap (X \union Y) # {}}
<1>2. Len(s) \in T
  BY <1>1, SetOfPrefix DEF Firsts
<1>3. PICK k \in T : \A j \in T : k <= j
  <2>1. T \in SUBSET Nat /\ T # {}
    BY <1>1, <1>2
  <2> HIDE DEF T
  <2> QED BY <2>1, Least
<1>4. k \in 1 .. Len(s)
  <2>1. Firsts(s, 0) = {}
    BY SetOfPrefix DEF Firsts
  <2> QED BY <1>1, <1>3, <2>1
<1>5. Firsts(s, k) = Firsts(s, k - 1) \union {s[k]}
  BY <1>4, SetOfPrefix DEF Firsts
<1>6. Firsts(s, k - 1) \cap (X \union Y) = {}
  <2>1. k - 1 \in 0 .. Len(s) /\ ~(k <= k - 1)
    BY <1>1, <1>4
  <2> QED BY <1>3, <2>1
<1>7. s[k] \in X \/ s[k] \in Y
  BY <1>3, <1>5, <1>6
<1>8. k \in 0 .. Len(s)
  BY <1>1, <1>4
<1> QED BY <1>5, <1>6, <1>7, <1>8 DEF Leads

\* In a list without duplicates.
LEMMA BeforeLeads ==
    ASSUME NEW D, NEW s \in Seq(D), IsInjective(s), NEW x, NEW y \in ToSet(s), x # y
    PROVE  Before(s, x, y) <=> Leads(s, {x}, {y})
<1>1. DOMAIN s = 1 .. Len(s) /\ Len(s) \in Nat
  BY LenProperties
<1>2. ASSUME Before(s, x, y) PROVE Leads(s, {x}, {y})
  <2>1. PICK i \in DOMAIN s, j \in DOMAIN s : i < j /\ s[i] = x /\ s[j] = y
    BY <1>2 DEF Before
  <2>2. x \in Firsts(s, i)
    BY <1>1, <2>1 DEF Firsts
  <2>3. y \notin Firsts(s, i)
    BY <1>1, <2>1 DEF Firsts, IsInjective
  <2>4. i \in 0 .. Len(s)
    BY <1>1
  <2> QED BY <2>2, <2>3, <2>4 DEF Leads
<1>3. ASSUME Leads(s, {x}, {y}) PROVE Before(s, x, y)
  <2>1. PICK k \in 0 .. Len(s) : x \in Firsts(s, k) /\ y \notin Firsts(s, k)
    BY <1>3 DEF Leads
  <2>2. PICK i \in 1 .. k : s[i] = x
    BY <2>1 DEF Firsts
  <2>3. PICK j \in DOMAIN s : s[j] = y
    BY DEF ToSet
  <2>4. j \notin 1 .. k
    BY <2>1, <2>3 DEF Firsts
  <2>5. i \in DOMAIN s /\ i < j
    BY <1>1, <2>1, <2>2, <2>4
  <2> QED BY <2>2, <2>3, <2>5 DEF Before
<1> QED BY <1>2, <1>3

LEMMA LeadsInConcat ==
    ASSUME NEW D, NEW s \in Seq(D), NEW t \in Seq(D), NEW X, NEW Y, Leads(s, X, Y)
    PROVE  Leads(s \o t, X, Y)
<1> DEFINE u == s \o t
<1>1. /\ Len(u) = Len(s) + Len(t) /\ Len(s) \in Nat /\ Len(t) \in Nat
      /\ \A i \in 1 .. Len(s) + Len(t) : u[i] = IF i <= Len(s) THEN s[i] ELSE t[i - Len(s)]
  BY ConcatProperties, LenProperties
<1> HIDE DEF u
<1>2. PICK k \in 0 .. Len(s) : Firsts(s, k) \cap X # {} /\ Firsts(s, k) \cap Y = {}
  BY DEF Leads
<1>3. k \in 0 .. Len(u) /\ \A j \in 1 .. k : u[j] = s[j]
  BY <1>1
<1>4. Firsts(u, k) = Firsts(s, k)
  BY <1>3 DEF Firsts
<1> QED BY <1>2, <1>3, <1>4 DEF Leads, u

\* What Distinct makes of the first i elements stays at the front.
LEMMA DistinctFirsts ==
    ASSUME NEW D, NEW seq \in Seq(D), NEW i \in 0 .. Len(seq)
    PROVE  \E k \in 0 .. Len(Distinct(seq)) : Firsts(Distinct(seq), k) = Firsts(seq, i)
<1>0. PICK h : DistinctRun(h, D, seq)
  BY DistinctRuns
<1>1. /\ h \in [0 .. Len(seq) -> Seq(D)]
      /\ h[0] = << >>
      /\ \A j \in 1 .. Len(seq) :
            h[j] = IF seq[j] \in ToSet(h[j - 1]) THEN h[j - 1] ELSE Append(h[j - 1], seq[j])
      /\ h[Len(seq)] = Distinct(seq)
  BY <1>0 DEF DistinctRun
<1>2. Len(seq) \in Nat /\ \A j \in 1 .. Len(seq) : seq[j] \in D
  BY LenProperties, ElementOfSeq
<1>3. \A j \in 0 .. Len(seq) : h[j] \in Seq(D) /\ Len(h[j]) \in Nat /\ DOMAIN h[j] = 1 .. Len(h[j])
  BY <1>1, LenProperties
<1> DEFINE Ahead(j, n) == \E k \in 0 .. Len(h[n]) : Firsts(h[n], k) = Firsts(seq, j)
           Fits(n) == \A j \in 0 .. n : Ahead(j, n)
           Whole(n) == Firsts(h[n], Len(h[n])) = Firsts(seq, n)
           T == {n \in Nat : n <= Len(seq) => Fits(n) /\ Whole(n)}
<1>4. 0 \in T
  <2>1. Len(h[0]) = 0 /\ Firsts(h[0], 0) = {} /\ Firsts(seq, 0) = {}
    BY <1>1, EmptySeq DEF Firsts
  <2>2. 0 .. 0 = {0}
    OBVIOUS
  <2>3. 0 \in 0 .. Len(h[0])
    BY <2>1
  <2>5. Whole(0)
    BY <2>1, Zenon
  <2>4. Ahead(0, 0)
    BY <2>1, <2>3
  <2> HIDE DEF Ahead, Whole
  <2> QED BY <2>2, <2>4, <2>5
<1>5. ASSUME NEW n \in Nat, n \in T PROVE n + 1 \in T
  <2> SUFFICES ASSUME n + 1 <= Len(seq) PROVE Fits(n + 1) /\ Whole(n + 1)
    OBVIOUS
  <2>1. /\ Fits(n) /\ Whole(n)
        /\ n + 1 \in 1 .. Len(seq) /\ (n + 1) - 1 = n /\ n \in 0 .. Len(seq) /\ n + 1 \in 0 .. Len(seq)
    BY <1>2, <1>5
  <2>2. h[n + 1] = IF seq[n + 1] \in ToSet(h[n]) THEN h[n] ELSE Append(h[n], seq[n + 1])
    BY <1>1, <2>1
  <2>3. Firsts(seq, n + 1) = Firsts(seq, n) \union {seq[n + 1]}
    BY <2>1, SetOfPrefix DEF Firsts
  <2>4. Firsts(h[n], Len(h[n])) = ToSet(h[n])
    BY <1>3, <2>1, SetOfPrefix DEF Firsts
  <2>5. CASE seq[n + 1] \in ToSet(h[n])
    <3>1. h[n + 1] = h[n]
      BY <2>2, <2>5
    <3>2. Whole(n + 1)
      BY <2>1, <2>3, <2>4, <2>5, <3>1
    <3>3. Ahead(n + 1, n + 1)
      <4>1. Len(h[n + 1]) \in 0 .. Len(h[n + 1])
        BY <1>3, <2>1
      <4> QED BY <3>2, <4>1
    <3>4. \A j \in 0 .. n : Ahead(j, n + 1)
      BY <2>1, <3>1
    <3> HIDE DEF Ahead
    <3> QED BY <3>2, <3>3, <3>4
  <2>6. CASE seq[n + 1] \notin ToSet(h[n])
    <3> DEFINE a == h[n]
               b == h[n + 1]
    <3>1. /\ Len(b) = Len(a) + 1 /\ Len(a) \in Nat
          /\ \A j \in 1 .. Len(a) : b[j] = a[j]
          /\ b[Len(a) + 1] = seq[n + 1]
          /\ b \in Seq(D)
      <4>1. b = Append(a, seq[n + 1]) /\ a \in Seq(D) /\ seq[n + 1] \in D /\ b \in Seq(D)
        BY <1>2, <1>3, <2>1, <2>2, <2>6
      <4> HIDE DEF a, b
      <4> QED BY <4>1, AppendProperties, LenProperties
    <3> HIDE DEF a, b
    <3>2. \A k \in 0 .. Len(a) : k \in 0 .. Len(b) /\ Firsts(b, k) = Firsts(a, k)
      BY <3>1 DEF Firsts
    <3>3. Firsts(b, Len(b)) = Firsts(a, Len(a)) \union {seq[n + 1]}
      <4>1. Len(b) \in 1 .. Len(b) /\ Len(b) - 1 = Len(a) /\ Len(a) \in 0 .. Len(a)
        BY <3>1
      <4>2. Firsts(b, Len(b)) = Firsts(b, Len(a)) \union {b[Len(b)]}
        BY <3>1, <4>1, SetOfPrefix DEF Firsts
      <4> QED BY <3>1, <3>2, <4>1, <4>2
    <3>4. Whole(n + 1)
      BY <2>1, <2>3, <3>3 DEF a, b
    <3>5. Ahead(n + 1, n + 1)
      <4>1. Len(b) \in 0 .. Len(b)
        BY <3>1
      <4> QED BY <3>4, <4>1 DEF b
    <3>6. \A j \in 0 .. n : Ahead(j, n + 1)
      BY <2>1, <3>2 DEF a, b
    <3> HIDE DEF Ahead
    <3> QED BY <3>4, <3>5, <3>6
  <2> QED BY <2>5, <2>6
<1>6. Len(seq) \in T
  <2> HIDE DEF T
  <2> QED BY <1>2, <1>4, <1>5, SetInduction
<1>7. Fits(Len(seq))
  BY <1>2, <1>6
<1> QED BY <1>1, <1>7

LEMMA LeadsInDistinct ==
    ASSUME NEW D, NEW s \in Seq(D), NEW X, NEW Y, Leads(s, X, Y)
    PROVE  Leads(Distinct(s), X, Y)
<1>1. PICK i \in 0 .. Len(s) : Firsts(s, i) \cap X # {} /\ Firsts(s, i) \cap Y = {}
  BY DEF Leads
<1>2. PICK k \in 0 .. Len(Distinct(s)) : Firsts(Distinct(s), k) = Firsts(s, i)
  BY DistinctFirsts
<1> QED BY <1>1, <1>2 DEF Leads

\* What FlattenSeq makes of the lists before the i-th, and of the first k of the
\* i-th, stays at the front.
LEMMA FlattenFirsts ==
    ASSUME NEW D, NEW ss \in Seq(Seq(D)), NEW i \in DOMAIN ss, NEW k \in 0 .. Len(ss[i])
    PROVE  \E m \in 0 .. Len(FlattenSeq(ss)) :
              Firsts(FlattenSeq(ss), m) = (UNION {ToSet(ss[j]) : j \in 1 .. i - 1}) \union Firsts(ss[i], k)
<1>0. /\ Len(ss) \in Nat /\ DOMAIN ss = 1 .. Len(ss) /\ ss # << >>
      /\ \A j \in 1 .. Len(ss) : ss[j] \in Seq(D) /\ Len(ss[j]) \in Nat /\ DOMAIN ss[j] = 1 .. Len(ss[j])
  BY LenProperties, ElementOfSeq
<1>1. PICK f : FlattenRun(f, D, ss)
  BY <1>0, FlattenRuns
<1>2. /\ f \in [1 .. Len(ss) -> Seq(D)]
      /\ \A j \in 1 .. Len(ss) : f[j] = IF j = 1 THEN ss[j] ELSE f[j - 1] \o ss[j]
      /\ FlattenSeq(ss) = f[Len(ss)]
  BY <1>1 DEF FlattenRun
<1>3. \A j \in 1 .. Len(ss) : f[j] \in Seq(D) /\ Len(f[j]) \in Nat /\ DOMAIN f[j] = 1 .. Len(f[j])
  BY <1>2, LenProperties
<1> DEFINE Parts(n) == UNION {ToSet(ss[j]) : j \in 1 .. n}
<1>4. \A n \in 1 .. Len(ss) : Firsts(f[n], Len(f[n])) = Parts(n)
  <2> DEFINE T == {n \in Nat : n + 1 <= Len(ss) => ToSet(f[n + 1]) = Parts(n + 1)}
  <2>1. 0 \in T
    <3>1. 1 <= Len(ss) => f[1] = ss[1]
      BY <1>0, <1>2
    <3>2. Parts(1) = ToSet(ss[1])
      OBVIOUS
    <3> QED BY <3>1, <3>2
  <2>2. ASSUME NEW n \in Nat, n \in T PROVE n + 1 \in T
    <3> DEFINE m == (n + 1) + 1
    <3> SUFFICES ASSUME m <= Len(ss) PROVE ToSet(f[m]) = Parts(m)
      OBVIOUS
    <3>1. /\ m \in 1 .. Len(ss) /\ m # 1 /\ m - 1 = n + 1 /\ n + 1 \in 1 .. Len(ss)
          /\ ToSet(f[n + 1]) = Parts(n + 1)
      BY <1>0, <2>2
    <3>2. 1 .. m = 1 .. n + 1 \union {m}
      OBVIOUS
    <3> HIDE DEF m
    <3>3. Parts(m) = Parts(n + 1) \union ToSet(ss[m])
      BY <3>2
    <3>4. f[m] = f[n + 1] \o ss[m] /\ f[n + 1] \in Seq(D) /\ ss[m] \in Seq(D)
      BY <1>0, <1>2, <3>1
    <3> HIDE DEF Parts
    <3> QED BY <3>1, <3>3, <3>4, ConcatIs
  <2>3. Nat \subseteq T
    <3> HIDE DEF T
    <3> QED BY <2>1, <2>2, SetInduction
  <2> SUFFICES ASSUME NEW n \in 1 .. Len(ss) PROVE Firsts(f[n], Len(f[n])) = Parts(n)
    OBVIOUS
  <2>4. n - 1 \in Nat /\ (n - 1) + 1 = n /\ n <= Len(ss)
    BY <1>0
  <2>5. n - 1 \in T
    <3> HIDE DEF T
    <3> QED BY <2>3, <2>4
  <2>6. ToSet(f[n]) = Parts(n)
    <3> HIDE DEF Parts
    <3> QED BY <2>4, <2>5
  <2>7. Firsts(f[n], Len(f[n])) = ToSet(f[n])
    BY <1>3, SetOfPrefix DEF Firsts
  <2> QED BY <2>6, <2>7
<1> DEFINE Wanted == Parts(i - 1) \union Firsts(ss[i], k)
           Fits(n) == \E m \in 0 .. Len(f[n]) : Firsts(f[n], m) = Wanted
<1>5. Fits(i)
  <2>1. CASE i = 1
    <3>1. Parts(i - 1) = {}
      BY <2>1
    <3>2. f[i] = ss[i]
      BY <1>0, <1>2, <2>1
    <3> HIDE DEF Parts
    <3> QED BY <3>1, <3>2
  <2>2. CASE i # 1
    <3> DEFINE a == f[i - 1]
               b == ss[i]
               u == f[i]
    <3>1. i - 1 \in 1 .. Len(ss) /\ i \in 1 .. Len(ss)
      BY <1>0, <2>2
    <3>2. u = a \o b /\ a \in Seq(D) /\ b \in Seq(D)
      BY <1>0, <1>2, <2>2, <3>1
    <3>3. Firsts(a, Len(a)) = Parts(i - 1)
      BY <1>4, <3>1
    <3>8. k \in 0 .. Len(b)
      OBVIOUS
    <3> HIDE DEF a, b, u, Parts
    <3>4. /\ Len(u) = Len(a) + Len(b) /\ Len(a) \in Nat /\ Len(b) \in Nat
          /\ \A j \in 1 .. Len(a) + Len(b) : u[j] = IF j <= Len(a) THEN a[j] ELSE b[j - Len(a)]
      BY <3>2, ConcatProperties, LenProperties
    <3>5. Len(a) + k \in 0 .. Len(u)
      BY <3>4, <3>8
    <3>6. Firsts(u, Len(a) + k) = Firsts(a, Len(a)) \union Firsts(b, k)
      <4>1. \A j \in 1 .. Len(a) : j \in 1 .. Len(a) + k /\ u[j] = a[j]
        BY <3>4, <3>8
      <4>2. ASSUME NEW j \in 1 .. k
            PROVE  Len(a) + j \in 1 .. Len(a) + k /\ u[Len(a) + j] = b[j]
        <5>1. k \in Int /\ j \in Int /\ 1 <= j /\ j <= k /\ k <= Len(b)
          BY <3>4, <3>8
        <5>2. Len(a) + j \in 1 .. Len(a) + Len(b) /\ ~(Len(a) + j <= Len(a)) /\ (Len(a) + j) - Len(a) = j
          BY <3>4, <5>1
        <5>3. Len(a) + j \in 1 .. Len(a) + k
          BY <3>4, <5>1
        <5> QED BY <3>4, <5>2, <5>3
      <4>3. \A j \in 1 .. Len(a) + k :
               \/ j \in 1 .. Len(a) /\ u[j] = a[j]
               \/ j - Len(a) \in 1 .. k /\ u[j] = b[j - Len(a)]
        BY <3>4, <3>8
      <4>4. ASSUME NEW x \in Firsts(u, Len(a) + k) PROVE x \in Firsts(a, Len(a)) \union Firsts(b, k)
        BY <4>3 DEF Firsts
      <4>5. Firsts(a, Len(a)) \subseteq Firsts(u, Len(a) + k)
        BY <4>1 DEF Firsts
      <4>6. Firsts(b, k) \subseteq Firsts(u, Len(a) + k)
        BY <4>2 DEF Firsts
      <4> QED BY <4>4, <4>5, <4>6
    <3> QED BY <3>3, <3>5, <3>6 DEF u, b
  <2> QED BY <2>1, <2>2
<1> HIDE DEF Wanted
<1>6. ASSUME NEW n \in 1 .. Len(ss), n + 1 \in 1 .. Len(ss), Fits(n) PROVE Fits(n + 1)
  <2> DEFINE a == f[n]
             b == ss[n + 1]
             u == f[n + 1]
  <2>1. u = a \o b /\ a \in Seq(D) /\ b \in Seq(D)
    <3>1. n + 1 # 1 /\ (n + 1) - 1 = n
      OBVIOUS
    <3> QED BY <1>0, <1>2, <1>6, <3>1
  <2>2. PICK m \in 0 .. Len(a) : Firsts(a, m) = Wanted
    BY <1>6
  <2> HIDE DEF a, b, u
  <2>3. /\ Len(u) = Len(a) + Len(b) /\ Len(a) \in Nat /\ Len(b) \in Nat
        /\ \A j \in 1 .. Len(a) + Len(b) : u[j] = IF j <= Len(a) THEN a[j] ELSE b[j - Len(a)]
    BY <2>1, ConcatProperties, LenProperties
  <2>4. m \in 0 .. Len(u) /\ \A j \in 1 .. m : u[j] = a[j]
    BY <2>3
  <2>5. Firsts(u, m) = Wanted
    BY <2>2, <2>4 DEF Firsts
  <2> QED BY <2>4, <2>5 DEF u
<1> HIDE DEF Fits
<1> DEFINE U == {n \in Nat : i + n <= Len(ss) => Fits(i + n)}
<1>7. 0 \in U
  <2>1. i + 0 = i
    BY <1>0
  <2> QED BY <1>5, <2>1
<1>8. ASSUME NEW n \in Nat, n \in U PROVE n + 1 \in U
  <2> SUFFICES ASSUME i + (n + 1) <= Len(ss) PROVE Fits(i + (n + 1))
    OBVIOUS
  <2>1. i + n \in 1 .. Len(ss) /\ (i + n) + 1 \in 1 .. Len(ss) /\ i + (n + 1) = (i + n) + 1 /\ i + n <= Len(ss)
    BY <1>0
  <2>2. Fits(i + n)
    BY <1>8, <2>1
  <2>3. Fits((i + n) + 1)
    BY <1>6, <2>1, <2>2
  <2> QED BY <2>1, <2>3
<1>9. Fits(Len(ss))
  <2>1. Nat \subseteq U
    <3> HIDE DEF U
    <3> QED BY <1>7, <1>8, SetInduction
  <2>2. Len(ss) - i \in Nat /\ i + (Len(ss) - i) = Len(ss) /\ Len(ss) <= Len(ss)
    BY <1>0
  <2>3. Len(ss) - i \in U
    <3> HIDE DEF U
    <3> QED BY <2>1, <2>2
  <2>4. i + (Len(ss) - i) <= Len(ss)
    BY <2>2
  <2>5. Fits(i + (Len(ss) - i))
    BY <2>3, <2>4
  <2> QED BY <2>2, <2>5
<1> QED BY <1>2, <1>9 DEF Fits, Wanted

\* The lists made of the elements of s, one of them with one of V before any of W.
LEMMA LeadsInFlatten ==
    ASSUME NEW D, NEW s \in Seq(D), NEW X, NEW Y, Leads(s, X, Y),
           NEW E, NEW ss \in Seq(Seq(E)), Len(ss) = Len(s), NEW V, NEW W,
           \A i \in DOMAIN s : s[i] \in X => ToSet(ss[i]) \cap V # {},
           \A i \in DOMAIN s : s[i] \notin Y => ToSet(ss[i]) \cap W = {}
    PROVE  Leads(FlattenSeq(ss), V, W)
<1>0. /\ DOMAIN s = 1 .. Len(s) /\ Len(s) \in Nat /\ DOMAIN ss = 1 .. Len(s)
      /\ \A i \in 1 .. Len(s) : ss[i] \in Seq(E) /\ Len(ss[i]) \in Nat
  BY LenProperties, ElementOfSeq
<1>1. PICK k \in 0 .. Len(s) : Firsts(s, k) \cap X # {} /\ Firsts(s, k) \cap Y = {}
  BY DEF Leads
<1>2. PICK i \in 1 .. k : s[i] \in X
  BY <1>1 DEF Firsts
<1>3. \A j \in 1 .. k : j \in DOMAIN s /\ s[j] \notin Y
  BY <1>0, <1>1 DEF Firsts
<1>4. \A j \in 1 .. k : ToSet(ss[j]) \cap W = {}
  BY <1>3
<1>5. i \in DOMAIN ss /\ Len(ss[i]) \in 0 .. Len(ss[i]) /\ ToSet(ss[i]) \cap V # {}
  <2>1. i \in DOMAIN s /\ i \in DOMAIN ss
    BY <1>0, <1>3
  <2>2. Len(ss[i]) \in Nat
    BY <1>0, <2>1
  <2>3. Len(ss[i]) \in 0 .. Len(ss[i])
    BY <2>2
  <2> QED BY <1>2, <2>1, <2>3
<1>6. PICK m \in 0 .. Len(FlattenSeq(ss)) :
         Firsts(FlattenSeq(ss), m)
            = (UNION {ToSet(ss[j]) : j \in 1 .. i - 1}) \union Firsts(ss[i], Len(ss[i]))
  <2> DEFINE n == Len(ss[i])
  <2>1. n \in 0 .. Len(ss[i])
    BY <1>5
  <2> HIDE DEF n
  <2>2. \E m \in 0 .. Len(FlattenSeq(ss)) :
           Firsts(FlattenSeq(ss), m) = (UNION {ToSet(ss[j]) : j \in 1 .. i - 1}) \union Firsts(ss[i], n)
    BY <1>5, <2>1, FlattenFirsts
  <2> QED BY <2>2 DEF n
<1>7. Firsts(ss[i], Len(ss[i])) = ToSet(ss[i])
  BY <1>0, <1>5, SetOfPrefix DEF Firsts
<1>8. \A j \in 1 .. i - 1 : j \in 1 .. k
  BY <1>0, <1>2
<1>9. (UNION {ToSet(ss[j]) : j \in 1 .. i - 1}) \cap W = {}
  BY <1>4, <1>8
<1> QED BY <1>2, <1>4, <1>5, <1>6, <1>7, <1>9 DEF Leads

\* One list keeps its own order.
LEMMA LeadsInPart ==
    ASSUME NEW D, NEW ss \in Seq(Seq(D)), NEW i \in DOMAIN ss, NEW X, NEW Y, Leads(ss[i], X, Y),
           \A j \in 1 .. i - 1 : ToSet(ss[j]) \cap Y = {}
    PROVE  Leads(FlattenSeq(ss), X, Y)
<1>1. PICK k \in 0 .. Len(ss[i]) : Firsts(ss[i], k) \cap X # {} /\ Firsts(ss[i], k) \cap Y = {}
  BY DEF Leads
<1>2. PICK m \in 0 .. Len(FlattenSeq(ss)) :
         Firsts(FlattenSeq(ss), m) = (UNION {ToSet(ss[j]) : j \in 1 .. i - 1}) \union Firsts(ss[i], k)
  BY FlattenFirsts
<1>3. (UNION {ToSet(ss[j]) : j \in 1 .. i - 1}) \cap Y = {}
  OBVIOUS
<1> QED BY <1>1, <1>2, <1>3 DEF Leads

-----------------------------------------------------------------------------
(* The picker confirmed as it opened.                                      *)

\* The name of a row an entry of a list stands for, and the entries that stand
\* for a name.
NameOf(n) == IF LookupStandalone(n) # None THEN LookupStandalone(n) ELSE NormalizeToolName(n[1])
Named(x)  == {n \in LabelNames : NameOf(n) = x}
Plain(x)  == {n \in Named(x) : Len(n) = 1}

LEMMA NotBoth ==
    /\ ToSet(Tools) \cap Standalone = {} /\ None \notin Standalone
    /\ \A x \in RowNames : EntryOf(x) \in Standalone <=> x \in Standalone
    /\ \A x \in Standalone : EntryOf(x) = x
<1>1. /\ ToSet(Tools) \cap Standalone = {} /\ None \notin Standalone
      /\ \A x \in Standalone : EntryOf(x) = x
  BY NamesAre DEF ToolNames, Standalone, None, EntryOf
<1>2. \A x \in RowNames : EntryOf(x) \in Standalone <=> x \in Standalone
  BY NamesAre DEF RowNames, ToolNames, Standalone, EntryOf
<1> QED BY <1>1, <1>2

LEMMA NameOfRow ==
    ASSUME NEW x \in RowNames
    PROVE  /\ << x >> \in LabelNames /\ NameOf(<< x >>) = x
           /\ LookupStandalone(<< x >>) = IF x \in Standalone THEN x ELSE None
<1>1. Len(<< x >>) = 1 /\ << x >>[1] = x
  OBVIOUS
<1>2. lookupProviderName(x) = EntryOf(x) /\ NormalizeToolName(x) = x /\ x \in STRING
  BY RowNameFacts
<1>3. LookupStandalone(<< x >>) = IF x \in Standalone THEN x ELSE None
  BY <1>1, <1>2, NotBoth DEF LookupStandalone
<1> QED BY <1>1, <1>2, <1>3, NameIsLabel, NotBoth DEF NameOf

\* A name that stands for no standalone provider is not folded to one.
LEMMA NoneFolded ==
    ASSUME NEW n, Len(n) = 1, LookupStandalone(n) = None
    PROVE  NormalizeToolName(n[1]) \notin Standalone
<1> SUFFICES ASSUME NormalizeToolName(n[1]) \in Standalone PROVE FALSE
  OBVIOUS
<1>1. n[1] \in Standalone
  BY DEF NormalizeToolName, Standalone
<1>2. n[1] \in RowNames
  BY <1>1 DEF RowNames
<1>3. lookupProviderName(n[1]) \in Standalone
  BY <1>1, <1>2, RowNameFacts, NotBoth
<1> QED BY <1>3, NotBoth DEF LookupStandalone

\* A row's name is what an entry folded to it stands for.
LEMMA NameWhenFolded ==
    ASSUME NEW n, Len(n) = 1, NEW x \in RowNames, x \in {NormalizeToolName(n[1]), LookupStandalone(n)}
    PROVE  NameOf(n) = x
<1>1. None \notin RowNames
  BY StandaloneIs
<1>2. CASE x = LookupStandalone(n)
  BY <1>1, <1>2 DEF NameOf
<1>3. CASE x = NormalizeToolName(n[1]) /\ LookupStandalone(n) = None
  BY <1>3 DEF NameOf
<1>4. CASE x = NormalizeToolName(n[1]) /\ LookupStandalone(n) # None
  <2> DEFINE p == LookupStandalone(n)
  <2>1. p \in Standalone /\ lookupProviderName(n[1]) = p
    BY <1>4 DEF LookupStandalone
  <2>2. n[1] = p \/ n[1] \in Aliases[p]
    <3>1. {q \in ToSet(providers) : n[1] = q \/ n[1] \in Aliases[q]} # {}
      BY <2>1, NotBoth DEF lookupProviderName
    <3>2. p \in {q \in ToSet(providers) : n[1] = q \/ n[1] \in Aliases[q]}
      BY <2>1, <3>1 DEF lookupProviderName
    <3> QED BY <3>2
  <2>3. Standalone \subseteq ToSet(providers)
    BY NamesAre DEF Standalone, ProviderNames
  <2>4. p \in ToSet(providers) /\ Aliases[p] = IF p = "zai" THEN {"zhipu"} ELSE {}
    BY <2>1, <2>3 DEF Aliases, Standalone
  <2>5. n[1] = p \/ n[1] = "zhipu"
    BY <2>2, <2>4
  <2>6. NormalizeToolName("zhipu") = "zhipu" /\ "zhipu" \notin RowNames
    BY NamesAre DEF NormalizeToolName, RowNames, Standalone, ToolNames
  <2>7. n[1] = p
    BY <1>4, <2>5, <2>6
  <2>8. NormalizeToolName(p) = p
    BY <2>1, RowNameFacts DEF RowNames
  <2> QED BY <1>4, <2>7, <2>8 DEF NameOf
<1> QED BY <1>2, <1>3, <1>4

LEMMA EmittedFacts ==
    ASSUME NEW c \in Configurations
    PROVE  /\ ToSet(SelectedTools(c)) \subseteq ToSet(Tools)
           /\ SelectedTools(c) \in Seq(RowNames)
           /\ standaloneAllowedNames(c) \subseteq Standalone
           /\ EmittedSet(c) \subseteq RowNames
<1>1. SelectedTools(c) \in Seq(ToSet(Tools))
  BY SelectedIs DEF ToolList
<1>2. ToSet(SelectedTools(c)) \subseteq ToSet(Tools)
  BY <1>1, LenProperties, ElementOfSeq DEF ToSet
<1>3. standaloneAllowedNames(c) \subseteq Standalone
  BY StandaloneIs DEF standaloneAllowedNames
<1>4. SelectedTools(c) \in Seq(RowNames)
  BY <1>1, <1>2, SeqWithin DEF RowNames
<1> QED BY <1>2, <1>3, <1>4 DEF EmittedSet, RowNames

LEMMA NamesOfIs ==
    ASSUME NEW c \in Configurations, NEW n
    PROVE  /\ NamesOf(c, n) \in Seq(RowNames)
           /\ ToSet(NamesOf(c, n)) \subseteq {NameOf(n)}
           /\ Len(n) = 1 /\ NameOf(n) \in EmittedSet(c) => NameOf(n) \in ToSet(NamesOf(c, n))
<1> DEFINE selected == ToSet(SelectedTools(c))
           allowed  == standaloneAllowedNames(c)
           known == Len(n) = 1 \/ SplitAccountProviderLabel(n)
<1>1. selected \cap Standalone = {} /\ allowed \subseteq Standalone /\ selected \union allowed \subseteq RowNames
  BY EmittedFacts, NotBoth DEF EmittedSet
<1>2. NamesOf(c, n) = IF LookupStandalone(n) # None
                      THEN IF NameOf(n) \in allowed THEN << NameOf(n) >> ELSE << >>
                      ELSE IF known /\ NameOf(n) \in selected THEN << NameOf(n) >> ELSE << >>
  BY DEF NamesOf, NameOf
<1>3. Len(n) = 1 /\ LookupStandalone(n) = None => NameOf(n) \notin Standalone
  BY NoneFolded DEF NameOf
<1>4. LookupStandalone(n) # None => NameOf(n) \in Standalone
  BY StandaloneIs DEF NameOf
<1>5. \A x \in RowNames : << x >> \in Seq(RowNames) /\ ToSet(<< x >>) = {x}
  BY DEF ToSet
<1>6. << >> \in Seq(RowNames) /\ ToSet(<< >>) = {}
  BY DEF ToSet
<1>7. EmittedSet(c) = selected \union allowed
  BY DEF EmittedSet
<1> HIDE DEF selected, allowed, known
<1>8. CASE LookupStandalone(n) # None
  BY <1>1, <1>2, <1>4, <1>5, <1>6, <1>7, <1>8
<1>9. CASE LookupStandalone(n) = None
  <2>1. Len(n) = 1 => known
    BY DEF known
  <2> QED BY <1>1, <1>2, <1>3, <1>5, <1>6, <1>7, <1>9, <2>1
<1> QED BY <1>8, <1>9

\* The names of a report follow agent_order.
LEMMA EmittedLeads ==
    ASSUME NEW c \in Configurations, NEW x \in EmittedSet(c), NEW y,
           Leads(c.order, Plain(x), Named(y))
    PROVE  Leads(EmittedNames(c), {x}, {y})
<1> DEFINE requested == orderedRequestedNames(c)
           ss == [i \in 1 .. Len(requested) |-> NamesOf(c, requested[i])]
<1>1. c.order \in Seq(LabelNames) /\ c.enabled \in Seq(LabelNames)
  BY DEF Configurations
<1>2. Leads(c.order \o c.enabled, Plain(x), Named(y)) /\ c.order \o c.enabled \in Seq(LabelNames)
  BY <1>1, LeadsInConcat, ConcatIs
<1>3. requested \in Seq(LabelNames) /\ Leads(requested, Plain(x), Named(y))
  BY <1>2, LeadsInDistinct, DistinctIs DEF orderedRequestedNames
<1>4. EmittedNames(c) = Distinct(FlattenSeq(ss) \o SelectedTools(c))
  BY DEF EmittedNames
<1> HIDE DEF requested
<1>5. DOMAIN requested = 1 .. Len(requested) /\ Len(requested) \in Nat
      /\ \A i \in 1 .. Len(requested) : requested[i] \in LabelNames
  BY <1>3, LenProperties, ElementOfSeq
<1>6. ss \in Seq(Seq(RowNames)) /\ Len(ss) = Len(requested)
  <2>1. ss \in [1 .. Len(requested) -> Seq(RowNames)]
    BY NamesOfIs
  <2> HIDE DEF ss
  <2> QED BY <1>5, <2>1, FunctionIsSeq
<1>7. \A i \in DOMAIN requested : requested[i] \in Plain(x) => ToSet(ss[i]) \cap {x} # {}
  BY <1>5, NamesOfIs DEF Plain, Named
<1>8. \A i \in DOMAIN requested : requested[i] \notin Named(y) => ToSet(ss[i]) \cap {y} = {}
  BY <1>5, NamesOfIs DEF Named
<1> HIDE DEF ss
<1>9. Leads(FlattenSeq(ss), {x}, {y})
  BY <1>3, <1>6, <1>7, <1>8, LeadsInFlatten
<1>10. FlattenSeq(ss) \in Seq(RowNames) /\ SelectedTools(c) \in Seq(RowNames)
  BY <1>6, FlattenIs, EmittedFacts
<1>11. /\ Leads(FlattenSeq(ss) \o SelectedTools(c), {x}, {y})
       /\ FlattenSeq(ss) \o SelectedTools(c) \in Seq(RowNames)
  BY <1>9, <1>10, LeadsInConcat, ConcatIs
<1> QED BY <1>4, <1>11, LeadsInDistinct

\* Merging keeps the places of the old order's names.
LEMMA MergedLeads ==
    ASSUME NEW new \in Seq(LabelNames), ToSet(new) = {<< t >> : t \in ToSet(Tools)},
           NEW old \in Seq(LabelNames), NEW x \in RowNames, NEW y \in RowNames,
           Leads(old, Plain(x), Named(y))
    PROVE  Leads(mergeStandaloneIntoOrder(new, old), Plain(x), Named(y))
<1> DEFINE kept(n) ==
               IF LookupStandalone(n) # None THEN << << LookupStandalone(n) >> >>
               ELSE IF Len(n) = 1 /\ << NormalizeToolName(n[1]) >> \in ToSet(new)
                    THEN << << NormalizeToolName(n[1]) >> >>
               ELSE << >>
           ss == [i \in DOMAIN old |-> kept(old[i])]
<1>1. mergeStandaloneIntoOrder(new, old) = Distinct(FlattenSeq(ss) \o new)
  BY DEF mergeStandaloneIntoOrder
<1>2. ASSUME NEW n
      PROVE  /\ (kept(n) = << << NameOf(n) >> >> /\ NameOf(n) \in RowNames) \/ kept(n) = << >>
             /\ Len(n) = 1 /\ NameOf(n) \in RowNames => kept(n) = << << NameOf(n) >> >>
  <2>1. CASE LookupStandalone(n) # None
    BY <2>1, StandaloneIs DEF NameOf, RowNames
  <2>2. CASE LookupStandalone(n) = None
    <3>1. NameOf(n) = NormalizeToolName(n[1])
      BY <2>2 DEF NameOf
    <3>2. kept(n) = IF Len(n) = 1 /\ << NameOf(n) >> \in ToSet(new) THEN << << NameOf(n) >> >> ELSE << >>
      BY <2>2, <3>1
    <3>3. << NameOf(n) >> \in ToSet(new) <=> NameOf(n) \in ToSet(Tools)
      OBVIOUS
    <3>4. Len(n) = 1 => NameOf(n) \notin Standalone
      BY <2>2, <3>1, NoneFolded
    <3> HIDE DEF kept
    <3> QED BY <3>2, <3>3, <3>4 DEF RowNames
  <2> QED BY <2>1, <2>2
<1>3. DOMAIN old = 1 .. Len(old) /\ Len(old) \in Nat /\ \A i \in 1 .. Len(old) : old[i] \in LabelNames
  BY LenProperties, ElementOfSeq
<1> HIDE DEF kept
<1>4. \A n : kept(n) \in Seq(LabelNames) /\ ToSet(kept(n)) \subseteq {<< NameOf(n) >>}
  <2> SUFFICES ASSUME NEW n
               PROVE  kept(n) \in Seq(LabelNames) /\ ToSet(kept(n)) \subseteq {<< NameOf(n) >>}
    OBVIOUS
  <2>1. << >> \in Seq(LabelNames) /\ ToSet(<< >>) = {}
    BY DEF ToSet
  <2>2. NameOf(n) \in RowNames => << << NameOf(n) >> >> \in Seq(LabelNames)
    BY NameOfRow, SingletonIsSeq
  <2>3. ToSet(<< << NameOf(n) >> >>) = {<< NameOf(n) >>}
    BY DEF ToSet
  <2> QED BY <1>2, <2>1, <2>2, <2>3
<1>5. ss \in Seq(Seq(LabelNames)) /\ Len(ss) = Len(old)
  <2>1. ss \in [1 .. Len(old) -> Seq(LabelNames)]
    BY <1>3, <1>4
  <2> HIDE DEF ss
  <2> QED BY <1>3, <2>1, FunctionIsSeq
<1>6. ASSUME NEW n \in Plain(x) PROVE ToSet(kept(n)) \cap Plain(x) # {}
  <2>1. kept(n) = << << x >> >>
    BY <1>2 DEF Plain, Named
  <2>2. ToSet(<< << x >> >>) = {<< x >>} /\ Len(<< x >>) = 1
    BY DEF ToSet
  <2>3. << x >> \in Plain(x)
    BY <2>2, NameOfRow DEF Plain, Named
  <2> QED BY <2>1, <2>2, <2>3
<1>7. ASSUME NEW n \in LabelNames, n \notin Named(y) PROVE ToSet(kept(n)) \cap Named(y) = {}
  <2>1. NameOf(n) # y
    BY <1>7 DEF Named
  <2>2. CASE kept(n) = << >>
    BY <2>2 DEF ToSet
  <2>3. CASE NameOf(n) \in RowNames
    <3>1. NameOf(<< NameOf(n) >>) = NameOf(n)
      BY <2>3, NameOfRow
    <3> QED BY <1>4, <2>1, <3>1 DEF Named
  <2> QED BY <1>2, <2>2, <2>3
<1>8. \A i \in DOMAIN old : old[i] \in Plain(x) => ToSet(ss[i]) \cap Plain(x) # {}
  BY <1>6
<1>9. \A i \in DOMAIN old : old[i] \notin Named(y) => ToSet(ss[i]) \cap Named(y) = {}
  BY <1>3, <1>7
<1> HIDE DEF ss
<1>10. Leads(FlattenSeq(ss), Plain(x), Named(y)) /\ FlattenSeq(ss) \in Seq(LabelNames)
  BY <1>5, <1>8, <1>9, LeadsInFlatten, FlattenIs
<1>11. Leads(FlattenSeq(ss) \o new, Plain(x), Named(y)) /\ FlattenSeq(ss) \o new \in Seq(LabelNames)
  BY <1>10, LeadsInConcat, ConcatIs
<1> QED BY <1>1, <1>11, LeadsInDistinct

\* The entries that are the names of S.
PlainOf(S) == {<< x >> : x \in S}

\* What the picker writes.
LEMMA PickedLists ==
    ASSUME NEW c \in Configurations, NEW S, S \subseteq ToSet(Tools)
    PROVE  /\ ToSet(Picked(c, S).enabled) =
                 {<< t >> : t \in S} \union StandaloneLabels(c.enabled) \union StandaloneLabels(c.order)
           /\ \E new \in Seq(LabelNames) :
                 /\ ToSet(new) = {<< t >> : t \in ToSet(Tools)}
                 /\ Picked(c, S).order = mergeStandaloneIntoOrder(new, c.order)
<1> DEFINE tools   == GetOrderedTools(c.order)
           checked == Among(tools, S)
           names(ts) == [i \in DOMAIN ts |-> << ts[i] >>]
           enabled == appendStandaloneEntries(
                          appendStandaloneEntries(names(checked), c.enabled), c.order)
           order == mergeStandaloneIntoOrder(names(tools), c.order)
<1>1. Picked(c, S) = [c EXCEPT !.enabled = enabled, !.order = order]
  BY DEF Picked
<1>2. c.order \in Seq(LabelNames) /\ c.enabled \in Seq(LabelNames)
  BY DEF Configurations
<1>3. /\ tools \in Seq(ToSet(Tools)) /\ ToSet(tools) = ToSet(Tools)
      /\ checked \in Seq(ToSet(Tools)) /\ ToSet(checked) = S
  <2>1. tools \in Seq(ToSet(Tools)) /\ ToSet(tools) = ToSet(Tools)
    BY <1>2, LenProperties, OrderedTools DEF ToolList
  <2>2. ToSet(tools) \cap S = S
    BY <2>1
  <2> HIDE DEF tools
  <2> QED BY <2>1, <2>2, AmongIs
<1>4. ASSUME NEW ts \in Seq(ToSet(Tools))
      PROVE  names(ts) \in Seq(LabelNames) /\ ToSet(names(ts)) = {<< t >> : t \in ToSet(ts)}
  <2>1. DOMAIN ts = 1 .. Len(ts) /\ Len(ts) \in Nat /\ \A i \in 1 .. Len(ts) : ts[i] \in STRING
    BY LenProperties, ElementOfSeq, LiteralsAssumption
  <2>2. \A i \in 1 .. Len(ts) : << ts[i] >> \in LabelNames
    BY <2>1, NameIsLabel
  <2>3. names(ts) \in [1 .. Len(ts) -> LabelNames]
    BY <2>1, <2>2
  <2>4. ToSet(names(ts)) = {<< t >> : t \in ToSet(ts)}
    BY DEF ToSet
  <2> QED BY <2>1, <2>3, <2>4, FunctionIsSeq
<1> HIDE DEF tools, checked, names
<1>5. /\ names(tools) \in Seq(LabelNames) /\ ToSet(names(tools)) = {<< t >> : t \in ToSet(Tools)}
      /\ names(checked) \in Seq(LabelNames) /\ ToSet(names(checked)) = {<< t >> : t \in S}
  BY <1>3, <1>4
<1>6. ToSet(enabled) = {<< t >> : t \in S} \union StandaloneLabels(c.enabled) \union StandaloneLabels(c.order)
  <2>1. /\ appendStandaloneEntries(names(checked), c.enabled) \in Seq(LabelNames)
        /\ ToSet(appendStandaloneEntries(names(checked), c.enabled)) =
              {<< t >> : t \in S} \union StandaloneLabels(c.enabled)
    BY <1>2, <1>5, StandaloneAppended
  <2> QED BY <1>2, <2>1, StandaloneAppended
<1>7. Picked(c, S).enabled = enabled /\ Picked(c, S).order = order
  BY <1>1 DEF Configurations
<1> HIDE DEF enabled
<1> QED BY <1>5, <1>6, <1>7

\* The labels of tools and of standalone providers tell the former from the
\* latter.
LEMMA StandaloneOfLabels ==
    ASSUME NEW S, S \subseteq ToSet(Tools), NEW P, P \subseteq Standalone,
           NEW s, ToSet(s) = PlainOf(S) \union PlainOf(P)
    PROVE  /\ StandaloneOf(s) = P
           /\ \A t \in ToSet(Tools) : t \in S <=> \E n \in ToSet(s) : Len(n) = 1 /\ MatchesName(t, n[1])
<1>0. ToSet(s) = {<< t >> : t \in S} \union {<< p >> : p \in P}
  BY DEF PlainOf
<1>1. \A t \in S : LookupStandalone(<< t >>) = None
  BY NameOfRow, NotBoth DEF RowNames
<1>2. \A p \in P : LookupStandalone(<< p >>) = p /\ p # None
  BY NameOfRow, NotBoth DEF RowNames
<1>3. StandaloneOf(s) = P
  <2>1. ASSUME NEW n \in ToSet(s), LookupStandalone(n) # None PROVE LookupStandalone(n) \in P
    BY <1>0, <1>1, <1>2, <2>1
  <2>2. \A p \in P : << p >> \in ToSet(s)
    BY <1>0
  <2> QED BY <1>2, <2>1, <2>2 DEF StandaloneOf
<1>4. ASSUME NEW t \in ToSet(Tools), NEW x \in S \union P PROVE MatchesName(t, x) <=> x = t
  <2>1. x \in RowNames /\ NormalizeToolName(x) = x
    BY RowNameFacts DEF RowNames
  <2>2. x # "opencode-ai"
    BY <2>1, NamesAre DEF RowNames, ToolNames, Standalone
  <2> QED BY <2>1, <2>2 DEF MatchesName
<1>5. ASSUME NEW t \in ToSet(Tools)
      PROVE  t \in S <=> \E n \in ToSet(s) : Len(n) = 1 /\ MatchesName(t, n[1])
  <2>1. \A x : Len(<< x >>) = 1 /\ << x >>[1] = x
    OBVIOUS
  <2>2. (\E n \in ToSet(s) : Len(n) = 1 /\ MatchesName(t, n[1])) <=> \E x \in S \union P : MatchesName(t, x)
    BY <1>0, <2>1
  <2>3. t \notin P
    BY NotBoth
  <2> QED BY <1>4, <2>2, <2>3
<1> QED BY <1>3, <1>5

\* The tools a list of names selects.
LEMMA SelectedBy ==
    ASSUME NEW c \in Configurations, c.enabled # << >>
    PROVE  ToSet(SelectedTools(c)) =
              {t \in ToSet(Tools) : \E n \in ToSet(c.enabled) : Len(n) = 1 /\ MatchesName(t, n[1])}
<1> DEFINE order == IF c.order # << >> THEN c.order
                    ELSE [i \in 1 .. Len(providers) |-> << providers[i] >>]
           tools == GetOrderedTools(order)
<1>1. Len(order) \in Nat
  <2>1. Len(providers) = 14
    BY DEF providers
  <2>2. c.order \in Seq(LabelNames)
    BY DEF Configurations
  <2> QED BY <2>1, <2>2, LenProperties
<1>2. SelectedTools(c) =
         Among(tools, {t \in ToSet(tools) : \E n \in ToSet(c.enabled) : Len(n) = 1 /\ MatchesName(t, n[1])})
  BY DEF SelectedTools, GetFilteredTools
<1> HIDE DEF order
<1>3. tools \in Seq(ToSet(Tools)) /\ ToSet(tools) = ToSet(Tools)
  BY <1>1, OrderedTools DEF ToolList
<1> HIDE DEF tools
<1> QED BY <1>2, <1>3, AmongIs

LEMMA JobsOfNone ==
    ASSUME NEW c \in Configurations, EmittedSet(c) = {}
    PROVE  Jobs(c) = << >>
<1>1. ToSet(Jobs(c)) = {} /\ Jobs(c) \in Seq(RowRecords)
  BY JobsAre
<1>2. DOMAIN Jobs(c) = 1 .. Len(Jobs(c)) /\ Len(Jobs(c)) \in Nat
  BY <1>1, LenProperties
<1>3. 1 \notin DOMAIN Jobs(c)
  BY <1>1 DEF ToSet
<1>4. Len(Jobs(c)) = 0
  BY <1>2, <1>3
<1> QED BY <1>1, <1>4, EmptySeq

\* What is confirmed as it was opened names the same rows.
LEMMA SameNames ==
    ASSUME NEW c \in Configurations, PickerAgrees(c)
    PROVE  EmittedSet(Picked(c, Checked(c))) = EmittedSet(c)
<1> DEFINE S == Checked(c)
           P == StandaloneOf(c.enabled) \union StandaloneOf(c.order)
           d == Picked(c, S)
<1>1. /\ S = ToSet(SelectedTools(c)) /\ S \subseteq ToSet(Tools)
      /\ Jobs(c) # << >>
      /\ \A n \in ToSet(c.order) :
            LookupStandalone(n) # None => LookupStandalone(n) \in standaloneAllowedNames(c)
  BY EmittedFacts DEF PickerAgrees
<1>2. P \subseteq Standalone
  BY StandaloneIs DEF StandaloneOf
<1>3. P = standaloneAllowedNames(c)
  <2>1. StandaloneOf(c.order) \subseteq standaloneAllowedNames(c)
    BY <1>1 DEF StandaloneOf
  <2>2. CASE c.enabled # << >>
    BY <2>1, <2>2 DEF standaloneAllowedNames, StandaloneOf
  <2>3. CASE c.enabled = << >>
    <3>1. StandaloneOf(c.enabled) = {}
      BY <2>3 DEF StandaloneOf, ToSet
    <3> QED BY <2>3, <3>1 DEF standaloneAllowedNames, StandaloneOf
  <2> QED BY <2>2, <2>3
<1>4. ToSet(d.enabled) = PlainOf(S) \union PlainOf(P)
  <2>1. ToSet(d.enabled) =
           {<< t >> : t \in S} \union StandaloneLabels(c.enabled) \union StandaloneLabels(c.order)
    BY <1>1, PickedLists
  <2> QED BY <2>1 DEF StandaloneLabels, PlainOf
<1>5. d \in Configurations
  BY PickedIs
<1> HIDE DEF S, P, d
<1>6. d.enabled # << >>
  <2> SUFFICES ASSUME d.enabled = << >> PROVE FALSE
    OBVIOUS
  <2>1. ToSet(d.enabled) = {}
    BY DEF ToSet
  <2>2. S = {} /\ P = {}
    BY <1>4, <2>1 DEF PlainOf
  <2> QED BY <1>1, <1>3, <2>2, JobsOfNone DEF EmittedSet
<1>7. /\ StandaloneOf(d.enabled) = P
      /\ \A t \in ToSet(Tools) : t \in S <=> \E n \in ToSet(d.enabled) : Len(n) = 1 /\ MatchesName(t, n[1])
  <2>1. S \subseteq ToSet(Tools)
    BY <1>1
  <2> QED BY <1>2, <1>4, <2>1, StandaloneOfLabels
<1>8. ToSet(SelectedTools(d)) = S
  BY <1>1, <1>5, <1>6, <1>7, SelectedBy
<1>9. standaloneAllowedNames(d) = P
  BY <1>6, <1>7 DEF standaloneAllowedNames, StandaloneOf
<1> QED BY <1>1, <1>3, <1>8, <1>9 DEF EmittedSet, d, S

LEMMA SameRows ==
    ASSUME NEW c, NEW d, AccountConfigEntries(c) = AccountConfigEntries(d), NEW n
    PROVE  RowsOf(c, n) = RowsOf(d, n) /\ RowSet(c, n) = RowSet(d, n)
<1>1. \A p : AccountsForProvider(c, p) = AccountsForProvider(d, p)
  BY DEF AccountsForProvider
<1>2. accountFetchJobs(c, n) = accountFetchJobs(d, n)
  BY <1>1 DEF accountFetchJobs
<1>3. Several(c, n) = Several(d, n)
  BY <1>1 DEF Several
<1>4. RowsOf(c, n) = RowsOf(d, n)
  BY <1>2 DEF RowsOf
<1> QED BY <1>1, <1>3, <1>4 DEF RowSet

\* The labels of a report: each once, of a row of its name.
LEMMA LabelsAre ==
    ASSUME NEW c \in Configurations
    PROVE  /\ LabelsOf(c) \in Seq(Seq(STRING)) /\ IsInjective(LabelsOf(c))
           /\ \A l \in ToSet(LabelsOf(c)) :
                 /\ l[1] \in EmittedSet(c)
                 /\ \E r \in RowSet(c, l[1]) : r.label = l
           /\ ToSet(LabelsOf(c)) = {r.label : r \in UNION {RowSet(c, n) : n \in EmittedSet(c)}}
<1> DEFINE jobs == Jobs(c)
<1>1. /\ jobs \in Seq(RowRecords) /\ IsInjective(jobs) /\ EmittedSet(c) \subseteq RowNames
      /\ ToSet(jobs) = UNION {RowSet(c, n) : n \in EmittedSet(c)}
      /\ \A r, q \in ToSet(jobs) : r.label = q.label => r = q
  BY JobsAre
<1>2. LabelsOf(c) = [i \in DOMAIN jobs |-> jobs[i].label]
  BY DEF LabelsOf
<1> HIDE DEF jobs
<1>3. DOMAIN jobs = 1 .. Len(jobs) /\ Len(jobs) \in Nat /\ \A i \in 1 .. Len(jobs) : jobs[i] \in RowRecords
  BY <1>1, LenProperties, ElementOfSeq
<1>4. LabelsOf(c) \in Seq(Seq(STRING))
  <2>1. LabelsOf(c) \in [1 .. Len(jobs) -> Seq(STRING)]
    BY <1>2, <1>3 DEF RowRecords
  <2> QED BY <1>3, <2>1, FunctionIsSeq
<1>5. IsInjective(LabelsOf(c))
  BY <1>1, <1>2 DEF IsInjective, ToSet
<1>6. ToSet(LabelsOf(c)) = {r.label : r \in ToSet(jobs)}
  BY <1>2 DEF ToSet
<1>7. ASSUME NEW l \in ToSet(LabelsOf(c))
      PROVE  l[1] \in EmittedSet(c) /\ \E r \in RowSet(c, l[1]) : r.label = l
  <2>1. PICK n \in EmittedSet(c) : \E r \in RowSet(c, n) : r.label = l
    BY <1>1, <1>6
  <2>2. PICK r \in RowSet(c, n) : r.label = l
    BY <2>1
  <2>3. l[1] = n
    BY <1>1, <2>2, RowSetFacts
  <2> QED BY <2>2, <2>3
<1> QED BY <1>1, <1>4, <1>5, <1>6, <1>7

\* The rows of a label.
Labelled(l) == {r \in RowRecords : r.label = l}

LEMMA LeadsOfLabels ==
    ASSUME NEW c \in Configurations, NEW l, NEW m, Leads(Jobs(c), Labelled(l), Labelled(m))
    PROVE  Leads(LabelsOf(c), {l}, {m})
<1> DEFINE jobs == Jobs(c)
<1>1. PICK k \in 0 .. Len(jobs) :
         Firsts(jobs, k) \cap Labelled(l) # {} /\ Firsts(jobs, k) \cap Labelled(m) = {}
  BY DEF Leads
<1>2. jobs \in Seq(RowRecords)
  BY JobsAre
<1>3. LabelsOf(c) = [i \in DOMAIN jobs |-> jobs[i].label]
  BY DEF LabelsOf
<1> HIDE DEF jobs
<1>4. DOMAIN jobs = 1 .. Len(jobs) /\ Len(jobs) \in Nat /\ \A i \in 1 .. Len(jobs) : jobs[i] \in RowRecords
  BY <1>2, LenProperties, ElementOfSeq
<1>5. Len(LabelsOf(c)) = Len(jobs) /\ \A i \in 1 .. k : i \in DOMAIN jobs /\ LabelsOf(c)[i] = jobs[i].label
  BY <1>3, <1>4
<1>6. l \in Firsts(LabelsOf(c), k)
  BY <1>1, <1>5 DEF Firsts, Labelled
<1>7. m \notin Firsts(LabelsOf(c), k)
  BY <1>1, <1>4, <1>5 DEF Firsts, Labelled
<1> QED BY <1>5, <1>6, <1>7 DEF Leads

\* The rows follow their names, and the accounts of one name their entries.
LEMMA RowsFollow ==
    ASSUME NEW c \in Configurations, NEW l \in ToSet(LabelsOf(c)), NEW m \in ToSet(LabelsOf(c))
    PROVE  /\ l[1] # m[1] /\ Leads(EmittedNames(c), {l[1]}, {m[1]}) => Leads(LabelsOf(c), {l}, {m})
           /\ l[1] = m[1] /\ Leads(RowsOf(c, l[1]), Labelled(l), Labelled(m))
                 => Leads(LabelsOf(c), {l}, {m})
<1> DEFINE em == EmittedNames(c)
           ss == [i \in 1 .. Len(em) |-> RowsOf(c, em[i])]
           x  == l[1]
           y  == m[1]
<1>1. EmittedFor(c, em)
  BY EmittedIs DEF EmittedFor
<1>2. em \in Seq(RowNames) /\ IsInjective(em) /\ ToSet(em) = EmittedSet(c) /\ Jobs(c) = FlattenSeq(ss)
  BY <1>1 DEF EmittedFor, EmittedSet
<1> HIDE DEF em
<1>3. DOMAIN em = 1 .. Len(em) /\ Len(em) \in Nat /\ \A i \in 1 .. Len(em) : em[i] \in RowNames
  BY <1>2, LenProperties, ElementOfSeq
<1>4. \A i \in 1 .. Len(em) : ss[i] = RowsOf(c, em[i]) /\ ss[i] \in Seq(RowRecords) /\ ToSet(ss[i]) = RowSet(c, em[i])
  BY <1>3, RowsAre DEF RowSet
<1>5. ss \in Seq(Seq(RowRecords)) /\ Len(ss) = Len(em) /\ DOMAIN ss = 1 .. Len(em)
  <2>1. ss \in [1 .. Len(em) -> Seq(RowRecords)]
    BY <1>4
  <2> HIDE DEF ss
  <2> QED BY <1>3, <2>1, FunctionIsSeq
<1> HIDE DEF ss
<1>6. x \in EmittedSet(c) /\ \E r \in RowSet(c, x) : r.label = l
  BY LabelsAre
<1>7. \A i \in 1 .. Len(em) : em[i] # y => ToSet(ss[i]) \cap Labelled(m) = {}
  BY <1>3, <1>4, RowSetFacts DEF Labelled
<1>8. \A i \in 1 .. Len(em) : em[i] = x => ToSet(ss[i]) \cap Labelled(l) # {}
  <2> SUFFICES ASSUME NEW i \in 1 .. Len(em), em[i] = x PROVE ToSet(ss[i]) \cap Labelled(l) # {}
    OBVIOUS
  <2>1. PICK r \in RowSet(c, x) : r.label = l
    BY <1>6
  <2>2. r \in ToSet(ss[i])
    BY <1>4, <2>1
  <2>3. r \in RowRecords
    BY <1>4, <2>2, LenProperties, ElementOfSeq DEF ToSet
  <2> QED BY <2>1, <2>2, <2>3 DEF Labelled
<1>9. ASSUME x # y, Leads(em, {x}, {y}) PROVE Leads(LabelsOf(c), {l}, {m})
  <2>1. \A i \in DOMAIN em : em[i] \in {x} => ToSet(ss[i]) \cap Labelled(l) # {}
    BY <1>3, <1>8
  <2>2. \A i \in DOMAIN em : em[i] \notin {y} => ToSet(ss[i]) \cap Labelled(m) = {}
    BY <1>3, <1>7
  <2>3. Leads(FlattenSeq(ss), Labelled(l), Labelled(m))
    <3> HIDE DEF x, y
    <3> QED BY <1>2, <1>5, <1>9, <2>1, <2>2, LeadsInFlatten
  <2> QED BY <1>2, <2>3, LeadsOfLabels
<1>10. ASSUME x = y, Leads(RowsOf(c, x), Labelled(l), Labelled(m)) PROVE Leads(LabelsOf(c), {l}, {m})
  <2>1. PICK i \in DOMAIN em : em[i] = x
    BY <1>2, <1>6 DEF ToSet
  <2>2. \A j \in 1 .. i - 1 : j \in DOMAIN em /\ j # i
    BY <1>3
  <2>3. \A j \in 1 .. i - 1 : em[j] # y
    BY <1>2, <1>10, <2>1, <2>2 DEF IsInjective
  <2>4. \A j \in 1 .. i - 1 : ToSet(ss[j]) \cap Labelled(m) = {}
    BY <1>3, <1>7, <2>2, <2>3
  <2>5. i \in DOMAIN ss /\ Leads(ss[i], Labelled(l), Labelled(m))
    BY <1>3, <1>4, <1>5, <1>10, <2>1
  <2>6. Leads(FlattenSeq(ss), Labelled(l), Labelled(m))
    BY <1>5, <2>4, <2>5, LeadsInPart
  <2> QED BY <1>2, <2>6, LeadsOfLabels
<1> QED BY <1>9, <1>10 DEF em

\* Two reports in which the same one of l and m comes first.
LEMMA SameWay ==
    ASSUME NEW c \in Configurations, NEW d \in Configurations,
           ToSet(LabelsOf(d)) = ToSet(LabelsOf(c)),
           NEW l \in ToSet(LabelsOf(c)), NEW m \in ToSet(LabelsOf(c)), l # m,
           \/ Leads(LabelsOf(c), {l}, {m}) /\ Leads(LabelsOf(d), {l}, {m})
           \/ Leads(LabelsOf(c), {m}, {l}) /\ Leads(LabelsOf(d), {m}, {l})
    PROVE  Before(LabelsOf(d), l, m) <=> Before(LabelsOf(c), l, m)
<1>1. /\ LabelsOf(c) \in Seq(Seq(STRING)) /\ IsInjective(LabelsOf(c))
      /\ LabelsOf(d) \in Seq(Seq(STRING)) /\ IsInjective(LabelsOf(d))
  BY LabelsAre
<1>2. /\ Before(LabelsOf(c), l, m) <=> Leads(LabelsOf(c), {l}, {m})
      /\ Before(LabelsOf(d), l, m) <=> Leads(LabelsOf(d), {l}, {m})
  BY <1>1, BeforeLeads
<1>3. /\ ~(Leads(LabelsOf(c), {l}, {m}) /\ Leads(LabelsOf(c), {m}, {l}))
      /\ ~(Leads(LabelsOf(d), {l}, {m}) /\ Leads(LabelsOf(d), {m}, {l}))
  BY <1>1, LeadsOneWay
<1> QED BY <1>2, <1>3

LEMMA NeverBeforeItself ==
    ASSUME NEW c \in Configurations, NEW l
    PROVE  ~Before(LabelsOf(c), l, l)
<1>1. LabelsOf(c) \in Seq(Seq(STRING)) /\ IsInjective(LabelsOf(c))
  BY LabelsAre
<1>2. \A i, j \in DOMAIN LabelsOf(c) : i < j => i # j
  BY <1>1, LenProperties
<1> QED BY <1>1, <1>2 DEF Before, IsInjective

\* Confirming the picker as it opened changes no row, and of two rows agent_order
\* names the same one still comes first.
LEMMA PickedAgain ==
    ASSUME NEW c \in Configurations, PickerAgrees(c)
    PROVE  LET d == Picked(c, Checked(c))
           IN  /\ ToSet(LabelsOf(d)) = ToSet(LabelsOf(c))
               /\ (\A n \in ToSet(c.order) : Len(n) = 1) =>
                     \A l, m \in Placed(c) : Before(LabelsOf(d), l, m) <=> Before(LabelsOf(c), l, m)
<1> DEFINE d == Picked(c, Checked(c))
<1>1. d \in Configurations /\ AccountConfigEntries(d) = AccountConfigEntries(c)
  BY PickedIs
<1>2. EmittedSet(d) = EmittedSet(c) /\ EmittedSet(c) \subseteq RowNames
  BY SameNames, EmittedFacts
<1>3. c.order \in Seq(LabelNames)
  BY DEF Configurations
<1>4. PICK new \in Seq(LabelNames) :
         ToSet(new) = {<< t >> : t \in ToSet(Tools)} /\ d.order = mergeStandaloneIntoOrder(new, c.order)
  <2>1. Checked(c) \subseteq ToSet(Tools)
    BY DEF Checked
  <2> QED BY <2>1, PickedLists
<1> HIDE DEF d
<1>5. \A n : RowsOf(d, n) = RowsOf(c, n) /\ RowSet(d, n) = RowSet(c, n)
  BY <1>1, SameRows
<1>6. ToSet(LabelsOf(d)) = ToSet(LabelsOf(c))
  <2>1. ToSet(LabelsOf(c)) = {r.label : r \in UNION {RowSet(c, n) : n \in EmittedSet(c)}}
    BY LabelsAre
  <2>2. ToSet(LabelsOf(d)) = {r.label : r \in UNION {RowSet(d, n) : n \in EmittedSet(d)}}
    BY <1>1, LabelsAre
  <2> QED BY <1>2, <1>5, <2>1, <2>2
<1>7. ASSUME \A n \in ToSet(c.order) : Len(n) = 1, NEW l \in Placed(c), NEW m \in Placed(c), l # m
      PROVE  Before(LabelsOf(d), l, m) <=> Before(LabelsOf(c), l, m)
  <2>1. l \in ToSet(LabelsOf(c)) /\ m \in ToSet(LabelsOf(c))
    BY DEF Placed
  <2>2. l[1] \in EmittedSet(c) /\ m[1] \in EmittedSet(c)
    BY <2>1, LabelsAre
  <2>3. CASE l[1] # m[1]
    <3>1. ASSUME NEW k \in Placed(c), k[1] \in EmittedSet(c)
          PROVE  ToSet(c.order) \cap Named(k[1]) # {}
      <4>1. PICK n \in ToSet(c.order) : k[1] \in {NormalizeToolName(n[1]), LookupStandalone(n)}
        BY DEF Placed
      <4>2. NameOf(n) = k[1]
        BY <1>2, <1>7, <3>1, <4>1, NameWhenFolded
      <4>3. n \in LabelNames
        BY <1>3, <4>1, LenProperties, ElementOfSeq DEF ToSet
      <4> QED BY <4>1, <4>2, <4>3 DEF Named
    <3>2. Named(l[1]) \cap Named(m[1]) = {}
      BY <2>3 DEF Named
    <3>3. Leads(c.order, Named(l[1]), Named(m[1])) \/ Leads(c.order, Named(m[1]), Named(l[1]))
      BY <1>3, <2>2, <3>1, <3>2, LeadsSomeWay
    <3>4. ASSUME NEW x, NEW y, Leads(c.order, Named(x), Named(y))
          PROVE  Leads(c.order, Plain(x), Named(y))
      <4>1. PICK k \in 0 .. Len(c.order) :
               Firsts(c.order, k) \cap Named(x) # {} /\ Firsts(c.order, k) \cap Named(y) = {}
        BY <3>4 DEF Leads
      <4>2. \A n \in Firsts(c.order, k) : Len(n) = 1
        <5>1. \A j \in 1 .. k : j \in DOMAIN c.order
          BY <1>3, LenProperties
        <5> QED BY <1>7, <5>1 DEF Firsts, ToSet
      <4>3. Firsts(c.order, k) \cap Plain(x) # {}
        BY <4>1, <4>2 DEF Plain
      <4> QED BY <4>1, <4>3 DEF Leads
    <3>5. ASSUME NEW a \in ToSet(LabelsOf(c)), NEW b \in ToSet(LabelsOf(c)), a[1] # b[1],
                 Leads(c.order, Named(a[1]), Named(b[1]))
          PROVE  Leads(LabelsOf(c), {a}, {b}) /\ Leads(LabelsOf(d), {a}, {b})
      <4>1. a[1] \in EmittedSet(c) /\ b[1] \in EmittedSet(c)
        BY LabelsAre
      <4>2. Leads(c.order, Plain(a[1]), Named(b[1]))
        BY <3>4, <3>5
      <4>3. Leads(d.order, Plain(a[1]), Named(b[1]))
        BY <1>2, <1>3, <1>4, <4>1, <4>2, MergedLeads
      <4>4. Leads(EmittedNames(c), {a[1]}, {b[1]})
        BY <4>1, <4>2, EmittedLeads
      <4>5. Leads(EmittedNames(d), {a[1]}, {b[1]})
        BY <1>1, <1>2, <4>1, <4>3, EmittedLeads
      <4> QED BY <1>1, <1>6, <3>5, <4>4, <4>5, RowsFollow
    <3>6. \/ Leads(LabelsOf(c), {l}, {m}) /\ Leads(LabelsOf(d), {l}, {m})
          \/ Leads(LabelsOf(c), {m}, {l}) /\ Leads(LabelsOf(d), {m}, {l})
      BY <2>1, <2>3, <3>3, <3>5
    <3> QED BY <1>1, <1>6, <1>7, <2>1, <3>6, SameWay
  <2>4. CASE l[1] = m[1]
    <3> DEFINE rows == RowsOf(c, l[1])
    <3>1. rows \in Seq(RowRecords) /\ ToSet(rows) = RowSet(c, l[1])
      BY <1>2, <2>2, RowsAre DEF RowSet
    <3>2. Labelled(l) \cap Labelled(m) = {}
      BY <1>7 DEF Labelled
    <3>3. ToSet(rows) \cap Labelled(l) # {}
      <4>1. PICK r \in RowSet(c, l[1]) : r.label = l
        BY <2>1, LabelsAre
      <4>2. r \in RowRecords
        BY <3>1, <4>1, LenProperties, ElementOfSeq DEF ToSet
      <4> QED BY <3>1, <4>1, <4>2 DEF Labelled
    <3> HIDE DEF rows
    <3>4. Leads(rows, Labelled(l), Labelled(m)) \/ Leads(rows, Labelled(m), Labelled(l))
      BY <3>1, <3>2, <3>3, LeadsSomeWay
    <3>5. \/ Leads(LabelsOf(c), {l}, {m}) /\ Leads(LabelsOf(d), {l}, {m})
          \/ Leads(LabelsOf(c), {m}, {l}) /\ Leads(LabelsOf(d), {m}, {l})
      BY <1>1, <1>5, <1>6, <2>1, <2>4, <3>4, RowsFollow DEF rows
    <3> QED BY <1>1, <1>6, <1>7, <2>1, <3>5, SameWay
  <2> QED BY <2>3, <2>4
<1>8. \A l : ~Before(LabelsOf(d), l, l) /\ ~Before(LabelsOf(c), l, l)
  BY <1>1, NeverBeforeItself
<1> QED BY <1>6, <1>7, <1>8 DEF d

\* Confirming the picker as it opened, when its boxes are the rows and the
\* standalone providers agent_order lists are on, changes no row; when agent_order
\* has no account label, the rows it names keep their order (cmd/config.go:842-880,
\* 911-918).
THEOREM UnchangedPicker == AccountSpec => UnchangedPickerKeepsRows
<1> DEFINE Keeps == ConfirmPicker(Checked(flow.cfg)) /\ flow.cfg = cfg /\ PickerAgrees(cfg) =>
          /\ ToSet(LabelsOf(cfg')) = ToSet(LabelsOf(cfg))
          /\ (\A n \in ToSet(cfg.order) : Len(n) = 1) =>
                \A l, m \in Placed(cfg) :
                    Before(LabelsOf(cfg'), l, m) <=> Before(LabelsOf(cfg), l, m)
<1>1. ASSUME AccountInv PROVE Keeps
  <2> SUFFICES ASSUME ConfirmPicker(Checked(flow.cfg)), flow.cfg = cfg, PickerAgrees(cfg)
               PROVE  /\ ToSet(LabelsOf(cfg')) = ToSet(LabelsOf(cfg))
                      /\ (\A n \in ToSet(cfg.order) : Len(n) = 1) =>
                            \A l, m \in Placed(cfg) :
                                Before(LabelsOf(cfg'), l, m) <=> Before(LabelsOf(cfg), l, m)
    OBVIOUS
  <2>1. cfg' = Picked(cfg, Checked(cfg))
    BY DEF ConfirmPicker, Overwrite
  <2>2. cfg \in Configurations
    BY <1>1 DEF AccountInv, AccountTypeOK
  <2> QED BY <2>1, <2>2, PickedAgain
<1>2. AccountInv => [Keeps]_accountVars
  BY <1>1
<1> QED BY <1>2, AccountsInductive, PTL DEF UnchangedPickerKeepsRows

-----------------------------------------------------------------------------
(* The first source of a chain that is there.                              *)

LEMMA FirstIs ==
    ASSUME NEW chain, NEW has, DOMAIN chain \subseteq Int, NEW i \in DOMAIN chain,
           chain[i] \in has, \A j \in DOMAIN chain : j < i => chain[j] \notin has
    PROVE  First(chain, has) = chain[i]
<1> DEFINE there == {j \in DOMAIN chain : chain[j] \in has}
<1>1. i \in there /\ \A j \in there : i <= j
  OBVIOUS
<1>2. \A k \in there : (\A j \in there : k <= j) => k = i
  BY <1>1
<1>3. (CHOOSE k \in there : \A j \in there : k <= j) = i
  BY <1>1, <1>2
<1> QED
  BY <1>1, <1>3 DEF First

LEMMA FirstNone ==
    ASSUME NEW chain, NEW has, \A i \in DOMAIN chain : chain[i] \notin has
    PROVE  First(chain, has) = None
BY DEF First

LEMMA First1 ==
    ASSUME NEW a, NEW has
    PROVE  First(<< a >>, has) =
               IF a \in has THEN a ELSE None
<1> DEFINE chain == << a >>
<1>0. DOMAIN chain = 1 .. 1 /\ chain[1] = a
  OBVIOUS
<1> HIDE DEF chain
<1>1. CASE a \in has
  BY <1>0, <1>1, FirstIs
<1>2. CASE a \notin has
  BY <1>0, <1>2, FirstNone
<1> QED
  BY <1>1, <1>2 DEF chain

LEMMA First2 ==
    ASSUME NEW a, NEW b, NEW has
    PROVE  First(<< a, b >>, has) =
               IF a \in has THEN a ELSE IF b \in has THEN b ELSE None
<1> DEFINE chain == << a, b >>
<1>0. DOMAIN chain = 1 .. 2 /\ chain[1] = a /\ chain[2] = b
  OBVIOUS
<1> HIDE DEF chain
<1>1. CASE a \in has
  BY <1>0, <1>1, FirstIs
<1>2. CASE a \notin has /\ b \in has
  BY <1>0, <1>2, FirstIs
<1>3. CASE a \notin has /\ b \notin has
  BY <1>0, <1>3, FirstNone
<1> QED
  BY <1>1, <1>2, <1>3 DEF chain

LEMMA First3 ==
    ASSUME NEW a, NEW b, NEW c, NEW has
    PROVE  First(<< a, b, c >>, has) =
               IF a \in has THEN a ELSE IF b \in has THEN b ELSE IF c \in has THEN c ELSE None
<1> DEFINE chain == << a, b, c >>
<1>0. DOMAIN chain = 1 .. 3 /\ chain[1] = a /\ chain[2] = b /\ chain[3] = c
  OBVIOUS
<1> HIDE DEF chain
<1>1. CASE a \in has
  BY <1>0, <1>1, FirstIs
<1>2. CASE a \notin has /\ b \in has
  BY <1>0, <1>2, FirstIs
<1>3. CASE a \notin has /\ b \notin has /\ c \in has
  BY <1>0, <1>3, FirstIs
<1>4. CASE a \notin has /\ b \notin has /\ c \notin has
  BY <1>0, <1>4, FirstNone
<1> QED
  BY <1>1, <1>2, <1>3, <1>4 DEF chain

LEMMA First4 ==
    ASSUME NEW a, NEW b, NEW c, NEW d, NEW has
    PROVE  First(<< a, b, c, d >>, has) =
               IF a \in has THEN a ELSE IF b \in has THEN b ELSE IF c \in has THEN c ELSE IF d \in has THEN d ELSE None
<1> DEFINE chain == << a, b, c, d >>
<1>0. DOMAIN chain = 1 .. 4 /\ chain[1] = a /\ chain[2] = b /\ chain[3] = c /\ chain[4] = d
  OBVIOUS
<1> HIDE DEF chain
<1>1. CASE a \in has
  BY <1>0, <1>1, FirstIs
<1>2. CASE a \notin has /\ b \in has
  BY <1>0, <1>2, FirstIs
<1>3. CASE a \notin has /\ b \notin has /\ c \in has
  BY <1>0, <1>3, FirstIs
<1>4. CASE a \notin has /\ b \notin has /\ c \notin has /\ d \in has
  BY <1>0, <1>4, FirstIs
<1>5. CASE a \notin has /\ b \notin has /\ c \notin has /\ d \notin has
  BY <1>0, <1>5, FirstNone
<1> QED
  BY <1>1, <1>2, <1>3, <1>4, <1>5 DEF chain

LEMMA First5 ==
    ASSUME NEW a, NEW b, NEW c, NEW d, NEW e, NEW has
    PROVE  First(<< a, b, c, d, e >>, has) =
               IF a \in has THEN a ELSE IF b \in has THEN b ELSE IF c \in has THEN c ELSE IF d \in has THEN d ELSE IF e \in has THEN e ELSE None
<1> DEFINE chain == << a, b, c, d, e >>
<1>0. DOMAIN chain = 1 .. 5 /\ chain[1] = a /\ chain[2] = b /\ chain[3] = c /\ chain[4] = d /\ chain[5] = e
  OBVIOUS
<1> HIDE DEF chain
<1>1. CASE a \in has
  BY <1>0, <1>1, FirstIs
<1>2. CASE a \notin has /\ b \in has
  BY <1>0, <1>2, FirstIs
<1>3. CASE a \notin has /\ b \notin has /\ c \in has
  BY <1>0, <1>3, FirstIs
<1>4. CASE a \notin has /\ b \notin has /\ c \notin has /\ d \in has
  BY <1>0, <1>4, FirstIs
<1>5. CASE a \notin has /\ b \notin has /\ c \notin has /\ d \notin has /\ e \in has
  BY <1>0, <1>5, FirstIs
<1>6. CASE a \notin has /\ b \notin has /\ c \notin has /\ d \notin has /\ e \notin has
  BY <1>0, <1>6, FirstNone
<1> QED
  BY <1>1, <1>2, <1>3, <1>4, <1>5, <1>6 DEF chain

-----------------------------------------------------------------------------
(* What each fetcher's row may show, in any world and after any answers.   *)

Numbers == {"percent", "count", "amount"}

\* The worlds DoctorNamesTheSource is about.
DoctorKnows(p, w) ==
    /\ p = "cursor-agent" /\ "env" \in w.has => "custom" \in w.has
    /\ p = "codex" => "custom" \notin w.has
    /\ p \in {"opencode", "zai"} => "dated" \notin w.has

\* The first two answers were asked for.
AskedFor(p, w, heard) ==
    /\ Len(heard) >= 1 => Fetch(p, w, << >>) = Ask
    /\ Len(heard) >= 2 => Fetch(p, w, << heard[1] >>) = Ask

Honest(p, w, heard) ==
    LET r == Fetch(p, w, heard) IN
    /\ r.used \in Numbers /\ ~r.why /\ DoctorKnows(p, w) =>
          DescribeProviderCredentials(p, w) = r.login.from
    /\ r.source \in {"local", "local-auth"} /\ "bad" \in ToSet(heard)
          /\ AskedFor(p, w, heard) => r.why
    /\ r.used \in Numbers /\ p \in AccountKinds /\ w.home # None =>
          r.login.of = << "file", w.home >>

LEMMA AskRow == Ask.source = None /\ Ask.used = None /\ Ask.status = "ask" /\ ~Ask.why
BY DEF Ask, Row

\* A fetcher that asks nothing has heard nothing, and one that asks once has
\* heard one answer.
LEMMA HeardOnce ==
    ASSUME NEW p, NEW w, NEW heard \in Seq(Answer), AskedFor(p, w, heard),
           "bad" \in ToSet(heard)
    PROVE  /\ Len(heard) >= 1 /\ Fetch(p, w, << >>) = Ask
           /\ heard[1] = "bad" \/ Fetch(p, w, << heard[1] >>) = Ask
<1>1. PICK i \in DOMAIN heard : heard[i] = "bad"
  BY DEF ToSet
<1>2. i \in Nat /\ i >= 1 /\ i <= Len(heard)
  OBVIOUS
<1> QED
  BY <1>1, <1>2 DEF AskedFor

LEMMA CodexHonest ==
    ASSUME NEW w, NEW heard \in Seq(Answer)
    PROVE  Honest("codex", w, heard)
<1> DEFINE r == FetchCodexUsageForHome(w, heard)
<1>1. \A h : Fetch("codex", w, h) = FetchCodexUsageForHome(w, h)
  BY DEF Fetch
<1>2. DescribeProviderCredentials("codex", w) =
        IF "auth" \in w.has THEN "auth" ELSE IF "logs" \in w.has THEN "logs" ELSE None
  BY First2 DEF DescribeProviderCredentials, describeCodexCredential
<1>3. r.used \in Numbers /\ ~r.why /\ "custom" \notin w.has =>
          DescribeProviderCredentials("codex", w) = r.login.from
  BY <1>2 DEF FetchCodexUsageForHome, fetchCodexBackendUsage, codexLogs, Ask, Row, Why, Login,
              Numbers, None
<1>4. ASSUME w.has \cap {"auth", "custom"} # {}, heard[1] = "bad", Len(heard) >= 1 PROVE r.why
  BY <1>4 DEF FetchCodexUsageForHome, fetchCodexBackendUsage, codexLogs, Ask, Row, Why, Heard
<1>5. ASSUME AskedFor("codex", w, heard), "bad" \in ToSet(heard)
      PROVE  w.has \cap {"auth", "custom"} # {} /\ heard[1] = "bad" /\ Len(heard) >= 1
  <2>1. FetchCodexUsageForHome(w, << >>) = Ask
    BY <1>1, <1>5, HeardOnce
  <2>2. w.has \cap {"auth", "custom"} # {}
    BY <2>1 DEF FetchCodexUsageForHome, codexLogs, Ask, Row, None
  <2>3. FetchCodexUsageForHome(w, << heard[1] >>) # Ask
    BY <2>2 DEF FetchCodexUsageForHome, fetchCodexBackendUsage, codexLogs, Ask, Row, Why, None, Heard
  <2> QED
    BY <1>1, <1>5, <2>2, <2>3, HeardOnce
<1>6. r.used \in Numbers => r.login.of = << "file", w.home >>
  BY DEF FetchCodexUsageForHome, fetchCodexBackendUsage, codexLogs, Ask, Row, Why, Login,
         Numbers, None
<1> QED
  BY <1>1, <1>3, <1>4, <1>5, <1>6 DEF Honest, DoctorKnows

LEMMA CommandCodeHonest ==
    ASSUME NEW w, NEW heard \in Seq(Answer)
    PROVE  Honest("commandcode", w, heard)
<1> DEFINE r == FetchCommandCodeUsage(w, heard)
<1>1. Fetch("commandcode", w, heard) = r
  BY DEF Fetch
<1>2. r.used \in Numbers => describeCommandCodeCredential(w) = r.login.from
  BY DEF FetchCommandCodeUsage, describeCommandCodeCredential, resolveCommandCodeAPIKey, Ask, Row, Why, Login, NoLogin, Numbers, None
<1>3. r.source \notin {"local", "local-auth"}
  BY DEF FetchCommandCodeUsage, Ask, Row, Why, None
<1> QED
  BY <1>1, <1>2, <1>3 DEF Honest, DescribeProviderCredentials, AccountKinds

LEMMA MinimaxHonest ==
    ASSUME NEW w, NEW heard \in Seq(Answer)
    PROVE  Honest("minimax", w, heard)
<1> DEFINE r == FetchMinimaxUsage(w, heard)
<1>1. Fetch("minimax", w, heard) = r
  BY DEF Fetch
<1>2. r.used \in Numbers => describeMinimaxCredential(w) = r.login.from
  BY DEF FetchMinimaxUsage, describeMinimaxCredential, resolveMinimaxToken, Ask, Row, Why, Login, NoLogin, Numbers, None
<1>3. r.source \notin {"local", "local-auth"}
  BY DEF FetchMinimaxUsage, Ask, Row, Why, None
<1> QED
  BY <1>1, <1>2, <1>3 DEF Honest, DescribeProviderCredentials, AccountKinds

\* What the probe of OpenCode's auth.json finds when it can read it.
LEMMA ProbedSources ==
    ASSUME NEW w, NEW file, "dated" \notin w.has
    PROVE  /\ w.has \subseteq Probed(w, file)
           /\ \A x : x \in Probed(w, file) => x \in w.has \/ x = file
  BY DEF Probed, credentialJSONEntryKeyPresent

LEMMA OpenCodeHonest ==
    ASSUME NEW w, NEW heard \in Seq(Answer)
    PROVE  Honest("opencode", w, heard)
<1> DEFINE r == FetchOpenCodeUsage(w, heard)
<1>1. Fetch("opencode", w, heard) = r
  BY DEF Fetch
<1>2. r.used \in Numbers =>
        resolveOpenCodeGoAPIKey(w) # None /\ r.login.from = resolveOpenCodeGoAPIKey(w)
  BY DEF FetchOpenCodeUsage, Ask, Row, Why, Login, NoLogin, Numbers, None
<1>4. resolveOpenCodeGoAPIKey(w) # None /\ "dated" \notin w.has =>
        describeOpenCodeCredential(w) = resolveOpenCodeGoAPIKey(w)
  BY ProbedSources, First2 DEF describeOpenCodeCredential, resolveOpenCodeGoAPIKey, None
<1>3. r.source \notin {"local", "local-auth"}
  BY DEF FetchOpenCodeUsage, Ask, Row, Why, None
<1> QED
  BY <1>1, <1>2, <1>3, <1>4 DEF Honest, DoctorKnows, DescribeProviderCredentials, AccountKinds

LEMMA ZaiHonest ==
    ASSUME NEW w, NEW heard \in Seq(Answer)
    PROVE  Honest("zai", w, heard)
<1> DEFINE r == FetchZaiUsage(w, heard)
<1>1. Fetch("zai", w, heard) = r
  BY DEF Fetch
<1>2. r.used \in Numbers =>
        resolveZaiCredential(w) # None /\ r.login.from = resolveZaiCredential(w)
  BY DEF FetchZaiUsage, Ask, Row, Why, Login, NoLogin, Numbers, None
<1>4. resolveZaiCredential(w) # None /\ "dated" \notin w.has =>
        describeZaiCredential(w) = resolveZaiCredential(w)
  BY ProbedSources, First4 DEF describeZaiCredential, resolveZaiCredential, None
<1>3. r.source \notin {"local", "local-auth"}
  BY DEF FetchZaiUsage, Ask, Row, Why, None
<1> QED
  BY <1>1, <1>2, <1>3, <1>4 DEF Honest, DoctorKnows, DescribeProviderCredentials, AccountKinds

LEMMA DeepseekHonest ==
    ASSUME NEW w, NEW heard \in Seq(Answer)
    PROVE  Honest("deepseek", w, heard)
<1> DEFINE r == FetchDeepseekUsage(w, heard)
<1>1. Fetch("deepseek", w, heard) = r
  BY DEF Fetch
<1>2. r.used \in Numbers => describeDeepseekCredential(w) = r.login.from
  BY First1 DEF FetchDeepseekUsage, describeDeepseekCredential, Ask, Row, Why, Login, NoLogin, Numbers, None
<1>3. r.source \notin {"local", "local-auth"}
  BY DEF FetchDeepseekUsage, Ask, Row, Why, None
<1> QED
  BY <1>1, <1>2, <1>3 DEF Honest, DescribeProviderCredentials, AccountKinds

LEMMA OpenRouterHonest ==
    ASSUME NEW w, NEW heard \in Seq(Answer)
    PROVE  Honest("openrouter", w, heard)
<1> DEFINE r == FetchOpenRouterUsage(w, heard)
<1>1. Fetch("openrouter", w, heard) = r
  BY DEF Fetch
<1>2. r.used \in Numbers => describeOpenRouterCredential(w) = r.login.from
  BY First1 DEF FetchOpenRouterUsage, describeOpenRouterCredential, Ask, Row, Why, Login, NoLogin, Numbers, None
<1>3. r.source \notin {"local", "local-auth"}
  BY DEF FetchOpenRouterUsage, Ask, Row, Why, None
<1> QED
  BY <1>1, <1>2, <1>3 DEF Honest, DescribeProviderCredentials, AccountKinds

\* An account's row does not read the key of the environment.
LEMMA KimiHonest ==
    ASSUME NEW w, NEW heard \in Seq(Answer)
    PROVE  Honest("kimi", w, heard)
<1> DEFINE r == fetchKimiUsageForHome(w, heard)
<1>1. Fetch("kimi", w, heard) = r
  BY DEF Fetch
<1>2. r.used \in Numbers =>
        /\ describeKimiCredentialForHome(w) = r.login.from
        /\ r.login = Login(w, resolveKimiTokenForHome(w))
  BY DEF fetchKimiUsageForHome, describeKimiCredentialForHome, resolveKimiTokenForHome,
         Ask, Row, Why, Login, NoLogin, Numbers, None
<1>3. r.source \notin {"local", "local-auth"}
  BY DEF fetchKimiUsageForHome, Ask, Row, Why, None
<1>4. w.home # None => resolveKimiTokenForHome(w) \in {"static", "rotated", None}
  BY First2 DEF resolveKimiTokenForHome
<1>5. w.home # None => Login(w, resolveKimiTokenForHome(w)).of = << "file", w.home >>
  BY <1>4 DEF Login, None
<1> QED
  BY <1>1, <1>2, <1>3, <1>5 DEF Honest, DescribeProviderCredentials

\* An account's row does not read the key of the environment.
LEMMA GrokHonest ==
    ASSUME NEW w, NEW heard \in Seq(Answer)
    PROVE  Honest("grok", w, heard)
<1> DEFINE r == fetchGrokUsageForHome(w, heard)
<1>1. Fetch("grok", w, heard) = r
  BY DEF Fetch
<1>2. r.used \in Numbers =>
        /\ describeGrokCredentialForHome(w) = r.login.from
        /\ r.login = Login(w, resolveGrokTokenForHome(w))
  BY DEF fetchGrokUsageForHome, describeGrokCredentialForHome, resolveGrokTokenForHome,
         Ask, Row, Why, Login, NoLogin, Numbers, None
<1>3. r.source \notin {"local", "local-auth"}
  BY DEF fetchGrokUsageForHome, Ask, Row, Why, None
<1>4. w.home # None => resolveGrokTokenForHome(w) \in {"auth", None}
  BY First1 DEF resolveGrokTokenForHome
<1>5. w.home # None => Login(w, resolveGrokTokenForHome(w)).of = << "file", w.home >>
  BY <1>4 DEF Login, None
<1> QED
  BY <1>1, <1>2, <1>3, <1>5 DEF Honest, DescribeProviderCredentials

LEMMA QwenHonest ==
    ASSUME NEW w, NEW heard \in Seq(Answer)
    PROVE  Honest("qwen", w, heard)
<1> DEFINE r(h) == fetchQwenUsageForHome(w, h)
<1>1. \A h : Fetch("qwen", w, h) = r(h)
  BY DEF Fetch
<1>2. r(heard).used \in Numbers => describeQwenCredentialForHome(w) = r(heard).login.from
  BY First1 DEF fetchQwenUsageForHome, describeQwenCredentialForHome, Row, Login, NoLogin, Numbers, None
<1>3. r(<< >>) # Ask
  BY DEF fetchQwenUsageForHome, Ask, Row, None
<1>4. r(heard).used \in Numbers => r(heard).login.of = << "file", w.home >>
  BY DEF fetchQwenUsageForHome, Row, Login, NoLogin, Numbers, None
<1> QED
  BY <1>1, <1>2, <1>3, <1>4, HeardOnce DEF Honest, DescribeProviderCredentials

LEMMA CursorHonest ==
    ASSUME NEW w, NEW heard \in Seq(Answer)
    PROVE  Honest("cursor-agent", w, heard)
<1> DEFINE r(h) == FetchCursorUsage(w, h)
<1>1. \A h : Fetch("cursor-agent", w, h) = r(h)
  BY DEF Fetch
<1>2. DescribeProviderCredentials("cursor-agent", w) =
        IF "custom" \in w.has THEN "custom" ELSE IF "env" \in w.has THEN "env"
        ELSE IF "auth" \in w.has THEN "auth" ELSE IF "sessions" \in w.has THEN "sessions" ELSE None
  BY First4 DEF DescribeProviderCredentials, describeCursorCredential
<1>3. /\ r(heard).used \in Numbers /\ ~r(heard).why
      /\ "env" \in w.has => "custom" \in w.has
      => DescribeProviderCredentials("cursor-agent", w) = r(heard).login.from
  BY <1>2 DEF FetchCursorUsage, fetchCursorCustomEndpoint, fetchCursorAPIUsage, cursorLocal, Ask,
              Row, Why, Login, Numbers, None
<1>4. ASSUME {"custom", "auth"} \cap w.has # {}, heard[1] = "bad", Len(heard) >= 1
      PROVE  r(heard).why
  BY <1>4 DEF FetchCursorUsage, fetchCursorCustomEndpoint, fetchCursorAPIUsage, cursorLocal, Ask,
              Row, Why, Heard
<1>5. ASSUME AskedFor("cursor-agent", w, heard), "bad" \in ToSet(heard)
      PROVE  {"custom", "auth"} \cap w.has # {} /\ heard[1] = "bad" /\ Len(heard) >= 1
  <2>1. r(<< >>) = Ask
    BY <1>1, <1>5, HeardOnce
  <2>2. {"custom", "auth"} \cap w.has # {}
    BY <2>1 DEF FetchCursorUsage, cursorLocal, Ask, Row, None
  <2>3. r(<< heard[1] >>).status # "ask"
    BY <2>2 DEF FetchCursorUsage, fetchCursorCustomEndpoint, fetchCursorAPIUsage, cursorLocal,
                Row, Why, Heard
  <2> QED
    BY <1>1, <1>5, <2>2, <2>3, HeardOnce, AskRow
<1> QED
  BY <1>1, <1>3, <1>4, <1>5 DEF Honest, DoctorKnows, AccountKinds

\* Only the logs are read without asking.
LEMMA CopilotHonest ==
    ASSUME NEW w, NEW heard \in Seq(Answer)
    PROVE  Honest("copilot", w, heard)
<1> DEFINE r(h) == FetchCopilotUsage(w, h)
           local == w.has \cap {"config", "env", "env2", "gh"} = {}
<1>1. \A h : Fetch("copilot", w, h) = r(h)
  BY DEF Fetch
<1>2. DescribeProviderCredentials("copilot", w) = copilotSource(w)
  BY DEF DescribeProviderCredentials, describeCopilotCredential, copilotSource
<1>3. local => copilotSource(w) = IF "logs" \in w.has THEN "logs" ELSE None
  BY First5 DEF copilotSource
<1>4. r(heard).used \in Numbers => copilotSource(w) = r(heard).login.from
  <2>1. CASE local
    BY <1>3, <2>1 DEF FetchCopilotUsage, FetchCopilotLocalUsage, Row, Login, Numbers
  <2>2. CASE ~local
    BY <2>2 DEF FetchCopilotUsage, copilotBilling, Ask, Row, Why, Login, Numbers, None
  <2> QED
    BY <2>1, <2>2
<1>5. local => r(<< >>) # Ask
  BY DEF FetchCopilotUsage, FetchCopilotLocalUsage, Ask, Row
<1>6. ~local => r(heard).source \notin {"local", "local-auth"}
  BY DEF FetchCopilotUsage, copilotBilling, Ask, Row, Why, None
<1> QED
  BY <1>1, <1>2, <1>4, <1>5, <1>6, HeardOnce DEF Honest, AccountKinds

\* Whatever the provider: claude and agy are taken as answered.
LEMMA RowsHonest ==
    ASSUME NEW p \in ToSet(providers), NEW w, NEW heard \in Seq(Answer)
    PROVE  Honest(p, w, heard)
<1>1. p \in {"agy", "claude", "commandcode", "cursor-agent", "copilot", "opencode", "codex", "kimi",
             "zai", "qwen", "deepseek", "openrouter", "minimax", "grok"}
  BY DEF providers, ToSet
<1>2. CASE p \in {"claude", "agy"}
  <2>1. \A h : Fetch(p, w, h) = Row("ok", "remote", "percent", Login(w, "auth"))
    BY <1>2 DEF Fetch
  <2> QED
    BY <1>2, <2>1 DEF Honest, DescribeProviderCredentials, Row, Login, AccountKinds
<1> QED
  BY <1>1, <1>2, CodexHonest, CursorHonest, CopilotHonest, CommandCodeHonest, KimiHonest,
     QwenHonest, MinimaxHonest, OpenCodeHonest, ZaiHonest, GrokHonest, DeepseekHonest,
     OpenRouterHonest

-----------------------------------------------------------------------------
(* The invariant.                                                          *)

Calls == [at : {"idle", "sent", "asleep"}, heard : Seq(Answer), tries : 0 .. MaxRetries + 1,
          wake : Int, until : Int]

\* The rows are those of the configuration, one fetcher each.
JobInv ==
    /\ case \in Cases /\ job = Jobs(case.cfg)
    /\ call \in [DOMAIN job -> Calls]
    /\ row = [i \in DOMAIN job |-> row[i]]

\* A call is out only for a fetcher that wants one, and sleeps until it may be
\* made again.
CallInv == \A i \in DOMAIN job :
    /\ call[i].at = "idle" => call[i].tries = 0 /\ call[i].until = 0
    /\ call[i].at = "sent" => call[i].tries >= 1
    /\ call[i].at = "asleep" => call[i].tries \in 1 .. MaxRetries /\ call[i].until \in {0, call[i].wake}
    /\ call[i].at # "idle" => Coming(i) = Ask
    /\ AskedFor(job[i].provider, World(i), call[i].heard)

\* A finished row is its fetcher's, after the answers it has heard, or says that
\* the deadline passed.
RowInv == \A i \in DOMAIN job : row[i] \in {Ask, Coming(i), TimedOut}

ClockInv ==
    /\ phase \in {"fetch", "notify", "print", "printed"}
    /\ now \in 0 .. KilledAt
    /\ notify \in [sent : 0 .. Len(job), since : Int]

IInv == JobInv /\ CallInv /\ RowInv /\ ClockInv

LEMMA JobFacts ==
    ASSUME case \in Cases, job = Jobs(case.cfg)
    PROVE  /\ DOMAIN job = 1 .. Len(job) /\ Len(job) \in Nat
           /\ \A i \in DOMAIN job : job[i].provider \in ToSet(providers)
<1>1. job \in Seq(RowRecords)
  BY JobsAre, CasesAssumption
<1>2. DOMAIN job = 1 .. Len(job) /\ Len(job) \in Nat /\ \A i \in 1 .. Len(job) : job[i] \in RowRecords
  BY <1>1, LenProperties, ElementOfSeq
<1> QED BY <1>2 DEF RowRecords

LEMMA RowLen ==
    ASSUME JobInv
    PROVE  DOMAIN row = DOMAIN job /\ Len(row) = Len(job) /\ Len(job) \in Nat
<1> DEFINE S == {row[i] : i \in DOMAIN job}
<1>1. DOMAIN job = 1 .. Len(job) /\ Len(job) \in Nat
  BY JobFacts DEF JobInv
<1>2. row = [i \in 1 .. Len(job) |-> row[i]]
  BY <1>1 DEF JobInv
<1>3. row \in [1 .. Len(job) -> S]
  BY <1>1, <1>2
<1>4. row \in Seq(S) /\ Len(row) = Len(job)
  BY <1>1, <1>3
<1> QED
  BY <1>1, <1>2, <1>4

LEMMA NoCallFacts ==
    ASSUME NEW heard \in Seq(Answer)
    PROVE  LET c == NoCall(heard) IN
           /\ c \in Calls /\ c.at = "idle" /\ c.heard = heard /\ c.tries = 0 /\ c.until = 0
BY MaxRetriesAssumption DEF NoCall, Calls

LEMMA InitInv == Init => IInv
<1> SUFFICES ASSUME Init PROVE IInv
  OBVIOUS
<1>1. << >> \in Seq(Answer) /\ Len(<< >>) = 0
  OBVIOUS
<1>2. \A i \in DOMAIN job : call[i] = NoCall(<< >>) /\ row[i] = Ask
  BY DEF Init
<1>3. JobInv
  BY <1>1, NoCallFacts DEF Init, JobInv
<1>4. CallInv
  <2> SUFFICES ASSUME NEW i \in DOMAIN job
               PROVE  CallInv!(i)
    BY DEF CallInv
  <2>1. call[i].at = "idle" /\ call[i].heard = << >> /\ call[i].tries = 0 /\ call[i].until = 0
    BY <1>2 DEF NoCall
  <2>2. AskedFor(job[i].provider, World(i), call[i].heard)
    BY <1>1, <2>1 DEF AskedFor
  <2> QED
    BY <2>1, <2>2
<1>5. RowInv
  BY <1>2 DEF RowInv
<1>6. ClockInv
  BY JobFacts, TimesAssumption DEF Init, ClockInv
<1> QED
  BY <1>3, <1>4, <1>5, <1>6 DEF IInv

\* What a step does to one fetcher leaves the others' calls and rows.
LEMMA CallStep ==
    ASSUME IInv, NEW i \in DOMAIN job, NEW c \in Calls, row[i] = Ask,
           call' = [call EXCEPT ![i] = c], UNCHANGED << case, job, row >>,
           c.at = "idle" => c.tries = 0 /\ c.until = 0,
           c.at = "sent" => c.tries >= 1,
           c.at = "asleep" => c.tries \in 1 .. MaxRetries /\ c.until \in {0, c.wake},
           c.at # "idle" => Fetch(job[i].provider, World(i), c.heard) = Ask,
           AskedFor(job[i].provider, World(i), c.heard)
    PROVE  JobInv' /\ CallInv' /\ RowInv'
<1>1. \A k \in DOMAIN job : call'[k] = IF k = i THEN c ELSE call[k]
  BY DEF IInv, JobInv
<1>2. JobInv'
  BY DEF IInv, JobInv
<1>3. CallInv'
  BY <1>1 DEF IInv, CallInv, Coming, World
<1>4. RowInv'
  BY <1>1 DEF IInv, RowInv, Coming, World
<1> QED
  BY <1>2, <1>3, <1>4

LEMMA OneOrMore == \A n \in Nat : n >= 1 => n = 1 \/ n >= 2
OBVIOUS

\* An answer is heard by a fetcher that had asked for it.
LEMMA HearStep ==
    ASSUME IInv, NEW i \in DOMAIN job, NEW a \in Answer, Hear(i, a), row[i] = Ask,
           Coming(i) = Ask, UNCHANGED << case, job, row >>
    PROVE  JobInv' /\ CallInv' /\ RowInv'
<1> DEFINE h == call[i].heard
           p == job[i].provider
<1>1. h \in Seq(Answer) /\ Append(h, a) \in Seq(Answer)
  BY DEF IInv, JobInv, Calls
<1>2. call' = [call EXCEPT ![i] = NoCall(Append(h, a))]
  BY DEF Hear
<1>3. Len(h) = 0 => h = << >>
  BY <1>1
<1>4. Len(h) = 1 => h = << h[1] >>
  BY <1>1
<1>5. Len(h) >= 1 => Append(h, a)[1] = h[1]
  BY <1>1
<1>6. Len(Append(h, a)) = Len(h) + 1
  BY <1>1
<1>0. Len(h) \in Nat
  BY <1>1
<1>7. Fetch(p, World(i), h) = Ask /\ AskedFor(p, World(i), h)
  BY DEF Coming, IInv, CallInv
<1>8. Fetch(p, World(i), << >>) = Ask
  BY <1>0, <1>3, <1>6, <1>7 DEF AskedFor
<1>9. Len(h) >= 1 => Fetch(p, World(i), << Append(h, a)[1] >>) = Ask
  <2> SUFFICES ASSUME Len(h) >= 1 PROVE Fetch(p, World(i), << Append(h, a)[1] >>) = Ask
    OBVIOUS
  <2>3. Len(h) = 1 \/ Len(h) >= 2
    BY <1>0, OneOrMore
  <2>1. CASE Len(h) = 1
    BY <1>4, <1>5, <1>7, <2>1
  <2>2. CASE Len(h) >= 2
    <3>1. Append(h, a)[1] = h[1]
      BY <1>5, <2>2
    <3>2. Fetch(p, World(i), << h[1] >>) = Ask
      BY <1>7, <2>2 DEF AskedFor
    <3> QED
      BY <3>1, <3>2
  <2> QED
    BY <2>1, <2>2, <2>3
<1>10. AskedFor(p, World(i), Append(h, a))
  BY <1>0, <1>6, <1>8, <1>9 DEF AskedFor
<1>11. LET c == NoCall(Append(h, a)) IN
       c \in Calls /\ c.at = "idle" /\ c.heard = Append(h, a) /\ c.tries = 0 /\ c.until = 0
  BY <1>1, NoCallFacts
<1> HIDE DEF h, p
<1>12. AskedFor(job[i].provider, World(i), NoCall(Append(h, a)).heard)
  BY <1>10, <1>11 DEF p
<1> QED
  BY <1>2, <1>11, <1>12, CallStep

LEMMA RowStep ==
    ASSUME IInv, NEW i \in DOMAIN job, NEW r, r \in {Coming(i), TimedOut},
           row' = [row EXCEPT ![i] = r], UNCHANGED << case, job, call >>
    PROVE  JobInv' /\ CallInv' /\ RowInv'
<1>1. \A k \in DOMAIN job : row'[k] = IF k = i THEN r ELSE row[k]
  BY DEF IInv, JobInv
<1>2. JobInv'
  BY DEF IInv, JobInv
<1>3. CallInv'
  BY DEF IInv, CallInv, Coming, World
<1>4. RowInv'
  BY <1>1 DEF IInv, RowInv, Coming, World
<1> QED
  BY <1>2, <1>3, <1>4

\* A fetcher hears an answer only after it has asked.
LEMMA HeardStep ==
    ASSUME IInv, NEW i \in DOMAIN job, NEW a \in Answer, Hear(i, a), row[i] = Ask,
           call[i].at # "idle" \/ Coming(i) = Ask, UNCHANGED << case, job, row >>
    PROVE  JobInv' /\ CallInv' /\ RowInv'
<1>1. Coming(i) = Ask
  BY DEF IInv, CallInv
<1> QED
  BY <1>1, HearStep

LEMMA SendInv ==
    ASSUME IInv, NEW i \in DOMAIN job, Send(i)
    PROVE  JobInv' /\ CallInv' /\ RowInv'
<1>1. call[i] \in Calls /\ Coming(i) = Ask
  BY DEF IInv, JobInv, CallInv, Send, Calling
<1>2. CASE ctxDone
  BY <1>1, <1>2, HeardStep DEF Send, Answer
<1>3. CASE ~ctxDone
  <2> DEFINE c == [call[i] EXCEPT !.at = "sent", !.tries = @ + 1]
  <2>1. call[i].tries \in 0 .. MaxRetries
    BY <1>1, MaxRetriesAssumption DEF Send, Calling, IInv, CallInv, Calls
  <2>6. c.at = "sent" /\ c.tries = call[i].tries + 1 /\ c.heard = call[i].heard
    BY <1>1 DEF Calls
  <2>7. call[i].tries + 1 \in 1 .. MaxRetries + 1
    BY <2>1, MaxRetriesAssumption
  <2>8. c.tries \in 0 .. MaxRetries + 1 /\ c.tries >= 1
    BY <2>1, <2>6, <2>7
  <2>2. c \in Calls
    BY <1>1, <2>8 DEF Calls
  <2>3. call' = [call EXCEPT ![i] = c] /\ row[i] = Ask /\ UNCHANGED << case, job, row >>
    BY <1>3 DEF Send
  <2>4. Fetch(job[i].provider, World(i), c.heard) = Ask
    BY <1>1, <2>6 DEF Coming
  <2>5. AskedFor(job[i].provider, World(i), c.heard)
    BY <2>6 DEF IInv, CallInv
  <2> HIDE DEF c
  <2> QED
    BY <2>2, <2>3, <2>4, <2>5, <2>6, <2>8, CallStep
<1> QED
  BY <1>2, <1>3

\* The wait between two tries is the one the endpoint asked for, when it did.
LEMMA RetryInv ==
    ASSUME IInv, NEW i \in DOMAIN job, NEW n \in Nat, Retry(i, n)
    PROVE  JobInv' /\ CallInv' /\ RowInv'
<1>1. call[i] \in Calls /\ call[i].at = "sent" /\ row[i] = Ask /\ UNCHANGED << case, job, row >>
  BY DEF IInv, JobInv, Retry
<1>2. CASE call[i].tries = MaxRetries + 1
  BY <1>1, <1>2, HeardStep DEF Retry, Answer
<1>3. CASE call[i].tries # MaxRetries + 1
  <2> DEFINE c == [call[i] EXCEPT !.at = "asleep",
                                  !.wake = now + backoff(call[i].tries, n),
                                  !.until = IF retryAfterDelay(n) THEN now + n ELSE 0]
  <2>1. call[i].tries \in 1 .. MaxRetries
    BY <1>1, <1>3, MaxRetriesAssumption DEF IInv, CallInv, Calls
  <2>2. backoff(call[i].tries, n) \in Int /\ (retryAfterDelay(n) => backoff(call[i].tries, n) = n)
    BY <2>1, MaxRetriesAssumption DEF backoff
  <2>3. now \in Int
    BY DEF IInv, ClockInv
  <2>8. /\ c.at = "asleep" /\ c.tries = call[i].tries /\ c.heard = call[i].heard
        /\ c.wake = now + backoff(call[i].tries, n)
        /\ c.until = IF retryAfterDelay(n) THEN now + n ELSE 0
    BY <1>1 DEF Calls
  <2>9. c.wake \in Int /\ c.until \in Int /\ c.until \in {0, c.wake}
    BY <2>2, <2>3, <2>8
  <2>10. c \in Calls
    BY <1>1, <2>9 DEF Calls
  <2>4. /\ c \in Calls /\ c.at = "asleep" /\ c.tries = call[i].tries /\ c.heard = call[i].heard
        /\ c.until \in {0, c.wake}
    BY <2>8, <2>9, <2>10
  <2>5. call' = [call EXCEPT ![i] = c]
    BY <1>3 DEF Retry
  <2>6. Fetch(job[i].provider, World(i), c.heard) = Ask
    BY <1>1, <2>4 DEF IInv, CallInv, Coming
  <2>7. AskedFor(job[i].provider, World(i), c.heard)
    BY <2>4 DEF IInv, CallInv
  <2> HIDE DEF c
  <2> QED
    BY <1>1, <2>1, <2>4, <2>5, <2>6, <2>7, CallStep
<1> QED
  BY <1>2, <1>3

\* No step of a fetcher touches the clock.
LEMMA FetcherInv ==
    ASSUME IInv, NEW i \in Rows,
           \/ Send(i) \/ Answered(i) \/ Canceled(i) \/ Finish(i) \/ Expire(i)
           \/ Retry(i, 0) \/ \E n \in RetryAfters : RateLimited(i, n)
    PROVE  JobInv' /\ CallInv' /\ RowInv' /\ UNCHANGED << job, now, phase, notify >>
<1>0. i \in DOMAIN job
  BY RowLen DEF IInv, Rows
<1>1. CASE Send(i)
  BY <1>0, <1>1, SendInv DEF Send
<1>2. CASE Answered(i)
  BY <1>0, <1>2, HeardStep DEF Answered
<1>3. CASE Canceled(i)
  BY <1>0, <1>3, HeardStep DEF Canceled, Answer
<1>4. CASE Finish(i)
  BY <1>0, <1>4, RowStep DEF Finish
<1>5. CASE Expire(i)
  BY <1>0, <1>5, RowStep DEF Expire
<1>8. ASSUME NEW n \in Nat, Retry(i, n)
      PROVE  JobInv' /\ CallInv' /\ RowInv' /\ UNCHANGED << job, now, phase, notify >>
  <2>1. UNCHANGED << job, now, phase, notify >>
    BY <1>8 DEF Retry
  <2> QED
    BY <1>0, <1>8, <2>1, RetryInv
<1>6. CASE Retry(i, 0)
  BY <1>6, <1>8
<1>7. ASSUME NEW n \in RetryAfters, RateLimited(i, n)
      PROVE  JobInv' /\ CallInv' /\ RowInv' /\ UNCHANGED << job, now, phase, notify >>
  <2>1. n \in Nat
    BY TimesAssumption
  <2>2. CASE retryAfterDelay(n)
    BY <1>7, <1>8, <2>1, <2>2 DEF RateLimited
  <2>3. CASE ~retryAfterDelay(n)
    BY <1>0, <1>7, <2>3, HeardStep DEF RateLimited, Answer
  <2> QED
    BY <2>2, <2>3
<1> QED
  BY <1>1, <1>2, <1>3, <1>4, <1>5, <1>6, <1>7

LEMMA Invariance == IInv /\ [Next]_vars => IInv'
<1> SUFFICES ASSUME IInv, [Next]_vars PROVE IInv'
  OBVIOUS
<1> USE DEF IInv
<1>1. ASSUME UNCHANGED << case, job, call, row >> PROVE JobInv' /\ CallInv' /\ RowInv'
  BY <1>1 DEF JobInv, CallInv, RowInv, Coming, World
<1>2. ASSUME NEW i \in Rows,
             \/ Send(i) \/ Answered(i) \/ Canceled(i) \/ Finish(i) \/ Expire(i)
             \/ Retry(i, 0) \/ \E n \in RetryAfters : RateLimited(i, n)
      PROVE  IInv'
  <2>1. JobInv' /\ CallInv' /\ RowInv' /\ UNCHANGED << job, now, phase, notify >>
    BY <1>2, FetcherInv
  <2> QED
    BY <2>1 DEF ClockInv
<1>3. CASE Fetched
  BY <1>1, <1>3, RowLen DEF Fetched, ClockInv
<1>4. CASE Notified
  BY <1>1, <1>4, RowLen DEF Notified, ClockInv
<1>5. CASE printUsageOutputMode
  BY <1>1, <1>5 DEF printUsageOutputMode, ClockInv
<1>6. CASE Tick
  BY <1>1, <1>6, TimesAssumption DEF Tick, ClockInv
<1>7. CASE UNCHANGED vars
  BY <1>1, <1>7 DEF vars, ClockInv
<1> QED
  BY <1>2, <1>3, <1>4, <1>5, <1>6, <1>7 DEF Next

LEMMA Inductive == Spec => []IInv
BY InitInv, Invariance, PTL DEF Spec

-----------------------------------------------------------------------------
(* What follows.                                                           *)

\* The report's state keeps its type: no fetcher hears what is not an answer, or
\* tries once more than the client allows, and no more notifications are sent
\* than there are rows (usage.go, client.go, alert.go).
THEOREM TypeCorrect == Spec => []TypeOK
<1>1. ASSUME IInv PROVE TypeOK
  <2> USE <1>1 DEF IInv
  <2>1. ASSUME NEW i \in Rows
        PROVE  /\ call[i].at \in {"idle", "sent", "asleep"}
               /\ ToSet(call[i].heard) \subseteq Answer
               /\ call[i].tries \in 0 .. MaxRetries + 1
    <3>1. call[i] \in Calls
      BY RowLen DEF Rows, JobInv
    <3>2. call[i].heard \in Seq(Answer)
      BY <3>1 DEF Calls
    <3> QED
      BY <3>1, <3>2 DEF Calls, ToSet
  <2>2. notify.sent \in 0 .. Len(row)
    BY RowLen DEF ClockInv
  <2> QED
    BY <2>1, <2>2 DEF TypeOK, JobInv, ClockInv
<1> QED
  BY <1>1, Inductive, PTL

\* A finished row that shows something is its fetcher's.
LEMMA ShownRows ==
    ASSUME IInv, NEW i \in Rows,
           row[i].used \in Numbers \/ row[i].source \in {"local", "local-auth"}
    PROVE  /\ row[i] = Coming(i) /\ job[i].provider \in ToSet(providers)
           /\ Honest(job[i].provider, World(i), call[i].heard)
           /\ AskedFor(job[i].provider, World(i), call[i].heard)
<1>1. i \in DOMAIN job
  BY RowLen DEF IInv, Rows
<1>2. row[i] \in {Ask, Coming(i), TimedOut}
  BY <1>1 DEF IInv, RowInv
<1>3. TimedOut.used = "n/a" /\ TimedOut.source = "oct"
  BY DEF TimedOut, Row
<1>4. row[i] = Coming(i)
  BY <1>2, <1>3, AskRow DEF Numbers, None
<1>5. job[i].provider \in ToSet(providers)
  BY <1>1, JobFacts DEF IInv, JobInv
<1>6. call[i].heard \in Seq(Answer)
  BY <1>1 DEF IInv, JobInv, Calls
<1>7. AskedFor(job[i].provider, World(i), call[i].heard)
  BY <1>1 DEF IInv, CallInv
<1> QED
  BY <1>4, <1>5, <1>6, <1>7, RowsHonest

\* The probe behind `oct doctor` and the fetcher of a provider are two lists of
\* places to look for a credential in (credentials.go:60-77 and the fetchers):
\* in any world, after any answers, they name the same source.
THEOREM DoctorAgrees == Spec => []DoctorNamesTheSource
<1>1. ASSUME IInv PROVE DoctorNamesTheSource
  <2> SUFFICES ASSUME NEW i \in Rows, HasNumbers(i), ~row[i].why,
                      DoctorKnows(job[i].provider, World(i))
               PROVE  DescribeProviderCredentials(job[i].provider, World(i)) = row[i].login.from
    BY DEF DoctorNamesTheSource, DoctorKnows
  <2>1. row[i].used \in Numbers
    BY DEF HasNumbers, Numbers
  <2>2. row[i] = Coming(i) /\ Honest(job[i].provider, World(i), call[i].heard)
    BY <1>1, <2>1, ShownRows
  <2> QED
    BY <2>1, <2>2 DEF Honest, Coming
<1> QED
  BY <1>1, Inductive, PTL

\* An estimate read off the machine after a failed call says that a call failed,
\* whichever provider it is for and whatever failed (codex.go:87-91, cursor.go).
THEOREM EstimatesExplained == Spec => []EstimatesSayWhy
<1>1. ASSUME IInv PROVE EstimatesSayWhy
  <2> SUFFICES ASSUME NEW i \in Rows, row[i].source \in {"local", "local-auth"},
                      "bad" \in ToSet(call[i].heard)
               PROVE  row[i].why
    BY DEF EstimatesSayWhy
  <2>1. /\ row[i] = Coming(i) /\ Honest(job[i].provider, World(i), call[i].heard)
        /\ AskedFor(job[i].provider, World(i), call[i].heard)
    BY <1>1, ShownRows
  <2> QED
    BY <2>1 DEF Honest, Coming
<1> QED
  BY <1>1, Inductive, PTL

\* Where each row of a provider has a directory of its own, no two of them show
\* the numbers of one login: an account's row never reads the key of the
\* environment (kimi.go:95-97, grok.go:85-88).
THEOREM LoginsApart ==
    ASSUME HomesApart
    PROVE  Spec => []LoginsOnce
<1>1. ASSUME IInv PROVE LoginsOnce
  <2> SUFFICES ASSUME NEW i \in Rows, NEW j \in Rows, i # j, job[i].provider = job[j].provider,
                      HasNumbers(i), HasNumbers(j)
               PROVE  row[i].login.of # row[j].login.of
    BY DEF LoginsOnce
  <2>1. /\ job[i].provider \in AccountKinds
        /\ None \notin {job[i].home, job[j].home} /\ job[i].home # job[j].home
    <3>1. /\ case \in Cases /\ case.cfg \in Configurations /\ job = Jobs(case.cfg)
          /\ i \in DOMAIN job /\ j \in DOMAIN job
      BY <1>1, RowLen, CasesAssumption DEF IInv, JobInv, Rows
    <3>2. job[i] # job[j] /\ job[i] \in ToSet(job) /\ job[j] \in ToSet(job)
      BY <3>1, JobsAre DEF IsInjective, ToSet
    <3> QED BY <3>1, <3>2, RowsApart DEF HomesApart
  <2>2. ASSUME NEW k \in {i, j} PROVE row[k].login.of = << "file", job[k].home >>
    <3>1. row[k].used \in Numbers /\ k \in Rows
      BY DEF HasNumbers, Numbers
    <3>2. row[k] = Coming(k) /\ Honest(job[k].provider, World(k), call[k].heard)
      BY <1>1, <3>1, ShownRows
    <3>3. World(k).home = job[k].home /\ job[k].home # None /\ job[k].provider \in AccountKinds
      BY <2>1 DEF World
    <3> QED
      BY <3>1, <3>2, <3>3 DEF Honest, Coming
  <2>3. << "file", job[i].home >> # << "file", job[j].home >>
    BY <2>1
  <2> QED
    BY <2>2, <2>3
<1> QED
  BY <1>1, Inductive, PTL

\* Only Send puts a call out, and not before the wait it was told is over.
LEMMA SentOnce ==
    ASSUME IInv, Next, NEW i \in Rows, call[i].at # "sent", call'[i].at = "sent"
    PROVE  now >= call[i].until
<1>1. i \in DOMAIN job /\ DOMAIN row = DOMAIN job /\ call \in [DOMAIN job -> Calls]
  BY RowLen DEF IInv, JobInv, Rows
<1>2. ASSUME NEW k \in Rows, NEW a, Hear(k, a) PROVE FALSE
  <2>1. call'[i] = call[i] \/ call'[i] = NoCall(Append(call[k].heard, a))
    BY <1>1, <1>2 DEF Hear
  <2> QED
    BY <2>1 DEF NoCall
<1>3. ASSUME NEW k \in Rows, NEW n \in Nat, Retry(k, n) PROVE FALSE
  <2>1. CASE call[k].tries = MaxRetries + 1
    BY <1>2, <1>3, <2>1 DEF Retry
  <2>2. CASE call[k].tries # MaxRetries + 1
    <3>1. call'[i] = call[i] \/ call'[i].at = "asleep"
      BY <1>1, <1>3, <2>2 DEF Retry, Calls
    <3> QED
      BY <3>1
  <2> QED
    BY <2>1, <2>2
<1>4. ASSUME NEW k \in Rows, Send(k) PROVE now >= call[i].until
  <2>1. CASE k # i \/ ctxDone
    BY <1>1, <1>2, <1>4, <2>1 DEF Send
  <2>2. CASE k = i
    <3>1. call[i] \in Calls /\ now \in 0 .. KilledAt
      BY <1>1 DEF IInv, ClockInv
    <3>2. CASE call[i].at = "idle"
      BY <1>1, <3>1, <3>2, TimesAssumption DEF IInv, CallInv
    <3>3. CASE call[i].at = "asleep"
      <4>1. now >= call[i].wake
        BY <1>4, <2>2, <3>3 DEF Send, Calling
      <4>2. call[i].until \in {0, call[i].wake}
        BY <1>1, <3>3 DEF IInv, CallInv
      <4> QED
        BY <3>1, <4>1, <4>2, TimesAssumption DEF Calls
    <3> QED
      BY <3>1, <3>2, <3>3 DEF Calls
  <2> QED
    BY <2>1, <2>2
<1>5. ASSUME NEW k \in Rows, Answered(k) \/ Canceled(k) PROVE FALSE
  BY <1>2, <1>5 DEF Answered, Canceled
<1>6. ASSUME NEW k \in Rows, NEW n \in RetryAfters, RateLimited(k, n) PROVE FALSE
  <2>1. n \in Nat
    BY TimesAssumption
  <2> QED
    BY <1>2, <1>3, <1>6, <2>1 DEF RateLimited
<1>7. ASSUME call' = call PROVE FALSE
  BY <1>7
<1> QED
  BY <1>3, <1>4, <1>5, <1>6, <1>7
  DEF Next, Finish, Expire, Fetched, Notified, printUsageOutputMode, Tick

\* A call told to wait is not made again before, and is made at most MaxRetries
\* times again: the wait an endpoint asks for is never cut short by the
\* exponential schedule (client.go:44-98).
THEOREM RetriesSpaced == Spec => RetriesAreSpaced
<1>1. ASSUME IInv, IInv', [Next]_vars, NEW i \in Rows, call[i].at # "sent", call'[i].at = "sent"
      PROVE  now >= call[i].until /\ call'[i].tries <= MaxRetries + 1
  <2>1. call # call'
    BY <1>1
  <2>2. Next
    BY <1>1, <2>1 DEF vars
  <2>3. now >= call[i].until
    BY <1>1, <2>2, SentOnce
  <2>4. job' = job
    BY <1>1, <2>2, FetcherInv DEF Next, Fetched, Notified, printUsageOutputMode, Tick
  <2>6. i \in DOMAIN job
    BY <1>1, RowLen DEF IInv, Rows
  <2>5. call'[i] \in Calls
    BY <1>1, <2>4, <2>6 DEF IInv, JobInv
  <2> QED
    BY <2>3, <2>5, MaxRetriesAssumption DEF Calls
<1>2. IInv /\ IInv' /\ [Next]_vars =>
        [\A i \in Rows : call[i].at # "sent" /\ call'[i].at = "sent" =>
              now >= call[i].until /\ call'[i].tries <= MaxRetries + 1]_vars
  BY <1>1
<1> QED
  BY <1>2, Inductive, PTL DEF Spec, RetriesAreSpaced

\* Every selected provider has its rows, each of them once: one per account, or
\* its own when it has none, whatever the configuration lists and in which order
\* (GetUsage, usage.go:99-216).
THEOREM RowsOfEveryProvider == Spec => []EveryRowOnce
<1>1. ASSUME IInv PROVE EveryRowOnce
  BY <1>1, RowLen, CasesAssumption, RowsOnce DEF IInv, JobInv
<1> QED
  BY <1>1, Inductive, PTL

=============================================================================
