----------------------------- MODULE FoldLemmas -----------------------------
(* FoldLeft of the community modules, for an operator given as a constant:   *)
(* a module that folds a sequence instantiates this one with the operator it *)
(* folds with.  What is folded need not be of any type.                      *)
EXTENDS SequencesExt, FiniteSetTheorems, TLAPS

CONSTANT op(_, _)

\* The equation of the recursive function that FoldLeft chooses.
Solves(base, f, s, S) ==
    f = [t \in SUBSET S |->
            IF t = {} THEN base ELSE op(f[t \ {Max(t)}], s[Max(t)])]

Folded(base, s) == (CHOOSE f : Solves(base, f, s, DOMAIN s))[DOMAIN s]

-----------------------------------------------------------------------------

\* A nonempty set of naturals has a least element.
THEOREM LeastNatural ==
  ASSUME NEW T \in SUBSET Nat, T # {}
  PROVE  \E n \in T : \A m \in T : n <= m
<1> DEFINE Less == {nn \in Nat \X Nat : nn[1] < nn[2]}
<1>1. IsWellFoundedOn(Less, Nat)
  BY NatLessThanWellFounded, Zenon DEF OpToRel
<1> HIDE DEF Less
<1>2. PICK n \in T : \A m \in T : <<m, n>> \notin Less
  BY <1>1, WFMin
<1>3. ASSUME NEW m \in T
      PROVE  n <= m
  <2>1. m \in Nat /\ n \in Nat /\ <<m, n>> \notin Less
    BY <1>2
  <2>2. (m < n) => <<m, n>> \in Less
    BY <2>1, Zenon DEF Less
  <2> QED
    BY <2>1, <2>2
<1> QED
  BY <1>3

LEMMA MaxIs ==
  ASSUME NEW n \in Nat, NEW t \in SUBSET (1 .. n), t # {}
  PROVE  Max(t) \in t /\ \A x \in t : Max(t) >= x
<1> DEFINE T == {n - x : x \in t}
<1>1. T \in SUBSET Nat /\ T # {}
  <2>1. \A x \in t : n - x \in Nat
    OBVIOUS
  <2>2. PICK x \in t : TRUE
    OBVIOUS
  <2> QED
    BY <2>1, <2>2
<1>2. PICK m \in T : \A k \in T : m <= k
  BY <1>1, LeastNatural
<1>3. PICK x \in t : m = n - x
  BY <1>2
<1>4. \A y \in t : x >= y
  <2> SUFFICES ASSUME NEW y \in t
               PROVE  x >= y
    OBVIOUS
  <2>1. m <= n - y
    BY <1>2
  <2> QED
    BY <1>3, <2>1
<1> QED
  BY <1>3, <1>4 DEF Max

\* Of naturals with a last place, one is as large as any.
THEOREM SomeIsGreatest ==
  ASSUME NEW n \in Nat \ {0}, NEW w, \A i \in 1 .. n : w[i] \in Nat
  PROVE  \E v \in 1 .. n : \A u \in 1 .. n : w[v] >= w[u]
<1> DEFINE Greatest(k, v) == \A u \in 1 .. k : w[v] >= w[u]
           D == {k \in 1 .. n : ~\E v \in 1 .. k : Greatest(k, v)}
<1>1. SUFFICES ASSUME D # {}
               PROVE  FALSE
  <2>1. n \in 1 .. n
    OBVIOUS
  <2>2. n \notin D => \E v \in 1 .. n : Greatest(n, v)
    BY <2>1
  <2> QED
    BY <2>2
<1>2. D \in SUBSET Nat
  OBVIOUS
<1>3. PICK k \in D : \A m \in D : k <= m
  <2> HIDE DEF D
  <2> QED
    BY <1>1, <1>2, LeastNatural
<1>4. k \in 1 .. n /\ ~\E v \in 1 .. k : Greatest(k, v)
  OBVIOUS
<1>5. CASE k = 1
  <2>1. Greatest(1, 1)
    OBVIOUS
  <2> QED
    BY <1>4, <1>5, <2>1
<1>6. CASE k # 1
  <2>1. k - 1 \in 1 .. n /\ k - 1 \notin D
    <3>1. k - 1 \in 1 .. n /\ ~(k <= k - 1)
      BY <1>4, <1>6
    <3> HIDE DEF D
    <3> QED
      BY <1>3, <3>1
  <2>2. PICK v \in 1 .. k - 1 : Greatest(k - 1, v)
    BY <2>1
  <2>3. v \in 1 .. k /\ k \in 1 .. k /\ w[v] \in Nat /\ w[k] \in Nat
    BY <1>4, <2>1
  <2>4. \A u \in 1 .. k : u = k \/ u \in 1 .. k - 1
    BY <1>4
  <2>5. CASE w[v] >= w[k]
    <3>1. Greatest(k, v)
      BY <2>2, <2>4, <2>5
    <3> QED
      BY <1>4, <2>3, <3>1
  <2>6. CASE w[k] >= w[v]
    <3>1. Greatest(k, k)
      <4> SUFFICES ASSUME NEW u \in 1 .. k
                   PROVE  w[k] >= w[u]
        OBVIOUS
      <4>1. w[u] \in Nat
        BY <1>4
      <4> QED
        BY <2>2, <2>3, <2>4, <2>6, <4>1
    <3> QED
      BY <1>4, <2>3, <3>1
  <2> QED
    BY <2>3, <2>5, <2>6
<1> QED
  BY <1>5, <1>6

Minimal(t, T) == \A u \in T : u \subseteq t => u = t

\* Of a set of sets of positions that is not empty some set has no strict subset
\* in it.
LEMMA LeastSubset ==
  ASSUME NEW n \in Nat, NEW T \in SUBSET SUBSET (1 .. n), T # {}
  PROVE  \E t \in T : Minimal(t, T)
<1> DEFINE S == 1 .. n
<1>1. IsFiniteSet(S)
  BY FS_Interval
<1>2. IsWellFoundedOn(StrictSubsetOrdering(S), SUBSET S)
  BY <1>1, FS_StrictSubsetOrderingWellFounded, FS_FiniteSubsetsOfFinite
<1> HIDE DEF S
<1>3. T \subseteq SUBSET S
  BY DEF S
<1>4. PICK t \in T : \A u \in T : <<u, t>> \notin StrictSubsetOrdering(S)
  BY <1>2, <1>3, WFMin
<1> QED
  BY <1>3, <1>4 DEF StrictSubsetOrdering, Minimal

-----------------------------------------------------------------------------
(* The recursive function is the only one that solves its equation.          *)

LEMMA StartIs ==
  ASSUME NEW base, NEW h, NEW q, NEW R, Solves(base, h, q, R)
  PROVE  h[{}] = base
BY DEF Solves

LEMMA StepIs ==
  ASSUME NEW base, NEW h, NEW q, NEW R, Solves(base, h, q, R), NEW t \in SUBSET R, t # {}
  PROVE  h[t] = op(h[t \ {Max(t)}], q[Max(t)])
<1> DEFINE rhs == [v \in SUBSET R |->
                      IF v = {} THEN base ELSE op(h[v \ {Max(v)}], q[Max(v)])]
<1>1. h = rhs
  BY DEF Solves
<1>2. rhs[t] = op(h[t \ {Max(t)}], q[Max(t)])
  OBVIOUS
<1>3. h[t] = rhs[t]
  BY <1>1, Zenon
<1> HIDE DEF rhs
<1> QED
  BY <1>2, <1>3

SameOn(S, s, u) == \A i \in S : s[i] = u[i]

Positions(V) == \E n \in Nat : V \subseteq 1 .. n

\* ff solves the equation for the positions U of ss, and gg for the positions V
\* of uu, which go on.
Longer(base, ff, ss, U, gg, uu, V) ==
    /\ Positions(V) /\ U \in SUBSET V
    /\ SameOn(U, ss, uu)
    /\ Solves(base, ff, ss, U)
    /\ Solves(base, gg, uu, V)

LEMMA SolutionsAgree ==
  ASSUME NEW base, NEW ff, NEW ss, NEW U, NEW gg, NEW uu, NEW V,
         Longer(base, ff, ss, U, gg, uu, V), NEW w \in SUBSET U
  PROVE  ff[w] = gg[w]
<1> USE DEF Longer
<1>0. PICK n \in Nat : V \in SUBSET (1 .. n)
  BY DEF Positions
<1> DEFINE D == {t \in SUBSET U : ff[t] # gg[t]}
<1>1. SUFFICES ASSUME D # {}
               PROVE  FALSE
  OBVIOUS
<1>2. PICK t \in D : Minimal(t, D)
  <2>1. D \in SUBSET SUBSET (1 .. n)
    BY <1>0
  <2> HIDE DEF D
  <2> QED
    BY <1>1, <2>1, LeastSubset
<1>3. t \in SUBSET U /\ t \in SUBSET V /\ ff[t] # gg[t]
  OBVIOUS
<1>4. t # {}
  BY <1>3, StartIs
<1>5. Max(t) \in t
  BY <1>0, <1>3, <1>4, MaxIs
<1>6. ff[t \ {Max(t)}] = gg[t \ {Max(t)}]
  BY <1>2, <1>3, <1>5 DEF Minimal
<1>7. ss[Max(t)] = uu[Max(t)]
  BY <1>3, <1>5 DEF SameOn
<1> HIDE DEF D
<1>8. ff[t] = op(ff[t \ {Max(t)}], ss[Max(t)])
  <2>1. \A v \in SUBSET U : v # {} => ff[v] = op(ff[v \ {Max(v)}], ss[Max(v)])
    BY StepIs
  <2> QED
    BY <1>3, <1>4, <2>1
<1>9. gg[t] = op(gg[t \ {Max(t)}], uu[Max(t)])
  <2>1. \A v \in SUBSET V : v # {} => gg[v] = op(gg[v \ {Max(v)}], uu[Max(v)])
    BY StepIs
  <2> QED
    BY <1>3, <1>4, <2>1
<1> QED
  BY <1>3, <1>6, <1>7, <1>8, <1>9

LEMMA SolutionExists ==
  ASSUME NEW base, NEW n \in Nat, NEW s
  PROVE  \E f : Solves(base, f, s, 1 .. n)
<1> DEFINE N == 1 .. n
           D == {t \in SUBSET N : ~\E f : Solves(base, f, s, t)}
           G(v) == CHOOSE f : Solves(base, f, s, v)
           Below(v) == v \ {Max(v)}
<1>1. SUFFICES ASSUME D # {}
               PROVE  FALSE
  OBVIOUS
<1>2. PICK t \in D : Minimal(t, D)
  <2>1. D \in SUBSET SUBSET (1 .. n)
    OBVIOUS
  <2> HIDE DEF D
  <2> QED
    BY <1>1, <2>1, LeastSubset
<1>3. t \in SUBSET N /\ ~\E f : Solves(base, f, s, t)
  OBVIOUS
<1>4. ASSUME NEW v \in SUBSET t, v # t
      PROVE  Solves(base, G(v), s, v)
  <2>1. v \notin D
    BY <1>2, <1>4 DEF Minimal
  <2> QED
    BY <1>3, <2>1
<1>5. ASSUME NEW v \in SUBSET t, v # {}
      PROVE  Max(v) \in v /\ Below(v) \in SUBSET t /\ Below(v) # t
  BY <1>3, <1>5, MaxIs
<1> HIDE DEF D, G
<1> DEFINE h == [v \in SUBSET t |->
                    IF v = {} THEN base ELSE op(G(Below(v))[Below(v)], s[Max(v)])]
<1>6. ASSUME NEW v \in SUBSET t, v # t
      PROVE  h[v] = G(v)[v]
  <2>1. CASE v = {}
    BY <1>4, <1>6, <2>1, StartIs
  <2>2. CASE v # {}
    <3>1. G(v)[v] = op(G(v)[Below(v)], s[Max(v)])
      BY <1>4, <1>6, <2>2, StepIs
    <3>5. h[v] = op(G(Below(v))[Below(v)], s[Max(v)])
      BY <2>2
    <3>2. Solves(base, G(v), s, v) /\ Solves(base, G(Below(v)), s, Below(v))
      BY <1>4, <1>5, <1>6, <2>2
    <3>3. Below(v) \in SUBSET v /\ Positions(v) /\ SameOn(Below(v), s, s)
      BY <1>3 DEF SameOn, Positions
    <3> HIDE DEF Below
    <3>4. G(Below(v))[Below(v)] = G(v)[Below(v)]
      <4>1. Longer(base, G(Below(v)), s, Below(v), G(v), s, v)
        BY <3>2, <3>3 DEF Longer
      <4>2. Below(v) \in SUBSET Below(v)
        OBVIOUS
      <4> QED
        BY <4>1, <4>2, SolutionsAgree
    <3> HIDE DEF h
    <3> QED
      BY <3>1, <3>4, <3>5
  <2> QED
    BY <2>1, <2>2
<1>7. Solves(base, h, s, t)
  <2>1. ASSUME NEW v \in SUBSET t, v # {}
        PROVE  h[v] = op(h[Below(v)], s[Max(v)])
    <3>1. h[Below(v)] = G(Below(v))[Below(v)]
      BY <1>5, <1>6, <2>1
    <3>2. h[v] = op(G(Below(v))[Below(v)], s[Max(v)])
      BY <2>1
    <3> HIDE DEF h, Below
    <3> QED
      BY <3>1, <3>2
  <2>2. h[{}] = base
    OBVIOUS
  <2>3. h = [v \in SUBSET t |-> h[v]]
    OBVIOUS
  <2> HIDE DEF h
  <2>4. \A v \in SUBSET t : h[v] = IF v = {} THEN base ELSE op(h[v \ {Max(v)}], s[Max(v)])
    BY <2>1, <2>2
  <2>5. [v \in SUBSET t |-> h[v]] =
        [v \in SUBSET t |-> IF v = {} THEN base ELSE op(h[v \ {Max(v)}], s[Max(v)])]
    BY <2>4, Zenon
  <2> QED
    BY <2>3, <2>5 DEF Solves
<1> QED
  BY <1>3, <1>7

-----------------------------------------------------------------------------
(* What a fold is, from left to right.                                       *)

THEOREM FoldedIs ==
  ASSUME NEW base, NEW s
  PROVE  FoldLeft(op, base, s) = Folded(base, s)
BY DEF FoldLeft, MapThenFoldSet, Folded, Solves

THEOREM FoldedEmpty ==
  ASSUME NEW base, NEW s, DOMAIN s = {}
  PROVE  Folded(base, s) = base
<1>1. 1 .. 0 = {}
  OBVIOUS
<1>2. \E f : Solves(base, f, s, {})
  BY <1>1, SolutionExists
<1>3. Solves(base, CHOOSE f : Solves(base, f, s, {}), s, {})
  BY <1>2
<1> QED
  BY <1>3, StartIs DEF Folded

\* A sequence longer by one.
LEMMA WholeIs ==
  ASSUME NEW base, NEW h, NEW q, NEW R, Solves(base, h, q, R), R # {}
  PROVE  h[R] = op(h[R \ {Max(R)}], q[Max(R)])
<1>1. \A t \in SUBSET R : t # {} => h[t] = op(h[t \ {Max(t)}], q[Max(t)])
  BY StepIs
<1>2. R \in SUBSET R
  OBVIOUS
<1> QED
  BY <1>1, <1>2

LEMMA FoldedSolves ==
  ASSUME NEW base, NEW n \in Nat, NEW q, DOMAIN q = 1 .. n
  PROVE  \E h : Solves(base, h, q, 1 .. n) /\ Folded(base, q) = h[1 .. n]
<1>1. Solves(base, CHOOSE h : Solves(base, h, q, 1 .. n), q, 1 .. n)
  BY SolutionExists
<1> QED
  BY <1>1 DEF Folded

\* A sequence longer by one.
THEOREM FoldedAppend ==
  ASSUME NEW base, NEW n \in Nat, NEW s, DOMAIN s = 1 .. n, NEW u, DOMAIN u = 1 .. n + 1,
         \A i \in 1 .. n : s[i] = u[i]
  PROVE  Folded(base, u) = op(Folded(base, s), u[n + 1])
<1>1. PICK m \in Nat : m = n + 1
  OBVIOUS
<1>2. PICK M \in SUBSET (1 .. m) : M = 1 .. m
  OBVIOUS
<1>3. PICK N \in SUBSET M : N = 1 .. n
  BY <1>1, <1>2
<1>4. PICK f : Solves(base, f, s, N) /\ Folded(base, s) = f[N]
  BY <1>3, FoldedSolves
<1>5. PICK g : Solves(base, g, u, M) /\ Folded(base, u) = g[M]
  BY <1>1, <1>2, FoldedSolves
<1>6. f[N] = g[N]
  <2>1. SameOn(N, s, u) /\ Positions(M)
    BY <1>3 DEF SameOn, Positions
  <2>2. Longer(base, f, s, N, g, u, M)
    BY <1>4, <1>5, <2>1 DEF Longer
  <2>3. N \in SUBSET N
    OBVIOUS
  <2> QED
    BY <2>2, <2>3, SolutionsAgree
<1>7. Max(M) = m
  <2>1. m \in M /\ M # {}
    BY <1>1, <1>2
  <2>2. Max(M) \in M /\ Max(M) >= m
    BY <2>1, MaxIs
  <2> QED
    BY <1>2, <2>2
<1>8. M \ {m} = N
  BY <1>1, <1>2, <1>3
<1>9. g[M] = op(g[M \ {Max(M)}], u[Max(M)])
  <2>1. M # {}
    BY <1>1, <1>2
  <2> QED
    BY <1>5, <2>1, WholeIs
<1> QED
  BY <1>1, <1>4, <1>5, <1>6, <1>7, <1>8, <1>9

\* What every step keeps holds of the whole.
THEOREM FoldedIn ==
  ASSUME NEW D, NEW base \in D,
         NEW E, \A x \in D, e \in E : op(x, e) \in D,
         NEW n \in Nat, NEW s, DOMAIN s = 1 .. n, \A i \in 1 .. n : s[i] \in E
  PROVE  Folded(base, s) \in D
<1> DEFINE Upto(k) == [i \in 1 .. k |-> s[i]]
           Bad == {k \in 0 .. n : Folded(base, Upto(k)) \notin D}
<1>1. SUFFICES Bad = {}
  <2>1. CASE n = 0
    <3>1. DOMAIN s = {}
      BY <2>1
    <3> QED
      BY <3>1, FoldedEmpty
  <2>2. CASE n # 0
    <3>1. PICK m \in Nat : m + 1 = n
      BY <2>2
    <3>2. m \in 0 .. n
      BY <3>1
    <3>3. Folded(base, Upto(m)) \in D /\ DOMAIN Upto(m) = 1 .. m
      BY <1>1, <3>2
    <3>4. \A i \in 1 .. m : Upto(m)[i] = s[i]
      OBVIOUS
    <3> HIDE DEF Upto
    <3>5. Folded(base, s) = op(Folded(base, Upto(m)), s[m + 1])
      BY <3>1, <3>3, <3>4, FoldedAppend
    <3>6. s[m + 1] \in E
      BY <3>1
    <3> QED
      BY <3>3, <3>5, <3>6
  <2> QED
    BY <2>1, <2>2
<1>2. SUFFICES ASSUME Bad # {}
               PROVE  FALSE
  OBVIOUS
<1>3. Bad \in SUBSET Nat
  OBVIOUS
<1>4. PICK k \in Bad : \A m \in Bad : k <= m
  <2> HIDE DEF Bad
  <2> QED
    BY <1>2, <1>3, LeastNatural
<1>5. k \in 0 .. n /\ Folded(base, Upto(k)) \notin D
  OBVIOUS
<1>6. CASE k = 0
  <2>1. DOMAIN Upto(k) = {}
    BY <1>6
  <2> HIDE DEF Upto
  <2> QED
    BY <1>5, <2>1, FoldedEmpty
<1>7. CASE k # 0
  <2>1. PICK m \in Nat : m + 1 = k
    BY <1>5, <1>7
  <2>2. m \in 0 .. n /\ ~(k <= m)
    BY <1>5, <2>1
  <2>3. Folded(base, Upto(m)) \in D
    <3>1. m \notin Bad
      <4> HIDE DEF Bad
      <4> QED
        BY <1>4, <2>2
    <3> QED
      BY <2>2, <3>1
  <2>4. /\ DOMAIN Upto(m) = 1 .. m /\ DOMAIN Upto(k) = 1 .. m + 1
        /\ \A i \in 1 .. m : Upto(m)[i] = Upto(k)[i]
    BY <2>1
  <2>5. Upto(k)[m + 1] \in E
    BY <1>5, <2>1
  <2> HIDE DEF Upto
  <2>6. Folded(base, Upto(k)) = op(Folded(base, Upto(m)), Upto(k)[m + 1])
    BY <2>4, FoldedAppend
  <2> QED
    BY <1>5, <2>3, <2>5, <2>6
<1> QED
  BY <1>6, <1>7
=============================================================================
