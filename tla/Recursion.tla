----------------------------- MODULE Recursion -----------------------------
(***************************************************************************)
(* Facts about recursive definitions, for the proofs about what they       *)
(* compute.  What would be an operator is a function or a set here: the    *)
(* provers find instances of those.                                        *)
(***************************************************************************)
EXTENDS Integers, WellFoundedInduction, TLAPS

\* A set of numbers that has every number whose predecessors it has, has all.
THEOREM StrongInduction ==
    ASSUME NEW S,
           \A n \in Nat : (\A k \in 0 .. n - 1 : k \in S) => n \in S
    PROVE  Nat \subseteq S
  <1> DEFINE T == Nat \ S
  <1> SUFFICES ASSUME T # {} PROVE FALSE
    OBVIOUS
  <1>1. T \subseteq Nat
    OBVIOUS
  <1>2. PICK n \in T : \A k \in T : ~(<<k, n>> \in OpToRel(<, Nat))
    <2> HIDE DEF T
    <2> QED BY <1>1, NatLessThanWellFounded, WFMin
  <1>3. \A k \in T : ~(k < n)
    <2> HIDE DEF T
    <2> QED BY <1>1, <1>2 DEF OpToRel
  <1>4. \A k \in 0 .. n - 1 : k \in S
    BY <1>3
  <1> QED BY <1>4

\* A set of numbers that has 0 and the successor of every number it has.
THEOREM SimpleInduction ==
    ASSUME NEW S, 0 \in S, \A n \in Nat : n \in S => n + 1 \in S
    PROVE  Nat \subseteq S
  <1>1. ASSUME NEW n \in Nat, \A k \in 0 .. n - 1 : k \in S
        PROVE  n \in S
    <2>1. CASE n = 0
      BY <2>1
    <2>2. CASE n # 0
      <3>1. n - 1 \in Nat /\ n - 1 \in 0 .. n - 1 /\ (n - 1) + 1 = n
        BY <2>2
      <3>2. n - 1 \in S
        BY <1>1, <3>1
      <3> QED BY <3>1, <3>2
    <2> QED BY <2>1, <2>2
  <1> QED BY <1>1, StrongInduction

-----------------------------------------------------------------------------
\* From d in D a recursion calls itself at next[d], until the measure m, at most
\* M, is 0; every call lowers the measure.
Descends(D, M, m, next) ==
    /\ M \in Nat /\ m \in [D -> 0 .. M] /\ next \in [D -> D]
    /\ \A d \in D : m[d] # 0 => m[next[d]] < m[d]

\* A function on D, with values in A, that is base where the recursion ends.
HasSolution(D, A, m, next, base, g) ==
    \E f \in [D -> A] :
       f = [d \in D |-> IF m[d] = 0 THEN base ELSE g[d][f[next[d]]]]

\* f and h satisfy the same recursion.
Alike(D, m, next, f, h) ==
    /\ f = [d \in D |-> f[d]] /\ h = [d \in D |-> h[d]]
    /\ \A d \in D : m[d] = 0 \/ f[next[d]] = h[next[d]] => f[d] = h[d]

\* A recursion that descends is a function: every definition in this project is
\* of this kind, so that what it says holds of it.
THEOREM RecursionExists ==
    ASSUME NEW D, NEW A, NEW M, NEW m, NEW next, NEW base \in A,
           NEW g \in [D -> [A -> A]], Descends(D, M, m, next)
    PROVE  HasSolution(D, A, m, next, base, g)
  <1> DEFINE Low(b) == {d \in D : m[d] <= b}
             Solves(f, b) == \A d \in Low(b) :
                                f[d] = IF m[d] = 0 THEN base ELSE g[d][f[next[d]]]
             S == {b \in Nat : \E f \in [Low(b) -> A] : Solves(f, b)}
  <1> M \in Nat /\ m \in [D -> 0 .. M] /\ next \in [D -> D]
    BY DEF Descends
  <1> \A d \in D : m[d] # 0 => m[next[d]] < m[d]
    BY DEF Descends
  <1>1. \A d \in D : m[d] \in 0 .. M
    OBVIOUS
  <1>2. 0 \in S
    <2>1. \A d \in Low(0) : m[d] = 0
      BY <1>1
    <2> DEFINE f == [d \in Low(0) |-> base]
    <2>2. f \in [Low(0) -> A] /\ Solves(f, 0)
      BY <2>1
    <2> QED BY <2>2
  <1>3. ASSUME NEW b \in Nat, b \in S
        PROVE  b + 1 \in S
    <2>1. PICK f \in [Low(b) -> A] : Solves(f, b)
      BY <1>3
    <2> DEFINE h == [d \in Low(b + 1) |-> IF m[d] = 0 THEN base ELSE g[d][f[next[d]]]]
    <2>2. \A d \in Low(b + 1) : d \in D /\ (m[d] # 0 => next[d] \in Low(b))
      BY <1>1
    <2>3. \A d \in Low(b) : d \in Low(b + 1) /\ h[d] = f[d]
      BY <1>1, <2>1
    <2>4. h \in [Low(b + 1) -> A]
      <3> SUFFICES ASSUME NEW d \in Low(b + 1), m[d] # 0
                   PROVE  g[d][f[next[d]]] \in A
        OBVIOUS
      <3>1. f[next[d]] \in A /\ d \in D
        BY <2>2
      <3> QED BY <3>1
    <2>5. Solves(h, b + 1)
      BY <2>2, <2>3
    <2> HIDE DEF h, Low, Solves
    <2>6. b + 1 \in Nat
      OBVIOUS
    <2> QED BY <2>4, <2>5, <2>6
  <1>4. M \in S
    <2> HIDE DEF S
    <2> QED BY <1>2, <1>3, SimpleInduction
  <1>5. Low(M) = D
    BY <1>1
  <1>6. PICK f \in [Low(M) -> A] : Solves(f, M)
    BY <1>4
  <1> QED BY <1>5, <1>6 DEF HasSolution

\* Two functions that satisfy the same recursion are the same.
THEOREM SolutionUnique ==
    ASSUME NEW D, NEW M, NEW m, NEW next, NEW f, NEW h,
           Descends(D, M, m, next), Alike(D, m, next, f, h)
    PROVE  f = h
  <1> M \in Nat /\ m \in [D -> 0 .. M] /\ next \in [D -> D]
    BY DEF Descends
  <1> \A d \in D : m[d] # 0 => m[next[d]] < m[d]
    BY DEF Descends
  <1>0. \A d \in D : m[d] = 0 \/ f[next[d]] = h[next[d]] => f[d] = h[d]
    BY DEF Alike
  <1> DEFINE S == {n \in Nat : \A d \in D : m[d] = n => f[d] = h[d]}
  <1>1. ASSUME NEW n \in Nat, \A k \in 0 .. n - 1 : k \in S
        PROVE  n \in S
    <2> SUFFICES ASSUME NEW d \in D, m[d] = n PROVE f[d] = h[d]
      OBVIOUS
    <2>1. CASE m[d] = 0
      BY <1>0, <2>1
    <2>2. CASE m[d] # 0
      <3>1. next[d] \in D /\ m[next[d]] \in 0 .. n - 1
        BY <2>2
      <3>2. f[next[d]] = h[next[d]]
        BY <1>1, <3>1
      <3> QED BY <1>0, <3>2
    <2> QED BY <2>1, <2>2
  <1>2. Nat \subseteq S
    <2> HIDE DEF S
    <2> QED BY <1>1, StrongInduction
  <1>3. \A d \in D : f[d] = h[d]
    BY <1>2
  <1> QED BY <1>3, Zenon DEF Alike

-----------------------------------------------------------------------------
\* A step for each number up to N, from base on, with values in A.
HasIteration(N, A, base, g) ==
    \E f \in [0 .. N -> A] :
       f = [n \in 0 .. N |-> IF n = 0 THEN base ELSE g[n][f[n - 1]]]

THEOREM IterationExists ==
    ASSUME NEW N \in Nat, NEW A, NEW base \in A, NEW g \in [1 .. N -> [A -> A]]
    PROVE  HasIteration(N, A, base, g)
  <1> DEFINE D == 0 .. N
             m == [n \in D |-> n]
             next == [n \in D |-> IF n = 0 THEN 0 ELSE n - 1]
             h == [n \in D |-> IF n = 0 THEN [x \in A |-> base] ELSE g[n]]
  <1>1. Descends(D, N, m, next)
    BY DEF Descends
  <1>2. h \in [D -> [A -> A]]
    OBVIOUS
  <1>3. HasSolution(D, A, m, next, base, h)
    <2> HIDE DEF D, m, next, h
    <2> QED BY <1>1, <1>2, RecursionExists
  <1>4. PICK f \in [D -> A] : f = [n \in D |-> IF m[n] = 0 THEN base ELSE h[n][f[next[n]]]]
    BY <1>3 DEF HasSolution
  <1>5. ASSUME NEW n \in D
        PROVE  f[n] = IF n = 0 THEN base ELSE g[n][f[n - 1]]
    <2>1. f[n] = IF m[n] = 0 THEN base ELSE h[n][f[next[n]]]
      <3> HIDE DEF D, m, next, h
      <3> QED BY <1>4
    <2>2. CASE n = 0
      BY <2>1, <2>2
    <2>3. CASE n # 0
      BY <2>1, <2>3
    <2> QED BY <2>2, <2>3
  <1>6. f = [n \in D |-> f[n]]
    BY <1>4
  <1>7. f = [n \in D |-> IF n = 0 THEN base ELSE g[n][f[n - 1]]]
    BY <1>5, <1>6
  <1> QED BY <1>7 DEF HasIteration

\* S has 0 and every number up to N whose predecessor it has.
Climbs(N, S) == 0 \in S /\ \A n \in 1 .. N : n - 1 \in S => n \in S

\* Such a set has all the numbers up to N.
THEOREM UpTo ==
    ASSUME NEW N \in Nat, NEW S, Climbs(N, S)
    PROVE  0 .. N \subseteq S
  <1> 0 \in S /\ \A n \in 1 .. N : n - 1 \in S => n \in S
    BY DEF Climbs
  <1> DEFINE T == {n \in Nat : n <= N => n \in S}
  <1>1. 0 \in T
    OBVIOUS
  <1>2. ASSUME NEW n \in Nat, n \in T PROVE n + 1 \in T
    <2> SUFFICES ASSUME n + 1 <= N PROVE n + 1 \in S
      OBVIOUS
    <2>1. n + 1 \in 1 .. N /\ (n + 1) - 1 = n /\ n <= N
      OBVIOUS
    <2>2. n \in S
      BY <1>2, <2>1
    <2> QED BY <2>1, <2>2
  <1>3. Nat \subseteq T
    <2> HIDE DEF T
    <2> QED BY <1>1, <1>2, SimpleInduction
  <1> QED BY <1>3

=============================================================================
