--------------------------- MODULE ResolverProofs ---------------------------
(***************************************************************************)
(* Theorems of Resolver: the types, the order of the board and its sums,   *)
(* that reveals keep ties in order and announced places where they are,    *)
(* what is shown in the end, that the page goes on answering, and that it  *)
(* comes to show the resolver's board.                                     *)
(*                                                                         *)
(* The sums of points are folds over finite sets.  Their equations come    *)
(* first, by the least number for which they would fail.                   *)
(***************************************************************************)
EXTENDS Resolver, FiniteSetTheorems, SequenceTheorems,
        NaturalsInduction, WellFoundedInduction, TLAPS

-----------------------------------------------------------------------------
(* Least numbers.                                                          *)

LEMMA LeastNumber ==
    ASSUME NEW T \in SUBSET Nat, T # {}
    PROVE  \E n \in T : \A m \in T : n <= m
<1>1. \E n \in T : \A m \in T : ~ (<<m, n>> \in OpToRel(<, Nat))
    BY NatLessThanWellFounded, WFMin
<1>2. PICK n \in T : \A m \in T : ~ (<<m, n>> \in OpToRel(<, Nat))
    BY <1>1
<1>3. \A m \in T : ~ (m < n)
    <2> SUFFICES ASSUME NEW m \in T, m < n
                 PROVE  FALSE
        OBVIOUS
    <2>1. <<m, n>> \in Nat \X Nat /\ <<m, n>>[1] = m /\ <<m, n>>[2] = n
        OBVIOUS
    <2>2. <<m, n>> \in OpToRel(<, Nat)
        BY <2>1, Zenon DEF OpToRel
    <2> QED  BY <1>2, <2>2
<1>4. \A m \in T : n <= m
    BY <1>3
<1> QED  BY <1>4

LEMMA MinIsLeast ==
    ASSUME NEW T \in SUBSET Nat, T # {}
    PROVE  Min(T) \in T /\ \A m \in T : Min(T) <= m
BY LeastNumber DEF Min

LEMMA MaxIsGreatest ==
    ASSUME NEW b \in Nat, NEW T \in SUBSET (0 .. b), T # {}
    PROVE  Max(T) \in T /\ \A m \in T : m <= Max(T)
<1> DEFINE D == {b - m : m \in T}
<1>1. D \in SUBSET Nat /\ D # {}
    <2>1. \A m \in T : b - m \in Nat
        OBVIOUS
    <2> QED  BY <2>1
<1>2. PICK d \in D : \A e \in D : d <= e
    BY <1>1, LeastNumber
<1>3. PICK n \in T : d = b - n
    BY <1>2
<1>4. \A m \in T : n >= m
    <2> TAKE m \in T
    <2>1. b - m \in D
        OBVIOUS
    <2>2. m \in Int /\ n \in Int
        OBVIOUS
    <2>3. b - n <= b - m
        BY <1>2, <1>3, <2>1
    <2> QED  BY <2>2, <2>3
<1> QED  BY <1>4 DEF Max

-----------------------------------------------------------------------------
(* Sums.                                                                   *)

Some(S) == CHOOSE x \in S : TRUE
IsSum(g, f, S) ==
    g = [s \in SUBSET S |-> IF s = {} THEN 0 ELSE f[Some(s)] + g[s \ {Some(s)}]]
SumOf(f, S) == CHOOSE g : IsSum(g, f, S)

LEMMA TotalIsSum ==
    ASSUME NEW f
    PROVE  Total(f) = SumOf(f, DOMAIN f)[DOMAIN f]
BY DEF Total, SumFunction, SumFunctionOnSet, FoldFunctionOnSet, MapThenFoldSet, SumOf, IsSum, Some

LEMMA SumExists ==
    ASSUME NEW S, IsFiniteSet(S), NEW f
    PROVE  IsSum(SumOf(f, S), f, S)
<1> DEFINE Upto(n) == {s \in SUBSET S : Cardinality(s) <= n}
           Good(g, n) == g = [s \in Upto(n) |->
                                 IF s = {} THEN 0 ELSE f[Some(s)] + g[s \ {Some(s)}]]
           Bad == {n \in Nat : ~ \E g : Good(g, n)}
<1>1. \A s \in SUBSET S : IsFiniteSet(s) /\ Cardinality(s) \in Nat
    BY FS_Subset, FS_CardinalityType
<1>2. \A s \in SUBSET S : s # {} =>
          /\ Some(s) \in s
          /\ s \ {Some(s)} \in SUBSET S
          /\ Cardinality(s \ {Some(s)}) = Cardinality(s) - 1
          /\ Cardinality(s) # 0
    <2> SUFFICES ASSUME NEW s \in SUBSET S, s # {}
                 PROVE  /\ Some(s) \in s
                        /\ s \ {Some(s)} \in SUBSET S
                        /\ Cardinality(s \ {Some(s)}) = Cardinality(s) - 1
                        /\ Cardinality(s) # 0
        OBVIOUS
    <2>1. Some(s) \in s
        BY DEF Some
    <2>2. IsFiniteSet(s)
        BY <1>1
    <2>3. Cardinality(s \ {Some(s)}) = Cardinality(s) - 1
        BY <2>1, <2>2, FS_RemoveElement
    <2>4. Cardinality(s) # 0
        BY <2>2, FS_EmptySet
    <2> QED  BY <2>1, <2>3, <2>4
<1>3. Bad = {}
    <2> SUFFICES ASSUME Bad # {}
                 PROVE  FALSE
        OBVIOUS
    <2>1. PICK n \in Bad : \A m \in Bad : n <= m
        <3>1. Bad \in SUBSET Nat
            OBVIOUS
        <3> HIDE DEF Bad
        <3> QED  BY <3>1, LeastNumber
    <2>2. n \in Nat /\ ~ \E g : Good(g, n)
        BY <2>1
    <2>3. CASE n = 0
        <3> DEFINE g == [s \in Upto(n) |-> 0]
        <3>1. \A s \in Upto(n) : s = {}
            <4> SUFFICES ASSUME NEW s \in SUBSET S, Cardinality(s) <= n
                         PROVE  s = {}
                OBVIOUS
            <4>1. Cardinality(s) = 0 /\ IsFiniteSet(s)
                BY <1>1, <2>3
            <4> QED  BY <4>1, FS_EmptySet
        <3>2. Good(g, n)
            BY <3>1
        <3> QED  BY <2>2, <3>2
    <2>4. CASE n # 0
        <3>1. n - 1 \in Nat /\ n - 1 \notin Bad
            <4>1. n - 1 \in Nat /\ ~ (n <= n - 1)
                BY <2>2, <2>4
            <4> HIDE DEF Bad
            <4> QED  BY <2>1, <4>1
        <3>2. PICK h : Good(h, n - 1)
            BY <3>1
        <3> DEFINE g == [s \in Upto(n) |->
                            IF s = {} THEN 0 ELSE f[Some(s)] + h[s \ {Some(s)}]]
        <3>3. \A s \in Upto(n - 1) : s \in Upto(n) /\ g[s] = h[s]
            <4> SUFFICES ASSUME NEW s \in Upto(n - 1)
                         PROVE  s \in Upto(n) /\ g[s] = h[s]
                OBVIOUS
            <4>1. s \in Upto(n)
                BY <1>1, <2>2
            <4>2. h[s] = IF s = {} THEN 0 ELSE f[Some(s)] + h[s \ {Some(s)}]
                BY <3>2
            <4> QED  BY <4>1, <4>2
        <3>4. \A s \in Upto(n) : s # {} => s \ {Some(s)} \in Upto(n - 1)
            BY <1>1, <1>2, <2>2
        <3>5. \A s \in Upto(n) :
                  g[s] = IF s = {} THEN 0 ELSE f[Some(s)] + g[s \ {Some(s)}]
            BY <3>3, <3>4
        <3>6. Good(g, n)
            <4> HIDE DEF Upto
            <4>1. g = [s \in Upto(n) |-> g[s]]
                OBVIOUS
            <4> HIDE DEF g
            <4> QED  BY <3>5, <4>1
        <3> QED  BY <2>2, <3>6
    <2> QED  BY <2>3, <2>4
<1>4. Cardinality(S) \in Nat /\ Cardinality(S) \notin Bad
    BY <1>1, <1>3
<1>5. PICK g : Good(g, Cardinality(S))
    BY <1>4
<1>6. Upto(Cardinality(S)) = SUBSET S
    BY <1>1, FS_Subset
<1>7. IsSum(g, f, S)
    BY <1>5, <1>6 DEF IsSum
<1> QED  BY <1>7 DEF SumOf

LEMMA SumEquations ==
    ASSUME NEW S, IsFiniteSet(S), NEW f
    PROVE  /\ SumOf(f, S)[{}] = 0
           /\ \A s \in SUBSET S : s # {} =>
                  /\ Some(s) \in s
                  /\ SumOf(f, S)[s] = f[Some(s)] + SumOf(f, S)[s \ {Some(s)}]
<1> DEFINE g == SumOf(f, S)
<1>1. g = [s \in SUBSET S |-> IF s = {} THEN 0 ELSE f[Some(s)] + g[s \ {Some(s)}]]
    BY SumExists DEF IsSum
<1> HIDE DEF g
<1>2. \A s \in SUBSET S : s # {} => Some(s) \in s
    BY DEF Some
<1>3. g[{}] = 0 /\ \A s \in SUBSET S : s # {} => g[s] = f[Some(s)] + g[s \ {Some(s)}]
    BY <1>1
<1> QED  BY <1>2, <1>3 DEF g

\* What holds of no points and survives one more element holds of the whole set.
LEMMA OneByOne ==
    ASSUME NEW S, IsFiniteSet(S), NEW C, {} \in C,
           \A s \in SUBSET S : s # {} /\ s \ {Some(s)} \in C => s \in C
    PROVE  S \in C
<1> DEFINE Left == {s \in SUBSET S : s \notin C}
           Sizes == {Cardinality(s) : s \in Left}
<1> SUFFICES ASSUME S \notin C
             PROVE  FALSE
    OBVIOUS
<1>1. \A s \in SUBSET S : IsFiniteSet(s) /\ Cardinality(s) \in Nat
    BY FS_Subset, FS_CardinalityType
<1>2. Sizes \in SUBSET Nat /\ Sizes # {}
    <2>1. S \in Left
        OBVIOUS
    <2>2. Cardinality(S) \in Sizes
        BY <2>1
    <2> QED  BY <1>1, <2>2
<1>3. PICK n \in Sizes : \A m \in Sizes : n <= m
    BY <1>2, LeastNumber
<1>4. PICK s \in Left : n = Cardinality(s)
    BY <1>3
<1> DEFINE t == s \ {Some(s)}
<1>5. s \in SUBSET S /\ s \notin C /\ s # {}
    BY <1>4
<1>6. Some(s) \in s
    BY <1>5 DEF Some
<1>7. Cardinality(t) = n - 1 /\ n \in Nat
    BY <1>1, <1>4, <1>5, <1>6, FS_RemoveElement
<1>8. t \in Left
    BY <1>5
<1>9. Cardinality(t) \in Sizes
    BY <1>8
<1> HIDE DEF Sizes, Left, t
<1> QED  BY <1>3, <1>7, <1>9

LEMMA TotalNat ==
    ASSUME NEW S, IsFiniteSet(S), NEW f \in [S -> Nat]
    PROVE  Total(f) \in Nat
<1> DEFINE C == {s \in SUBSET S : SumOf(f, S)[s] \in Nat}
<1>1. {} \in C
    BY SumEquations
<1>2. \A s \in SUBSET S : s # {} /\ s \ {Some(s)} \in C => s \in C
    <2> SUFFICES ASSUME NEW s \in SUBSET S, s # {}, s \ {Some(s)} \in C
                 PROVE  SumOf(f, S)[s] \in Nat
        OBVIOUS
    <2>1. Some(s) \in S /\ SumOf(f, S)[s] = f[Some(s)] + SumOf(f, S)[s \ {Some(s)}]
        BY SumEquations
    <2>2. f[Some(s)] \in Nat /\ SumOf(f, S)[s \ {Some(s)}] \in Nat
        BY <2>1
    <2> QED  BY <2>1, <2>2
<1> HIDE DEF C
<1>3. S \in C
    BY <1>1, <1>2, OneByOne
<1>4. DOMAIN f = S
    OBVIOUS
<1> QED  BY <1>3, <1>4, TotalIsSum DEF C

LEMMA TotalGrows ==
    ASSUME NEW S, IsFiniteSet(S), NEW f \in [S -> Nat], NEW g \in [S -> Nat],
           \A x \in S : f[x] <= g[x]
    PROVE  /\ Total(f) <= Total(g)
           /\ Total(f) = Total(g) => f = g
<1> DEFINE F == SumOf(f, S)
           G == SumOf(g, S)
           C == {s \in SUBSET S : /\ F[s] \in Nat /\ G[s] \in Nat /\ F[s] <= G[s]
                                  /\ F[s] = G[s] => \A x \in s : f[x] = g[x]}
<1>1. {} \in C
    BY SumEquations
<1>2. \A s \in SUBSET S : s # {} /\ s \ {Some(s)} \in C => s \in C
    <2> SUFFICES ASSUME NEW s \in SUBSET S, s # {}, s \ {Some(s)} \in C
                 PROVE  s \in C
        OBVIOUS
    <2>1. /\ Some(s) \in s
          /\ F[s] = f[Some(s)] + F[s \ {Some(s)}]
          /\ G[s] = g[Some(s)] + G[s \ {Some(s)}]
        BY SumEquations
    <2> HIDE DEF F, G
    <2>2. /\ F[s \ {Some(s)}] \in Nat /\ G[s \ {Some(s)}] \in Nat
          /\ F[s \ {Some(s)}] <= G[s \ {Some(s)}]
          /\ F[s \ {Some(s)}] = G[s \ {Some(s)}] => \A x \in s \ {Some(s)} : f[x] = g[x]
        OBVIOUS
    <2>3. f[Some(s)] \in Nat /\ g[Some(s)] \in Nat /\ f[Some(s)] <= g[Some(s)]
        BY <2>1
    <2>4. F[s] \in Nat /\ G[s] \in Nat /\ F[s] <= G[s]
        BY <2>1, <2>2, <2>3
    <2>5. F[s] = G[s] => f[Some(s)] = g[Some(s)] /\ F[s \ {Some(s)}] = G[s \ {Some(s)}]
        BY <2>1, <2>2, <2>3
    <2>6. F[s] = G[s] => \A x \in s : f[x] = g[x]
        BY <2>2, <2>5
    <2> QED  BY <2>4, <2>6
<1> HIDE DEF C
<1>3. S \in C
    BY <1>1, <1>2, OneByOne
<1>4. Total(f) = F[S] /\ Total(g) = G[S]
    <2>1. DOMAIN f = S /\ DOMAIN g = S
        OBVIOUS
    <2> QED  BY <2>1, TotalIsSum
<1> HIDE DEF F, G
<1>5. Total(f) <= Total(g) /\ (Total(f) = Total(g) => \A x \in S : f[x] = g[x])
    BY <1>3, <1>4 DEF C
<1>6. (\A x \in S : f[x] = g[x]) => f = g
    OBVIOUS
<1> QED  BY <1>5, <1>6

LEMMA TotalChanges ==
    ASSUME NEW S, IsFiniteSet(S), NEW f \in [S -> Nat], NEW g \in [S -> Nat], NEW x \in S,
           \A y \in S : y # x => g[y] = f[y]
    PROVE  Total(g) = Total(f) + g[x] - f[x]
<1> DEFINE F == SumOf(f, S)
           G == SumOf(g, S)
           C == {s \in SUBSET S : /\ F[s] \in Nat /\ G[s] \in Nat
                                  /\ G[s] = IF x \in s THEN F[s] + g[x] - f[x] ELSE F[s]}
<1>1. {} \in C
    BY SumEquations
<1>2. \A s \in SUBSET S : s # {} /\ s \ {Some(s)} \in C => s \in C
    <2> SUFFICES ASSUME NEW s \in SUBSET S, s # {}, s \ {Some(s)} \in C
                 PROVE  s \in C
        OBVIOUS
    <2> DEFINE z == Some(s)
               t == s \ {z}
    <2>1. z \in s /\ F[s] = f[z] + F[t] /\ G[s] = g[z] + G[t]
        BY SumEquations
    <2>2. t \in C
        OBVIOUS
    <2> HIDE DEF F, G
    <2>3. F[t] \in Nat /\ G[t] \in Nat /\ G[t] = IF x \in t THEN F[t] + g[x] - f[x] ELSE F[t]
        BY <2>2
    <2>4. x \in t <=> (x \in s /\ x # z)
        OBVIOUS
    <2>5. z \in S
        BY <2>1
    <2> HIDE DEF t, z, C
    <2>6. /\ f[z] \in Nat /\ g[z] \in Nat /\ f[x] \in Nat /\ g[x] \in Nat
          /\ z # x => g[z] = f[z]
        BY <2>5
    <2>7. F[s] \in Nat /\ G[s] \in Nat
        BY <2>1, <2>3, <2>6
    <2>8. G[s] = IF x \in s THEN F[s] + g[x] - f[x] ELSE F[s]
        <3>1. CASE x = z
            <4>1. x \in s /\ x \notin t
                BY <2>1, <2>4, <3>1
            <4>2. G[t] = F[t]
                BY <2>3, <4>1
            <4>3. G[s] = F[s] + g[x] - f[x]
                BY <2>1, <2>3, <2>6, <3>1, <4>2
            <4> QED  BY <4>1, <4>3
        <3>2. CASE x # z /\ x \in s
            <4>1. G[t] = F[t] + g[x] - f[x]
                BY <2>3, <2>4, <3>2
            <4>2. G[s] = F[s] + g[x] - f[x]
                BY <2>1, <2>3, <2>6, <3>2, <4>1
            <4> QED  BY <3>2, <4>2
        <3>3. CASE x \notin s
            <4>1. G[t] = F[t] /\ x # z
                BY <2>1, <2>3, <2>4, <3>3
            <4>2. G[s] = F[s]
                BY <2>1, <2>3, <2>6, <4>1
            <4> QED  BY <3>3, <4>2
        <3> QED  BY <3>1, <3>2, <3>3
    <2> QED  BY <2>7, <2>8 DEF C
<1> HIDE DEF C
<1>3. S \in C
    BY <1>1, <1>2, OneByOne
<1>4. Total(f) = F[S] /\ Total(g) = G[S]
    <2>1. DOMAIN f = S /\ DOMAIN g = S
        OBVIOUS
    <2> QED  BY <2>1, TotalIsSum
<1> QED  BY <1>3, <1>4 DEF C

-----------------------------------------------------------------------------
(* The board.                                                              *)

IsOrder(order) == order \in [User -> User] /\ \A u \in User : \E i \in User : order[i] = u

LEMMA UserFacts ==
    /\ Users \in Nat /\ Users >= 1 /\ User = 1 .. Users
    /\ IsFiniteSet(User) /\ Cardinality(User) = Users
    /\ IsFiniteSet(Problem)
<1>1. Users \in Nat /\ Users >= 1 /\ Problems \in Nat
    BY ResolverAssumption
<1>2. IsFiniteSet(1 .. Users) /\ Cardinality(1 .. Users) = Users /\ IsFiniteSet(1 .. Problems)
    BY <1>1, FS_Interval
<1> QED  BY <1>1, <1>2 DEF User, Problem

LEMMA OrderIsInjective ==
    ASSUME NEW order, IsOrder(order), NEW i \in User, NEW k \in User, order[i] = order[k]
    PROVE  i = k
<1>1. order \in Surjection(User, User)
    BY DEF IsOrder, Surjection
<1>2. order \in Injection(User, User)
    BY <1>1, UserFacts, FS_SurjSameCardinalityImpliesInj
<1> QED  BY <1>2 DEF Injection, IsInjective

\* A user rises to the first place from which all places down to his are passed.
LEMMA LiftMoves ==
    ASSUME NEW order \in [User -> User], NEW i \in User, NEW passed
    PROVE  \E j \in 1 .. i :
               /\ \A k \in j .. i - 1 : order[k] \in passed
               /\ j = 1 \/ order[j - 1] \notin passed
               /\ Lift(order, i, passed)[1] = j
               /\ Lift(order, i, passed)[2] =
                      [k \in User |-> IF k = j THEN order[i]
                                      ELSE IF j < k /\ k <= i THEN order[k - 1] ELSE order[k]]
<1> DEFINE T == {n \in 1 .. i : \A k \in n .. i - 1 : order[k] \in passed}
           Here(n) == /\ \A k \in n .. i - 1 : order[k] \in passed
                      /\ n = 1 \/ order[n - 1] \notin passed
           j == CHOOSE n \in 1 .. i : Here(n)
<1>1. i \in Nat /\ i >= 1
    BY UserFacts
<1>2. i \in T /\ T \in SUBSET Nat
    BY <1>1
<1>3. PICK n \in T : \A m \in T : n <= m
    BY <1>2, LeastNumber
<1>4. n = 1 \/ order[n - 1] \notin passed
    <2> SUFFICES ASSUME n # 1, order[n - 1] \in passed
                 PROVE  FALSE
        OBVIOUS
    <2>1. n \in 1 .. i /\ \A k \in n .. i - 1 : order[k] \in passed
        BY <1>3
    <2>2. n - 1 \in 1 .. i /\ ~ (n <= n - 1)
        BY <1>1, <2>1
    <2>3. \A k \in n - 1 .. i - 1 : k = n - 1 \/ k \in n .. i - 1
        BY <1>1, <2>1
    <2>4. n - 1 \in T
        BY <2>1, <2>2, <2>3
    <2> QED  BY <1>3, <2>2, <2>4
<1>5. n \in 1 .. i /\ Here(n)
    BY <1>3, <1>4
<1> HIDE DEF Here
<1>6. j \in 1 .. i /\ Here(j)
    BY <1>5
<1>7. Lift(order, i, passed) =
          <<j, [k \in User |-> IF k = j THEN order[i]
                               ELSE IF j < k /\ k <= i THEN order[k - 1] ELSE order[k]]>>
    BY DEF Lift, Here
<1> HIDE DEF j
<1> QED  BY <1>6, <1>7 DEF Here

LEMMA LiftKeepsUsers ==
    ASSUME NEW order, IsOrder(order), NEW i \in User, NEW passed
    PROVE  /\ Lift(order, i, passed)[1] \in 1 .. i
           /\ IsOrder(Lift(order, i, passed)[2])
           /\ \A k \in User : k > i => Lift(order, i, passed)[2][k] = order[k]
<1> DEFINE new == Lift(order, i, passed)[2]
<1>1. PICK j \in 1 .. i :
          /\ Lift(order, i, passed)[1] = j
          /\ new = [k \in User |-> IF k = j THEN order[i]
                                   ELSE IF j < k /\ k <= i THEN order[k - 1] ELSE order[k]]
    BY LiftMoves DEF IsOrder
<1>2. i \in 1 .. Users /\ Users \in Nat /\ User = 1 .. Users /\ j \in 1 .. i
    BY UserFacts
<1>3. order \in [User -> User] /\ \A u \in User : \E n \in User : order[n] = u
    BY DEF IsOrder
<1> HIDE DEF new
<1>4. \A k \in User : k > 1 => k - 1 \in User
    BY <1>2
<1>5. new \in [User -> User]
    <2>1. \A k \in User : new[k] \in User
        <3> TAKE k \in User
        <3>1. j < k => k > 1
            BY <1>2
        <3> QED  BY <1>1, <1>3, <1>4, <3>1
    <2> QED  BY <1>1, <2>1
<1>6. \A u \in User : \E n \in User : new[n] = u
    <2> TAKE u \in User
    <2>1. PICK n \in User : order[n] = u
        BY <1>3
    <2>2. CASE n = i
        <3>1. j \in User
            BY <1>2
        <3> QED  BY <1>1, <2>1, <2>2, <3>1
    <2>3. CASE j <= n /\ n < i
        <3> DEFINE m == n + 1
        <3>1. m \in User /\ m # j /\ j < m /\ m <= i /\ m - 1 = n
            BY <1>2, <2>3
        <3> HIDE DEF m
        <3>2. new[m] = order[m - 1]
            BY <1>1, <3>1
        <3> QED  BY <2>1, <3>1, <3>2
    <2>4. CASE n < j \/ i < n
        <3>1. n # j /\ ~ (j < n /\ n <= i)
            BY <1>2, <2>4
        <3> QED  BY <1>1, <2>1, <3>1
    <2>5. n = i \/ (j <= n /\ n < i) \/ n < j \/ i < n
        BY <1>2
    <2> QED  BY <2>2, <2>3, <2>4, <2>5
<1>7. \A k \in User : k > i => new[k] = order[k]
    <2> TAKE k \in User
    <2>1. k > i => k # j /\ ~ (k <= i)
        BY <1>2
    <2> QED  BY <1>1, <2>1
<1> QED  BY <1>1, <1>5, <1>6, <1>7 DEF new, IsOrder

\* Neighbours stay related when a user rises past those he may stand above, and stops
\* below one who may stand above him.
LEMMA LiftKeepsOrder ==
    ASSUME NEW order, IsOrder(order), NEW i \in User, NEW passed, NEW R, NEW Q,
           \A k \in User \ {Users} : <<order[k], order[k + 1]>> \in R,
           \A u, v, w \in User : <<u, v>> \in R /\ <<v, w>> \in R => <<u, w>> \in R,
           \A v, w \in User : v # order[i] /\ w # order[i] /\ <<v, w>> \in R => <<v, w>> \in Q,
           \A v \in User : v # order[i] /\ <<order[i], v>> \in R => <<order[i], v>> \in Q,
           \A v \in User : v # order[i] /\ v \in passed => <<order[i], v>> \in Q,
           \A v \in User : v # order[i] /\ v \notin passed => <<v, order[i]>> \in Q
    PROVE  \A k \in User \ {Users} : <<Lift(order, i, passed)[2][k],
                                       Lift(order, i, passed)[2][k + 1]>> \in Q
<1> DEFINE new == Lift(order, i, passed)[2]
<1>1. PICK j \in 1 .. i :
          /\ \A k \in j .. i - 1 : order[k] \in passed
          /\ j = 1 \/ order[j - 1] \notin passed
          /\ Lift(order, i, passed)[1] = j
          /\ new = [k \in User |-> IF k = j THEN order[i]
                                   ELSE IF j < k /\ k <= i THEN order[k - 1] ELSE order[k]]
    BY LiftMoves DEF IsOrder
<1>2. i \in 1 .. Users /\ Users \in Nat /\ User = 1 .. Users /\ j \in 1 .. i
    BY UserFacts
<1>3. order \in [User -> User]
    BY DEF IsOrder
<1>4. \A k \in User : k # i => order[k] # order[i]
    BY OrderIsInjective
<1> HIDE DEF new
<1>5. /\ new[j] = order[i]
      /\ \A k \in User : j < k /\ k <= i => new[k] = order[k - 1]
      /\ \A k \in User : k < j \/ i < k => new[k] = order[k]
    <2>1. j \in User
        BY <1>2
    <2>2. \A k \in User : j < k => k # j
        BY <1>2
    <2>3. \A k \in User : k < j \/ i < k => k # j /\ ~ (j < k /\ k <= i)
        BY <1>2
    <2> QED  BY <1>1, <2>1, <2>2, <2>3
<1> SUFFICES ASSUME NEW k \in User \ {Users}
             PROVE  <<new[k], new[k + 1]>> \in Q
    BY DEF new
<1>6. k \in User /\ k + 1 \in User /\ k \in Nat /\ order[k] \in User /\ order[k + 1] \in User
    BY <1>2, <1>3
<1>7. CASE k + 1 < j \/ i < k
    <2>1. new[k] = order[k] /\ new[k + 1] = order[k + 1]
        BY <1>2, <1>5, <1>6, <1>7
    <2>2. k # i /\ k + 1 # i
        BY <1>2, <1>6, <1>7
    <2> QED  BY <1>4, <1>6, <2>1, <2>2
<1>8. CASE k + 1 = j
    <2>1. new[k] = order[k] /\ new[k + 1] = order[i]
        BY <1>2, <1>5, <1>6, <1>8
    <2>2. k # i /\ k = j - 1 /\ j # 1
        BY <1>2, <1>6, <1>8
    <2>3. order[k] \notin passed
        BY <1>1, <2>2
    <2> QED  BY <1>4, <1>6, <2>1, <2>2, <2>3
<1>9. CASE j = k /\ k < i
    <2>1. new[k] = order[i] /\ new[k + 1] = order[k]
        <3>1. j < k + 1 /\ k + 1 <= i /\ k + 1 - 1 = k
            BY <1>2, <1>6, <1>9
        <3> QED  BY <1>5, <1>6, <1>9, <3>1
    <2>2. k # i /\ k \in j .. i - 1
        BY <1>2, <1>6, <1>9
    <2> QED  BY <1>1, <1>4, <1>6, <2>1, <2>2
<1>10. CASE j < k /\ k < i
    <2>1. new[k] = order[k - 1] /\ new[k + 1] = order[k]
        <3>1. k <= i /\ j < k + 1 /\ k + 1 <= i /\ k + 1 - 1 = k
            BY <1>2, <1>6, <1>10
        <3> QED  BY <1>5, <1>6, <1>10, <3>1
    <2>2. k - 1 \in User \ {Users} /\ k - 1 # i /\ k # i /\ k - 1 + 1 = k
        BY <1>2, <1>6, <1>10
    <2>3. <<order[k - 1], order[k]>> \in R
        BY <2>2
    <2> QED  BY <1>3, <1>4, <1>6, <2>1, <2>2, <2>3
<1>11. CASE k = i /\ j < i
    <2>1. new[k] = order[k - 1] /\ new[k + 1] = order[k + 1]
        <3>1. j < k /\ k <= i /\ i < k + 1
            BY <1>2, <1>6, <1>11
        <3> QED  BY <1>5, <1>6, <3>1
    <2>2. k - 1 \in User \ {Users} /\ k - 1 # i /\ k + 1 # i /\ k - 1 + 1 = k
        BY <1>2, <1>6, <1>11
    <2>3. <<order[k - 1], order[k]>> \in R /\ <<order[k], order[k + 1]>> \in R
        BY <2>2
    <2>4. <<order[k - 1], order[k + 1]>> \in R
        BY <1>3, <1>6, <2>2, <2>3
    <2> QED  BY <1>3, <1>4, <1>6, <2>1, <2>2, <2>4
<1>12. CASE k = i /\ j = i
    <2>1. new[k] = order[i] /\ new[k + 1] = order[k + 1]
        <3>1. i < k + 1
            BY <1>2, <1>6, <1>12
        <3> QED  BY <1>5, <1>6, <1>12, <3>1
    <2>2. k + 1 # i
        BY <1>6, <1>12
    <2> QED  BY <1>4, <1>6, <1>12, <2>1, <2>2
<1>13. \/ k + 1 < j \/ i < k \/ k + 1 = j \/ (j = k /\ k < i) \/ (j < k /\ k < i)
       \/ (k = i /\ j < i) \/ (k = i /\ j = i)
    BY <1>2, <1>6
<1> QED  BY <1>7, <1>8, <1>9, <1>10, <1>11, <1>12, <1>13

\* rankarr.sort: as many users stand before the one at place i as there are places above.
LEMMA SortedIsOrder ==
    ASSUME NEW pts \in [User -> Nat], contest.last \in [User -> Nat]
    PROVE  /\ IsOrder(Sorted(pts))
           /\ \A i \in User \ {Users} : ~ Ahead(Sorted(pts)[i + 1], Sorted(pts)[i], pts)
<1> DEFINE Before(u, v) == Ahead(u, v, pts) \/ (u < v /\ ~ Ahead(v, u, pts))
           Above(u) == {v \in User : Before(v, u)}
           n == [u \in User |-> Cardinality(Above(u))]
           order == [i \in User |-> CHOOSE u \in User : Cardinality(Above(u)) = i - 1]
<1>1. User = 1 .. Users /\ Users \in Nat
    BY UserFacts
<1>2. \A u \in User : u \in Int /\ pts[u] \in Nat /\ contest.last[u] \in Nat
    BY <1>1
<1>3. /\ \A u, v \in User : Ahead(u, v, pts) =>
             pts[u] > pts[v] \/ (pts[u] = pts[v] /\ contest.last[u] < contest.last[v])
      /\ \A u, v \in User : ~ Ahead(u, v, pts) =>
             pts[u] < pts[v] \/ (pts[u] = pts[v] /\ contest.last[u] >= contest.last[v])
    BY <1>2 DEF Ahead
<1>4. \A u, v \in User : u # v => Before(u, v) \/ Before(v, u)
    BY <1>2
<1>5. \A u \in User : ~ Before(u, u)
    BY <1>2, <1>3
<1>6. \A u, v, w \in User : Before(u, v) /\ Before(v, w) => Before(u, w)
    <2> SUFFICES ASSUME NEW u \in User, NEW v \in User, NEW w \in User,
                        Before(u, v), Before(v, w)
                 PROVE  Before(u, w)
        OBVIOUS
    <2>1. CASE Ahead(u, v, pts) \/ Ahead(v, w, pts)
        <3>1. Ahead(u, w, pts)
            BY <1>2, <1>3, <2>1 DEF Ahead
        <3> QED  BY <3>1
    <2>2. CASE ~ Ahead(u, v, pts) /\ ~ Ahead(v, w, pts)
        <3>1. u < w
            BY <1>2, <2>2
        <3>2. ~ Ahead(w, u, pts)
            BY <1>2, <1>3, <2>2 DEF Ahead
        <3> QED  BY <3>1, <3>2
    <2> QED  BY <2>1, <2>2
<1> HIDE DEF Before
<1>7. \A u \in User : IsFiniteSet(Above(u)) /\ Cardinality(Above(u)) \in Nat
    BY UserFacts, FS_Subset, FS_CardinalityType
<1>8. \A u, v \in User : Before(u, v) => n[u] < n[v]
    <2> SUFFICES ASSUME NEW u \in User, NEW v \in User, Before(u, v)
                 PROVE  n[u] < n[v]
        OBVIOUS
    <2>1. Above(u) \in SUBSET Above(v)
        BY <1>6
    <2>2. u \in Above(v) /\ u \notin Above(u)
        BY <1>5
    <2>3. Cardinality(Above(u)) <= Cardinality(Above(v))
          /\ Cardinality(Above(u)) # Cardinality(Above(v))
        BY <1>7, <2>1, <2>2, FS_Subset
    <2>4. n[u] = Cardinality(Above(u)) /\ n[v] = Cardinality(Above(v))
        OBVIOUS
    <2>5. Cardinality(Above(u)) \in Nat /\ Cardinality(Above(v)) \in Nat
        BY <1>7
    <2> HIDE DEF n, Above
    <2> QED  BY <2>3, <2>4, <2>5
<1>9. \A u \in User : n[u] \in 0 .. Users - 1
    <2> SUFFICES ASSUME NEW u \in User
                 PROVE  n[u] \in 0 .. Users - 1
        OBVIOUS
    <2>1. Above(u) \in SUBSET User /\ u \notin Above(u)
        BY <1>5
    <2>2. n[u] = Cardinality(Above(u)) /\ n[u] \in Nat
        BY <1>7
    <2> HIDE DEF n, Above
    <2>3. Cardinality(Above(u)) <= Users /\ Cardinality(Above(u)) # Users
        BY <2>1, UserFacts, FS_Subset
    <2> QED  BY <1>1, <2>2, <2>3
<1>10. \A u, v \in User : n[u] = n[v] => u = v
    <2> HIDE DEF n
    <2> SUFFICES ASSUME NEW u \in User, NEW v \in User, n[u] = n[v], u # v
                 PROVE  FALSE
        OBVIOUS
    <2>1. n[u] < n[v] \/ n[v] < n[u]
        BY <1>4, <1>8
    <2>2. n[u] \in Int /\ n[v] \in Int
        BY <1>9
    <2> QED  BY <2>1, <2>2
<1>11. \A m \in 0 .. Users - 1 : \E u \in User : n[u] = m
    <2>1. n \in Injection(User, 0 .. Users - 1)
        BY <1>9, <1>10 DEF Injection, IsInjective
    <2>2. IsFiniteSet(0 .. Users - 1) /\ Cardinality(0 .. Users - 1) = Users
        <3>1. 0 \in Int /\ Users - 1 \in Int /\ ~ (0 > Users - 1) /\ Users - 1 - 0 + 1 = Users
            BY UserFacts
        <3> HIDE DEF n, order, Above
        <3> QED  BY <3>1, FS_Interval
    <2>3. n \in Surjection(User, 0 .. Users - 1)
        BY <2>1, <2>2, UserFacts, FS_Injection
    <2> HIDE DEF n
    <2> QED  BY <2>3 DEF Surjection
<1>12. \A i \in User : order[i] \in User /\ n[order[i]] = i - 1
    <2> TAKE i \in User
    <2>1. i - 1 \in 0 .. Users - 1
        BY <1>1
    <2>2. \E u \in User : Cardinality(Above(u)) = i - 1
        BY <1>11, <2>1
    <2> HIDE DEF Above
    <2>3. order[i] \in User /\ Cardinality(Above(order[i])) = i - 1
        BY <2>2
    <2> QED  BY <2>3
<1>13. Sorted(pts) = order
    BY DEF Sorted, Before
<1>14. IsOrder(order)
    <2>1. order \in [User -> User]
        BY <1>12
    <2>2. \A u \in User : \E i \in User : order[i] = u
        <3> TAKE u \in User
        <3> HIDE DEF n, order
        <3>1. PICK i \in User : i - 1 = n[u]
            <4> DEFINE i == n[u] + 1
            <4>1. i \in User /\ i - 1 = n[u]
                BY <1>1, <1>9
            <4> HIDE DEF i
            <4> QED  BY <4>1
        <3>2. n[order[i]] = n[u] /\ order[i] \in User
            BY <1>12, <3>1
        <3> QED  BY <1>10, <3>2
    <2> HIDE DEF order
    <2> QED  BY <2>1, <2>2 DEF IsOrder
<1>15. \A i \in User \ {Users} : ~ Ahead(order[i + 1], order[i], pts)
    <2> SUFFICES ASSUME NEW i \in User \ {Users}, Ahead(order[i + 1], order[i], pts)
                 PROVE  FALSE
        OBVIOUS
    <2>1. i \in User /\ i + 1 \in User /\ i \in Int
        BY <1>1
    <2> HIDE DEF n, order
    <2>2. /\ order[i] \in User /\ order[i + 1] \in User
          /\ n[order[i]] = i - 1 /\ n[order[i + 1]] = i + 1 - 1
        BY <1>12, <2>1
    <2>3. Before(order[i + 1], order[i])
        BY DEF Before
    <2>4. n[order[i + 1]] < n[order[i]]
        BY <1>8, <2>2, <2>3
    <2> QED  BY <2>1, <2>2, <2>4
<1> HIDE DEF order
<1> QED  BY <1>13, <1>14, <1>15

-----------------------------------------------------------------------------
(* The inductive invariant.                                                *)

OpOK(op) == op.type = "problem" => op.user \in User /\ op.from \in User /\ op.to \in User

Batch == Seq({"select", "apply"}) \ {<< >>}

TypeInv ==
    /\ contest \in Contests
    /\ IsOrder(arr) /\ score \in [User -> Nat] /\ place \in 0 .. Users
    /\ frozen \subseteq User \X Problem
    /\ DOMAIN check = User
    /\ isshow \subseteq User /\ delay \in BOOLEAN /\ autopress \in BOOLEAN
    /\ (\E S : ops \in Seq(S)) /\ \A n \in DOMAIN ops : OpOK(ops[n])
    /\ timers \in Seq(Batch)
    /\ curop \in Nat \cup {-1}
    /\ DOMAIN page = {"rank", "score", "got", "problem"} /\ page.rank \in [User -> User]
    /\ hurried \in Nat

\* What is shown of a subtask is never more than it is worth in the end.
GotInv ==
    /\ DOMAIN got = User
    /\ \A u \in User : /\ DOMAIN got[u] = Problem
                       /\ \A p \in Problem :
                             /\ got[u][p] \in [Subs(p) -> Nat]
                             /\ \A s \in Subs(p) : got[u][p][s] <= contest.points[u][p][s]

SumsInv == \A u \in User : score[u] = Points(got[u])
SortedInv == \A i \in User \ {Users} : score[arr[i]] >= score[arr[i + 1]]

\* While the frozen results are replayed, no key was pressed and nothing hidden is shown.
LoadInv ==
    /\ \A i \in User : i > place => FrozenAt(i) = {}
    /\ place > 0 =>
          /\ isshow = {} /\ timers = << >>
          /\ \A u \in User : \A p \in Problem : \A s \in Subs(p) \ Visible(p) :
                /\ got[u][p][s] = 0
                /\ <<p, s>> \notin check[u] /\ <<p, LIST>> \notin check[u]

\* A subtask that is not hidden is final once the problem is no longer frozen, a hidden one
\* once it was revealed, under its number or, the first one, under the list.
Revealed(u, p, s) == <<p, s>> \in check[u] \/ (s = First(p) /\ <<p, LIST>> \in check[u])
Settled(u, p, s) ==
    (s \in Visible(p) /\ <<u, p>> \notin frozen) \/ (s \notin Visible(p) /\ Revealed(u, p, s))
ShownInv ==
    \A u \in User : \A p \in contest.has[u] : \A s \in Subs(p) :
        Settled(u, p, s) => got[u][p][s] = contest.points[u][p][s]

\* All is revealed of those who were announced.
AnnouncedInv == \A u \in isshow : Done(u)

BoardInv == TypeInv /\ GotInv /\ SumsInv /\ SortedInv /\ LoadInv /\ ShownInv /\ AnnouncedInv

LEMMA ContestFacts ==
    ASSUME contest \in Contests
    PROVE  /\ contest.last \in [User -> Nat]
           /\ \A u \in User : contest.has[u] \subseteq Problem
           /\ \A p \in Problem :
                 /\ IsFiniteSet(Subs(p)) /\ Subs(p) \subseteq Nat /\ 0 \notin Subs(p)
                 /\ Visible(p) \subseteq Subs(p)
                 /\ contest.subs[p] \in Nat /\ First(p) \in Nat
                 /\ contest.full[p] \in [Subs(p) -> Nat]
           /\ \A u \in User : \A p \in Problem :
                 /\ contest.points[u][p] \in [Subs(p) -> Nat]
                 /\ contest.frozen[u][p] \in [Subs(p) -> Nat]
                 /\ \A s \in Subs(p) : /\ contest.frozen[u][p][s] <= contest.points[u][p][s]
                                       /\ contest.points[u][p][s] <= contest.full[p][s]
<1>1. IsContest(contest)
    BY ResolverAssumption
<1>2. \A p \in Problem : contest.subs[p] \in Nat /\ contest.hidden[p] \in Seq(Nat)
    BY <1>1 DEF IsContest
<1>3. \A p \in Problem : IsFiniteSet(Subs(p)) /\ Subs(p) \subseteq Nat /\ 0 \notin Subs(p)
    <2> TAKE p \in Problem
    <2>1. IsFiniteSet(1 .. contest.subs[p])
        BY <1>2, FS_Interval
    <2> QED  BY <1>2, <2>1 DEF Subs
<1>4. \A p \in Problem : First(p) \in Nat
    <2> TAKE p \in Problem
    <2>1. Single(p) => contest.hidden[p][1] \in Nat
        BY <1>2 DEF Single
    <2> QED  BY <2>1 DEF First
<1>5. \A u \in User : contest.has[u] \subseteq Problem
    BY <1>1 DEF IsContest
<1> QED  BY <1>1, <1>2, <1>3, <1>4, <1>5 DEF IsContest, Subs, Visible

LEMMA PointsNat ==
    ASSUME NEW row, \A p \in Problem : Total(row[p]) \in Nat
    PROVE  Points(row) \in Nat
<1>1. [p \in Problem |-> Total(row[p])] \in [Problem -> Nat]
    OBVIOUS
<1> QED  BY <1>1, UserFacts, TotalNat DEF Points

LEMMA PointsChange ==
    ASSUME NEW row, \A p \in Problem : Total(row[p]) \in Nat,
           NEW row2, \A p \in Problem : Total(row2[p]) \in Nat,
           NEW q \in Problem, \A p \in Problem : p # q => row2[p] = row[p]
    PROVE  Points(row2) = Points(row) + Total(row2[q]) - Total(row[q])
<1> DEFINE f == [p \in Problem |-> Total(row[p])]
           g == [p \in Problem |-> Total(row2[p])]
<1>1. f \in [Problem -> Nat] /\ g \in [Problem -> Nat]
    OBVIOUS
<1>2. \A p \in Problem : p # q => g[p] = f[p]
    OBVIOUS
<1>3. f[q] = Total(row[q]) /\ g[q] = Total(row2[q])
    OBVIOUS
<1>4. Points(row) = Total(f) /\ Points(row2) = Total(g)
    BY DEF Points
<1> HIDE DEF f, g
<1>5. Total(g) = Total(f) + g[q] - f[q]
    BY <1>1, <1>2, UserFacts, TotalChanges
<1> QED  BY <1>3, <1>4, <1>5

LEMMA InitBoard ==
    ASSUME ResolverInit
    PROVE  BoardInv
<1>1. contest \in Contests /\ arr = Sorted(FrozenScore) /\ score = FrozenScore /\ got = FrozenGot
    BY DEF ResolverInit
<1>2. /\ \A u \in User : contest.has[u] \subseteq Problem
      /\ \A p \in Problem : IsFiniteSet(Subs(p)) /\ Visible(p) \subseteq Subs(p) /\ 0 \notin Subs(p)
      /\ \A u \in User : \A p \in Problem :
            /\ contest.points[u][p] \in [Subs(p) -> Nat]
            /\ contest.frozen[u][p] \in [Subs(p) -> Nat]
            /\ \A s \in Subs(p) : contest.frozen[u][p][s] <= contest.points[u][p][s]
      /\ contest.last \in [User -> Nat]
    BY <1>1, ContestFacts
<1>3. /\ DOMAIN got = User
      /\ \A u \in User : DOMAIN got[u] = Problem
      /\ \A u \in User : \A p \in Problem :
            got[u][p] = [s \in Subs(p) |-> IF p \in contest.has[u] /\ s \in Visible(p)
                                           THEN contest.frozen[u][p][s] ELSE 0]
    BY <1>1 DEF FrozenGot
<1>4. \A u \in User : \A p \in Problem :
          /\ got[u][p] \in [Subs(p) -> Nat]
          /\ \A s \in Subs(p) : got[u][p][s] <= contest.points[u][p][s]
    <2> TAKE u \in User
    <2> TAKE p \in Problem
    <2>1. \A s \in Subs(p) : /\ contest.points[u][p][s] \in Nat /\ contest.frozen[u][p][s] \in Nat
                             /\ contest.frozen[u][p][s] <= contest.points[u][p][s]
        BY <1>2
    <2> DEFINE f == [s \in Subs(p) |-> IF p \in contest.has[u] /\ s \in Visible(p)
                                      THEN contest.frozen[u][p][s] ELSE 0]
    <2>2. \A s \in Subs(p) : f[s] \in Nat /\ f[s] <= contest.points[u][p][s]
        BY <2>1
    <2>3. f \in [Subs(p) -> Nat]
        BY <2>1
    <2>4. got[u][p] = f
        BY <1>3
    <2> HIDE DEF f
    <2> QED  BY <2>2, <2>3, <2>4
<1>5. GotInv
    BY <1>3, <1>4 DEF GotInv
<1>6. SumsInv
    BY <1>1 DEF SumsInv, FrozenScore
<1>7. score \in [User -> Nat]
    <2>1. \A u \in User : \A p \in Problem : Total(got[u][p]) \in Nat
        BY <1>2, <1>4, TotalNat
    <2>2. \A u \in User : Points(got[u]) \in Nat
        BY <2>1, PointsNat
    <2> QED  BY <1>1, <2>2 DEF FrozenScore
<1>8. IsOrder(arr) /\ \A i \in User \ {Users} : ~ Ahead(arr[i + 1], arr[i], score)
    BY <1>1, <1>2, <1>7, SortedIsOrder
<1>9. SortedInv
    <2> SUFFICES ASSUME NEW i \in User \ {Users}
                 PROVE  score[arr[i]] >= score[arr[i + 1]]
        BY DEF SortedInv
    <2>1. i \in User /\ i + 1 \in User
        BY UserFacts
    <2>2. score[arr[i]] \in Nat /\ score[arr[i + 1]] \in Nat
        BY <1>7, <1>8, <2>1 DEF IsOrder
    <2>3. ~ (score[arr[i + 1]] > score[arr[i]])
        BY <1>8 DEF Ahead
    <2> QED  BY <2>2, <2>3
<1>10. TypeInv
    <2>1. page.rank \in [User -> User] /\ DOMAIN page = {"rank", "score", "got", "problem"}
        <3>1. \A u \in User : Position(u) \in User
            BY <1>8 DEF Position, IsOrder
        <3> QED  BY <3>1 DEF ResolverInit
    <2>2. frozen \subseteq User \X Problem
        BY DEF ResolverInit
    <2>3. place \in 0 .. Users
        BY UserFacts DEF ResolverInit
    <2>4. ops \in Seq({}) /\ timers \in Seq(Batch) /\ DOMAIN ops = {}
        BY DEF ResolverInit
    <2> QED  BY <1>1, <1>7, <1>8, <2>1, <2>2, <2>3, <2>4 DEF TypeInv, ResolverInit
<1>11. LoadInv
    <2>1. \A i \in User : ~ (i > place)
        BY UserFacts DEF ResolverInit
    <2>2. isshow = {} /\ timers = << >>
        BY DEF ResolverInit
    <2>3. \A u \in User : \A p \in Problem : \A s \in Subs(p) \ Visible(p) :
              /\ got[u][p][s] = 0
              /\ <<p, s>> \notin check[u] /\ <<p, LIST>> \notin check[u]
        <3> TAKE u \in User
        <3> TAKE p \in Problem
        <3> TAKE s \in Subs(p) \ Visible(p)
        <3>1. got[u][p][s] = 0
            <4> DEFINE f == [t \in Subs(p) |-> IF p \in contest.has[u] /\ t \in Visible(p)
                                              THEN contest.frozen[u][p][t] ELSE 0]
            <4>1. got[u][p] = f
                BY <1>3
            <4>2. f[s] = 0
                OBVIOUS
            <4> HIDE DEF f
            <4> QED  BY <4>1, <4>2
        <3>2. \A k : <<p, k>> \in check[u] => k \in Opened(p)
            BY DEF ResolverInit
        <3>3. s \notin Opened(p)
            BY DEF Visible
        <3>4. 0 \notin Opened(p)
            <4>1. First(p) \in Nat
                BY <1>1, ContestFacts
            <4> QED  BY <4>1 DEF Opened
        <3> QED  BY <3>1, <3>2, <3>3, <3>4 DEF LIST
    <2> QED  BY <2>1, <2>2, <2>3 DEF LoadInv
<1>12. ShownInv
    <2> SUFFICES ASSUME NEW u \in User, NEW p \in contest.has[u], NEW s \in Subs(p)
                 PROVE  /\ s \in Visible(p) /\ <<u, p>> \notin frozen
                              => got[u][p][s] = contest.points[u][p][s]
                        /\ s \notin Visible(p)
                              => <<p, s>> \notin check[u] /\ <<p, LIST>> \notin check[u]
        BY DEF ShownInv, Settled, Revealed
    <2>1. p \in Problem
        BY <1>2
    <2>2. place > 0
        BY UserFacts DEF ResolverInit
    <2>3. s \notin Visible(p) => <<p, s>> \notin check[u] /\ <<p, LIST>> \notin check[u]
        BY <1>11, <2>1, <2>2 DEF LoadInv
    <2>4. ASSUME s \in Visible(p), <<u, p>> \notin frozen
          PROVE  got[u][p][s] = contest.points[u][p][s]
        <3>1. ~ WasFrozen(u, p)
            <4>1. <<u, p>> \in User \X Problem /\ <<u, p>>[1] = u /\ <<u, p>>[2] = p
                BY <2>1
            <4>2. frozen = {c \in User \X Problem : WasFrozen(c[1], c[2])}
                BY DEF ResolverInit
            <4> QED  BY <2>4, <4>1, <4>2
        <3>2. Total(got[u][p]) = Total(contest.full[p])
            BY <1>1, <3>1 DEF WasFrozen, Perfect
        <3>3. contest.full[p] \in [Subs(p) -> Nat] /\ IsFiniteSet(Subs(p))
            BY <1>1, <2>1, ContestFacts
        <3>4. \A t \in Subs(p) : /\ got[u][p][t] <= contest.points[u][p][t]
                                 /\ contest.points[u][p][t] <= contest.full[p][t]
            BY <1>1, <1>4, <2>1, ContestFacts
        <3>5. \A t \in Subs(p) : got[u][p][t] \in Nat /\ contest.points[u][p][t] \in Nat
                                 /\ contest.full[p][t] \in Nat
            BY <1>2, <1>4, <2>1, <3>3
        <3>6. \A t \in Subs(p) : got[u][p][t] <= contest.full[p][t]
            BY <3>4, <3>5
        <3>7. got[u][p] = contest.full[p]
            BY <1>4, <2>1, <3>2, <3>3, <3>6, TotalGrows
        <3>8. got[u][p][s] = contest.full[p][s]
            BY <3>7
        <3> QED  BY <3>4, <3>5, <3>8
    <2> QED  BY <2>3, <2>4
<1>13. AnnouncedInv
    BY DEF AnnouncedInv, ResolverInit
<1> QED  BY <1>5, <1>6, <1>9, <1>10, <1>11, <1>12, <1>13 DEF BoardInv

-----------------------------------------------------------------------------
(* A user rises.                                                           *)

\* The order by the scores, when one user's score grows and he passes those who have
\* less, and perhaps some of those who have as much.
LEMMA RiseSorted ==
    ASSUME NEW order, IsOrder(order), NEW sc \in [User -> Nat], NEW pts \in [User -> Nat],
           NEW i \in User, NEW passed,
           \A k \in User \ {Users} : sc[order[k]] >= sc[order[k + 1]],
           pts[order[i]] >= sc[order[i]],
           \A v \in User : v # order[i] => pts[v] = sc[v],
           \A v \in User : v # order[i] /\ v \in passed => pts[v] <= pts[order[i]],
           \A v \in User : v # order[i] /\ v \notin passed => pts[v] >= pts[order[i]]
    PROVE  \A k \in User \ {Users} :
               pts[Lift(order, i, passed)[2][k]] >= pts[Lift(order, i, passed)[2][k + 1]]
<1> DEFINE R == {c \in User \X User : sc[c[1]] >= sc[c[2]]}
           Q == {c \in User \X User : pts[c[1]] >= pts[c[2]]}
<1>1. \A v, w \in User : /\ <<v, w>> \in R <=> sc[v] >= sc[w]
                         /\ <<v, w>> \in Q <=> pts[v] >= pts[w]
    OBVIOUS
<1>2. /\ \A v \in User : sc[v] \in Nat /\ pts[v] \in Nat
      /\ \A k \in User : order[k] \in User
      /\ \A k \in User \ {Users} : k \in User /\ k + 1 \in User
    <2>1. \A k \in User \ {Users} : k \in User /\ k + 1 \in User
        BY UserFacts
    <2>2. \A k \in User : order[k] \in User
        BY DEF IsOrder
    <2> QED  BY <2>1, <2>2
<1>3. order[i] \in User
    BY <1>2
<1>4. \A c \in Q : pts[c[1]] >= pts[c[2]]
    OBVIOUS
<1> HIDE DEF R, Q
<1>5. \A k \in User \ {Users} : <<order[k], order[k + 1]>> \in R
    BY <1>1, <1>2
<1>6. \A u, v, w \in User : <<u, v>> \in R /\ <<v, w>> \in R => <<u, w>> \in R
    BY <1>1, <1>2
<1>7. \A v, w \in User : v # order[i] /\ w # order[i] /\ <<v, w>> \in R => <<v, w>> \in Q
    BY <1>1
<1>8. \A v \in User : v # order[i] /\ <<order[i], v>> \in R => <<order[i], v>> \in Q
    BY <1>1, <1>2, <1>3
<1>9. \A v \in User : v # order[i] /\ v \in passed => <<order[i], v>> \in Q
    BY <1>1, <1>2, <1>3
<1>10. \A v \in User : v # order[i] /\ v \notin passed => <<v, order[i]>> \in Q
    BY <1>1, <1>3
<1>11. \A k \in User \ {Users} : <<Lift(order, i, passed)[2][k],
                                   Lift(order, i, passed)[2][k + 1]>> \in Q
    BY <1>5, <1>6, <1>7, <1>8, <1>9, <1>10, LiftKeepsOrder
<1> QED  BY <1>4, <1>11

\* The same with ties in the order of the last submissions.
LEMMA RiseInOrder ==
    ASSUME NEW order, IsOrder(order), NEW sc \in [User -> Nat], NEW pts \in [User -> Nat],
           contest.last \in [User -> Nat], NEW i \in User,
           \A k \in User \ {Users} : ~ Ahead(order[k + 1], order[k], sc),
           pts[order[i]] >= sc[order[i]],
           \A v \in User : v # order[i] => pts[v] = sc[v]
    PROVE  LET new == Lift(order, i, {v \in User : Ahead(order[i], v, pts)})[2]
           IN  \A k \in User \ {Users} : ~ Ahead(new[k + 1], new[k], pts)
<1> DEFINE R == {c \in User \X User : ~ Ahead(c[2], c[1], sc)}
           Q == {c \in User \X User : ~ Ahead(c[2], c[1], pts)}
           passed == {v \in User : Ahead(order[i], v, pts)}
<1>1. \A v, w \in User : /\ <<v, w>> \in R <=> ~ Ahead(w, v, sc)
                         /\ <<v, w>> \in Q <=> ~ Ahead(w, v, pts)
    OBVIOUS
<1>2. /\ \A v \in User : sc[v] \in Nat /\ pts[v] \in Nat /\ contest.last[v] \in Nat
      /\ \A k \in User : order[k] \in User
      /\ \A k \in User \ {Users} : k \in User /\ k + 1 \in User
    <2>1. \A k \in User \ {Users} : k \in User /\ k + 1 \in User
        BY UserFacts
    <2>2. \A k \in User : order[k] \in User
        BY DEF IsOrder
    <2> QED  BY <2>1, <2>2
<1>3. order[i] \in User
    BY <1>2
<1>4. \A c \in Q : ~ Ahead(c[2], c[1], pts)
    OBVIOUS
<1>5. \A v \in User : v \in passed <=> Ahead(order[i], v, pts)
    OBVIOUS
<1> HIDE DEF R, Q, passed
<1>6. \A k \in User \ {Users} : <<order[k], order[k + 1]>> \in R
    BY <1>1, <1>2
<1>7. \A u, v, w \in User : <<u, v>> \in R /\ <<v, w>> \in R => <<u, w>> \in R
    BY <1>1, <1>2 DEF Ahead
<1>8. \A v, w \in User : v # order[i] /\ w # order[i] /\ <<v, w>> \in R => <<v, w>> \in Q
    BY <1>1 DEF Ahead
<1>9. \A v \in User : v # order[i] /\ <<order[i], v>> \in R => <<order[i], v>> \in Q
    BY <1>1, <1>2, <1>3 DEF Ahead
<1>10. \A v \in User : v # order[i] /\ v \in passed => <<order[i], v>> \in Q
    BY <1>1, <1>2, <1>3, <1>5 DEF Ahead
<1>11. \A v \in User : v # order[i] /\ v \notin passed => <<v, order[i]>> \in Q
    BY <1>1, <1>3, <1>5
<1>12. \A k \in User \ {Users} : <<Lift(order, i, passed)[2][k],
                                   Lift(order, i, passed)[2][k + 1]>> \in Q
    BY <1>6, <1>7, <1>8, <1>9, <1>10, <1>11, LiftKeepsOrder
<1>13. \A k \in User \ {Users} : ~ Ahead(Lift(order, i, passed)[2][k + 1],
                                         Lift(order, i, passed)[2][k], pts)
    BY <1>4, <1>12
<1> QED  BY <1>13 DEF passed

LEMMA AscendingExists ==
    ASSUME NEW b \in Nat, NEW S \in SUBSET (1 .. b)
    PROVE  \E f \in [1 .. Cardinality(S) -> S] :
               \A j, k \in 1 .. Cardinality(S) : j < k => f[j] < f[k]
<1> DEFINE Ok(T) == \E f \in [1 .. Cardinality(T) -> T] :
                        \A j, k \in 1 .. Cardinality(T) : j < k => f[j] < f[k]
           Bad == {n \in Nat : \E T \in SUBSET (1 .. n) : ~ Ok(T)}
<1>1. Bad \in SUBSET Nat
    OBVIOUS
<1> SUFFICES ASSUME Bad # {}
             PROVE  FALSE
    OBVIOUS
<1>2. PICK n \in Bad : \A m \in Bad : n <= m
    <2> HIDE DEF Bad
    <2> QED  BY <1>1, LeastNumber
<1>3. PICK T \in SUBSET (1 .. n) : ~ Ok(T)
    BY <1>2
<1>4. n \in Nat
    BY <1>2
<1>5. IsFiniteSet(T) /\ Cardinality(T) \in Nat
    <2>1. IsFiniteSet(1 .. n)
        BY <1>4, FS_Interval
    <2> QED  BY <2>1, FS_Subset, FS_CardinalityType
<1>6. CASE T = {}
    <2>1. Cardinality(T) = 0
        BY <1>6, FS_EmptySet
    <2>2. << >> \in [1 .. Cardinality(T) -> T] /\ 1 .. Cardinality(T) = {}
        BY <2>1
    <2> QED  BY <1>3, <2>2
<1>7. CASE T # {}
    <2> DEFINE U == T \ {n}
    <2>1. n - 1 \in Nat /\ U \in SUBSET (1 .. n - 1) /\ ~ (n <= n - 1)
        <3>1. PICK x : x \in T
            BY <1>7
        <3>2. x \in 1 .. n
            BY <3>1
        <3>3. n - 1 \in Nat /\ ~ (n <= n - 1)
            BY <1>4, <3>2
        <3>4. \A y \in U : y \in 1 .. n - 1
            BY <1>4
        <3> QED  BY <3>3, <3>4
    <2>2. Ok(U)
        <3>1. n - 1 \notin Bad
            <4> HIDE DEF Bad
            <4> QED  BY <1>2, <2>1
        <3> HIDE DEF Ok, U
        <3> QED  BY <2>1, <3>1
    <2>3. CASE n \notin T
        <3>1. U = T
            BY <2>3
        <3> HIDE DEF U, Ok
        <3> QED  BY <1>3, <2>2, <3>1
    <2>4. CASE n \in T
        <3> DEFINE c == Cardinality(T)
        <3>1. Cardinality(U) = c - 1 /\ c \in Nat /\ c >= 1
            <4>1. Cardinality(U) = c - 1 /\ c # 0
                BY <1>5, <1>7, <2>4, FS_RemoveElement, FS_EmptySet
            <4> HIDE DEF U
            <4> QED  BY <1>5, <4>1
        <3>2. PICK f \in [1 .. c - 1 -> U] : \A j, k \in 1 .. c - 1 : j < k => f[j] < f[k]
            BY <2>2, <3>1
        <3> DEFINE g == [k \in 1 .. c |-> IF k = c THEN n ELSE f[k]]
        <3>3. \A k \in 1 .. c : k # c => k \in 1 .. c - 1 /\ f[k] \in U
            <4> HIDE DEF c, U
            <4> QED  BY <3>1, <3>2
        <3>4. g \in [1 .. c -> T]
            <4> HIDE DEF c
            <4> QED  BY <2>4, <3>3
        <3>5. \A j, k \in 1 .. c : j < k => g[j] < g[k]
            <4> SUFFICES ASSUME NEW j \in 1 .. c, NEW k \in 1 .. c, j < k
                         PROVE  g[j] < g[k]
                OBVIOUS
            <4> HIDE DEF c, U
            <4>1. j # c /\ g[j] = f[j] /\ f[j] \in U
                BY <3>1, <3>3
            <4>2. CASE k = c
                <5>1. g[k] = n
                    BY <4>2
                <5>2. f[j] \in 1 .. n - 1
                    BY <2>1, <4>1
                <5> QED  BY <1>4, <4>1, <5>1, <5>2
            <4>3. CASE k # c
                BY <3>2, <3>3, <4>1, <4>3
            <4> QED  BY <4>2, <4>3
        <3>6. Ok(T)
            <4> HIDE DEF g
            <4> QED  BY <3>4, <3>5
        <3> HIDE DEF Ok
        <3> QED  BY <1>3, <3>6
    <2> QED  BY <2>3, <2>4
<1> QED  BY <1>6, <1>7

LEMMA AscendingKeys ==
    ASSUME NEW b \in Nat, NEW S \in SUBSET (1 .. b)
    PROVE  /\ Cardinality(S) \in Nat
           /\ Ascending(S) \in [1 .. Cardinality(S) -> S]
           /\ Ascending(S) \in Seq(S)
           /\ \A j, k \in 1 .. Cardinality(S) : j < k => Ascending(S)[j] < Ascending(S)[k]
<1>1. Cardinality(S) \in Nat
    <2>1. IsFiniteSet(1 .. b)
        BY FS_Interval
    <2> QED  BY <2>1, FS_Subset, FS_CardinalityType
<1>2. \E f \in [1 .. Cardinality(S) -> S] :
          \A j, k \in 1 .. Cardinality(S) : j < k => f[j] < f[k]
    BY AscendingExists
<1>3. /\ Ascending(S) \in [1 .. Cardinality(S) -> S]
      /\ \A j, k \in 1 .. Cardinality(S) : j < k => Ascending(S)[j] < Ascending(S)[k]
    BY <1>2 DEF Ascending
<1> QED  BY <1>1, <1>3

LEMMA Joined ==
    ASSUME NEW S, NEW q \in Seq(S), NEW T, NEW r \in Seq(T)
    PROVE  /\ q \o r \in Seq(S \cup T)
           /\ Len(q \o r) = Len(q) + Len(r)
           /\ \A n \in DOMAIN (q \o r) : (\E k \in DOMAIN q : (q \o r)[n] = q[k])
                                      \/ (\E k \in DOMAIN r : (q \o r)[n] = r[k])
<1>1. q \in Seq(S \cup T) /\ r \in Seq(S \cup T)
    OBVIOUS
<1>2. \A n \in 1 .. Len(q) + Len(r) :
          (q \o r)[n] = IF n <= Len(q) THEN q[n] ELSE r[n - Len(q)]
    BY <1>1
<1>3. Len(q) \in Nat /\ Len(r) \in Nat
    OBVIOUS
<1>4. \A n \in 1 .. Len(q) + Len(r) : n <= Len(q) => n \in DOMAIN q
    BY <1>3
<1>5. \A n \in 1 .. Len(q) + Len(r) : ~ (n <= Len(q)) => n - Len(q) \in DOMAIN r
    BY <1>3
<1>6. q \o r \in Seq(S \cup T) /\ Len(q \o r) = Len(q) + Len(r)
      /\ DOMAIN (q \o r) = 1 .. Len(q) + Len(r)
    BY <1>1
<1> QED  BY <1>2, <1>4, <1>5, <1>6

-----------------------------------------------------------------------------
(* The replay of the frozen results.                                       *)

LEMMA SameContest ==
    ASSUME contest' = contest
    PROVE  \A p : Subs(p)' = Subs(p) /\ Visible(p)' = Visible(p) /\ First(p)' = First(p)
BY DEF Subs, Visible, Opened, First, Single

LEMMA BoardFacts ==
    ASSUME BoardInv
    PROVE  /\ contest \in Contests /\ IsOrder(arr) /\ arr \in [User -> User]
           /\ score \in [User -> Nat] /\ DOMAIN got = User
           /\ \A u \in User : \A p \in Problem :
                 /\ DOMAIN got[u] = Problem /\ got[u][p] \in [Subs(p) -> Nat]
                 /\ Total(got[u][p]) \in Nat
                 /\ \A s \in Subs(p) : /\ got[u][p][s] \in Nat
                                       /\ got[u][p][s] <= contest.points[u][p][s]
<1>1. contest \in Contests /\ IsOrder(arr) /\ score \in [User -> Nat]
    BY DEF BoardInv, TypeInv
<1>2. /\ DOMAIN got = User
      /\ \A u \in User : \A p \in Problem :
            /\ DOMAIN got[u] = Problem /\ got[u][p] \in [Subs(p) -> Nat]
            /\ \A s \in Subs(p) : got[u][p][s] <= contest.points[u][p][s]
    BY DEF BoardInv, GotInv
<1>3. \A u \in User : \A p \in Problem : Total(got[u][p]) \in Nat
    <2> TAKE u \in User
    <2> TAKE p \in Problem
    <2>1. IsFiniteSet(Subs(p)) /\ got[u][p] \in [Subs(p) -> Nat]
        BY <1>1, <1>2, ContestFacts
    <2> QED  BY <2>1, TotalNat
<1>4. \A u \in User : \A p \in Problem : \A s \in Subs(p) : got[u][p][s] \in Nat
    BY <1>2
<1> QED  BY <1>1, <1>2, <1>3, <1>4 DEF IsOrder

\* A change of one problem's points, and the gain in the score.
GainStep(u, p, new) ==
    /\ contest' = contest
    /\ new \in [Subs(p) -> Nat]
    /\ \A s \in Subs(p) : got[u][p][s] <= new[s] /\ new[s] <= contest.points[u][p][s]
    /\ got' = [got EXCEPT ![u][p] = new]
    /\ score' = [score EXCEPT ![u] = @ + Gain(Total(got[u][p]), Total(new))]

LEMMA GainKeepsSums ==
    ASSUME BoardInv, NEW u \in User, NEW p \in Problem, NEW new, GainStep(u, p, new)
    PROVE  /\ score' \in [User -> Nat] /\ score'[u] >= score[u]
           /\ \A v \in User : v # u => score'[v] = score[v]
           /\ \A v \in User : \A q \in Problem :
                 got'[v][q] = IF v = u /\ q = p THEN new ELSE got[v][q]
           /\ GotInv' /\ SumsInv'
           /\ Total(new) \in Nat
<1> USE DEF GainStep
<1>1. /\ score \in [User -> Nat] /\ DOMAIN got = User
      /\ \A v \in User : \A q \in Problem :
            /\ DOMAIN got[v] = Problem /\ got[v][q] \in [Subs(q) -> Nat]
            /\ Total(got[v][q]) \in Nat
    BY BoardFacts
<1>2. Total(new) \in Nat /\ Total(got[u][p]) <= Total(new)
    <2>1. IsFiniteSet(Subs(p)) /\ got[u][p] \in [Subs(p) -> Nat]
        BY BoardFacts, ContestFacts
    <2> QED  BY <2>1, TotalNat, TotalGrows
<1>3. Gain(Total(got[u][p]), Total(new)) = Total(new) - Total(got[u][p])
    BY <1>1, <1>2 DEF Gain
<1>4. /\ score' \in [User -> Nat] /\ score'[u] = score[u] + Total(new) - Total(got[u][p])
      /\ \A v \in User : v # u => score'[v] = score[v]
    <2>1. score[u] \in Nat /\ Total(got[u][p]) \in Nat
        BY <1>1
    <2> DEFINE g == Gain(Total(got[u][p]), Total(new))
    <2>2. g = Total(new) - Total(got[u][p])
        BY <1>3
    <2>3. g \in Nat
        BY <1>2, <2>1, <2>2
    <2>4. score' = [score EXCEPT ![u] = @ + g]
        OBVIOUS
    <2> HIDE DEF g
    <2>5. score'[u] = score[u] + g /\ score' \in [User -> Nat]
        BY <1>1, <2>1, <2>3, <2>4
    <2>6. score[u] + g = score[u] + Total(new) - Total(got[u][p])
        BY <1>2, <2>1, <2>2
    <2> QED  BY <1>1, <2>4, <2>5, <2>6
<1>5. score'[u] >= score[u]
    <2>1. score[u] \in Nat /\ Total(got[u][p]) \in Nat
        BY <1>1
    <2> QED  BY <1>2, <1>4, <2>1
<1>6. /\ DOMAIN got' = User
      /\ \A v \in User : DOMAIN got'[v] = Problem
      /\ \A v \in User : v # u => got'[v] = got[v]
      /\ \A q \in Problem : q # p => got'[u][q] = got[u][q]
      /\ got'[u][p] = new
    BY <1>1
<1>7. \A v \in User : \A q \in Problem :
          got'[v][q] = IF v = u /\ q = p THEN new ELSE got[v][q]
    BY <1>6
<1>8. GotInv'
    <2>1. \A v \in User : \A q \in Problem :
              /\ got'[v][q] \in [Subs(q) -> Nat]
              /\ \A s \in Subs(q) : got'[v][q][s] <= contest.points[v][q][s]
        <3> TAKE v \in User
        <3> TAKE q \in Problem
        <3>1. CASE v = u /\ q = p
            BY <1>6, <3>1
        <3>2. CASE ~ (v = u /\ q = p)
            <4>1. got'[v][q] = got[v][q]
                BY <1>7, <3>2
            <4> QED  BY <4>1, BoardFacts
        <3> QED  BY <3>1, <3>2
    <2> QED  BY <1>6, <2>1, SameContest DEF GotInv
<1>9. SumsInv'
    <2> SUFFICES ASSUME NEW v \in User
                 PROVE  score'[v] = Points(got'[v])
        BY DEF SumsInv, Points
    <2>1. score[v] = Points(got[v])
        BY DEF BoardInv, SumsInv
    <2>2. CASE v # u
        BY <1>4, <1>6, <2>1, <2>2
    <2>3. CASE v = u
        <3> DEFINE row == got[u]
                   row2 == got'[u]
        <3>1. \A q \in Problem : Total(row[q]) \in Nat
            BY <1>1
        <3>2. \A q \in Problem : q # p => row2[q] = row[q]
            BY <1>6
        <3>3. row2[p] = new
            BY <1>6
        <3>4. \A q \in Problem : Total(row2[q]) \in Nat
            <4> TAKE q \in Problem
            <4>1. CASE q = p
                BY <1>2, <3>3, <4>1
            <4>2. CASE q # p
                BY <3>1, <3>2, <4>2
            <4> QED  BY <4>1, <4>2
        <3> HIDE DEF row, row2
        <3>5. Points(row2) = Points(row) + Total(row2[p]) - Total(row[p])
            BY <3>1, <3>2, <3>4, PointsChange
        <3>6. Points(row2) = score[u] + Total(new) - Total(got[u][p])
            BY <2>1, <2>3, <3>3, <3>5 DEF row
        <3> QED  BY <1>4, <2>3, <3>6 DEF row2
    <2> QED  BY <2>2, <2>3
<1> QED  BY <1>2, <1>4, <1>5, <1>7, <1>8, <1>9

LEMMA ThawKeeps ==
    ASSUME BoardInv, Thaw
    PROVE  BoardInv' /\ ops' # << >>
<1> DEFINE u == arr[place]
           p == Min(FrozenAt(place))
           old == got[u][p]
           new == [s \in Subs(p) |-> IF s \in Visible(p) THEN contest.points[u][p][s] ELSE 0]
           told == Ascending({s \in Visible(p) : old[s] # contest.full[p][s]})
           gain == Gain(Total(old), Total(new))
           pts == [score EXCEPT ![u] = @ + gain]
           passed == {v \in User : pts[v] < pts[u]}
           lift == Lift(arr, place, passed)
           subs == [n \in DOMAIN told |-> SubOp(u, p, told[n], old[told[n]], new[told[n]])]
           problem == <<ProblemOp(u, p, Total(old), Total(new), place, lift[1])>>
<1>1. /\ place > 0 /\ FrozenAt(place) # {}
      /\ arr' = lift[2] /\ score' = pts /\ got' = [got EXCEPT ![u][p] = new]
      /\ frozen' = frozen \ {<<u, p>>}
      /\ ops' = ops \o subs \o problem
      /\ contest' = contest /\ check' = check /\ isshow' = isshow /\ delay' = delay
      /\ curop' = curop /\ autopress' = autopress /\ timers' = timers /\ page' = page
      /\ hurried' = hurried /\ place' = place
    BY DEF Thaw, Unloaded
<1>2. TypeInv /\ GotInv /\ SortedInv /\ LoadInv /\ ShownInv /\ contest \in Contests
    BY DEF BoardInv, TypeInv
<1>3. place \in User /\ place \in Nat /\ arr \in [User -> User] /\ IsOrder(arr)
    <2>1. place \in 0 .. Users
        BY <1>2 DEF TypeInv
    <2>2. place > 0
        BY DEF Thaw
    <2>3. place \in User /\ place \in Nat
        BY <2>1, <2>2, UserFacts
    <2> QED  BY <2>3, BoardFacts
<1>4. u \in User
    BY <1>3
<1>5. p \in Problem /\ <<u, p>> \in frozen
    <2>1. FrozenAt(place) \in SUBSET Nat
        BY DEF FrozenAt, Problem
    <2>2. p \in FrozenAt(place)
        BY <1>1, <2>1, MinIsLeast
    <2> QED  BY <2>2 DEF FrozenAt
<1> HIDE DEF u, p
<1>6. /\ new \in [Subs(p) -> Nat]
      /\ \A s \in Subs(p) : got[u][p][s] <= new[s] /\ new[s] <= contest.points[u][p][s]
      /\ \A s \in Visible(p) : new[s] = contest.points[u][p][s]
      /\ \A s \in Subs(p) \ Visible(p) : new[s] = 0
    <2>1. \A s \in Subs(p) : /\ contest.points[u][p][s] \in Nat
                             /\ got[u][p][s] \in Nat /\ got[u][p][s] <= contest.points[u][p][s]
        BY <1>2, <1>4, <1>5, ContestFacts, BoardFacts
    <2>2. \A s \in Subs(p) \ Visible(p) : got[u][p][s] = 0
        BY <1>1, <1>2, <1>4, <1>5 DEF LoadInv
    <2>3. Visible(p) \subseteq Subs(p)
        BY <1>2, <1>5, ContestFacts
    <2>4. \A s \in Subs(p) : new[s] = IF s \in Visible(p) THEN contest.points[u][p][s] ELSE 0
        OBVIOUS
    <2>5. new \in [Subs(p) -> Nat]
        BY <2>1
    <2> HIDE DEF new
    <2> QED  BY <2>1, <2>2, <2>3, <2>4, <2>5
<1> HIDE DEF new
<1>7. /\ score' \in [User -> Nat] /\ score'[u] >= score[u]
      /\ \A v \in User : v # u => score'[v] = score[v]
      /\ \A v \in User : \A q \in Problem :
            got'[v][q] = IF v = u /\ q = p THEN new ELSE got[v][q]
      /\ GotInv' /\ SumsInv'
    <2>1. score' = [score EXCEPT ![u] = @ + Gain(Total(got[u][p]), Total(new))]
        BY <1>1
    <2>2. got' = [got EXCEPT ![u][p] = new] /\ contest' = contest
        BY <1>1
    <2> HIDE DEF old, told, gain, pts, passed, lift, subs, problem
    <2>3. GainStep(u, p, new)
        BY <1>6, <2>1, <2>2 DEF GainStep
    <2> QED  BY <1>4, <1>5, <2>3, GainKeepsSums
<1>8. /\ lift[1] \in 1 .. place /\ IsOrder(arr')
      /\ \A k \in User : k > place => arr'[k] = arr[k]
    <2> HIDE DEF old, told, gain, pts, passed, subs, problem
    <2> QED  BY <1>1, <1>3, LiftKeepsUsers
<1>9. SortedInv'
    <2> DEFINE sc == score
    <2>1. arr[place] = u /\ pts = score'
        BY <1>1 DEF u
    <2>2. \A v \in User : v \in passed <=> score'[v] < score'[u]
        BY <1>1
    <2>3. \A v \in User : score'[v] \in Nat
        BY <1>7
    <2>4. \A v \in User : v # u /\ v \in passed => score'[v] <= score'[u]
        BY <1>4, <2>2, <2>3
    <2>5. \A v \in User : v # u /\ v \notin passed => score'[v] >= score'[u]
        BY <1>4, <2>2, <2>3
    <2>6. \A k \in User \ {Users} : score[arr[k]] >= score[arr[k + 1]]
        BY <1>2 DEF SortedInv
    <2> HIDE DEF passed, pts
    <2>7. \A k \in User \ {Users} : score'[lift[2][k]] >= score'[lift[2][k + 1]]
        BY <1>2, <1>3, <1>7, <2>1, <2>4, <2>5, <2>6, RiseSorted, BoardFacts
    <2> QED  BY <1>1, <2>7 DEF SortedInv
<1>10. (\E S : ops' \in Seq(S)) /\ (\A n \in DOMAIN ops' : OpOK(ops'[n])) /\ ops' # << >>
    <2> DEFINE m == Cardinality({s \in Visible(p) : old[s] # contest.full[p][s]})
    <2>1. DOMAIN told = 1 .. m /\ m \in Nat
        <3>1. contest.subs[p] \in Nat /\ Subs(p) = 1 .. contest.subs[p]
              /\ Visible(p) \subseteq Subs(p)
            BY <1>2, <1>5, ContestFacts DEF Subs
        <3>2. {s \in Visible(p) : old[s] # contest.full[p][s]} \in SUBSET (1 .. contest.subs[p])
            BY <3>1
        <3> QED  BY <3>1, <3>2, AscendingKeys
    <2> HIDE DEF told, m
    <2> DEFINE T == {subs[n] : n \in 1 .. m}
    <2>2. subs \in Seq(T)
        BY <2>1
    <2>3. problem \in Seq({problem[1]}) /\ DOMAIN problem = {1} /\ Len(problem) = 1
        OBVIOUS
    <2>4. \A n \in DOMAIN subs : OpOK(subs[n])
        BY DEF OpOK, SubOp
    <2>5. OpOK(problem[1])
        <3>1. lift[1] \in User
            BY <1>3, <1>8, UserFacts
        <3> HIDE DEF lift
        <3> QED  BY <1>3, <1>4, <3>1 DEF OpOK, ProblemOp
    <2>6. PICK S : ops \in Seq(S)
        BY <1>2 DEF TypeInv
    <2>7. \A n \in DOMAIN ops : OpOK(ops[n])
        BY <1>2 DEF TypeInv
    <2> HIDE DEF subs, problem, T
    <2>8. /\ ops \o subs \in Seq(S \cup T)
          /\ \A n \in DOMAIN (ops \o subs) : OpOK((ops \o subs)[n])
        BY <2>2, <2>4, <2>6, <2>7, Joined
    <2> DEFINE both == ops \o subs
    <2>9. both \in Seq(S \cup T) /\ \A n \in DOMAIN both : OpOK(both[n])
        BY <2>8
    <2>10. ops' = both \o problem
        BY <1>1
    <2> HIDE DEF both
    <2> DEFINE A == S \cup T
               B == {problem[1]}
               all == both \o problem
    <2>15. both \in Seq(A) /\ problem \in Seq(B)
        BY <2>3, <2>9
    <2> HIDE DEF A, B
    <2>16. /\ both \o problem \in Seq(A \cup B) /\ Len(both \o problem) = Len(both) + Len(problem)
           /\ \A n \in DOMAIN (both \o problem) :
                 \/ \E k \in DOMAIN both : (both \o problem)[n] = both[k]
                 \/ \E k \in DOMAIN problem : (both \o problem)[n] = problem[k]
        BY <2>15, Joined
    <2> HIDE DEF all
    <2>17. \A n \in DOMAIN all : OpOK(all[n])
        <3> TAKE n \in DOMAIN all
        <3>1. CASE \E k \in DOMAIN both : all[n] = both[k]
            BY <2>9, <3>1
        <3>2. CASE \E k \in DOMAIN problem : all[n] = problem[k]
            BY <2>3, <2>5, <3>2
        <3> QED  BY <2>16, <3>1, <3>2 DEF all
    <2>11. /\ both \o problem \in Seq(A \cup B)
           /\ \A n \in DOMAIN (both \o problem) : OpOK((both \o problem)[n])
           /\ Len(both \o problem) = Len(both) + 1
        BY <2>3, <2>16, <2>17 DEF all
    <2>12. Len(both) \in Nat
        BY <2>9
    <2>13. Len(both \o problem) # 0
        BY <2>11, <2>12
    <2>14. both \o problem # << >>
        BY <2>13
    <2> QED  BY <2>10, <2>11, <2>14
<1>11. TypeInv'
    <2>1. frozen' \subseteq User \X Problem
        BY <1>1, <1>2 DEF TypeInv
    <2> HIDE DEF old, told, gain, pts, passed, lift, subs, problem
    <2>2. \A n \in DOMAIN ops' : OpOK(ops[n])'
        BY <1>10 DEF OpOK
    <2>3. IsOrder(arr)'
        BY <1>8 DEF IsOrder
    <2> QED  BY <1>1, <1>2, <1>7, <1>10, <2>1, <2>2, <2>3 DEF TypeInv
<1> HIDE DEF lift, pts, passed, gain, subs, problem, told, old
<1>12. LoadInv'
    <2>1. \A i \in User : i > place => FrozenAt(i)' = {}
        <3> TAKE i \in User
        <3>1. i > place => FrozenAt(i) = {} /\ arr'[i] = arr[i]
            BY <1>2, <1>8 DEF LoadInv
        <3> QED  BY <1>1, <3>1 DEF FrozenAt
    <2>2. \A v \in User : \A q \in Problem : \A s \in Subs(q) \ Visible(q) :
              /\ got'[v][q][s] = 0
              /\ <<q, s>> \notin check[v] /\ <<q, LIST>> \notin check[v]
        <3> TAKE v \in User
        <3> TAKE q \in Problem
        <3> TAKE s \in Subs(q) \ Visible(q)
        <3>1. /\ got[v][q][s] = 0
              /\ <<q, s>> \notin check[v] /\ <<q, LIST>> \notin check[v]
            BY <1>1, <1>2 DEF LoadInv
        <3>2. CASE v = u /\ q = p
            BY <1>6, <1>7, <3>1, <3>2
        <3>3. CASE ~ (v = u /\ q = p)
            <4>1. got'[v][q] = got[v][q]
                BY <1>7, <3>3
            <4> QED  BY <3>1, <4>1
        <3> QED  BY <3>2, <3>3
    <2>3. isshow' = {} /\ timers' = << >>
        BY <1>1, <1>2 DEF LoadInv
    <2> QED  BY <1>1, <2>1, <2>2, <2>3, SameContest DEF LoadInv
<1>13. ShownInv'
    <2> SUFFICES ASSUME NEW v \in User, NEW q \in contest.has[v], NEW s \in Subs(q)
                 PROVE  /\ s \in Visible(q) /\ <<v, q>> \notin frozen'
                              => got'[v][q][s] = contest.points[v][q][s]
                        /\ s \notin Visible(q)
                              => <<q, s>> \notin check[v] /\ <<q, LIST>> \notin check[v]
        <3>1. \A a, b, c : Settled(a, b, c)' =>
                  (c \in Visible(b) /\ <<a, b>> \notin frozen')
                  \/ (c \notin Visible(b) /\ (<<b, c>> \in check[a] \/ <<b, LIST>> \in check[a]))
            BY <1>1, SameContest DEF Settled, Revealed
        <3>2. contest' = contest /\ \A b : Subs(b)' = Subs(b)
            BY <1>1, SameContest
        <3> QED  BY <3>1, <3>2 DEF ShownInv
    <2>1. q \in Problem
        BY <1>2, ContestFacts
    <2>2. s \notin Visible(q) => <<q, s>> \notin check[v] /\ <<q, LIST>> \notin check[v]
        BY <1>1, <1>2, <2>1 DEF LoadInv
    <2>3. ASSUME s \in Visible(q), <<v, q>> \notin frozen'
          PROVE  got'[v][q][s] = contest.points[v][q][s]
        <3>1. CASE v = u /\ q = p
            BY <1>6, <1>7, <2>1, <2>3, <3>1
        <3>2. CASE ~ (v = u /\ q = p)
            <4>1. got'[v][q] = got[v][q] /\ <<v, q>> \notin frozen
                BY <1>1, <1>7, <2>1, <2>3, <3>2
            <4> QED  BY <1>2, <2>3, <4>1 DEF ShownInv, Settled
        <3> QED  BY <3>1, <3>2
    <2> QED  BY <2>2, <2>3
<1>14. AnnouncedInv'
    <2>1. isshow' = {}
        BY <1>1, <1>2 DEF LoadInv
    <2> QED  BY <2>1 DEF AnnouncedInv
<1> QED  BY <1>7, <1>9, <1>10, <1>11, <1>12, <1>13, <1>14 DEF BoardInv

LEMMA NextPlaceKeeps ==
    ASSUME BoardInv, NextPlace
    PROVE  BoardInv'
<1>1. /\ place > 0 /\ FrozenAt(place) = {} /\ place' = place - 1
      /\ arr' = arr /\ score' = score /\ got' = got /\ frozen' = frozen /\ ops' = ops
      /\ contest' = contest /\ check' = check /\ isshow' = isshow /\ delay' = delay
      /\ curop' = curop /\ autopress' = autopress /\ timers' = timers /\ page' = page
      /\ hurried' = hurried
    BY DEF NextPlace, Unloaded
<1>2. place \in 0 .. Users /\ place' \in 0 .. Users
    BY <1>1, UserFacts DEF BoardInv, TypeInv
<1>3. TypeInv'
    <2>1. TypeInv
        BY DEF BoardInv
    <2> QED  BY <1>1, <1>2, <2>1 DEF TypeInv, IsOrder, OpOK
<1>4. \A p : Subs(p)' = Subs(p) /\ Visible(p)' = Visible(p) /\ First(p)' = First(p)
    BY <1>1, SameContest
<1>6. GotInv' /\ SumsInv' /\ SortedInv'
    BY <1>1, <1>4 DEF BoardInv, GotInv, SumsInv, SortedInv, Points
<1>7. LoadInv'
    <2>1. \A i \in User : i > place' => FrozenAt(i)' = {}
        <3> TAKE i \in User
        <3>1. FrozenAt(i)' = FrozenAt(i)
            BY <1>1 DEF FrozenAt
        <3>2. i > place' => i > place \/ i = place
            BY <1>1, <1>2, UserFacts
        <3> QED  BY <1>1, <3>1, <3>2 DEF BoardInv, LoadInv
    <2> QED  BY <1>1, <1>4, <2>1 DEF BoardInv, LoadInv
<1>8. ShownInv'
    <2>1. \A a, b, c : Settled(a, b, c)' = Settled(a, b, c)
        BY <1>1, <1>4 DEF Settled, Revealed
    <2>2. ShownInv
        BY DEF BoardInv
    <2> QED  BY <1>1, <1>4, <2>1, <2>2 DEF ShownInv
<1>9. AnnouncedInv'
    <2>1. isshow' = {}
        BY <1>1 DEF BoardInv, LoadInv
    <2> QED  BY <2>1 DEF AnnouncedInv
<1> QED  BY <1>3, <1>6, <1>7, <1>8, <1>9 DEF BoardInv

-----------------------------------------------------------------------------
(* Keys, clicks and timers.                                                *)

LEMMA SameBoard ==
    ASSUME BoardInv, Loaded,
           contest' = contest /\ arr' = arr /\ score' = score /\ got' = got /\ place' = place,
           frozen' = frozen /\ check' = check /\ isshow' = isshow
    PROVE  GotInv' /\ SumsInv' /\ SortedInv' /\ LoadInv' /\ ShownInv' /\ AnnouncedInv'
<1>1. \A p : Subs(p)' = Subs(p) /\ Visible(p)' = Visible(p) /\ First(p)' = First(p)
    BY SameContest
<1>2. GotInv' /\ SumsInv' /\ SortedInv'
    BY <1>1 DEF BoardInv, GotInv, SumsInv, SortedInv, Points
<1>3. LoadInv'
    <2>1. \A i \in User : FrozenAt(i)' = FrozenAt(i)
        BY DEF FrozenAt
    <2>2. place' = 0 /\ ~ (place' > 0)
        BY DEF Loaded
    <2> QED  BY <2>1, <2>2 DEF BoardInv, LoadInv
<1>4. ShownInv'
    <2>1. \A a, b, c : Settled(a, b, c)' = Settled(a, b, c)
        BY <1>1 DEF Settled, Revealed
    <2>2. ShownInv
        BY DEF BoardInv
    <2> QED  BY <1>1, <2>1, <2>2 DEF ShownInv
<1>5. AnnouncedInv'
    <2>1. \A u \in isshow : Done(u)' = Done(u)
        BY <1>1 DEF Done
    <2> QED  BY <2>1 DEF BoardInv, AnnouncedInv
<1> QED  BY <1>2, <1>3, <1>4, <1>5

LEMMA CallbacksAreABatch ==
    ASSUME NEW n \in Nat, n # 0
    PROVE  Callbacks(n) \in Batch /\ Len(Callbacks(n)) = 2 * n
<1>1. Callbacks(n) \in [1 .. 2 * n -> {"select", "apply"}]
    BY DEF Callbacks
<1>2. 2 * n \in Nat /\ 2 * n # 0
    OBVIOUS
<1> HIDE DEF Callbacks
<1> DEFINE m == 2 * n
<1> HIDE DEF m
<1>3. Callbacks(n) \in [1 .. m -> {"select", "apply"}] /\ m \in Nat /\ m # 0
    BY <1>1, <1>2 DEF m
<1>4. Callbacks(n) \in Seq({"select", "apply"}) /\ Len(Callbacks(n)) = m
    BY <1>3
<1>5. Callbacks(n) # << >>
    BY <1>3, <1>4
<1> QED  BY <1>4, <1>5 DEF Batch, m

LEMMA LaunchTypes ==
    ASSUME TypeInv, NEW new, NEW S, new \in Seq(S), \A n \in DOMAIN new : OpOK(new[n]), Launch(new)
    PROVE  /\ ops' = new /\ timers' \in Seq(Batch) /\ curop' \in Nat \cup {-1} /\ hurried' \in Nat
           /\ (\E T : ops' \in Seq(T)) /\ \A n \in DOMAIN ops' : OpOK(ops'[n])
<1>1. Len(new) \in Nat /\ timers \in Seq(Batch) /\ hurried \in Nat
    BY DEF TypeInv
<1>2. timers' \in Seq(Batch)
    <2>1. CASE Len(new) = 0
        BY <1>1, <2>1 DEF Launch
    <2>2. CASE Len(new) = 1
        <3>1. <<"apply">> \in Seq({"select", "apply"}) /\ Len(<<"apply">>) = 1
            OBVIOUS
        <3>2. <<"apply">> \in Batch
            BY <3>1 DEF Batch
        <3>3. timers' = Append(timers, <<"apply">>)
            BY <2>2 DEF Launch
        <3> QED  BY <1>1, <3>2, <3>3
    <2>3. CASE Len(new) # 0 /\ Len(new) # 1
        <3>1. Callbacks(Len(new)) \in Batch
            BY <1>1, <2>3, CallbacksAreABatch
        <3>2. timers' = Append(timers, Callbacks(Len(new)))
            BY <2>3 DEF Launch
        <3> QED  BY <1>1, <3>1, <3>2
    <2> QED  BY <2>1, <2>2, <2>3
<1>3. ops' = new /\ curop' \in Nat \cup {-1} /\ hurried' \in Nat
    BY <1>1 DEF Launch
<1> QED  BY <1>2, <1>3

LEMMA PressAKeeps ==
    ASSUME BoardInv, PressA
    PROVE  BoardInv'
<1>1. /\ Loaded /\ autopress' = TRUE
      /\ timers' = IF ops = << >> THEN timers ELSE Append(timers, Callbacks(Len(ops)))
      /\ hurried' = IF timers = << >> THEN hurried ELSE hurried + 1
      /\ UNCHANGED <<contest, arr, score, got, place, frozen, check, isshow, delay, ops, curop, page>>
    BY DEF PressA
<1>2. TypeInv
    BY DEF BoardInv
<1>3. timers' \in Seq(Batch)
    <2>1. timers \in Seq(Batch)
        BY <1>2 DEF TypeInv
    <2>2. PICK S : ops \in Seq(S)
        BY <1>2 DEF TypeInv
    <2>3. ops # << >> => Len(ops) \in Nat /\ Len(ops) # 0
        BY <2>2
    <2>4. ops # << >> => Callbacks(Len(ops)) \in Batch
        BY <2>3, CallbacksAreABatch
    <2> QED  BY <1>1, <2>1, <2>4
<1>4. hurried' \in Nat
    BY <1>1, <1>2 DEF TypeInv
<1>5. TypeInv'
    BY <1>1, <1>2, <1>3, <1>4 DEF TypeInv, IsOrder, OpOK
<1> QED  BY <1>1, <1>5, SameBoard DEF BoardInv

LEMMA RemoveAtProperties ==
    ASSUME NEW S, NEW q \in Seq(S), NEW i \in 1 .. Len(q)
    PROVE  /\ RemoveAt(q, i) \in Seq(S)
           /\ Len(RemoveAt(q, i)) = Len(q) - 1
           /\ DOMAIN RemoveAt(q, i) = 1 .. Len(q) - 1
           /\ \A k \in 1 .. Len(q) - 1 : RemoveAt(q, i)[k] = IF k < i THEN q[k] ELSE q[k + 1]
<1> DEFINE a == SubSeq(q, 1, i - 1)
           b == SubSeq(q, i + 1, Len(q))
<1>1. /\ a \in Seq(S) /\ Len(a) = i - 1
      /\ \A k \in 1 .. i - 1 : a[k] = q[k]
    <2>1. \A k \in 1 .. i - 1 : q[k] \in S
        BY ElementOfSeq
    <2>2. i - 1 - 1 + 1 = i - 1 /\ \A k \in Int : 1 + k - 1 = k
        OBVIOUS
    <2> QED  BY <2>1, <2>2, SubSeqProperties
<1>2. /\ b \in Seq(S) /\ Len(b) = Len(q) - i
      /\ \A k \in 1 .. Len(q) - i : b[k] = q[i + k]
    <2>1. \A k \in i + 1 .. Len(q) : q[k] \in S
        BY ElementOfSeq
    <2>2. Len(q) \in Nat
        BY LenProperties
    <2>3. /\ b \in Seq(S)
          /\ Len(b) = IF i + 1 <= Len(q) THEN Len(q) - (i + 1) + 1 ELSE 0
          /\ \A k \in 1 .. Len(q) - (i + 1) + 1 : b[k] = q[i + 1 + k - 1]
        <3>1. i + 1 \in Int /\ Len(q) \in Int
            BY <2>2
        <3> QED  BY <2>1, <3>1, SubSeqProperties
    <2> HIDE DEF b
    <2>4. Len(b) = Len(q) - i
        BY <2>2, <2>3
    <2>5. ASSUME NEW k \in 1 .. Len(q) - i
          PROVE  b[k] = q[i + k]
        <3>1. i + 1 + k - 1 = i + k /\ k \in 1 .. Len(q) - (i + 1) + 1
            BY <2>2
        <3> QED  BY <2>3, <3>1
    <2> QED  BY <2>3, <2>4, <2>5
<1>3. RemoveAt(q, i) = a \o b
    BY DEF RemoveAt
<1>4. /\ a \o b \in Seq(S) /\ Len(a \o b) = Len(a) + Len(b)
      /\ \A k \in 1 .. Len(a) + Len(b) :
            (a \o b)[k] = IF k <= Len(a) THEN a[k] ELSE b[k - Len(a)]
    BY <1>1, <1>2, ConcatProperties
<1>5. Len(q) \in Nat
    BY LenProperties
<1> HIDE DEF a, b
<1>6. Len(a \o b) = Len(q) - 1
    BY <1>1, <1>2, <1>4, <1>5
<1>7. DOMAIN (a \o b) = 1 .. Len(q) - 1
    BY <1>4, <1>6, LenProperties
<1>8. ASSUME NEW k \in 1 .. Len(q) - 1
      PROVE  (a \o b)[k] = IF k < i THEN q[k] ELSE q[k + 1]
    <2>1. k \in 1 .. Len(a) + Len(b)
        BY <1>1, <1>2, <1>5
    <2>2. CASE k < i
        <3>1. k <= Len(a) /\ k \in 1 .. i - 1
            BY <1>1, <2>2
        <3> QED  BY <1>1, <1>4, <2>1, <2>2, <3>1
    <2>3. CASE ~(k < i)
        <3>1. ~(k <= Len(a)) /\ k - Len(a) \in 1 .. Len(q) - i /\ i + (k - Len(a)) = k + 1
            BY <1>1, <1>5, <2>3
        <3> QED  BY <1>2, <1>4, <2>1, <2>3, <3>1
    <2> QED  BY <2>2, <2>3
<1> QED  BY <1>3, <1>4, <1>6, <1>7, <1>8

LEMMA FireTypes ==
    ASSUME TypeInv, NEW b \in DOMAIN timers, Fire(b)
    PROVE  /\ timers' \in Seq(Batch) /\ curop' \in Nat \cup {-1}
           /\ DOMAIN page' = {"rank", "score", "got", "problem"} /\ page'.rank \in [User -> User]
<1>1. timers \in Seq(Batch) /\ b \in 1 .. Len(timers) /\ timers[b] \in Batch
    <2>1. timers \in Seq(Batch)
        BY DEF TypeInv
    <2>2. b \in 1 .. Len(timers)
        BY <2>1
    <2> QED  BY <2>1, <2>2, ElementOfSeq
<1>2. timers' \in Seq(Batch)
    <2>1. CASE Len(timers[b]) = 1
        BY <1>1, <2>1, RemoveAtProperties DEF Fire
    <2>2. CASE Len(timers[b]) # 1
        <3>1. /\ timers[b] \in Seq({"select", "apply"}) /\ timers[b] # << >>
              /\ Len(timers[b]) \in Nat
            BY <1>1 DEF Batch
        <3>2. Tail(timers[b]) \in Seq({"select", "apply"}) /\ Len(Tail(timers[b])) = Len(timers[b]) - 1
            BY <3>1
        <3>3. Tail(timers[b]) \in Batch
            <4> DEFINE rest == Tail(timers[b])
            <4>1. rest \in Seq({"select", "apply"}) /\ Len(rest) # 0
                <5>1. Len(timers[b]) # 0
                    BY <3>1
                <5> QED  BY <2>2, <3>1, <3>2, <5>1
            <4> HIDE DEF rest
            <4>2. rest # << >>
                BY <4>1
            <4>3. rest \in Batch
                BY <4>1, <4>2 DEF Batch
            <4> QED  BY <4>3 DEF rest
        <3>4. timers' = [timers EXCEPT ![b] = Tail(timers[b])]
            BY <2>2 DEF Fire
        <3> QED  BY <1>1, <3>3, <3>4
    <2> QED  BY <2>1, <2>2
<1>3. curop' \in Nat \cup {-1}
    <2>1. curop' = curop + 1 \/ curop' = curop
        BY DEF Fire
    <2>2. curop \in Nat \cup {-1}
        BY DEF TypeInv
    <2> QED  BY <2>1, <2>2
<1>4. DOMAIN page = {"rank", "score", "got", "problem"} /\ page.rank \in [User -> User]
    BY DEF TypeInv
<1>5. DOMAIN page' = {"rank", "score", "got", "problem"} /\ page'.rank \in [User -> User]
    <2>1. CASE page' = page
        BY <1>4, <2>1
    <2>2. CASE page' # page
        <3>1. GetNewData /\ curop \in 0 .. Len(ops) - 1
            BY <2>2 DEF Fire, GetNewData
        <3> DEFINE op == ops[curop + 1]
        <3>2. OpOK(op)
            <4>1. PICK S : ops \in Seq(S)
                BY DEF TypeInv
            <4>2. curop + 1 \in DOMAIN ops
                BY <3>1, <4>1
            <4> QED  BY <4>2 DEF TypeInv
        <3>3. \/ op.type = "problem" /\ PlayProblem(op)
              \/ op.type # "problem" /\ PlaySub(op)
            BY <2>2, <3>1 DEF GetNewData
        <3> HIDE DEF op
        <3>4. CASE op.type = "problem" /\ PlayProblem(op)
            <4>1. op.from \in User /\ op.to \in User
                BY <3>2, <3>4 DEF OpOK
            <4> DEFINE rank == [v \in User |-> IF v = op.user THEN op.to
                                  ELSE IF page.rank[v] < op.from /\ page.rank[v] >= op.to
                                  THEN page.rank[v] + 1 ELSE page.rank[v]]
            <4>2. rank \in [User -> User]
                <5>1. \A v \in User : page.rank[v] \in User
                    BY <1>4
                <5>2. \A v \in User : page.rank[v] < op.from => page.rank[v] + 1 \in User
                    BY <4>1, <5>1, UserFacts
                <5> QED  BY <4>1, <5>1, <5>2
            <4>3. /\ DOMAIN page' = DOMAIN page
                  /\ page'.rank = rank
                BY <1>4, <3>4 DEF PlayProblem
            <4> QED  BY <1>4, <4>2, <4>3
        <3>5. CASE op.type # "problem" /\ PlaySub(op)
            BY <1>4, <3>5 DEF PlaySub
        <3> QED  BY <3>3, <3>4, <3>5
    <2> QED  BY <2>1, <2>2
<1> QED  BY <1>2, <1>3, <1>5

LEMMA FireKeeps ==
    ASSUME BoardInv, NEW b \in DOMAIN timers, Fire(b)
    PROVE  BoardInv'
<1>1. /\ contest' = contest /\ arr' = arr /\ score' = score /\ got' = got /\ place' = place
      /\ frozen' = frozen /\ check' = check /\ isshow' = isshow /\ delay' = delay
      /\ ops' = ops /\ autopress' = autopress /\ hurried' = hurried
    BY DEF Fire
<1>2. TypeInv
    BY DEF BoardInv
<1>3. Loaded
    <2>1. timers # << >>
        OBVIOUS
    <2>2. place \in 0 .. Users /\ ~ (place > 0)
        BY <1>2, <2>1 DEF BoardInv, TypeInv, LoadInv
    <2> QED  BY <2>2, UserFacts DEF Loaded
<1>4. /\ timers' \in Seq(Batch) /\ curop' \in Nat \cup {-1}
      /\ DOMAIN page' = {"rank", "score", "got", "problem"} /\ page'.rank \in [User -> User]
    BY <1>2, FireTypes
<1>5. TypeInv'
    BY <1>1, <1>2, <1>4 DEF TypeInv, IsOrder, OpOK
<1> QED  BY <1>1, <1>3, <1>5, SameBoard DEF BoardInv

-----------------------------------------------------------------------------
(* A subtask is revealed.                                                  *)

\* When the frozen results have been replayed, none is left.
LEMMA NothingFrozen ==
    ASSUME BoardInv, Loaded
    PROVE  frozen = {}
<1>1. frozen \subseteq User \X Problem /\ IsOrder(arr)
    BY DEF BoardInv, TypeInv
<1>2. \A i \in User : FrozenAt(i) = {}
    BY UserFacts DEF BoardInv, LoadInv, Loaded
<1> SUFFICES ASSUME NEW c \in frozen
             PROVE  FALSE
    OBVIOUS
<1>3. PICK u \in User, p \in Problem : c = <<u, p>>
    BY <1>1
<1>4. PICK i \in User : arr[i] = u
    BY <1>1 DEF IsOrder
<1>5. p \in FrozenAt(i)
    BY <1>3, <1>4 DEF FrozenAt
<1> QED  BY <1>2, <1>5

Subtask(p, key) == IF key = LIST THEN First(p) ELSE key
Row(u, p, s) == [got[u][p] EXCEPT ![s] = contest.points[u][p][s]]

\* A key shows nothing: the cell was revealed before, or there is no such subtask.
ShowsNothing(u, p, key) ==
    /\ contest' = contest /\ arr' = arr /\ score' = score /\ got' = got
    /\ \/ check' = check
       \/ /\ check' = [check EXCEPT ![u] = @ \cup {<<p, key>>}]
          /\ p \notin contest.has[u] \/ Subtask(p, key) \notin Subs(p)
    /\ Launch(<< >>)

\* Or it shows a subtask of the user at place i.
Shows(i, p, key) ==
    /\ p \in contest.has[arr[i]] /\ Subtask(p, key) \in Subs(p)
    /\ check' = [check EXCEPT ![arr[i]] = @ \cup {<<p, key>>}]
    /\ GainStep(arr[i], p, Row(arr[i], p, Subtask(p, key)))
    /\ arr' = Lift(arr, i, {v \in User : Ahead(arr[i], v, score')})[2]
    /\ \E a, b :
          /\ OpOK(a) /\ OpOK(b) /\ Launch(<<a, b>>)
          /\ a = SubOp(arr[i], p, Subtask(p, key), got[arr[i]][p][Subtask(p, key)],
                       contest.points[arr[i]][p][Subtask(p, key)])
          /\ b = ProblemOp(arr[i], p, Total(got[arr[i]][p]), Total(Row(arr[i], p, Subtask(p, key))), i,
                           Lift(arr, i, {v \in User : Ahead(arr[i], v, score')})[1])

LEMMA RevealCases ==
    ASSUME BoardInv, contest' = contest, NEW i \in User, NEW p \in Problem, NEW key,
           Reveal(i, p, key)
    PROVE  ShowsNothing(arr[i], p, key) \/ Shows(i, p, key)
<1> DEFINE u == arr[i]
           s == IF key = LIST THEN First(p) ELSE key
<1>1. s = Subtask(p, key)
    BY DEF Subtask
<1>2. CASE <<p, key>> \in check[u]
    BY <1>2 DEF Reveal, ShowsNothing
<1>3. CASE <<p, key>> \notin check[u] /\ (p \notin contest.has[u] \/ s \notin Subs(p))
    BY <1>1, <1>3 DEF Reveal, ShowsNothing
<1>4. CASE <<p, key>> \notin check[u] /\ ~ (p \notin contest.has[u] \/ s \notin Subs(p))
    <2> DEFINE old == Total(got[u][p])
               new == old + contest.points[u][p][s] - got[u][p][s]
               pts == [score EXCEPT ![u] = @ + Gain(old, new)]
               lift == Lift(arr, i, {v \in User : Ahead(u, v, pts)})
               a == SubOp(u, p, s, got[u][p][s], contest.points[u][p][s])
               b == ProblemOp(u, p, old, new, i, lift[1])
    <2>1. /\ check' = [check EXCEPT ![u] = @ \cup {<<p, key>>}]
          /\ arr' = lift[2] /\ score' = pts
          /\ got' = [got EXCEPT ![u][p][s] = contest.points[u][p][s]]
          /\ Launch(<<a, b>>)
        BY <1>4 DEF Reveal
    <2>2. p \in contest.has[u] /\ s \in Subs(p) /\ u \in User
        BY <1>4, BoardFacts
    <2> HIDE DEF u, s, lift, a, b, pts
    <2>3. /\ got[u][p] \in [Subs(p) -> Nat] /\ contest.points[u][p] \in [Subs(p) -> Nat]
          /\ \A t \in Subs(p) : /\ got[u][p][t] \in Nat
                                /\ got[u][p][t] <= contest.points[u][p][t]
          /\ IsFiniteSet(Subs(p)) /\ contest \in Contests
        BY <2>2, BoardFacts, ContestFacts
    <2>4. contest.points[u][p][s] \in Nat
        BY <2>2, <2>3
    <2> DEFINE row == Row(u, p, s)
    <2>5. /\ row \in [Subs(p) -> Nat] /\ row[s] = contest.points[u][p][s]
          /\ \A t \in Subs(p) : t # s => row[t] = got[u][p][t]
        BY <2>2, <2>3, <2>4 DEF Row
    <2>6. got' = [got EXCEPT ![u][p] = row]
        BY <2>1 DEF Row
    <2> HIDE DEF row
    <2>7. Total(row) = new
        <3>1. Total(row) = Total(got[u][p]) + row[s] - got[u][p][s]
            BY <2>2, <2>3, <2>5, TotalChanges
        <3> QED  BY <2>5, <3>1
    <2>8. \A t \in Subs(p) : got[u][p][t] <= row[t] /\ row[t] <= contest.points[u][p][t]
        <3> TAKE t \in Subs(p)
        <3>1. contest.points[u][p][t] \in Nat /\ got[u][p][t] \in Nat
            BY <2>3
        <3> QED  BY <2>3, <2>5, <3>1
    <2>9. GainStep(u, p, row)
        BY <2>1, <2>5, <2>6, <2>7, <2>8 DEF GainStep, pts
    <2>10. OpOK(a) /\ OpOK(b)
        <3>1. lift[1] \in User
            <4>1. lift[1] \in 1 .. i
                BY LiftKeepsUsers, BoardFacts DEF lift
            <4> QED  BY <4>1, UserFacts
        <3> QED  BY <2>2, <3>1 DEF OpOK, SubOp, ProblemOp, a, b
    <2>11. arr' = Lift(arr, i, {v \in User : Ahead(u, v, score')})[2]
        BY <2>1 DEF lift
    <2>12. a = SubOp(u, p, s, got[u][p][s], contest.points[u][p][s])
        BY DEF a
    <2>13. b = ProblemOp(u, p, Total(got[u][p]), Total(row), i,
                         Lift(arr, i, {v \in User : Ahead(u, v, score')})[1])
        BY <2>1, <2>7 DEF b, lift
    <2> QED  BY <1>1, <2>1, <2>2, <2>9, <2>10, <2>11, <2>12, <2>13 DEF Shows, u, row
<1> QED  BY <1>2, <1>3, <1>4

\* Where the user at place i goes to, if a key shows one of his subtasks.
LEMMA ShowsMoves ==
    ASSUME BoardInv, NEW i \in User, NEW p \in Problem, NEW key, Shows(i, p, key)
    PROVE  /\ score' \in [User -> Nat] /\ score'[arr[i]] >= score[arr[i]]
           /\ \A v \in User : v # arr[i] => score'[v] = score[v]
           /\ \A v \in User : \A q \in Problem :
                 got'[v][q] = IF v = arr[i] /\ q = p THEN Row(arr[i], p, Subtask(p, key))
                              ELSE got[v][q]
           /\ GotInv' /\ SumsInv' /\ SortedInv' /\ IsOrder(arr')
<1> DEFINE u == arr[i]
           row == Row(u, p, Subtask(p, key))
           passed == {v \in User : Ahead(u, v, score')}
<1>1. u \in User /\ IsOrder(arr) /\ score \in [User -> Nat]
    BY BoardFacts
<1>2. GainStep(u, p, row) /\ arr' = Lift(arr, i, passed)[2]
    BY DEF Shows
<1> HIDE DEF u, row
<1>3. /\ score' \in [User -> Nat] /\ score'[u] >= score[u]
      /\ \A v \in User : v # u => score'[v] = score[v]
      /\ \A v \in User : \A q \in Problem :
            got'[v][q] = IF v = u /\ q = p THEN row ELSE got[v][q]
      /\ GotInv' /\ SumsInv'
    BY <1>1, <1>2, GainKeepsSums
<1>4. IsOrder(arr')
    BY <1>1, <1>2, LiftKeepsUsers
<1>5. SortedInv'
    <2>1. \A v \in User : score'[v] \in Nat
        BY <1>3
    <2>2. \A v \in User : v \in passed <=> Ahead(u, v, score')
        OBVIOUS
    <2>3. \A v \in User : v # u /\ v \in passed => score'[v] <= score'[u]
        BY <1>1, <2>1, <2>2 DEF Ahead
    <2>4. \A v \in User : v # u /\ v \notin passed => score'[v] >= score'[u]
        BY <1>1, <2>1, <2>2 DEF Ahead
    <2>5. \A k \in User \ {Users} : score[arr[k]] >= score[arr[k + 1]]
        BY DEF BoardInv, SortedInv
    <2>6. arr[i] = u
        BY DEF u
    <2> HIDE DEF passed
    <2>7. \A k \in User \ {Users} :
              score'[Lift(arr, i, passed)[2][k]] >= score'[Lift(arr, i, passed)[2][k + 1]]
        BY <1>1, <1>3, <2>3, <2>4, <2>5, <2>6, RiseSorted
    <2> QED  BY <1>2, <2>7 DEF SortedInv
<1> QED  BY <1>3, <1>4, <1>5 DEF u, row

LEMMA LaunchNothing ==
    ASSUME TypeInv, Launch(<< >>)
    PROVE  /\ timers' \in Seq(Batch) /\ curop' \in Nat \cup {-1} /\ hurried' \in Nat
           /\ (\E T : ops' \in Seq(T)) /\ \A n \in DOMAIN ops' : OpOK(ops'[n])
<1> DEFINE none == << >>
<1>1. none \in Seq({}) /\ \A n \in DOMAIN none : OpOK(none[n])
    OBVIOUS
<1> HIDE DEF none
<1>2. Launch(none)
    BY DEF none
<1> QED  BY <1>1, <1>2, LaunchTypes

LEMMA LaunchOne ==
    ASSUME TypeInv, NEW a, OpOK(a), Launch(<<a>>)
    PROVE  /\ timers' \in Seq(Batch) /\ curop' \in Nat \cup {-1} /\ hurried' \in Nat
           /\ (\E T : ops' \in Seq(T)) /\ \A n \in DOMAIN ops' : OpOK(ops'[n])
<1> DEFINE one == <<a>>
<1>1. one \in Seq({a}) /\ \A n \in DOMAIN one : OpOK(one[n])
    OBVIOUS
<1> HIDE DEF one
<1>2. Launch(one)
    BY DEF one
<1> QED  BY <1>1, <1>2, LaunchTypes

LEMMA LaunchTwo ==
    ASSUME TypeInv, NEW a, NEW b, OpOK(a), OpOK(b), Launch(<<a, b>>)
    PROVE  /\ timers' \in Seq(Batch) /\ curop' \in Nat \cup {-1} /\ hurried' \in Nat
           /\ (\E T : ops' \in Seq(T)) /\ \A n \in DOMAIN ops' : OpOK(ops'[n])
<1> DEFINE two == <<a, b>>
<1>1. two \in Seq({a, b}) /\ DOMAIN two = {1, 2} /\ two[1] = a /\ two[2] = b
    OBVIOUS
<1>2. \A n \in DOMAIN two : OpOK(two[n])
    BY <1>1
<1> HIDE DEF two
<1>3. Launch(two)
    BY DEF two
<1> QED  BY <1>1, <1>2, <1>3, LaunchTypes

LEMMA RevealKeeps ==
    ASSUME BoardInv, Loaded, NEW i \in User, NEW p \in Problem, NEW key \in Nat,
           Reveal(i, p, key),
           contest' = contest /\ place' = place /\ frozen' = frozen /\ isshow' = isshow,
           delay' = delay /\ autopress' = autopress /\ page' = page
    PROVE  BoardInv'
<1> DEFINE u == arr[i]
           s == Subtask(p, key)
<1>1. TypeInv /\ u \in User /\ contest \in Contests /\ DOMAIN check = User
    BY BoardFacts DEF BoardInv, TypeInv
<1>2. ShowsNothing(u, p, key) \/ Shows(i, p, key)
    BY RevealCases
<1>3. \A q : Subs(q)' = Subs(q) /\ Visible(q)' = Visible(q) /\ First(q)' = First(q)
    BY SameContest
<1>4. \/ check' = check
      \/ check' = [check EXCEPT ![u] = @ \cup {<<p, key>>}]
    BY <1>2 DEF ShowsNothing, Shows
<1>5. DOMAIN check' = User
    BY <1>1, <1>4
<1>6. \A v \in User : check[v] \subseteq check'[v]
    BY <1>1, <1>4
<1>7. \A v \in User : \A c \in check'[v] : c \in check[v] \/ (v = u /\ c = <<p, key>>)
    BY <1>1, <1>4
<1>8. /\ GotInv' /\ SumsInv' /\ SortedInv' /\ IsOrder(arr') /\ score' \in [User -> Nat]
      /\ (\E T : ops' \in Seq(T)) /\ \A n \in DOMAIN ops' : OpOK(ops'[n])
      /\ timers' \in Seq(Batch) /\ curop' \in Nat \cup {-1} /\ hurried' \in Nat
    <2>1. CASE ShowsNothing(u, p, key)
        <3>1. arr' = arr /\ score' = score /\ got' = got /\ Launch(<< >>)
            BY <2>1 DEF ShowsNothing
        <3>2. GotInv' /\ SumsInv' /\ SortedInv'
            BY <1>3, <3>1 DEF BoardInv, GotInv, SumsInv, SortedInv, Points
        <3>3. IsOrder(arr') /\ score' \in [User -> Nat]
            BY <1>1, <3>1 DEF TypeInv
        <3> QED  BY <1>1, <3>1, <3>2, <3>3, LaunchNothing
    <2>2. CASE Shows(i, p, key)
        <3>1. GotInv' /\ SumsInv' /\ SortedInv' /\ IsOrder(arr') /\ score' \in [User -> Nat]
            BY <2>2, ShowsMoves
        <3>2. PICK a, b : OpOK(a) /\ OpOK(b) /\ Launch(<<a, b>>)
            BY <2>2 DEF Shows
        <3> QED  BY <1>1, <3>1, <3>2, LaunchTwo
    <2> QED  BY <1>2, <2>1, <2>2
<1>9. TypeInv'
    <2>1. \A n \in DOMAIN ops' : OpOK(ops[n])'
        BY <1>8 DEF OpOK
    <2>2. IsOrder(arr)'
        BY <1>8 DEF IsOrder
    <2> QED  BY <1>1, <1>5, <1>8, <2>1, <2>2 DEF TypeInv
<1>10. LoadInv'
    <2>1. \A k \in User : FrozenAt(k)' = {}
        BY NothingFrozen DEF FrozenAt
    <2>2. ~ (place' > 0)
        BY DEF Loaded
    <2> QED  BY <2>1, <2>2 DEF LoadInv
<1> HIDE DEF u
<1>11. ASSUME NEW v \in User, NEW q \in contest.has[v], NEW t \in Subs(q), Settled(v, q, t)'
       PROVE  got'[v][q][t] = contest.points[v][q][t]
    <2>1. q \in Problem /\ t # LIST /\ First(p) \in Nat
        BY <1>1, ContestFacts DEF LIST
    <2>2. Settled(v, q, t) => got[v][q][t] = contest.points[v][q][t]
        BY <1>11 DEF BoardInv, ShownInv
    <2>3. Settled(v, q, t) \/ (v = u /\ q = p /\ t = s)
        <3>1. \/ t \in Visible(q) /\ <<v, q>> \notin frozen
              \/ t \notin Visible(q) /\ <<q, t>> \in check'[v]
              \/ t \notin Visible(q) /\ t = First(q) /\ <<q, LIST>> \in check'[v]
            BY <1>3, <1>11 DEF Settled, Revealed
        <3>2. CASE t \in Visible(q) /\ <<v, q>> \notin frozen
            BY <3>2 DEF Settled
        <3>3. CASE t \notin Visible(q) /\ <<q, t>> \in check'[v]
            <4>1. CASE <<q, t>> \in check[v]
                BY <3>3, <4>1 DEF Settled, Revealed
            <4>2. CASE v = u /\ q = p /\ t = key
                BY <2>1, <4>2 DEF Subtask
            <4> QED  BY <1>7, <3>3, <4>1, <4>2
        <3>4. CASE t \notin Visible(q) /\ t = First(q) /\ <<q, LIST>> \in check'[v]
            <4>1. CASE <<q, LIST>> \in check[v]
                BY <3>4, <4>1 DEF Settled, Revealed
            <4>2. CASE v = u /\ q = p /\ key = LIST
                BY <3>4, <4>2 DEF Subtask
            <4> QED  BY <1>7, <3>4, <4>1, <4>2
        <3> QED  BY <3>1, <3>2, <3>3, <3>4
    <2>4. CASE Shows(i, p, key)
        <3>1. /\ \A w \in User : \A r \in Problem :
                    got'[w][r] = IF w = u /\ r = p THEN Row(u, p, s) ELSE got[w][r]
              /\ got[u][p] \in [Subs(p) -> Nat]
            <4>1. \A w \in User : \A r \in Problem :
                      got'[w][r] = IF w = u /\ r = p THEN Row(u, p, s) ELSE got[w][r]
                BY <2>4, ShowsMoves DEF u
            <4>2. got[u][p] \in [Subs(p) -> Nat]
                BY <1>1, BoardFacts
            <4> QED  BY <4>1, <4>2
        <3>2. Row(u, p, s) = [got[u][p] EXCEPT ![s] = contest.points[u][p][s]]
            BY DEF Row
        <3>3. CASE v = u /\ q = p /\ t = s
            <4>1. got'[v][q] = [got[u][p] EXCEPT ![s] = contest.points[u][p][s]]
                BY <2>1, <3>1, <3>2, <3>3
            <4> HIDE DEF s
            <4> QED  BY <3>1, <3>3, <4>1
        <3>4. CASE v = u /\ q = p /\ t # s
            <4>1. got'[v][q] = [got[u][p] EXCEPT ![s] = contest.points[u][p][s]]
                BY <2>1, <3>1, <3>2, <3>4
            <4> HIDE DEF s
            <4>2. got'[v][q][t] = got[v][q][t]
                BY <3>1, <3>4, <4>1
            <4> QED  BY <2>2, <2>3, <3>4, <4>2
        <3>5. CASE ~ (v = u /\ q = p)
            <4>1. got'[v][q] = got[v][q]
                BY <2>1, <3>1, <3>5
            <4> QED  BY <2>2, <2>3, <3>5, <4>1
        <3> QED  BY <3>3, <3>4, <3>5
    <2>5. CASE ShowsNothing(u, p, key)
        <3>1. got' = got
            BY <2>5 DEF ShowsNothing
        <3>2. CASE check' = check
            <4>1. Settled(v, q, t)
                BY <1>3, <1>11, <3>2 DEF Settled, Revealed
            <4> QED  BY <2>2, <3>1, <4>1
        <3>3. CASE p \notin contest.has[u] \/ s \notin Subs(p)
            <4>1. ~ (v = u /\ q = p /\ t = s)
                BY <3>3
            <4> QED  BY <2>2, <2>3, <3>1, <4>1
        <3> QED  BY <2>5, <3>2, <3>3 DEF ShowsNothing
    <2> QED  BY <1>2, <2>4, <2>5
<1>12. ShownInv'
    BY <1>3, <1>11 DEF ShownInv
<1>13. AnnouncedInv'
    <2> SUFFICES ASSUME NEW v \in isshow
                 PROVE  Done(v)'
        BY DEF AnnouncedInv
    <2>1. Done(v) /\ v \in User
        BY <1>1 DEF BoardInv, AnnouncedInv, TypeInv
    <2> QED  BY <1>3, <1>6, <2>1 DEF Done
<1> QED  BY <1>8, <1>9, <1>10, <1>12, <1>13 DEF BoardInv

LEMMA HiddenFacts ==
    ASSUME contest \in Contests, NEW u \in User
    PROVE  \A c \in Hidden(u) : /\ c = <<c[1], c[2]>> /\ c[1] \in contest.has[u]
                                /\ c[1] \in Problem /\ c[2] \in Keys(c[1]) /\ c[2] \in Nat
                                /\ c \notin check[u]
<1>1. \A p \in Problem : Keys(p) \subseteq Nat
    <2> TAKE p \in Problem
    <2>1. First(p) \in Nat /\ contest.subs[p] \in Nat
        BY ContestFacts
    <2>2. First(p) + 1 .. contest.subs[p] \subseteq Nat
        BY <2>1
    <2> QED  BY <2>2 DEF Keys, LIST
<1> TAKE c \in Hidden(u)
<1>2. PICK p \in contest.has[u] : \E k \in Keys(p) : c = <<p, k>>
    BY DEF Hidden
<1>3. p \in Problem
    BY ContestFacts
<1>4. c \notin check[u]
    BY DEF Hidden
<1> QED  BY <1>1, <1>2, <1>3, <1>4

LEMMA NextOfIsHidden ==
    ASSUME contest \in Contests, NEW u \in User, Hidden(u) # {}
    PROVE  /\ NextOf(u)[1] \in Problem /\ NextOf(u)[2] \in Nat
           /\ NextOf(u) = <<NextOf(u)[1], NextOf(u)[2]>> /\ NextOf(u) \in Hidden(u)
<1> DEFINE P == {c[1] : c \in Hidden(u)}
           p == Min(P)
           K == {c[2] : c \in {d \in Hidden(u) : d[1] = p}}
           k == Min(K)
<1>1. P \subseteq Nat /\ P # {}
    <2>1. \A c \in Hidden(u) : c[1] \in Nat
        BY HiddenFacts DEF Problem
    <2> QED  BY <2>1
<1>2. p \in P
    <2> HIDE DEF P
    <2> QED  BY <1>1, MinIsLeast
<1>3. PICK c \in Hidden(u) : c[1] = p
    BY <1>2
<1> HIDE DEF p
<1>4. K \subseteq Nat /\ K # {}
    <2>1. \A d \in Hidden(u) : d[2] \in Nat
        BY HiddenFacts
    <2> QED  BY <1>3, <2>1
<1>5. k \in K
    <2> HIDE DEF K
    <2> QED  BY <1>4, MinIsLeast
<1>6. PICK d \in Hidden(u) : d[1] = p /\ d[2] = k
    BY <1>5
<1>7. NextOf(u) = <<p, k>>
    BY Zenon DEF NextOf, p
<1> HIDE DEF k
<1>8. d = <<p, k>> /\ p \in Problem /\ k \in Nat
    BY <1>6, HiddenFacts
<1> QED  BY <1>7, <1>8

\* next_operation reveals a cell of some user, or finds nothing left.
LEMMA RevealNextCases ==
    ASSUME BoardInv, RevealNext
    PROVE  \/ Launch(<< >>) /\ arr' = arr /\ score' = score /\ got' = got /\ check' = check
           \/ \E i \in User, p \in Problem, key \in Nat : Reveal(i, p, key)
<1> DEFINE left == {i \in User : Hidden(arr[i]) # {}}
<1>1. contest \in Contests /\ arr \in [User -> User]
    BY BoardFacts
<1>2. CASE left = {}
    BY <1>2 DEF RevealNext
<1>3. CASE left # {}
    <2> DEFINE i == Max(left)
    <2>1. left \in SUBSET (0 .. Users) /\ Users \in Nat
        BY UserFacts
    <2>2. i \in left
        <3> HIDE DEF left
        <3> QED  BY <1>3, <2>1, MaxIsGreatest
    <2>3. i \in User /\ arr[i] \in User /\ Hidden(arr[i]) # {}
        BY <1>1, <2>2
    <2>4. Reveal(i, NextOf(arr[i])[1], NextOf(arr[i])[2])
        BY <1>3 DEF RevealNext
    <2> HIDE DEF i
    <2>5. NextOf(arr[i])[1] \in Problem /\ NextOf(arr[i])[2] \in Nat
        BY <1>1, <2>3, NextOfIsHidden
    <2> QED  BY <2>3, <2>4, <2>5
<1> QED  BY <1>2, <1>3

\* showrank announces the lowest of those who were not.
LEMMA LowestUnshown ==
    ASSUME BoardInv, MayShow
    PROVE  /\ Max(Unshown) \in User /\ arr[Max(Unshown)] \in User
           /\ arr[Max(Unshown)] \notin isshow /\ Done(arr[Max(Unshown)])
           /\ \A k \in User : k > Max(Unshown) => arr[k] \in isshow
<1>1. Unshown \in SUBSET (0 .. Users) /\ Users \in Nat /\ User \subseteq Int
    BY UserFacts DEF Unshown
<1>2. Max(Unshown) \in Unshown /\ \A k \in Unshown : k <= Max(Unshown)
    BY <1>1, MaxIsGreatest DEF MayShow
<1>3. Max(Unshown) \in User /\ arr[Max(Unshown)] \in User /\ arr[Max(Unshown)] \notin isshow
    <2>1. arr \in [User -> User]
        BY BoardFacts
    <2> QED  BY <1>2, <2>1 DEF Unshown
<1>4. Done(arr[Max(Unshown)])
    BY DEF MayShow
<1> DEFINE m == Max(Unshown)
<1>5. m \in User /\ \A k \in Unshown : k <= m
    BY <1>2, <1>3
<1> HIDE DEF m
<1>6. \A k \in User : k > m => k \notin Unshown
    BY <1>1, <1>5
<1>7. \A k \in User : k > m => arr[k] \in isshow
    BY <1>6 DEF Unshown
<1> QED  BY <1>3, <1>4, <1>7 DEF m

LEMMA PressEnterKeeps ==
    ASSUME BoardInv, PressEnter
    PROVE  BoardInv'
<1>1. /\ Loaded /\ TypeInv
      /\ contest' = contest /\ place' = place /\ frozen' = frozen /\ autopress' = autopress
      /\ page' = page
    BY DEF PressEnter, Ready, BoardInv
<1>2. CASE arr' = arr /\ score' = score /\ got' = got /\ check' = check /\ isshow' = isshow
           /\ delay' \in BOOLEAN /\ \E a : OpOK(a) /\ Launch(<<a>>)
    <2>1. PICK a : OpOK(a) /\ Launch(<<a>>)
        BY <1>2
    <2>2. /\ timers' \in Seq(Batch) /\ curop' \in Nat \cup {-1} /\ hurried' \in Nat
          /\ (\E T : ops' \in Seq(T)) /\ \A n \in DOMAIN ops' : OpOK(ops'[n])
        BY <1>1, <2>1, LaunchOne
    <2>3. TypeInv'
        BY <1>1, <1>2, <2>2 DEF TypeInv, IsOrder, OpOK
    <2> QED  BY <1>1, <1>2, <2>3, SameBoard DEF BoardInv
<1>3. CASE /\ ~delay /\ MayShow /\ delay' = TRUE
           /\ isshow' = isshow \cup {arr[Max(Unshown)]}
           /\ Launch(<<[type |-> "show", user |-> arr[Max(Unshown)]]>>)
           /\ arr' = arr /\ score' = score /\ got' = got /\ check' = check
    <2> DEFINE w == arr[Max(Unshown)]
               op == [type |-> "show", user |-> w]
    <2>1. OpOK(op) /\ Launch(<<op>>)
        BY <1>3 DEF OpOK
    <2> HIDE DEF op
    <2>2. w \in User /\ Done(w)
        BY <1>3, LowestUnshown
    <2>3. isshow' = isshow \cup {w}
        BY <1>3
    <2> HIDE DEF w
    <2>4. /\ timers' \in Seq(Batch) /\ curop' \in Nat \cup {-1} /\ hurried' \in Nat
          /\ (\E T : ops' \in Seq(T)) /\ \A n \in DOMAIN ops' : OpOK(ops'[n])
        BY <1>1, <2>1, LaunchOne
    <2>5. TypeInv'
        BY <1>1, <1>3, <2>2, <2>3, <2>4 DEF TypeInv, IsOrder, OpOK
    <2>6. \A p : Subs(p)' = Subs(p) /\ Visible(p)' = Visible(p) /\ First(p)' = First(p)
        BY <1>1, SameContest
    <2>7. GotInv' /\ SumsInv' /\ SortedInv'
        BY <1>1, <1>3, <2>6 DEF BoardInv, GotInv, SumsInv, SortedInv, Points
    <2>8. LoadInv'
        <3>1. \A k \in User : FrozenAt(k)' = {}
            BY <1>1, NothingFrozen DEF FrozenAt
        <3>2. ~ (place' > 0)
            BY <1>1 DEF Loaded
        <3> QED  BY <3>1, <3>2 DEF LoadInv
    <2>9. ShownInv'
        <3>1. \A a, b, c : Settled(a, b, c)' = Settled(a, b, c)
            BY <1>1, <1>3, <2>6 DEF Settled, Revealed
        <3>2. ShownInv
            BY DEF BoardInv
        <3> QED  BY <1>1, <1>3, <2>6, <3>1, <3>2 DEF ShownInv
    <2>10. AnnouncedInv'
        <3>1. \A v : Done(v)' = Done(v)
            BY <1>1, <1>3, <2>6 DEF Done
        <3> QED  BY <2>2, <2>3, <3>1 DEF BoardInv, AnnouncedInv
    <2> QED  BY <2>5, <2>7, <2>8, <2>9, <2>10 DEF BoardInv
<1>4. CASE ~delay /\ ~MayShow /\ RevealNext /\ isshow' = isshow /\ delay' = delay
    <2>1. CASE Launch(<< >>) /\ arr' = arr /\ score' = score /\ got' = got /\ check' = check
        <3>1. /\ timers' \in Seq(Batch) /\ curop' \in Nat \cup {-1} /\ hurried' \in Nat
              /\ (\E T : ops' \in Seq(T)) /\ \A n \in DOMAIN ops' : OpOK(ops'[n])
            BY <1>1, <2>1, LaunchNothing
        <3>2. TypeInv'
            BY <1>1, <1>4, <2>1, <3>1 DEF TypeInv, IsOrder, OpOK
        <3> QED  BY <1>1, <1>4, <2>1, <3>2, SameBoard DEF BoardInv
    <2>2. CASE \E i \in User, p \in Problem, key \in Nat : Reveal(i, p, key)
        BY <1>1, <1>4, <2>2, RevealKeeps
    <2> QED  BY <1>4, <2>1, <2>2, RevealNextCases
<1>5. CASE /\ delay /\ delay' = FALSE /\ Launch(<<[type |-> "delay"]>>)
           /\ arr' = arr /\ score' = score /\ got' = got /\ check' = check /\ isshow' = isshow
    <2>1. OpOK([type |-> "delay"])
        BY DEF OpOK
    <2> QED  BY <1>2, <1>5, <2>1
<1> QED  BY <1>3, <1>4, <1>5 DEF PressEnter

LEMMA ClickKeeps ==
    ASSUME BoardInv, NEW u \in User, NEW c \in Cells, Click(u, c[1], c[2])
    PROVE  BoardInv'
<1>1. PICK p \in Problem : \E s \in Subs(p) : c = <<p, s>>
    BY DEF Cells
<1>2. PICK s \in Subs(p) : c = <<p, s>>
    BY <1>1
<1>3. s \in Nat /\ page.rank[u] \in User
    BY BoardFacts, ContestFacts DEF BoardInv, TypeInv
<1>4. /\ Loaded /\ Reveal(page.rank[u], p, s)
      /\ contest' = contest /\ place' = place /\ frozen' = frozen /\ isshow' = isshow
      /\ delay' = delay /\ autopress' = autopress /\ page' = page
    BY <1>2 DEF Click, Ready
<1> QED  BY <1>3, <1>4, RevealKeeps

LEMMA StutterKeeps ==
    ASSUME BoardInv, UNCHANGED resolverVars
    PROVE  BoardInv'
<1>1. /\ contest' = contest /\ arr' = arr /\ score' = score /\ got' = got /\ place' = place
      /\ frozen' = frozen /\ check' = check /\ isshow' = isshow /\ delay' = delay
      /\ ops' = ops /\ curop' = curop /\ autopress' = autopress /\ timers' = timers
      /\ page' = page /\ hurried' = hurried
    BY DEF resolverVars
<1>2. \A p : Subs(p)' = Subs(p) /\ Visible(p)' = Visible(p) /\ First(p)' = First(p)
    BY <1>1, SameContest
<1>3. TypeInv'
    BY <1>1 DEF BoardInv, TypeInv, IsOrder, OpOK
<1>4. GotInv' /\ SumsInv' /\ SortedInv'
    BY <1>1, <1>2 DEF BoardInv, GotInv, SumsInv, SortedInv, Points
<1>5. LoadInv'
    <2>1. \A i : FrozenAt(i)' = FrozenAt(i)
        BY <1>1 DEF FrozenAt
    <2> QED  BY <1>1, <1>2, <2>1 DEF BoardInv, LoadInv
<1>6. ShownInv'
    <2>1. \A a, b, c : Settled(a, b, c)' = Settled(a, b, c)
        BY <1>1, <1>2 DEF Settled, Revealed
    <2>2. ShownInv
        BY DEF BoardInv
    <2> QED  BY <1>1, <1>2, <2>1, <2>2 DEF ShownInv
<1>7. AnnouncedInv'
    <2>1. \A v : Done(v)' = Done(v)
        BY <1>1, <1>2 DEF Done
    <2> QED  BY <1>1, <2>1 DEF BoardInv, AnnouncedInv
<1> QED  BY <1>3, <1>4, <1>5, <1>6, <1>7 DEF BoardInv

LEMMA BoardInvariant == ResolverSpec => []BoardInv
<1>1. ResolverInit => BoardInv
    BY InitBoard
<1>2. BoardInv /\ [ResolverNext]_resolverVars => BoardInv'
    <2> SUFFICES ASSUME BoardInv, [ResolverNext]_resolverVars
                 PROVE  BoardInv'
        OBVIOUS
    <2>1. CASE Thaw
        BY <2>1, ThawKeeps
    <2>2. CASE NextPlace
        BY <2>2, NextPlaceKeeps
    <2>3. CASE PressA
        BY <2>3, PressAKeeps
    <2>4. CASE PressEnter
        BY <2>4, PressEnterKeeps
    <2>5. ASSUME NEW u \in User, NEW c \in Cells, Click(u, c[1], c[2])
          PROVE  BoardInv'
        BY <2>5, ClickKeeps
    <2>6. ASSUME NEW b \in DOMAIN timers, Fire(b)
          PROVE  BoardInv'
        BY <2>6, FireKeeps
    <2>7. CASE UNCHANGED resolverVars
        BY <2>7, StutterKeeps
    <2> QED  BY <2>1, <2>2, <2>3, <2>4, <2>5, <2>6, <2>7 DEF ResolverNext, CalcOperations
<1> QED  BY <1>1, <1>2, PTL DEF ResolverSpec

-----------------------------------------------------------------------------
(* Theorems about the board.                                               *)

\* Whatever is replayed and revealed, the board lists every user once, nothing shown
\* exceeds what the subtask is worth, and the page's ranks are ranks.
THEOREM ResolverTypeCorrect == ResolverSpec => []ResolverTypeOK
<1>1. BoardInv => ResolverTypeOK
    <2> SUFFICES ASSUME BoardInv
                 PROVE  ResolverTypeOK
        OBVIOUS
    <2>1. \A u \in User, c \in Cells : got[u][c[1]][c[2]] \in 0 .. contest.full[c[1]][c[2]]
        <3> TAKE u \in User, c \in Cells
        <3>1. PICK p \in Problem : \E s \in Subs(p) : c = <<p, s>>
            BY DEF Cells
        <3>2. PICK s \in Subs(p) : c = <<p, s>>
            BY <3>1
        <3>3. contest \in Contests /\ got[u][p][s] \in Nat
              /\ got[u][p][s] <= contest.points[u][p][s]
            BY BoardFacts
        <3>4. /\ contest.points[u][p] \in [Subs(p) -> Nat]
              /\ contest.points[u][p][s] <= contest.full[p][s]
              /\ contest.full[p] \in [Subs(p) -> Nat]
            BY <3>3, ContestFacts
        <3>5. contest.points[u][p][s] \in Nat /\ contest.full[p][s] \in Nat
            BY <3>4
        <3>6. got[u][p][s] \in 0 .. contest.full[p][s]
            BY <3>3, <3>4, <3>5
        <3> QED  BY <3>2, <3>6
    <2>2. TypeInv
        BY DEF BoardInv
    <2> QED  BY <2>1, <2>2 DEF ResolverTypeOK, TypeInv, IsOrder
<1> QED  BY <1>1, BoardInvariant, PTL

\* The board is in the order of the scores after every reveal, and each score is the sum
\* of the subtasks shown: a rise never stops too early nor goes too far.
THEOREM BoardStaysSorted == ResolverSpec => []BoardSorted
<1>1. BoardInv => BoardSorted
    BY DEF BoardInv, SumsInv, SortedInv, BoardSorted
<1> QED  BY <1>1, BoardInvariant, PTL

\* When Enter finds nothing left to reveal, the subtasks of a problem that hides at most
\* one number are shown with their final points, whatever was clicked before.
THEOREM EndsWithFinalPoints == ResolverSpec => []FinalStanding
<1>1. BoardInv => FinalStanding
    <2> SUFFICES ASSUME BoardInv, Loaded, \A u \in User : Hidden(u) = {},
                        NEW u \in User, NEW p \in contest.has[u], Len(contest.hidden[p]) <= 1
                 PROVE  got[u][p] = contest.points[u][p]
        BY DEF FinalStanding
    <2>1. /\ contest \in Contests /\ p \in Problem /\ First(p) \in Nat
          /\ contest.subs[p] \in Nat /\ contest.hidden[p] \in Seq(Nat)
        <3>1. contest \in Contests
            BY BoardFacts
        <3>2. p \in Problem
            BY <3>1, ContestFacts
        <3>3. contest.hidden[p] \in Seq(Nat)
            BY <3>1, <3>2, ResolverAssumption DEF IsContest
        <3> QED  BY <3>1, <3>2, <3>3, ContestFacts
    <2>2. \A k \in Keys(p) : <<p, k>> \in check[u]
        BY DEF Hidden
    <2>3. ASSUME NEW s \in Subs(p), s \notin Visible(p)
          PROVE  Revealed(u, p, s)
        <3>1. s \in 1 .. contest.subs[p]
            BY DEF Subs
        <3>2. s >= First(p)
            <4>1. CASE Single(p)
                BY <2>1, <2>3, <3>1, <4>1 DEF Visible, Opened
            <4>2. CASE ~ Single(p)
                BY <3>1, <4>2 DEF First
            <4> QED  BY <4>1, <4>2
        <3>3. Keys(p) = {LIST} \cup (First(p) + 1 .. contest.subs[p])
            <4>1. ~ (Len(contest.hidden[p]) > 1) /\ ~ (First(p) > contest.subs[p])
                <5>1. Len(contest.hidden[p]) \in Nat
                    BY <2>1
                <5> QED  BY <2>1, <3>1, <3>2, <5>1
            <4> QED  BY <4>1 DEF Keys
        <3>4. CASE s = First(p)
            BY <2>2, <3>3, <3>4 DEF Revealed
        <3>5. CASE s # First(p)
            <4>1. s \in First(p) + 1 .. contest.subs[p]
                BY <2>1, <3>1, <3>2, <3>5
            <4> QED  BY <2>2, <3>3, <4>1 DEF Revealed
        <3> QED  BY <3>4, <3>5
    <2>4. \A s \in Subs(p) : Settled(u, p, s)
        BY <2>3, NothingFrozen DEF Settled
    <2>5. \A s \in Subs(p) : got[u][p][s] = contest.points[u][p][s]
        BY <2>4 DEF BoardInv, ShownInv
    <2>6. got[u][p] \in [Subs(p) -> Nat] /\ contest.points[u][p] \in [Subs(p) -> Nat]
        BY <2>1, BoardFacts, ContestFacts
    <2> DEFINE shown == got[u][p]
               worth == contest.points[u][p]
    <2>7. /\ shown \in [Subs(p) -> Nat] /\ worth \in [Subs(p) -> Nat]
          /\ \A s \in Subs(p) : shown[s] = worth[s]
        BY <2>5, <2>6
    <2> HIDE DEF shown, worth
    <2>8. shown = worth
        BY <2>7
    <2> QED  BY <2>8 DEF shown, worth
<1> QED  BY <1>1, BoardInvariant, PTL

-----------------------------------------------------------------------------
(* Theorems about the reveals.                                             *)

\* A step of a key, a click or a timer that changes the order of the board or a score is
\* the reveal of a subtask.
LEMMA OnlyRevealsMove ==
    ASSUME BoardInv, Loaded, [ResolverNext]_resolverVars
    PROVE  \/ arr' = arr /\ score' = score /\ contest' = contest /\ isshow' = isshow
           \/ /\ arr' = arr /\ score' = score /\ contest' = contest /\ MayShow
              /\ isshow' = isshow \cup {arr[Max(Unshown)]}
           \/ /\ contest' = contest /\ isshow' = isshow
              /\ \E i \in User, p \in Problem, key \in Nat : Shows(i, p, key)
<1>1. ASSUME NEW i \in User, NEW p \in Problem, NEW key \in Nat, Reveal(i, p, key),
             contest' = contest /\ isshow' = isshow
      PROVE  \/ arr' = arr /\ score' = score
             \/ \E n \in User, q \in Problem, k \in Nat : Shows(n, q, k)
    BY <1>1, RevealCases DEF ShowsNothing
<1>2. CASE CalcOperations
    <2>1. place > 0
        BY <1>2 DEF CalcOperations, Thaw, NextPlace
    <2>2. place = 0
        BY DEF Loaded
    <2> QED  BY <2>1, <2>2
<1>3. CASE PressA
    BY <1>3 DEF PressA
<1>4. CASE PressEnter
    <2>1. contest' = contest
        BY <1>4 DEF PressEnter
    <2>2. \/ arr' = arr /\ score' = score /\ isshow' = isshow
          \/ /\ arr' = arr /\ score' = score /\ MayShow
             /\ isshow' = isshow \cup {arr[Max(Unshown)]}
          \/ RevealNext /\ isshow' = isshow
        BY <1>4 DEF PressEnter
    <2>3. ASSUME RevealNext, isshow' = isshow
          PROVE  \/ arr' = arr /\ score' = score
                 \/ \E n \in User, q \in Problem, k \in Nat : Shows(n, q, k)
        BY <1>1, <2>1, <2>3, RevealNextCases
    <2> QED  BY <2>1, <2>2, <2>3
<1>5. ASSUME NEW u \in User, NEW c \in Cells, Click(u, c[1], c[2])
      PROVE  /\ contest' = contest /\ isshow' = isshow
             /\ \/ arr' = arr /\ score' = score
                \/ \E n \in User, q \in Problem, k \in Nat : Shows(n, q, k)
    <2>1. PICK p \in Problem : \E s \in Subs(p) : c = <<p, s>>
        BY DEF Cells
    <2>2. PICK s \in Subs(p) : c = <<p, s>>
        BY <2>1
    <2>3. s \in Nat /\ page.rank[u] \in User
        BY BoardFacts, ContestFacts DEF BoardInv, TypeInv
    <2>4. Reveal(page.rank[u], p, s) /\ contest' = contest /\ isshow' = isshow
        BY <1>5, <2>2 DEF Click
    <2> QED  BY <1>1, <2>3, <2>4
<1>6. ASSUME NEW b \in DOMAIN timers, Fire(b)
      PROVE  arr' = arr /\ score' = score /\ contest' = contest /\ isshow' = isshow
    BY <1>6 DEF Fire
<1>7. CASE UNCHANGED resolverVars
    BY <1>7 DEF resolverVars
<1> QED  BY <1>2, <1>3, <1>4, <1>5, <1>6, <1>7 DEF ResolverNext

LEMMA ShowsInOrder ==
    ASSUME BoardInv, contest' = contest, InOrder,
           NEW i \in User, NEW p \in Problem, NEW key, Shows(i, p, key)
    PROVE  InOrder'
<1>1. /\ score' \in [User -> Nat] /\ score'[arr[i]] >= score[arr[i]]
      /\ \A v \in User : v # arr[i] => score'[v] = score[v]
    BY ShowsMoves
<1>2. /\ IsOrder(arr) /\ score \in [User -> Nat] /\ contest.last \in [User -> Nat]
    BY BoardFacts, ContestFacts
<1>3. \A k \in User \ {Users} : ~ Ahead(arr[k + 1], arr[k], score)
    BY DEF InOrder
<1> DEFINE new == Lift(arr, i, {v \in User : Ahead(arr[i], v, score')})[2]
<1>4. \A k \in User \ {Users} : ~ Ahead(new[k + 1], new[k], score')
    BY <1>1, <1>2, <1>3, RiseInOrder
<1>5. arr' = new
    BY DEF Shows
<1> HIDE DEF new
<1> QED  BY <1>4, <1>5 DEF InOrder, Ahead

\* Once the replay has left ties in the order of the last submissions, no reveal, by Enter
\* or by a click on whichever user, puts a user above one who stands before him.
THEOREM RevealsKeepTies == ResolverSpec => TiesKept
<1>1. BoardInv /\ [ResolverNext]_resolverVars => (Loaded /\ InOrder => InOrder')
    <2> SUFFICES ASSUME BoardInv, [ResolverNext]_resolverVars, Loaded, InOrder
                 PROVE  InOrder'
        OBVIOUS
    <2>1. CASE arr' = arr /\ score' = score /\ contest' = contest
        BY <2>1 DEF InOrder, Ahead
    <2>2. CASE /\ contest' = contest
               /\ \E i \in User, p \in Problem, key \in Nat : Shows(i, p, key)
        BY <2>2, ShowsInOrder
    <2> QED  BY <2>1, <2>2, OnlyRevealsMove
<1>2. BoardInv /\ [ResolverNext]_resolverVars => [Loaded /\ InOrder => InOrder']_resolverVars
    BY <1>1
<1> QED  BY <1>2, BoardInvariant, PTL DEF ResolverSpec, TiesKept

\* A user of whom all is revealed gains nothing, and stays where he is.
LEMMA AnnouncedStays ==
    ASSUME BoardInv, Loaded, InOrder,
           NEW i \in User, NEW p \in Problem, NEW key, Shows(i, p, key), arr[i] \in isshow
    PROVE  arr' = arr
<1> DEFINE u == arr[i]
           s == Subtask(p, key)
           row == Row(u, p, s)
           passed == {v \in User : Ahead(u, v, score')}
<1>1. /\ p \in contest.has[u] /\ s \in Subs(p) /\ u \in User
      /\ GainStep(u, p, row) /\ arr' = Lift(arr, i, passed)[2]
    BY BoardFacts DEF Shows
<1>2. got[u][p] \in [Subs(p) -> Nat] /\ score \in [User -> Nat] /\ arr \in [User -> User]
      /\ Total(got[u][p]) \in Nat
    BY <1>1, BoardFacts
<1>3. got[u][p][s] = contest.points[u][p][s]
    <2>1. Done(u)
        BY DEF BoardInv, AnnouncedInv
    <2> HIDE DEF u, s
    <2>2. Settled(u, p, s)
        BY <1>1, <2>1, NothingFrozen DEF Settled, Revealed, Done
    <2> QED  BY <1>1, <2>2 DEF BoardInv, ShownInv
<1> HIDE DEF u, s
<1>4. row = got[u][p]
    BY <1>1, <1>2, <1>3 DEF Row
<1>5. score' = score
    <2>1. score' = [score EXCEPT ![u] = @ + Gain(Total(got[u][p]), Total(got[u][p]))]
        BY <1>1, <1>4 DEF GainStep
    <2>2. Gain(Total(got[u][p]), Total(got[u][p])) = 0
        BY <1>2 DEF Gain
    <2>3. score[u] \in Nat
        BY <1>1, <1>2
    <2> QED  BY <1>1, <1>2, <2>1, <2>2, <2>3
<1>6. PICK j \in 1 .. i :
          /\ \A k \in j .. i - 1 : arr[k] \in passed
          /\ arr' = [k \in User |-> IF k = j THEN arr[i]
                                    ELSE IF j < k /\ k <= i THEN arr[k - 1] ELSE arr[k]]
    <2> HIDE DEF passed, row
    <2>0. arr \in [User -> User]
        BY <1>2
    <2>1. PICK j \in 1 .. i :
              /\ \A k \in j .. i - 1 : arr[k] \in passed
              /\ j = 1 \/ arr[j - 1] \notin passed
              /\ Lift(arr, i, passed)[1] = j
              /\ Lift(arr, i, passed)[2] =
                     [k \in User |-> IF k = j THEN arr[i]
                                     ELSE IF j < k /\ k <= i THEN arr[k - 1] ELSE arr[k]]
        BY <2>0, LiftMoves
    <2>2. arr' = [k \in User |-> IF k = j THEN arr[i]
                                 ELSE IF j < k /\ k <= i THEN arr[k - 1] ELSE arr[k]]
        BY <1>1, <2>1
    <2> QED  BY <2>1, <2>2
<1>7. i \in 1 .. Users /\ Users \in Nat /\ User = 1 .. Users
    BY UserFacts
<1>8. j = i
    <2> SUFFICES ASSUME j # i
                 PROVE  FALSE
        OBVIOUS
    <2>1. i - 1 \in j .. i - 1 /\ i - 1 \in User \ {Users} /\ (i - 1) + 1 = i
        BY <1>7
    <2>2. arr[i - 1] \in passed
        BY <1>6, <2>1
    <2>3. Ahead(u, arr[i - 1], score)
        BY <1>5, <2>2
    <2>4. ~ Ahead(arr[(i - 1) + 1], arr[i - 1], score)
        <3> DEFINE m == i - 1
        <3>1. m \in User \ {Users}
            BY <2>1
        <3> HIDE DEF m
        <3>2. ~ Ahead(arr[m + 1], arr[m], score)
            BY <3>1 DEF InOrder
        <3> QED  BY <3>2 DEF m
    <2> QED  BY <2>1, <2>3, <2>4 DEF u
<1>9. \A k \in User : arr'[k] = arr[k]
    <2> TAKE k \in User
    <2>1. ~ (i < k /\ k <= i)
        BY <1>7
    <2> QED  BY <1>6, <1>8, <2>1
<1>10. arr' \in [User -> User]
    BY ShowsMoves DEF IsOrder
<1> QED  BY <1>2, <1>9, <1>10

LEMMA AnnouncedKept ==
    ASSUME BoardInv, Loaded, InOrder, LastAnnounced, isshow' = isshow,
           NEW i \in User, NEW p \in Problem, NEW key, Shows(i, p, key)
    PROVE  /\ LastAnnounced'
           /\ \A k \in User : arr[k] \in isshow => arr'[k] = arr[k]
<1>1. CASE arr[i] \in isshow
    <2>1. arr' = arr
        BY <1>1, AnnouncedStays
    <2> QED  BY <2>1 DEF LastAnnounced
<1>2. CASE arr[i] \notin isshow
    <2>1. IsOrder(arr) /\ IsOrder(arr')
        BY BoardFacts, ShowsMoves
    <2>2. \A k \in User : k > i => arr'[k] = arr[k]
        BY <2>1, LiftKeepsUsers DEF Shows
    <2>3. User \subseteq Int
        BY UserFacts
    <2>4. \A k \in User : arr[k] \in isshow => k > i
        <3> SUFFICES ASSUME NEW k \in User, arr[k] \in isshow, ~ (k > i)
                     PROVE  FALSE
            OBVIOUS
        <3>1. k < i \/ k = i
            BY <2>3
        <3> QED  BY <1>2, <3>1 DEF LastAnnounced
    <2>5. \A k \in User : arr[k] \in isshow => arr'[k] = arr[k]
        BY <2>2, <2>4
    <2>6. \A k \in User : arr'[k] \in isshow => k > i
        <3> SUFFICES ASSUME NEW k \in User, arr'[k] \in isshow
                     PROVE  k > i
            OBVIOUS
        <3>1. arr'[k] \in User
            BY <2>1 DEF IsOrder
        <3>2. PICK m \in User : arr[m] = arr'[k]
            BY <2>1, <3>1 DEF IsOrder
        <3>3. m > i /\ arr'[m] = arr'[k]
            BY <2>4, <2>5, <3>2
        <3> DEFINE order == arr'
        <3>4. IsOrder(order) /\ order[m] = order[k]
            BY <2>1, <3>3
        <3> HIDE DEF order
        <3>5. m = k
            BY <3>4, OrderIsInjective
        <3> QED  BY <3>3, <3>5
    <2>7. ASSUME NEW a \in User, NEW b \in User, a < b, arr'[a] \in isshow
          PROVE  arr'[b] \in isshow
        <3>1. a > i /\ b > i
            BY <2>3, <2>6, <2>7
        <3>2. arr'[a] = arr[a] /\ arr'[b] = arr[b]
            BY <2>2, <3>1
        <3> QED  BY <2>7, <3>2 DEF LastAnnounced
    <2> QED  BY <2>5, <2>7 DEF LastAnnounced
<1> QED  BY <1>1, <1>2

\* Those who were announced are the last ones, and as long as ties are in order nothing
\* that is revealed afterwards moves one of them or puts another below them.
THEOREM AnnouncedStay == ResolverSpec => AnnouncedIsFinal
<1> DEFINE Kept == /\ LastAnnounced'
                   /\ \A i \in User : arr[i] \in isshow => arr'[i] = arr[i]
<1>1. BoardInv /\ [ResolverNext]_resolverVars => (InOrder /\ LastAnnounced => Kept)
    <2> SUFFICES ASSUME BoardInv, [ResolverNext]_resolverVars, InOrder, LastAnnounced
                 PROVE  Kept
        OBVIOUS
    <2>1. CASE place > 0
        <3>1. isshow = {}
            BY <2>1 DEF BoardInv, LoadInv
        <3>2. ~ Loaded
            BY <2>1 DEF Loaded
        <3>3. isshow' = isshow
            <4>1. CASE CalcOperations
                BY <4>1 DEF CalcOperations, Thaw, NextPlace, Unloaded
            <4>2. CASE \E b \in DOMAIN timers : Fire(b)
                BY <4>2 DEF Fire
            <4>3. CASE UNCHANGED resolverVars
                BY <4>3 DEF resolverVars
            <4>4. ~ PressA /\ ~ PressEnter /\ \A u, p, s : ~ Click(u, p, s)
                BY <3>2 DEF PressA, PressEnter, Click, Ready
            <4> QED  BY <4>1, <4>2, <4>3, <4>4 DEF ResolverNext
        <3> QED  BY <3>1, <3>3 DEF LastAnnounced
    <2>2. CASE Loaded
        <3>1. CASE arr' = arr /\ isshow' = isshow
            BY <3>1 DEF LastAnnounced
        <3>2. CASE arr' = arr /\ MayShow /\ isshow' = isshow \cup {arr[Max(Unshown)]}
            <4> DEFINE m == Max(Unshown)
            <4>1. m \in User /\ \A k \in User : k > m => arr[k] \in isshow
                BY <3>2, LowestUnshown
            <4>2. arr' = arr /\ isshow' = isshow \cup {arr[m]} /\ IsOrder(arr)
                BY <3>2, BoardFacts
            <4> HIDE DEF m
            <4>3. ASSUME NEW a \in User, NEW b \in User, a < b, arr[a] \in isshow \cup {arr[m]}
                  PROVE  arr[b] \in isshow
                <5>1. CASE arr[a] \in isshow
                    BY <4>3, <5>1 DEF LastAnnounced
                <5>2. CASE arr[a] = arr[m]
                    <6>1. a = m
                        BY <4>1, <4>2, <5>2, OrderIsInjective
                    <6>2. b > m
                        BY <4>3, <6>1, UserFacts
                    <6> QED  BY <4>1, <6>2
                <5> QED  BY <4>3, <5>1, <5>2
            <4> QED  BY <4>2, <4>3 DEF LastAnnounced
        <3>3. CASE isshow' = isshow /\ \E i \in User, p \in Problem, key \in Nat : Shows(i, p, key)
            BY <2>2, <3>3, AnnouncedKept
        <3> QED  BY <2>2, <3>1, <3>2, <3>3, OnlyRevealsMove
    <2>3. place > 0 \/ Loaded
        <3>1. place \in 0 .. Users
            BY DEF BoardInv, TypeInv
        <3> QED  BY <3>1, UserFacts DEF Loaded
    <2> QED  BY <2>1, <2>2, <2>3
<1>2. BoardInv /\ [ResolverNext]_resolverVars =>
          [InOrder /\ LastAnnounced =>
              /\ LastAnnounced'
              /\ \A i \in User : arr[i] \in isshow => arr'[i] = arr[i]]_resolverVars
    BY <1>1
<1> QED  BY <1>2, BoardInvariant, PTL DEF ResolverSpec, AnnouncedIsFinal

-----------------------------------------------------------------------------
(* The timers and the operation being played.                              *)

SomethingFrozen == \E u \in User, p \in Problem : WasFrozen(u, p)

\* A batch selects and applies in turn, and ends by applying.
Alternates(b) == \A k \in 1 .. Len(b) : b[k] = IF (Len(b) - k) % 2 = 1 THEN "select" ELSE "apply"

\* One batch at most has operations to select, and when it has selected them all, the last
\* operation is selected.
TempoInv ==
    /\ \A b \in DOMAIN timers : Alternates(timers[b])
    /\ \A a, b \in DOMAIN timers : Len(timers[a]) > 1 /\ Len(timers[b]) > 1 => a = b
    /\ \A b \in DOMAIN timers : Len(timers[b]) > 1 => curop + Len(timers[b]) \div 2 = Len(ops) - 1
    /\ (\A b \in DOMAIN timers : Len(timers[b]) = 1) => curop = Len(ops) - 1

\* Before A is pressed nothing plays, and what the freeze hid is still to be replayed or
\* among the operations.
SchedInv ==
    /\ place > 0 => ~autopress
    /\ ~autopress => timers = << >> /\ curop = -1 /\ (ops = << >> => frozen # {})
    /\ autopress => TempoInv

LEMMA TimersFacts ==
    ASSUME TypeInv
    PROVE  /\ timers \in Seq(Batch) /\ Len(timers) \in Nat /\ DOMAIN timers = 1 .. Len(timers)
           /\ curop \in Int /\ Len(ops) \in Nat
           /\ \A b \in DOMAIN timers : /\ timers[b] \in Batch /\ Len(timers[b]) \in Nat
                                       /\ Len(timers[b]) >= 1
<1>1. timers \in Seq(Batch) /\ curop \in Int
    BY DEF TypeInv
<1>2. Len(timers) \in Nat /\ DOMAIN timers = 1 .. Len(timers)
    BY <1>1
<1>3. PICK S : ops \in Seq(S)
    BY DEF TypeInv
<1>4. ASSUME NEW b \in DOMAIN timers
      PROVE  timers[b] \in Batch /\ Len(timers[b]) \in Nat /\ Len(timers[b]) >= 1
    <2>1. timers[b] \in Batch
        BY <1>1, <1>2, ElementOfSeq
    <2> DEFINE q == timers[b]
    <2>2. q \in Seq({"select", "apply"}) /\ q # << >>
        BY <2>1 DEF Batch
    <2> HIDE DEF q
    <2>3. Len(q) \in Nat /\ Len(q) # 0
        BY <2>2
    <2> QED  BY <2>1, <2>3 DEF q
<1> QED  BY <1>1, <1>2, <1>3, <1>4

LEMMA NewBatch ==
    ASSUME TypeInv, TempoInv, \A b \in DOMAIN timers : Len(timers[b]) = 1,
           NEW new \in Batch, Alternates(new), timers' = Append(timers, new),
           Len(new) > 1 => curop' + Len(new) \div 2 = Len(ops') - 1,
           Len(new) = 1 => curop' = Len(ops') - 1
    PROVE  TempoInv'
<1>1. timers \in Seq(Batch) /\ Len(timers) \in Nat /\ DOMAIN timers = 1 .. Len(timers)
    BY TimersFacts
<1> DEFINE n == Len(timers) + 1
<1>2. /\ DOMAIN timers' = 1 .. n /\ n \in Nat /\ timers'[n] = new
      /\ \A b \in 1 .. n : b # n => b \in DOMAIN timers /\ timers'[b] = timers[b]
    BY <1>1
<1> HIDE DEF n
<1>3. \A b \in DOMAIN timers : Alternates(timers[b])
    BY DEF TempoInv
<1>4. \A b \in 1 .. n : Alternates(timers'[b])
    <2> TAKE b \in 1 .. n
    <2>1. CASE b = n
        BY <1>2, <2>1
    <2>2. CASE b # n
        BY <1>2, <1>3, <2>2
    <2> QED  BY <2>1, <2>2
<1>5. \A b \in 1 .. n : Len(timers'[b]) > 1 => b = n
    <2> TAKE b \in 1 .. n
    <2>1. CASE b # n
        <3>1. Len(timers'[b]) = 1
            BY <1>2, <2>1
        <3> QED  BY <3>1
    <2> QED  BY <2>1
<1>6. \A b \in 1 .. n : Len(timers'[b]) > 1 => curop' + Len(timers'[b]) \div 2 = Len(ops') - 1
    <2> TAKE b \in 1 .. n
    <2> SUFFICES ASSUME Len(timers'[b]) > 1
                 PROVE  curop' + Len(timers'[b]) \div 2 = Len(ops') - 1
        OBVIOUS
    <2>1. b = n
        BY <1>5
    <2>2. timers'[b] = new
        BY <1>2, <2>1
    <2> QED  BY <2>2
<1>7. (\A b \in 1 .. n : Len(timers'[b]) = 1) => curop' = Len(ops') - 1
    <2> SUFFICES ASSUME \A b \in 1 .. n : Len(timers'[b]) = 1
                 PROVE  curop' = Len(ops') - 1
        OBVIOUS
    <2>1. n \in 1 .. n
        BY <1>1, <1>2 DEF n
    <2>2. Len(new) = 1
        BY <1>2, <2>1
    <2> QED  BY <2>2
<1>8. \A b \in 1 .. n : Alternates(timers[b])'
    BY <1>4 DEF Alternates
<1>9. \A a, b \in 1 .. n : Len(timers'[a]) > 1 /\ Len(timers'[b]) > 1 => a = b
    BY <1>5
<1> QED  BY <1>2, <1>6, <1>7, <1>8, <1>9 DEF TempoInv

LEMMA CallbacksAlternate ==
    ASSUME NEW n \in Nat, n # 0
    PROVE  /\ Callbacks(n) \in Batch /\ Alternates(Callbacks(n))
           /\ Len(Callbacks(n)) > 1 /\ Len(Callbacks(n)) \div 2 = n
<1>1. Callbacks(n) \in Batch /\ Len(Callbacks(n)) = 2 * n
    BY CallbacksAreABatch
<1>2. \A k \in 1 .. 2 * n : Callbacks(n)[k] = IF k % 2 = 1 THEN "select" ELSE "apply"
    BY DEF Callbacks
<1> HIDE DEF Callbacks
<1>3. \A k \in 1 .. 2 * n : k % 2 = 1 <=> (2 * n - k) % 2 = 1
    OBVIOUS
<1>4. Alternates(Callbacks(n))
    BY <1>1, <1>2, <1>3 DEF Alternates
<1>5. 2 * n > 1 /\ (2 * n) \div 2 = n
    OBVIOUS
<1> QED  BY <1>1, <1>4, <1>5

\* New operations are launched when the last one has been selected.
LEMMA LaunchTempo ==
    ASSUME TypeInv, TempoInv, curop = Len(ops) - 1,
           NEW S, NEW new \in Seq(S), Launch(new)
    PROVE  TempoInv'
<1>1. ops' = new /\ Len(new) \in Nat /\ curop \in Int
    BY TimersFacts DEF Launch
<1>2. \A b \in DOMAIN timers : Len(timers[b]) = 1
    <2> TAKE b \in DOMAIN timers
    <2>1. Len(timers[b]) \in Nat /\ Len(timers[b]) >= 1 /\ Len(ops) \in Nat
        BY TimersFacts
    <2>2. Len(timers[b]) > 1 => curop + Len(timers[b]) \div 2 = Len(ops) - 1
        BY DEF TempoInv
    <2> DEFINE m == Len(timers[b])
    <2>3. m \in Nat /\ m >= 1 /\ (m > 1 => curop + m \div 2 = curop)
        BY <2>1, <2>2
    <2> HIDE DEF m
    <2>4. m = 1
        BY <1>1, <2>3
    <2> QED  BY <2>4 DEF m
<1>3. CASE Len(new) = 0
    <2>1. timers' = timers /\ curop' = Len(ops') - 1
        BY <1>1, <1>3 DEF Launch
    <2>2. \A b \in DOMAIN timers : Alternates(timers[b])'
        BY <2>1 DEF TempoInv, Alternates
    <2> QED  BY <1>2, <2>1, <2>2 DEF TempoInv
<1>4. CASE Len(new) = 1
    <2>1. timers' = Append(timers, <<"apply">>) /\ curop' = Len(ops') - 1
        BY <1>1, <1>4 DEF Launch
    <2> DEFINE one == <<"apply">>
    <2>2. one \in Seq({"select", "apply"}) /\ Len(one) = 1 /\ one[1] = "apply"
        OBVIOUS
    <2> HIDE DEF one
    <2>3. one \in Batch
        BY <2>2 DEF Batch
    <2>4. Alternates(one)
        BY <2>2 DEF Alternates
    <2>5. timers' = Append(timers, one)
        BY <2>1 DEF one
    <2>6. ~ (Len(one) > 1)
        BY <2>2
    <2> QED  BY <1>2, <2>1, <2>3, <2>4, <2>5, <2>6, NewBatch
<1>5. CASE Len(new) # 0 /\ Len(new) # 1
    <2> DEFINE batch == Callbacks(Len(new))
    <2>1. timers' = Append(timers, batch) /\ curop' = -1
        BY <1>5 DEF Launch
    <2>2. /\ batch \in Batch /\ Alternates(batch)
          /\ Len(batch) > 1 /\ Len(batch) \div 2 = Len(new)
        BY <1>1, <1>5, CallbacksAlternate
    <2> HIDE DEF batch
    <2>3. curop' + Len(batch) \div 2 = Len(ops') - 1
        BY <1>1, <2>1, <2>2
    <2>4. Len(batch) # 1
        <3>1. batch \in Seq({"select", "apply"})
            BY <2>2 DEF Batch
        <3> QED  BY <2>2, <3>1
    <2> QED  BY <1>2, <2>1, <2>2, <2>3, <2>4, NewBatch
<1> QED  BY <1>3, <1>4, <1>5

LEMMA FireTempo ==
    ASSUME TypeInv, TempoInv, NEW b \in DOMAIN timers, Fire(b)
    PROVE  TempoInv'
<1> DEFINE m == Len(timers[b])
           n == Len(timers)
<1>1. /\ timers \in Seq(Batch) /\ n \in Nat /\ DOMAIN timers = 1 .. n
      /\ curop \in Int /\ Len(ops) \in Nat /\ b \in 1 .. n /\ b \in Int
      /\ \A k \in 1 .. n : /\ timers[k] \in Batch /\ Len(timers[k]) \in Nat
                           /\ Len(timers[k]) >= 1
    BY TimersFacts
<1>2. /\ \A k \in 1 .. n : Alternates(timers[k])
      /\ \A k, l \in 1 .. n : Len(timers[k]) > 1 /\ Len(timers[l]) > 1 => k = l
      /\ \A k \in 1 .. n : Len(timers[k]) > 1 => curop + Len(timers[k]) \div 2 = Len(ops) - 1
      /\ (\A k \in 1 .. n : Len(timers[k]) = 1) => curop = Len(ops) - 1
    BY <1>1 DEF TempoInv
<1>3. /\ ops' = ops
      /\ \/ Head(timers[b]) = "select" /\ curop' = curop + 1
         \/ Head(timers[b]) = "apply" /\ curop' = curop
      /\ m = 1 => timers' = RemoveAt(timers, b)
      /\ m # 1 => timers' = [timers EXCEPT ![b] = Tail(timers[b])]
    BY DEF Fire
<1> DEFINE batch == timers[b]
<1>4. batch \in Seq({"select", "apply"}) /\ batch # << >> /\ Len(batch) = m /\ m \in Nat /\ m >= 1
    BY <1>1 DEF Batch
<1>5. Head(batch) = IF (m - 1) % 2 = 1 THEN "select" ELSE "apply"
    <2>1. Alternates(batch)
        BY <1>1, <1>2
    <2> HIDE DEF batch, m
    <2>2. 1 \in 1 .. Len(batch) /\ Head(batch) = batch[1]
        BY <1>4
    <2> QED  BY <1>4, <2>1, <2>2 DEF Alternates
<1> HIDE DEF n
<1>6. CASE m = 1
    <2>1. curop' = curop
        <3>1. Head(timers[b]) = "apply"
            BY <1>5, <1>6
        <3> QED  BY <1>3, <3>1
    <2>2. /\ timers' \in Seq(Batch) /\ DOMAIN timers' = 1 .. n - 1
          /\ \A k \in 1 .. n - 1 : timers'[k] = IF k < b THEN timers[k] ELSE timers[k + 1]
        <3>1. timers' = RemoveAt(timers, b) /\ b \in 1 .. Len(timers)
            BY <1>1, <1>3, <1>6 DEF n
        <3> QED  BY <1>1, <3>1, RemoveAtProperties DEF n
    <2> DEFINE from(k) == IF k < b THEN k ELSE k + 1
    <2>3. \A k \in 1 .. n - 1 : from(k) \in 1 .. n /\ timers'[k] = timers[from(k)]
        BY <1>1, <2>2
    <2>4. \A k, l \in 1 .. n - 1 : from(k) = from(l) => k = l
        BY <1>1
    <2>5. \A k \in 1 .. n : k # b => \E l \in 1 .. n - 1 : from(l) = k
        <3> TAKE k \in 1 .. n
        <3>1. CASE k < b
            BY <1>1, <3>1
        <3>2. CASE k > b
            <4>1. k - 1 \in 1 .. n - 1 /\ from(k - 1) = k
                BY <1>1, <3>2
            <4> QED  BY <4>1
        <3> QED  BY <1>1, <3>1, <3>2
    <2> HIDE DEF from
    <2>6. \A k \in 1 .. n - 1 : Alternates(timers'[k])
        BY <1>2, <2>3
    <2>7. \A k, l \in 1 .. n - 1 : Len(timers'[k]) > 1 /\ Len(timers'[l]) > 1 => k = l
        BY <1>2, <2>3, <2>4
    <2>8. \A k \in 1 .. n - 1 : Len(timers'[k]) > 1 => curop' + Len(timers'[k]) \div 2 = Len(ops') - 1
        <3> TAKE k \in 1 .. n - 1
        <3> SUFFICES ASSUME Len(timers'[k]) > 1
                     PROVE  curop' + Len(timers'[k]) \div 2 = Len(ops') - 1
            OBVIOUS
        <3>1. from(k) \in 1 .. n /\ timers'[k] = timers[from(k)]
            BY <2>3
        <3>2. curop + Len(timers[from(k)]) \div 2 = Len(ops) - 1
            BY <1>2, <3>1
        <3> QED  BY <1>3, <2>1, <3>1, <3>2
    <2>9. (\A k \in 1 .. n - 1 : Len(timers'[k]) = 1) => curop' = Len(ops') - 1
        <3> SUFFICES ASSUME \A k \in 1 .. n - 1 : Len(timers'[k]) = 1
                     PROVE  curop' = Len(ops') - 1
            OBVIOUS
        <3>1. \A k \in 1 .. n : Len(timers[k]) = 1
            <4> TAKE k \in 1 .. n
            <4>1. CASE k = b
                BY <1>6, <4>1
            <4>2. CASE k # b
                <5>1. PICK l \in 1 .. n - 1 : from(l) = k
                    BY <2>5, <4>2
                <5> QED  BY <2>3, <5>1
            <4> QED  BY <4>1, <4>2
        <3> QED  BY <1>2, <1>3, <2>1, <3>1
    <2>10. \A k \in 1 .. n - 1 : Alternates(timers[k])'
        BY <2>6 DEF Alternates
    <2> QED  BY <2>2, <2>7, <2>8, <2>9, <2>10 DEF TempoInv
<1>7. CASE m # 1
    <2> DEFINE rest == Tail(batch)
    <2>1. /\ Len(rest) = m - 1 /\ m > 1
          /\ \A k \in 1 .. m - 1 : rest[k] = batch[k + 1]
        <3> HIDE DEF batch, m
        <3> QED  BY <1>4, <1>7
    <2>2. /\ DOMAIN timers' = 1 .. n /\ timers'[b] = rest
          /\ \A k \in 1 .. n : k # b => timers'[k] = timers[k]
        BY <1>1, <1>3, <1>7
    <2>3. Alternates(rest)
        <3>1. Alternates(batch)
            BY <1>1, <1>2
        <3> HIDE DEF rest, batch, m
        <3>2. \A k \in 1 .. m - 1 : rest[k] = IF (m - 1 - k) % 2 = 1 THEN "select" ELSE "apply"
            <4> TAKE k \in 1 .. m - 1
            <4>1. k + 1 \in 1 .. m /\ m - (k + 1) = m - 1 - k
                BY <1>4
            <4>2. batch[k + 1] = IF (m - (k + 1)) % 2 = 1 THEN "select" ELSE "apply"
                BY <1>4, <3>1, <4>1 DEF Alternates
            <4> QED  BY <2>1, <4>1, <4>2
        <3> QED  BY <2>1, <3>2 DEF Alternates
    <2>4. \A k \in 1 .. n : k # b => Len(timers[k]) = 1
        <3> TAKE k \in 1 .. n
        <3>1. Len(timers[k]) > 1 => k = b
            BY <1>1, <1>2, <2>1
        <3>2. Len(timers[k]) \in Nat /\ Len(timers[k]) >= 1
            BY <1>1
        <3> DEFINE l == Len(timers[k])
        <3>3. l \in Nat /\ l >= 1 /\ (l > 1 => k = b)
            BY <3>1, <3>2
        <3> HIDE DEF l
        <3>4. k # b => l = 1
            BY <3>3
        <3> QED  BY <3>4 DEF l
    <2>5. curop + m \div 2 = Len(ops) - 1
        BY <1>1, <1>2, <2>1
    <2>6. curop' + (m - 1) \div 2 = Len(ops') - 1
        <3>1. curop' = IF (m - 1) % 2 = 1 THEN curop + 1 ELSE curop
            BY <1>3, <1>5
        <3> DEFINE o == Len(ops)
        <3>2. Len(ops') = o /\ curop + m \div 2 = o - 1 /\ o \in Nat
            BY <1>1, <1>3, <2>5
        <3> HIDE DEF m, o
        <3>3. (m - 1) % 2 = 1 => 1 + (m - 1) \div 2 = m \div 2
            BY <1>4
        <3>4. (m - 1) % 2 # 1 => (m - 1) \div 2 = m \div 2
            BY <1>4
        <3>5. m \div 2 \in Int /\ (m - 1) \div 2 \in Int
            BY <1>4
        <3> QED  BY <1>1, <3>1, <3>2, <3>3, <3>4, <3>5
    <2> HIDE DEF rest, batch, m
    <2>7. \A k \in 1 .. n : Len(timers'[k]) > 1 => k = b
        <3> TAKE k \in 1 .. n
        <3>1. CASE k # b
            <4>1. Len(timers'[k]) = 1
                BY <2>2, <2>4, <3>1
            <4> QED  BY <4>1
        <3> QED  BY <3>1
    <2>8. \A k \in 1 .. n : Alternates(timers'[k])
        <3> TAKE k \in 1 .. n
        <3>1. CASE k = b
            BY <2>2, <2>3, <3>1
        <3>2. CASE k # b
            BY <1>2, <2>2, <3>2
        <3> QED  BY <3>1, <3>2
    <2>9. \A k \in 1 .. n : Len(timers'[k]) > 1 => curop' + Len(timers'[k]) \div 2 = Len(ops') - 1
        <3> TAKE k \in 1 .. n
        <3> SUFFICES ASSUME Len(timers'[k]) > 1
                     PROVE  curop' + Len(timers'[k]) \div 2 = Len(ops') - 1
            OBVIOUS
        <3>1. k = b
            BY <2>7
        <3>2. Len(timers'[k]) = m - 1
            BY <2>1, <2>2, <3>1
        <3> QED  BY <2>6, <3>2
    <2>10. (\A k \in 1 .. n : Len(timers'[k]) = 1) => curop' = Len(ops') - 1
        <3> SUFFICES ASSUME \A k \in 1 .. n : Len(timers'[k]) = 1
                     PROVE  curop' = Len(ops') - 1
            OBVIOUS
        <3>1. Len(timers'[b]) = 1
            BY <1>1
        <3>2. m - 1 = 1
            BY <2>1, <2>2, <3>1
        <3>3. (m - 1) \div 2 = 0
            BY <3>2
        <3>4. curop' \in Int
            BY <1>1, <1>3
        <3> QED  BY <2>6, <3>3, <3>4
    <2>11. \A k \in 1 .. n : Alternates(timers[k])'
        BY <2>8 DEF Alternates
    <2>12. \A k, l \in 1 .. n : Len(timers'[k]) > 1 /\ Len(timers'[l]) > 1 => k = l
        BY <2>7
    <2> QED  BY <2>2, <2>9, <2>10, <2>11, <2>12 DEF TempoInv
<1> QED  BY <1>6, <1>7

LEMMA StartsBySchedule ==
    ASSUME BoardInv, ResolverInit, SomethingFrozen
    PROVE  SchedInv
<1>1. PICK u \in User, p \in Problem : WasFrozen(u, p)
    BY DEF SomethingFrozen
<1>2. frozen = {c \in User \X Problem : WasFrozen(c[1], c[2])}
    BY DEF ResolverInit
<1>3. <<u, p>> \in frozen
    BY <1>1, <1>2
<1> QED  BY <1>3 DEF ResolverInit, SchedInv

\* A key or a click before A would need an empty list of operations.
LEMMA LaunchSchedule ==
    ASSUME BoardInv, SchedInv, Ready, place' = place, autopress' = autopress,
           NEW S, NEW new \in Seq(S), Launch(new)
    PROVE  SchedInv'
<1>1. Loaded /\ curop = Len(ops) - 1 /\ TypeInv
    BY DEF Ready, BoardInv
<1>2. autopress
    <2> SUFFICES ASSUME ~autopress
                 PROVE  FALSE
        OBVIOUS
    <2>1. curop = -1 /\ (ops = << >> => frozen # {})
        BY DEF SchedInv
    <2>2. Len(ops) = 0
        BY <1>1, <2>1, TimersFacts
    <2>3. ops = << >>
        <3>1. PICK T : ops \in Seq(T)
            BY <1>1 DEF TypeInv
        <3> QED  BY <2>2, <3>1
    <2> QED  BY <1>1, <2>1, <2>3, NothingFrozen
<1>3. TempoInv'
    BY <1>1, <1>2, LaunchTempo DEF SchedInv
<1>4. ~ (place' > 0)
    BY <1>1 DEF Loaded
<1> QED  BY <1>2, <1>3, <1>4 DEF SchedInv

LEMMA RevealLaunches ==
    ASSUME BoardInv, contest' = contest, NEW i \in User, NEW p \in Problem, NEW key,
           Reveal(i, p, key)
    PROVE  \E S : \E new \in Seq(S) : Launch(new)
<1>1. CASE Launch(<< >>)
    <2> DEFINE none == << >>
    <2>1. none \in Seq({})
        OBVIOUS
    <2> HIDE DEF none
    <2>2. Launch(none)
        BY <1>1 DEF none
    <2> QED  BY <2>1, <2>2
<1>2. CASE \E a, b : Launch(<<a, b>>)
    <2>1. PICK a, b : Launch(<<a, b>>)
        BY <1>2
    <2> DEFINE two == <<a, b>>
    <2>2. two \in Seq({a, b})
        OBVIOUS
    <2> HIDE DEF two
    <2>3. Launch(two)
        BY <2>1 DEF two
    <2> QED  BY <2>2, <2>3
<1> QED  BY <1>1, <1>2, RevealCases DEF ShowsNothing, Shows

LEMMA EnterLaunches ==
    ASSUME BoardInv, PressEnter
    PROVE  \E S : \E new \in Seq(S) : Launch(new)
<1>1. ASSUME NEW a, Launch(<<a>>)
      PROVE  \E S : \E new \in Seq(S) : Launch(new)
    <2> DEFINE one == <<a>>
    <2>1. one \in Seq({a})
        OBVIOUS
    <2> HIDE DEF one
    <2>2. Launch(one)
        BY <1>1 DEF one
    <2> QED  BY <2>1, <2>2
<1>2. \/ Launch(<<[type |-> "delay"]>>)
      \/ Launch(<<[type |-> "show", user |-> arr[Max(Unshown)]]>>)
      \/ RevealNext
    BY DEF PressEnter
<1>3. CASE RevealNext
    <2>1. contest' = contest
        BY DEF PressEnter
    <2>2. CASE Launch(<< >>)
        <3> DEFINE none == << >>
        <3>1. none \in Seq({})
            OBVIOUS
        <3> HIDE DEF none
        <3>2. Launch(none)
            BY <2>2 DEF none
        <3> QED  BY <3>1, <3>2
    <2>3. CASE \E i \in User, p \in Problem, key \in Nat : Reveal(i, p, key)
        BY <2>1, <2>3, RevealLaunches
    <2> QED  BY <1>3, <2>2, <2>3, RevealNextCases
<1> QED  BY <1>1, <1>2, <1>3

LEMMA PressASchedule ==
    ASSUME BoardInv, SchedInv, PressA
    PROVE  SchedInv'
<1>1. /\ Loaded /\ ~autopress /\ autopress' = TRUE
      /\ timers' = IF ops = << >> THEN timers ELSE Append(timers, Callbacks(Len(ops)))
      /\ place' = place /\ ops' = ops /\ curop' = curop
    BY DEF PressA
<1>2. timers = << >> /\ curop = -1 /\ ops # << >>
    BY <1>1, NothingFrozen DEF SchedInv
<1>3. Len(ops) \in Nat /\ Len(ops) # 0
    <2>1. PICK T : ops \in Seq(T)
        BY DEF BoardInv, TypeInv
    <2> QED  BY <1>2, <2>1
<1> DEFINE batch == Callbacks(Len(ops))
<1>4. /\ batch \in Batch /\ Alternates(batch)
      /\ Len(batch) > 1 /\ Len(batch) \div 2 = Len(ops)
    BY <1>3, CallbacksAlternate
<1>5. timers' = Append(<< >>, batch)
    BY <1>1, <1>2
<1> HIDE DEF batch
<1>6. DOMAIN timers' = {1} /\ timers'[1] = batch
    <2>1. << >> \in Seq(Batch)
        OBVIOUS
    <2> QED  BY <1>4, <1>5, <2>1
<1>7. \A b \in DOMAIN timers' : Alternates(timers[b])'
    BY <1>4, <1>6 DEF Alternates
<1>8. \A b \in DOMAIN timers' : curop' + Len(timers'[b]) \div 2 = Len(ops') - 1
    <2>1. curop' + Len(batch) \div 2 = Len(ops') - 1
        BY <1>1, <1>2, <1>3, <1>4
    <2> QED  BY <1>6, <2>1
<1>9. ~ (\A b \in DOMAIN timers' : Len(timers'[b]) = 1)
    <2>1. Len(batch) # 1
        <3>1. batch \in Seq({"select", "apply"})
            BY <1>4 DEF Batch
        <3> DEFINE l == Len(batch)
        <3>2. l \in Nat /\ l > 1
            BY <1>4, <3>1
        <3> HIDE DEF l
        <3>3. l # 1
            BY <3>2
        <3> QED  BY <3>3 DEF l
    <2> QED  BY <1>6, <2>1
<1>10. TempoInv'
    BY <1>6, <1>7, <1>8, <1>9 DEF TempoInv
<1>11. ~ (place' > 0)
    BY <1>1 DEF Loaded
<1> QED  BY <1>1, <1>10, <1>11 DEF SchedInv

\* The page never stops answering when there was something to replay: a batch that has run
\* out leaves the last operation selected, however many batches ran at once.
THEOREM AlwaysAnswers == ResolverSpec => []NeverStuck
<1> DEFINE Inv == SomethingFrozen => SchedInv
<1>1. ResolverInit /\ BoardInv => Inv
    BY StartsBySchedule
<1>2. BoardInv /\ Inv /\ [ResolverNext]_resolverVars => Inv'
    <2> SUFFICES ASSUME BoardInv, SomethingFrozen => SchedInv, [ResolverNext]_resolverVars,
                        SomethingFrozen'
                 PROVE  SchedInv'
        OBVIOUS
    <2>1. contest' = contest
        BY DEF ResolverNext, CalcOperations, Thaw, NextPlace, PressA, PressEnter, Click, Fire,
               Unloaded, resolverVars
    <2>2. SomethingFrozen
        <3>1. \A u, p : WasFrozen(u, p)' = WasFrozen(u, p)
            BY <2>1 DEF WasFrozen, FrozenGot, Perfect, Visible, Opened, First, Single, Subs
        <3> QED  BY <3>1 DEF SomethingFrozen
    <2>3. SchedInv
        BY <2>2
    <2>4. CASE Thaw
        <3>1. place > 0 /\ autopress' = autopress /\ timers' = timers /\ curop' = curop
            BY <2>4 DEF Thaw, Unloaded
        <3> QED  BY <2>3, <2>4, <3>1, ThawKeeps DEF SchedInv
    <2>5. CASE NextPlace
        <3>1. /\ place > 0 /\ autopress' = autopress /\ timers' = timers /\ curop' = curop
              /\ ops' = ops /\ frozen' = frozen
            BY <2>5 DEF NextPlace, Unloaded
        <3> QED  BY <2>3, <3>1 DEF SchedInv
    <2>6. CASE PressA
        BY <2>3, <2>6, PressASchedule
    <2>7. CASE PressEnter
        <3>1. Ready /\ place' = place /\ autopress' = autopress
            BY <2>7 DEF PressEnter
        <3> QED  BY <2>3, <2>7, <3>1, EnterLaunches, LaunchSchedule
    <2>8. ASSUME NEW u \in User, NEW c \in Cells, Click(u, c[1], c[2])
          PROVE  SchedInv'
        <3>1. PICK p \in Problem : \E s \in Subs(p) : c = <<p, s>>
            BY DEF Cells
        <3>2. PICK s \in Subs(p) : c = <<p, s>>
            BY <3>1
        <3>3. page.rank[u] \in User
            BY DEF BoardInv, TypeInv
        <3>4. Ready /\ Reveal(page.rank[u], p, s) /\ place' = place /\ autopress' = autopress
            BY <2>8, <3>2 DEF Click
        <3> QED  BY <2>1, <2>3, <3>3, <3>4, RevealLaunches, LaunchSchedule
    <2>9. ASSUME NEW b \in DOMAIN timers, Fire(b)
          PROVE  SchedInv'
        <3>1. timers # << >>
            OBVIOUS
        <3>2. autopress
            BY <2>3, <3>1 DEF SchedInv
        <3>3. place' = place /\ autopress' = autopress
            BY <2>9 DEF Fire
        <3>4. TempoInv'
            BY <2>3, <2>9, <3>2, FireTempo DEF SchedInv, BoardInv
        <3> QED  BY <2>3, <3>2, <3>3, <3>4 DEF SchedInv
    <2>10. CASE UNCHANGED resolverVars
        BY <2>3, <2>10 DEF resolverVars, SchedInv, TempoInv, Alternates
    <2> QED  BY <2>4, <2>5, <2>6, <2>7, <2>8, <2>9, <2>10 DEF ResolverNext, CalcOperations
<1>3. BoardInv /\ Inv => NeverStuck
    <2> SUFFICES ASSUME SomethingFrozen, SchedInv, autopress, timers = << >>
                 PROVE  curop = Len(ops) - 1
        BY DEF NeverStuck, SomethingFrozen
    <2>1. TempoInv
        BY DEF SchedInv
    <2> QED  BY <2>1 DEF TempoInv
<1> QED  BY <1>1, <1>2, <1>3, BoardInvariant, PTL DEF ResolverSpec

-----------------------------------------------------------------------------
(* The page.                                                               *)

Screen(rank, pts, row, total) == [rank |-> rank, score |-> pts, got |-> row, problem |-> total]

\* The page after an operation was applied to it.
Raised(rank, op) == [v \in User |-> IF v = op.user THEN op.to
                                    ELSE IF rank[v] < op.from /\ rank[v] >= op.to
                                    THEN rank[v] + 1 ELSE rank[v]]
Played(op, pg) ==
    IF op.type = "problem"
    THEN Screen(Raised(pg.rank, op), [pg.score EXCEPT ![op.user] = @ + op.new - op.old], pg.got,
                [pg.problem EXCEPT ![op.user][op.problem] = op.new])
    ELSE IF op.type = "sub"
    THEN Screen(pg.rank, pg.score, [pg.got EXCEPT ![op.user][op.problem][op.sub] = op.new],
                [pg.problem EXCEPT ![op.user][op.problem] = @ + op.new - op.old])
    ELSE pg

\* The resolver's board as a page shows it.
Ranks(order) == [u \in User |-> CHOOSE i \in User : order[i] = u]
Totals(row) == [u \in User |-> [p \in Problem |-> Total(row[u][p])]]
Board == Screen(Ranks(arr), score, got, Totals(got))

\* What the page shows before each of the operations, and after the last one.
FilmOf(film, played, last) ==
    /\ film[Len(played)] = last
    /\ \A k \in 1 .. Len(played) : film[k] = Played(played[k], film[k - 1])
IsFilm(film) == FilmOf(film, ops, Board)

\* The page is at the start of the film; or as far from its end as there are callbacks
\* left; or at its end, and the position has run past it.
Left(batches) == IF batches = << >> THEN 0 ELSE Len(batches[1])
PlaysAt(film, played, at, batches, pg) ==
    /\ Len(batches) <= 1 /\ (batches # << >> => Alternates(batches[1]))
    /\ (Left(batches) + 1) \div 2 <= Len(played)
    /\ at = Len(played) - 1 - Left(batches) \div 2
    /\ pg = film[Len(played) - (Left(batches) + 1) \div 2]
OverrunsAt(film, played, at, batches, pg) ==
    /\ Len(batches) <= 1
    /\ pg = film[Len(played)]
    /\ \/ at >= Len(played)
       \/ at = Len(played) - 1 /\ batches # << >> /\ Head(batches[1]) = "select"

Waits(film) == ~autopress /\ timers = << >> /\ curop = -1 /\ page = film[0]
Plays(film) == Loaded /\ PlaysAt(film, ops, curop, timers, page)
Overruns(film) == Loaded /\ autopress /\ OverrunsAt(film, ops, curop, timers, page)

\* Some film of the operations that were launched last ends with the board, and the page
\* is where the timers have come to, unless a key came before the last callback.
ShapeInv == got = [u \in User |-> [p \in Problem |-> got[u][p]]]
FilmInv == hurried = 0 => \E film : IsFilm(film) /\ (Waits(film) \/ Plays(film) \/ Overruns(film))

LEMMA RankOf ==
    ASSUME NEW order, IsOrder(order)
    PROVE  /\ Ranks(order) \in [User -> User]
           /\ \A i \in User : Ranks(order)[order[i]] = i
           /\ \A u \in User : order[Ranks(order)[u]] = u
<1>1. \A u \in User : Ranks(order)[u] \in User /\ order[Ranks(order)[u]] = u
    BY DEF IsOrder, Ranks
<1>2. Ranks(order) \in [User -> User]
    BY <1>1 DEF Ranks
<1>3. \A i \in User : order[i] \in User
    BY DEF IsOrder
<1>4. ASSUME NEW i \in User
      PROVE  Ranks(order)[order[i]] = i
    <2>1. Ranks(order)[order[i]] \in User /\ order[Ranks(order)[order[i]]] = order[i]
        BY <1>1, <1>3
    <2> QED  BY <2>1, OrderIsInjective
<1> QED  BY <1>1, <1>2, <1>4

LEMMA SubPlayed ==
    ASSUME NEW rank, NEW pts, NEW row, NEW total, NEW u, NEW p, NEW s, NEW old, NEW new
    PROVE  Played(SubOp(u, p, s, old, new), Screen(rank, pts, row, total)) =
               Screen(rank, pts, [row EXCEPT ![u][p][s] = new],
                      [total EXCEPT ![u][p] = @ + new - old])
<1> DEFINE op == SubOp(u, p, s, old, new)
           pg == Screen(rank, pts, row, total)
<1>1. /\ op.type = "sub" /\ op.user = u /\ op.problem = p /\ op.sub = s
      /\ op.old = old /\ op.new = new
    BY DEF SubOp
<1>2. pg.rank = rank /\ pg.score = pts /\ pg.got = row /\ pg.problem = total
    BY DEF Screen
<1> HIDE DEF op, pg
<1>3. Played(op, pg) = Screen(rank, pts, [row EXCEPT ![u][p][s] = new],
                              [total EXCEPT ![u][p] = @ + new - old])
    BY <1>1, <1>2 DEF Played
<1> QED  BY <1>3 DEF op, pg

LEMMA OthersPlayed ==
    ASSUME NEW op, NEW pg, op.type # "problem", op.type # "sub"
    PROVE  Played(op, pg) = pg
BY DEF Played

\* A rise on the board is what an operation does to the ranks on the page.
LEMMA RankRises ==
    ASSUME NEW order, IsOrder(order), NEW i \in User, NEW passed, NEW p, NEW old, NEW new
    PROVE  Ranks(Lift(order, i, passed)[2]) =
               Raised(Ranks(order), ProblemOp(order[i], p, old, new, i, Lift(order, i, passed)[1]))
<1> DEFINE next == Lift(order, i, passed)[2]
           rank == Ranks(order)
<1>1. PICK j \in 1 .. i :
          /\ Lift(order, i, passed)[1] = j
          /\ next = [k \in User |-> IF k = j THEN order[i]
                                    ELSE IF j < k /\ k <= i THEN order[k - 1] ELSE order[k]]
    BY LiftMoves DEF IsOrder
<1>2. IsOrder(next)
    BY LiftKeepsUsers
<1>3. /\ rank \in [User -> User] /\ \A k \in User : rank[order[k]] = k
      /\ \A u \in User : order[rank[u]] = u
    BY RankOf
<1>4. \A k \in User : Ranks(next)[next[k]] = k
    BY <1>2, RankOf
<1>5. User = 1 .. Users /\ Users \in Nat /\ i \in User /\ j \in 1 .. i /\ order \in [User -> User]
    BY UserFacts DEF IsOrder
<1> DEFINE to(v) == IF v = order[i] THEN j ELSE IF rank[v] < i /\ rank[v] >= j THEN rank[v] + 1 ELSE rank[v]
<1>6. Raised(rank, ProblemOp(order[i], p, old, new, i, j)) = [v \in User |-> to(v)]
    BY DEF Raised, ProblemOp
<1> HIDE DEF next, rank
<1> DEFINE at(k) == IF k = j THEN order[i] ELSE IF j < k /\ k <= i THEN order[k - 1] ELSE order[k]
<1>10. (\A k \in User : next[k] = at(k)) /\ j \in User /\ j \in Int /\ i \in Int /\ j <= i
    BY <1>1, <1>5
<1>7. ASSUME NEW v \in User
      PROVE  Ranks(next)[v] = to(v)
    <2> DEFINE r == rank[v]
    <2>1. r \in User /\ order[r] = v
        BY <1>3
    <2>2. r = i <=> v = order[i]
        BY <1>3, <1>5, <2>1
    <2>3. r \in Int /\ 1 <= r /\ r <= Users /\ \A k \in Int : 1 <= k /\ k <= Users => k \in User
        BY <1>5, <2>1
    <2>4. i <= Users /\ Users \in Int
        BY <1>5
    <2>5. to(v) = IF v = order[i] THEN j ELSE IF r < i /\ r >= j THEN r + 1 ELSE r
        OBVIOUS
    <2> HIDE DEF r, to
    <2>6. CASE v = order[i]
        <3>1. to(v) = j /\ next[j] = v
            BY <1>10, <2>5, <2>6
        <3> QED  BY <1>4, <1>10, <3>1
    <2>7. CASE v # order[i] /\ r < i /\ r >= j
        <3>1. r + 1 \in User /\ r + 1 # j /\ j < r + 1 /\ r + 1 <= i /\ (r + 1) - 1 = r
            BY <1>10, <2>3, <2>4, <2>7
        <3>2. next[r + 1] = v
            BY <1>10, <2>1, <3>1
        <3>3. to(v) = r + 1
            BY <2>5, <2>7
        <3> QED  BY <1>4, <3>1, <3>2, <3>3
    <2>8. CASE v # order[i] /\ ~ (r < i /\ r >= j)
        <3>1. r # i
            BY <2>2, <2>8
        <3>2. r # j /\ ~ (j < r /\ r <= i)
            BY <1>10, <2>3, <2>8, <3>1
        <3>3. next[r] = v
            BY <1>10, <2>1, <3>2
        <3>4. to(v) = r
            BY <2>5, <2>8
        <3> QED  BY <1>4, <2>1, <3>3, <3>4
    <2> QED  BY <2>6, <2>7, <2>8
<1>8. Ranks(next) = [v \in User |-> Ranks(next)[v]]
    BY DEF Ranks
<1> HIDE DEF to
<1>9. Ranks(next) = [v \in User |-> to(v)]
    BY <1>7, <1>8
<1> QED  BY <1>1, <1>6, <1>9 DEF next, rank


Fields == {"rank", "score", "got", "problem"}

LEMMA SameFields ==
    ASSUME NEW f, f = [x \in Fields |-> f[x]]
    PROVE  f = Screen(f.rank, f.score, f.got, f.problem)
<1> DEFINE g == Screen(f.rank, f.score, f.got, f.problem)
<1>1. g = [x \in Fields |-> g[x]]
    BY DEF Screen, Fields
<1>2. \A x \in Fields : g[x] = f[x]
    BY DEF Screen, Fields
<1> HIDE DEF g, Fields
<1>3. g = f
    BY <1>1, <1>2
<1> QED  BY <1>3 DEF g

\* The callback that applies an operation plays it.
LEMMA DataPlays ==
    ASSUME TypeInv, curop \in 0 .. Len(ops) - 1, GetNewData
    PROVE  page' = Played(ops[curop + 1], page)
<1> DEFINE op == ops[curop + 1]
<1>1. DOMAIN page = Fields
    BY DEF TypeInv, Fields
<1>2. \/ op.type = "problem" /\ PlayProblem(op)
      \/ op.type = "sub" /\ PlaySub(op)
      \/ op.type # "problem" /\ op.type # "sub" /\ page' = page
    <2>1. CASE op.type = "problem"
        BY <2>1 DEF GetNewData
    <2>2. CASE op.type = "sub"
        BY <2>2 DEF GetNewData
    <2>3. CASE op.type # "problem" /\ op.type # "sub"
        BY <2>3 DEF GetNewData
    <2> QED  BY <2>1, <2>2, <2>3
<1> SUFFICES page' = Played(op, page)
    OBVIOUS
<1> HIDE DEF op
<1>3. CASE op.type = "problem" /\ PlayProblem(op)
    <2>1. page' = [x \in Fields |-> page'[x]]
        BY <1>1, <1>3 DEF PlayProblem
    <2>2. /\ page'.rank = Raised(page.rank, op)
          /\ page'.score = [page.score EXCEPT ![op.user] = @ + op.new - op.old]
          /\ page'.got = page.got
          /\ page'.problem = [page.problem EXCEPT ![op.user][op.problem] = op.new]
        BY <1>1, <1>3 DEF PlayProblem, Raised, Fields
    <2>3. page' = Screen(page'.rank, page'.score, page'.got, page'.problem)
        BY <2>1, SameFields
    <2>4. Played(op, page) = Screen(Raised(page.rank, op), [page.score EXCEPT ![op.user] = @ + op.new - op.old],
                                    page.got, [page.problem EXCEPT ![op.user][op.problem] = op.new])
        BY <1>3 DEF Played
    <2> QED  BY <2>2, <2>3, <2>4
<1>4. CASE op.type = "sub" /\ PlaySub(op)
    <2>1. page' = [x \in Fields |-> page'[x]]
        BY <1>1, <1>4 DEF PlaySub
    <2>2. /\ page'.rank = page.rank /\ page'.score = page.score
          /\ page'.got = [page.got EXCEPT ![op.user][op.problem][op.sub] = op.new]
          /\ page'.problem = [page.problem EXCEPT ![op.user][op.problem] = @ + op.new - op.old]
        BY <1>1, <1>4 DEF PlaySub, Fields
    <2>3. page' = Screen(page'.rank, page'.score, page'.got, page'.problem)
        BY <2>1, SameFields
    <2>4. Played(op, page) =
              Screen(page.rank, page.score, [page.got EXCEPT ![op.user][op.problem][op.sub] = op.new],
                     [page.problem EXCEPT ![op.user][op.problem] = @ + op.new - op.old])
        BY <1>4 DEF Played
    <2> QED  BY <2>2, <2>3, <2>4
<1>5. CASE op.type # "problem" /\ op.type # "sub" /\ page' = page
    BY <1>5, OthersPlayed
<1> QED  BY <1>2, <1>3, <1>4, <1>5

LEMMA FilmGrows ==
    ASSUME NEW S, NEW played \in Seq(S), NEW T, NEW more \in Seq(T),
           NEW film, NEW part, NEW mid, NEW last,
           FilmOf(film, played, mid), FilmOf(part, more, last), part[0] = mid
    PROVE  \E grown : FilmOf(grown, played \o more, last) /\ grown[0] = film[0]
<1> DEFINE m == Len(played)
           n == Len(more)
           grown == [k \in 0 .. m + n |-> IF k <= m THEN film[k] ELSE part[k - m]]
           whole == played \o more
<1>1. m \in Nat /\ n \in Nat
    OBVIOUS
<1>2. /\ Len(whole) = m + n
      /\ \A k \in 1 .. m + n : whole[k] = IF k <= m THEN played[k] ELSE more[k - m]
    <2>1. played \in Seq(S \cup T) /\ more \in Seq(S \cup T)
        OBVIOUS
    <2> QED  BY <2>1
<1>3. /\ film[m] = mid /\ \A k \in 1 .. m : film[k] = Played(played[k], film[k - 1])
      /\ part[n] = last /\ \A k \in 1 .. n : part[k] = Played(more[k], part[k - 1])
    BY DEF FilmOf
<1> HIDE DEF m, n, whole
<1>4. \A k \in 0 .. m + n : grown[k] = IF k <= m THEN film[k] ELSE part[k - m]
    OBVIOUS
<1> HIDE DEF grown
<1>5. \A k \in 0 .. m + n : k >= m => grown[k] = part[k - m]
    <2> TAKE k \in 0 .. m + n
    <2>1. CASE k = m
        <3>1. k - m = 0 /\ k <= m
            BY <1>1, <2>1
        <3> QED  BY <1>3, <1>4, <2>1, <3>1
    <2>2. CASE k > m
        <3>1. ~ (k <= m)
            BY <1>1, <2>2
        <3> QED  BY <1>4, <3>1
    <2> QED  BY <1>1, <2>1, <2>2
<1>6. \A k \in 1 .. m + n : grown[k] = Played(whole[k], grown[k - 1])
    <2> TAKE k \in 1 .. m + n
    <2>1. CASE k <= m
        <3>1. k \in 1 .. m /\ k \in 0 .. m + n /\ k - 1 \in 0 .. m + n /\ k - 1 <= m
            BY <1>1, <2>1
        <3>2. grown[k] = film[k] /\ grown[k - 1] = film[k - 1] /\ whole[k] = played[k]
            BY <1>2, <1>4, <2>1, <3>1
        <3> QED  BY <1>3, <3>1, <3>2
    <2>2. CASE k > m
        <3>1. /\ k - m \in 1 .. n /\ k \in 0 .. m + n /\ k - 1 \in 0 .. m + n
              /\ k >= m /\ k - 1 >= m /\ (k - 1) - m = (k - m) - 1 /\ ~ (k <= m)
            BY <1>1, <2>2
        <3>2. grown[k] = part[k - m] /\ grown[k - 1] = part[(k - m) - 1] /\ whole[k] = more[k - m]
            BY <1>2, <1>5, <3>1
        <3> QED  BY <1>3, <3>1, <3>2
    <2> QED  BY <1>1, <2>1, <2>2
<1>7. grown[m + n] = last
    <2>1. m + n \in 0 .. m + n /\ m + n >= m /\ (m + n) - m = n
        BY <1>1
    <2> QED  BY <1>3, <1>5, <2>1
<1>8. grown[0] = film[0]
    BY <1>1, <1>4
<1>9. FilmOf(grown, whole, last)
    BY <1>2, <1>6, <1>7 DEF FilmOf
<1> QED  BY <1>8, <1>9 DEF whole

\* The page while a problem's subtasks are being played: a row of points not yet complete.
PartOf(u, p, row) ==
    Screen(Ranks(arr), score, [got EXCEPT ![u][p] = row], [Totals(got) EXCEPT ![u][p] = Total(row)])

LEMMA PartStarts ==
    ASSUME ShapeInv, NEW u \in User, NEW p \in Problem
    PROVE  PartOf(u, p, got[u][p]) = Board
<1> DEFINE in(v) == [q \in Problem |-> got[v][q]]
<1>1. got = [v \in User |-> in(v)]
    BY DEF ShapeInv
<1>2. [got EXCEPT ![u][p] = got[u][p]] = got
    <2>1. got[u] = in(u) /\ \A v \in User : got[v] = in(v)
        BY <1>1
    <2>2. [in(u) EXCEPT ![p] = got[u][p]] = in(u)
        OBVIOUS
    <2> HIDE DEF in
    <2>3. [got EXCEPT ![u] = got[u]] = got
        BY <1>1
    <2> QED  BY <2>1, <2>2, <2>3
<1>3. [Totals(got) EXCEPT ![u][p] = Total(got[u][p])] = Totals(got)
    <2> DEFINE t == Totals(got)
    <2>1. t \in [User -> [Problem -> {Total(got[v][q]) : v \in User, q \in Problem}]]
        BY DEF Totals
    <2>2. t[u][p] = Total(got[u][p])
        BY DEF Totals
    <2> HIDE DEF t
    <2>3. [t EXCEPT ![u][p] = t[u][p]] = t
        BY <2>1
    <2> QED  BY <2>2, <2>3 DEF t
<1> QED  BY <1>2, <1>3 DEF PartOf, Board

LEMMA PartGoesOn ==
    ASSUME BoardInv, NEW u \in User, NEW p \in Problem, NEW row \in [Subs(p) -> Nat],
           NEW s \in Subs(p), NEW x \in Nat, NEW next \in [Subs(p) -> Nat],
           next[s] = x, \A y \in Subs(p) : y # s => next[y] = row[y]
    PROVE  Played(SubOp(u, p, s, row[s], x), PartOf(u, p, row)) = PartOf(u, p, next)
<1> DEFINE g == [got EXCEPT ![u][p] = row]
           t == [Totals(got) EXCEPT ![u][p] = Total(row)]
<1>1. Played(SubOp(u, p, s, row[s], x), PartOf(u, p, row)) =
          Screen(Ranks(arr), score, [g EXCEPT ![u][p][s] = x], [t EXCEPT ![u][p] = @ + x - row[s]])
    <2> DEFINE rank == Ranks(arr)
    <2>1. PartOf(u, p, row) = Screen(rank, score, g, t)
        BY DEF PartOf
    <2> HIDE DEF rank, g, t
    <2>2. Played(SubOp(u, p, s, row[s], x), Screen(rank, score, g, t)) =
              Screen(rank, score, [g EXCEPT ![u][p][s] = x], [t EXCEPT ![u][p] = @ + x - row[s]])
        BY SubPlayed
    <2> QED  BY <2>1, <2>2 DEF rank
<1>2. DOMAIN got = User /\ DOMAIN got[u] = Problem
    BY BoardFacts
<1>3. [g EXCEPT ![u][p][s] = x] = [got EXCEPT ![u][p] = next]
    <2>1. [row EXCEPT ![s] = x] = next
        OBVIOUS
    <2>2. [g EXCEPT ![u][p][s] = x] = [got EXCEPT ![u][p] = [row EXCEPT ![s] = x]]
        BY <1>2
    <2> QED  BY <2>1, <2>2
<1>4. Total(next) = Total(row) + x - row[s]
    <2>2. IsFiniteSet(Subs(p))
        BY ContestFacts, BoardFacts
    <2>3. Total(next) = Total(row) + next[s] - row[s]
        BY <2>2, TotalChanges
    <2> QED  BY <2>3
<1>5. [t EXCEPT ![u][p] = @ + x - row[s]] = [Totals(got) EXCEPT ![u][p] = Total(next)]
    <2> DEFINE a == Totals(got)
    <2>1. DOMAIN a = User /\ DOMAIN a[u] = Problem
        BY DEF Totals
    <2> HIDE DEF a
    <2> DEFINE b == [a EXCEPT ![u][p] = Total(row)]
    <2>2. b[u][p] = Total(row)
        BY <2>1
    <2>3. [b EXCEPT ![u][p] = b[u][p] + x - row[s]] = [a EXCEPT ![u][p] = b[u][p] + x - row[s]]
        BY <2>1
    <2>4. b[u][p] + x - row[s] = Total(next)
        BY <1>4, <2>2
    <2>5. t = b
        BY DEF a
    <2> HIDE DEF b, t
    <2> QED  BY <2>3, <2>4, <2>5 DEF a
<1> HIDE DEF g, t
<1> QED  BY <1>1, <1>3, <1>5 DEF PartOf

LEMMA PartEnds ==
    ASSUME BoardInv, NEW u \in User, NEW p \in Problem, NEW new, GainStep(u, p, new), NEW from, NEW to,
           Ranks(arr)' = Raised(Ranks(arr), ProblemOp(u, p, Total(got[u][p]), Total(new), from, to))
    PROVE  Played(ProblemOp(u, p, Total(got[u][p]), Total(new), from, to), PartOf(u, p, new)) = Board'
<1> DEFINE op == ProblemOp(u, p, Total(got[u][p]), Total(new), from, to)
           t == [Totals(got) EXCEPT ![u][p] = Total(new)]
           pts == [score EXCEPT ![u] = @ + Total(new) - Total(got[u][p])]
<1>1. Played(op, PartOf(u, p, new)) = Screen(Raised(Ranks(arr), op), pts, [got EXCEPT ![u][p] = new],
                                             [t EXCEPT ![u][p] = Total(new)])
    <2> DEFINE rank == Ranks(arr)
               g == [got EXCEPT ![u][p] = new]
               old == Total(got[u][p])
               end == Total(new)
    <2>1. PartOf(u, p, new) = Screen(rank, score, g, t)
        BY DEF PartOf
    <2> DEFINE pg == Screen(rank, score, g, t)
    <2>2. /\ op.type = "problem" /\ op.user = u /\ op.problem = p /\ op.old = old /\ op.new = end
          /\ pg.rank = rank /\ pg.score = score /\ pg.got = g /\ pg.problem = t
          /\ pts = [score EXCEPT ![u] = @ + end - old]
        BY DEF ProblemOp, Screen
    <2> HIDE DEF rank, g, t, old, end, op, pts, pg
    <2>3. Played(op, pg) = Screen(Raised(rank, op), pts, g, [t EXCEPT ![u][p] = end])
        BY <2>2 DEF Played
    <2> QED  BY <2>1, <2>3 DEF rank, g, end, pg
<1>2. got' = [got EXCEPT ![u][p] = new] /\ DOMAIN got = User /\ DOMAIN got[u] = Problem
    BY BoardFacts DEF GainStep
<1>3. score' = pts
    <2>1. /\ score \in [User -> Nat] /\ got[u][p] \in [Subs(p) -> Nat] /\ new \in [Subs(p) -> Nat]
          /\ IsFiniteSet(Subs(p)) /\ \A s \in Subs(p) : got[u][p][s] <= new[s]
        BY BoardFacts, ContestFacts DEF GainStep
    <2> DEFINE a == Total(got[u][p])
               b == Total(new)
    <2>2. a \in Nat /\ b \in Nat /\ a <= b
        BY <2>1, TotalNat, TotalGrows
    <2>3. score' = [score EXCEPT ![u] = @ + Gain(a, b)]
        BY DEF GainStep
    <2> HIDE DEF a, b
    <2>4. Gain(a, b) = b - a
        BY <2>2 DEF Gain
    <2>5. score[u] + (b - a) = score[u] + b - a
        BY <2>1, <2>2
    <2>6. score' = [score EXCEPT ![u] = @ + b - a]
        BY <2>3, <2>4, <2>5
    <2> QED  BY <2>6 DEF a, b
<1>4. [t EXCEPT ![u][p] = Total(new)] = Totals(got')
    <2> DEFINE a == Totals(got)
    <2>1. [t EXCEPT ![u][p] = Total(new)] = t
        <3>1. DOMAIN a = User /\ DOMAIN a[u] = Problem
            BY DEF Totals
        <3> HIDE DEF a
        <3>2. [[a EXCEPT ![u][p] = Total(new)] EXCEPT ![u][p] = Total(new)] = [a EXCEPT ![u][p] = Total(new)]
            BY <3>1
        <3> QED  BY <3>2 DEF a
    <2>2. \A v \in User : \A q \in Problem :
              got'[v][q] = IF v = u /\ q = p THEN new ELSE got[v][q]
        BY GainKeepsSums
    <2>3. \A v \in User : \A q \in Problem : t[v][q] = Total(got'[v][q])
        BY <2>2 DEF Totals
    <2>4. /\ t = [v \in User |-> t[v]]
          /\ \A v \in User : t[v] = [q \in Problem |-> t[v][q]]
        BY DEF Totals
    <2> HIDE DEF t
    <2>5. \A v \in User : t[v] = [q \in Problem |-> Total(got'[v][q])]
        BY <2>3, <2>4
    <2>6. t = [v \in User |-> [q \in Problem |-> Total(got'[v][q])]]
        BY <2>4, <2>5
    <2> QED  BY <2>1, <2>6 DEF Totals
<1>5. Board' = Screen(Ranks(arr)', score', got', Totals(got'))
    BY DEF Board, Screen, Totals
<1> HIDE DEF op, t, pts
<1>6. Ranks(arr)' = Raised(Ranks(arr), op)
    BY DEF op
<1> QED  BY <1>1, <1>2, <1>3, <1>4, <1>5, <1>6 DEF op

\* What the replay of one problem does: the subtasks told, in the order of their numbers,
\* leave out those that show no more than before.
Replays(u, p, t, told, new, to) ==
    /\ GainStep(u, p, new)
    /\ told \in [1 .. t -> Subs(p)]
    /\ \A j, k \in 1 .. t : j < k => told[j] < told[k]
    /\ \A s \in Subs(p) : (\A n \in 1 .. t : told[n] # s) => new[s] = got[u][p][s]
    /\ Ranks(arr)' = Raised(Ranks(arr), ProblemOp(u, p, Total(got[u][p]), Total(new), place, to))
    /\ ops' = ops \o [n \in 1 .. t |-> SubOp(u, p, told[n], got[u][p][told[n]], new[told[n]])]
                  \o <<ProblemOp(u, p, Total(got[u][p]), Total(new), place, to)>>

LEMMA AscendingIsAll ==
    ASSUME NEW b \in Nat, NEW S \in SUBSET (1 .. b), NEW s \in S
    PROVE  \E n \in 1 .. Cardinality(S) : Ascending(S)[n] = s
<1> DEFINE c == Cardinality(S)
           f == Ascending(S)
<1>1. /\ c \in Nat /\ f \in [1 .. c -> S]
      /\ \A j, k \in 1 .. c : j < k => f[j] < f[k]
    BY AscendingKeys
<1>2. IsFiniteSet(S) /\ IsFiniteSet(1 .. c) /\ Cardinality(1 .. c) = c
    <2>1. IsFiniteSet(1 .. b)
        BY FS_Interval
    <2> HIDE DEF c
    <2>2. IsFiniteSet(1 .. c) /\ Cardinality(1 .. c) = c
        BY <1>1, FS_Interval
    <2> QED  BY <2>1, <2>2, FS_Subset
<1> HIDE DEF f
<1>3. f \in Injection(1 .. c, S)
    <2>1. ASSUME NEW j \in 1 .. c, NEW k \in 1 .. c, f[j] = f[k]
          PROVE  j = k
        <3>1. f[j] \in Int /\ f[k] \in Int
            <4>1. f[j] \in 1 .. b /\ f[k] \in 1 .. b
                BY <1>1
            <4> QED  BY <4>1
        <3>2. ~ (f[j] < f[k]) /\ ~ (f[k] < f[j])
            BY <2>1, <3>1
        <3> QED  BY <1>1, <3>2
    <2> HIDE DEF c
    <2>2. f \in [1 .. c -> S] /\ DOMAIN f = 1 .. c
        BY <1>1
    <2> QED  BY <2>1, <2>2 DEF Injection, IsInjective
<1>4. f \in Surjection(1 .. c, S)
    BY <1>2, <1>3, FS_Injection
<1> QED  BY <1>4 DEF Surjection, f

LEMMA ThawReplays ==
    ASSUME BoardInv, Thaw
    PROVE  \E u \in User, p \in Problem, t \in Nat : \E told, new, to : Replays(u, p, t, told, new, to)
<1> DEFINE u == arr[place]
           p == Min(FrozenAt(place))
           old == got[u][p]
           new == [s \in Subs(p) |-> IF s \in Visible(p) THEN contest.points[u][p][s] ELSE 0]
           T == {s \in Visible(p) : old[s] # contest.full[p][s]}
           told == Ascending(T)
           gain == Gain(Total(old), Total(new))
           pts == [score EXCEPT ![u] = @ + gain]
           passed == {v \in User : pts[v] < pts[u]}
           lift == Lift(arr, place, passed)
           subs == [n \in DOMAIN told |-> SubOp(u, p, told[n], old[told[n]], new[told[n]])]
           problem == <<ProblemOp(u, p, Total(old), Total(new), place, lift[1])>>
<1>1. /\ place > 0 /\ FrozenAt(place) # {}
      /\ arr' = lift[2] /\ score' = pts /\ got' = [got EXCEPT ![u][p] = new]
      /\ ops' = ops \o subs \o problem
      /\ contest' = contest
    BY DEF Thaw, Unloaded
<1>2. LoadInv /\ contest \in Contests
    BY DEF BoardInv, TypeInv
<1>3. place \in User /\ arr \in [User -> User] /\ IsOrder(arr)
    <2>1. place \in 0 .. Users
        BY DEF BoardInv, TypeInv
    <2>2. place > 0
        BY DEF Thaw
    <2>3. place \in User
        BY <2>1, <2>2, UserFacts
    <2> QED  BY <2>3, BoardFacts
<1>4. u \in User
    BY <1>3
<1>5. p \in Problem
    <2>1. FrozenAt(place) \in SUBSET Nat
        BY DEF FrozenAt, Problem
    <2>2. p \in FrozenAt(place)
        BY <1>1, <2>1, MinIsLeast
    <2> QED  BY <2>2 DEF FrozenAt
<1> HIDE DEF u, p
<1>6. /\ IsFiniteSet(Subs(p)) /\ Visible(p) \subseteq Subs(p)
      /\ \A s \in Subs(p) : /\ contest.points[u][p][s] \in Nat /\ contest.full[p][s] \in Nat
                            /\ contest.points[u][p][s] <= contest.full[p][s]
                            /\ old[s] \in Nat /\ old[s] <= contest.points[u][p][s]
      /\ \A s \in Subs(p) \ Visible(p) : old[s] = 0
    <2>1. \A s \in Subs(p) \ Visible(p) : got[u][p][s] = 0
        BY <1>1, <1>2, <1>4, <1>5 DEF LoadInv
    <2> QED  BY <1>2, <1>4, <1>5, <2>1, ContestFacts, BoardFacts
<1>7. /\ new \in [Subs(p) -> Nat]
      /\ \A s \in Subs(p) : new[s] = IF s \in Visible(p) THEN contest.points[u][p][s] ELSE 0
    BY <1>6
<1> HIDE DEF new
<1>8. GainStep(u, p, new)
    <2>1. \A s \in Subs(p) : got[u][p][s] <= new[s] /\ new[s] <= contest.points[u][p][s]
        BY <1>6, <1>7
    <2>2. score' = [score EXCEPT ![u] = @ + Gain(Total(got[u][p]), Total(new))]
        BY <1>1
    <2> QED  BY <1>1, <1>7, <2>1, <2>2 DEF GainStep
<1> DEFINE t == Cardinality(T)
<1>9. /\ t \in Nat /\ told \in [1 .. t -> T]
      /\ \A j, k \in 1 .. t : j < k => told[j] < told[k]
      /\ \A s \in T : \E n \in 1 .. t : told[n] = s
    <2>1. T \in SUBSET (1 .. contest.subs[p]) /\ contest.subs[p] \in Nat
        BY <1>2, <1>5, <1>6, ContestFacts DEF Subs
    <2> HIDE DEF T
    <2> QED  BY <2>1, AscendingKeys, AscendingIsAll
<1>10. T \subseteq Subs(p)
    BY <1>6
<1>11. \A s \in Subs(p) : s \notin T => new[s] = got[u][p][s]
    <2> TAKE s \in Subs(p)
    <2>1. CASE s \in Visible(p) /\ old[s] = contest.full[p][s]
        BY <1>6, <1>7, <2>1
    <2>2. CASE s \notin Visible(p)
        BY <1>6, <1>7, <2>2
    <2> QED  BY <2>1, <2>2
<1> HIDE DEF T, told, t
<1>12. told \in [1 .. t -> Subs(p)] /\ DOMAIN told = 1 .. t
    BY <1>9, <1>10
<1>13. \A s \in Subs(p) : (\A n \in 1 .. t : told[n] # s) => new[s] = got[u][p][s]
    BY <1>9, <1>11
<1>14. Ranks(arr)' = Raised(Ranks(arr), ProblemOp(u, p, Total(got[u][p]), Total(new), place, lift[1]))
    <2> DEFINE a == Total(got[u][p])
               b == Total(new)
    <2>1. Ranks(arr)' = Ranks(lift[2])
        BY <1>1 DEF Ranks
    <2>2. u = arr[place]
        BY DEF u
    <2> HIDE DEF passed, a, b, u
    <2>3. Ranks(Lift(arr, place, passed)[2]) =
              Raised(Ranks(arr), ProblemOp(arr[place], p, a, b, place, Lift(arr, place, passed)[1]))
        BY <1>3, RankRises
    <2> QED  BY <2>1, <2>2, <2>3 DEF a, b
<1>15. ops' = ops \o [n \in 1 .. t |-> SubOp(u, p, told[n], got[u][p][told[n]], new[told[n]])]
                  \o <<ProblemOp(u, p, Total(got[u][p]), Total(new), place, lift[1])>>
    BY <1>1, <1>12
<1> HIDE DEF lift
<1> DEFINE to == lift[1]
<1> HIDE DEF to
<1>16. Replays(u, p, t, told, new, to)
    BY <1>8, <1>9, <1>12, <1>13, <1>14, <1>15 DEF Replays, to
<1> QED  BY <1>4, <1>5, <1>9, <1>16

\* The replay of a problem goes on with the film.
LEMMA ThawFilm ==
    ASSUME BoardInv, ShapeInv, Thaw, NEW film, IsFilm(film)
    PROVE  \E grown : FilmOf(grown, ops', Board') /\ grown[0] = film[0]
<1>1. PICK u \in User, p \in Problem, t \in Nat : \E told, new, to : Replays(u, p, t, told, new, to)
    BY ThawReplays
<1>2. PICK told, new, to : Replays(u, p, t, told, new, to)
    BY <1>1
<1> DEFINE row(n) == [s \in Subs(p) |-> IF \E k \in 1 .. n : told[k] = s THEN new[s] ELSE got[u][p][s]]
           op(n) == SubOp(u, p, told[n], got[u][p][told[n]], new[told[n]])
           subs == [n \in 1 .. t |-> op(n)]
           last == ProblemOp(u, p, Total(got[u][p]), Total(new), place, to)
<1>3. /\ GainStep(u, p, new) /\ told \in [1 .. t -> Subs(p)]
      /\ \A j, k \in 1 .. t : j < k => told[j] < told[k]
      /\ \A s \in Subs(p) : (\A n \in 1 .. t : told[n] # s) => new[s] = got[u][p][s]
      /\ Ranks(arr)' = Raised(Ranks(arr), last)
      /\ ops' = ops \o subs \o <<last>>
    BY <1>2 DEF Replays
<1>4. /\ got[u][p] \in [Subs(p) -> Nat] /\ new \in [Subs(p) -> Nat] /\ Subs(p) \subseteq Nat
    BY <1>3, BoardFacts, ContestFacts DEF GainStep
<1>5. \A n \in 0 .. t : row(n) \in [Subs(p) -> Nat]
    BY <1>4
<1>6. row(0) = got[u][p]
    <2>1. \A s \in Subs(p) : row(0)[s] = got[u][p][s]
        OBVIOUS
    <2>2. row(0) = [s \in Subs(p) |-> row(0)[s]]
        OBVIOUS
    <2> HIDE DEF row
    <2> QED  BY <1>4, <2>1, <2>2
<1>7. row(t) = new
    <2>1. \A s \in Subs(p) : row(t)[s] = new[s]
        BY <1>3
    <2>2. row(t) = [s \in Subs(p) |-> row(t)[s]]
        OBVIOUS
    <2> HIDE DEF row
    <2> QED  BY <1>4, <2>1, <2>2
<1>8. ASSUME NEW n \in 1 .. t
      PROVE  /\ told[n] \in Subs(p)
             /\ row(n - 1)[told[n]] = got[u][p][told[n]]
             /\ row(n)[told[n]] = new[told[n]]
             /\ \A s \in Subs(p) : s # told[n] => row(n)[s] = row(n - 1)[s]
    <2>1. told[n] \in Subs(p) /\ \A k \in 1 .. t : told[k] \in Nat
        BY <1>3, <1>4
    <2>2. \A k \in 1 .. n - 1 : told[k] # told[n]
        <3> TAKE k \in 1 .. n - 1
        <3>1. k \in 1 .. t /\ k < n
            OBVIOUS
        <3>2. told[k] < told[n]
            BY <1>3, <3>1
        <3> QED  BY <2>1, <3>1, <3>2
    <2>3. row(n - 1)[told[n]] = got[u][p][told[n]]
        BY <2>1, <2>2
    <2>4. \A s : (\E k \in 1 .. n : told[k] = s) <=> (\E k \in 1 .. n - 1 : told[k] = s) \/ s = told[n]
        <3>1. \A k : k \in 1 .. n <=> k \in 1 .. n - 1 \/ k = n
            OBVIOUS
        <3> QED  BY <3>1
    <2>5. \A s \in Subs(p) : row(n)[s] = IF s = told[n] THEN new[s] ELSE row(n - 1)[s]
        BY <2>4
    <2> HIDE DEF row
    <2> QED  BY <2>1, <2>3, <2>5
<1> HIDE DEF row, last
<1> DEFINE part == [n \in 0 .. t |-> PartOf(u, p, row(n))]
           end == [n \in 0 .. 1 |-> IF n = 0 THEN PartOf(u, p, new) ELSE Board']
<1>9. part[0] = Board /\ part[t] = PartOf(u, p, new)
    BY <1>6, <1>7, PartStarts
<1>10. ASSUME NEW n \in 1 .. t
       PROVE  part[n] = Played(subs[n], part[n - 1])
    <2>1. n - 1 \in 0 .. t /\ n \in 0 .. t
        OBVIOUS
    <2>2. part[n] = PartOf(u, p, row(n)) /\ part[n - 1] = PartOf(u, p, row(n - 1)) /\ subs[n] = op(n)
        BY <2>1
    <2>3. told[n] \in Subs(p) /\ new[told[n]] \in Nat /\ row(n - 1) \in [Subs(p) -> Nat] /\ row(n) \in [Subs(p) -> Nat]
        BY <1>4, <1>5, <1>8, <2>1
    <2>4. Played(SubOp(u, p, told[n], row(n - 1)[told[n]], new[told[n]]), PartOf(u, p, row(n - 1))) =
              PartOf(u, p, row(n))
        BY <1>8, <2>3, PartGoesOn
    <2> QED  BY <1>8, <2>2, <2>4
<1>11. subs \in Seq({op(n) : n \in 1 .. t}) /\ Len(subs) = t
    OBVIOUS
<1>12. FilmOf(part, subs, PartOf(u, p, new))
    <2> HIDE DEF part, subs
    <2> QED  BY <1>9, <1>10, <1>11 DEF FilmOf
<1>13. Played(last, PartOf(u, p, new)) = Board'
    BY <1>3, PartEnds DEF last
<1>14. FilmOf(end, <<last>>, Board') /\ end[0] = PartOf(u, p, new)
    <2>1. /\ Len(<<last>>) = 1 /\ <<last>>[1] = last
          /\ end[0] = PartOf(u, p, new) /\ end[1] = Board'
        OBVIOUS
    <2> HIDE DEF end
    <2>2. \A k \in 1 .. 1 : end[k] = Played(<<last>>[k], end[k - 1])
        BY <1>13, <2>1
    <2> QED  BY <2>1, <2>2 DEF FilmOf
<1>15. PICK S : ops \in Seq(S)
    BY DEF BoardInv, TypeInv
<1> DEFINE T == {op(n) : n \in 1 .. t}
           one == <<last>>
<1>16. one \in Seq({last})
    OBVIOUS
<1> HIDE DEF part, end, subs, T, one
<1>17. subs \in Seq(T) /\ FilmOf(end, one, Board')
    BY <1>11, <1>14 DEF T, one
<1>18. PICK g : FilmOf(g, ops \o subs, PartOf(u, p, new)) /\ g[0] = film[0]
    BY <1>9, <1>12, <1>15, <1>17, FilmGrows DEF IsFilm
<1> DEFINE most == ops \o subs
           mid == PartOf(u, p, new)
<1>19. most \in Seq(S \cup T) /\ FilmOf(g, most, mid) /\ end[0] = mid
    BY <1>14, <1>15, <1>17, <1>18
<1>20. ops' = most \o one
    BY <1>3 DEF one, subs
<1> HIDE DEF most, mid
<1>21. \E h : FilmOf(h, most \o one, Board') /\ h[0] = g[0]
    BY <1>16, <1>17, <1>19, FilmGrows
<1> QED  BY <1>18, <1>20, <1>21

LEMMA LaunchPlays ==
    ASSUME timers = << >>, NEW S, NEW new \in Seq(S), Launch(new),
           NEW film, film[0] = page
    PROVE  PlaysAt(film, ops', curop', timers', page)
<1> DEFINE n == Len(new)
<1>1. n \in Nat /\ ops' = new
    BY DEF Launch
<1>2. CASE n = 0
    <2>1. timers' = << >> /\ curop' = -1
        BY <1>2 DEF Launch
    <2> QED  BY <1>1, <1>2, <2>1 DEF PlaysAt, Left
<1>3. CASE n = 1
    <2> DEFINE one == <<"apply">>
    <2>1. curop' = 0 /\ timers' = Append(<< >>, one)
        BY <1>3 DEF Launch
    <2>2. one \in Seq({"apply"}) /\ Len(one) = 1 /\ one[1] = "apply"
        OBVIOUS
    <2> HIDE DEF one
    <2>3. Len(timers') = 1 /\ timers'[1] = one /\ timers' # << >>
        BY <2>1, <2>2
    <2>4. Alternates(one)
        BY <2>2 DEF Alternates
    <2>5. Left(timers') = 1
        BY <2>2, <2>3 DEF Left
    <2> QED  BY <1>1, <1>3, <2>1, <2>3, <2>4, <2>5 DEF PlaysAt
<1>4. CASE n # 0 /\ n # 1
    <2> DEFINE batch == Callbacks(n)
    <2>1. curop' = -1 /\ timers' = Append(<< >>, batch)
        BY <1>4 DEF Launch
    <2>2. batch \in Batch /\ Alternates(batch) /\ Len(batch) = 2 * n
        BY <1>1, <1>4, CallbacksAlternate, CallbacksAreABatch
    <2> HIDE DEF batch, n
    <2>3. Len(timers') = 1 /\ timers'[1] = batch /\ timers' # << >>
        BY <2>1
    <2>4. Left(timers') = 2 * n
        BY <2>2, <2>3 DEF Left
    <2>5. (2 * n + 1) \div 2 = n /\ (2 * n) \div 2 = n /\ Len(ops') = n
        BY <1>1 DEF n
    <2>6. n <= Len(ops') /\ curop' = Len(ops') - 1 - n /\ Len(ops') - n = 0
        BY <1>1, <2>1, <2>5
    <2> DEFINE left == Left(timers')
    <2>7. (left + 1) \div 2 = n /\ left \div 2 = n
        BY <2>4, <2>5
    <2>8. timers' # << >> => Alternates(timers'[1])
        BY <2>2, <2>3
    <2> HIDE DEF left
    <2>9. /\ Len(timers') <= 1 /\ (left + 1) \div 2 <= Len(ops')
          /\ curop' = Len(ops') - 1 - left \div 2
          /\ page = film[Len(ops') - (left + 1) \div 2]
        BY <2>3, <2>6, <2>7
    <2> QED  BY <2>8, <2>9 DEF PlaysAt, left
<1> QED  BY <1>2, <1>3, <1>4

\* What a key launches: nothing that changes the board, or the operations that bring a page
\* from the board to the next one.
LEMMA RevealFilm ==
    ASSUME BoardInv, ShapeInv, contest' = contest, NEW i \in User, NEW p \in Problem, NEW key,
           Reveal(i, p, key)
    PROVE  \E S : \E new \in Seq(S) : \E film :
               Launch(new) /\ FilmOf(film, new, Board') /\ film[0] = Board
<1>1. CASE ShowsNothing(arr[i], p, key)
    <2> DEFINE none == << >>
               film == [k \in {0} |-> Board]
    <2>1. none \in Seq({}) /\ Len(none) = 0 /\ film[0] = Board
        OBVIOUS
    <2>2. Board' = Board /\ Launch(<< >>)
        BY <1>1 DEF ShowsNothing, Board, Screen, Ranks, Totals
    <2> HIDE DEF none, film
    <2>3. FilmOf(film, none, Board')
        BY <2>1, <2>2 DEF FilmOf
    <2>4. Launch(none)
        BY <2>2 DEF none
    <2> QED  BY <2>1, <2>3, <2>4
<1>2. CASE Shows(i, p, key)
    <2> DEFINE u == arr[i]
               s == Subtask(p, key)
               x == contest.points[u][p][s]
               row == Row(u, p, s)
               passed == {v \in User : Ahead(u, v, score')}
               to == Lift(arr, i, passed)[1]
               a == SubOp(u, p, s, got[u][p][s], x)
               b == ProblemOp(u, p, Total(got[u][p]), Total(row), i, to)
    <2>1. /\ s \in Subs(p) /\ GainStep(u, p, row) /\ arr' = Lift(arr, i, passed)[2]
          /\ Launch(<<a, b>>)
        BY <1>2 DEF Shows
    <2>2. u \in User /\ IsOrder(arr) /\ u = arr[i]
        BY BoardFacts
    <2> HIDE DEF u, s
    <2>3. x \in Nat /\ got[u][p] \in [Subs(p) -> Nat]
        BY <2>1, <2>2, BoardFacts, ContestFacts
    <2>4. Ranks(arr)' = Raised(Ranks(arr), b)
        <3> DEFINE old == Total(got[u][p])
                   new == Total(row)
        <3>1. Ranks(arr)' = Ranks(Lift(arr, i, passed)[2])
            BY <2>1 DEF Ranks
        <3> HIDE DEF passed, old, new
        <3>2. Ranks(Lift(arr, i, passed)[2]) =
                  Raised(Ranks(arr), ProblemOp(arr[i], p, old, new, i, Lift(arr, i, passed)[1]))
            BY <2>2, RankRises
        <3> QED  BY <2>2, <3>1, <3>2 DEF old, new
    <2>5. Played(a, Board) = PartOf(u, p, row)
        <3>1. PartOf(u, p, got[u][p]) = Board
            BY <2>2, PartStarts
        <3>2. Played(a, PartOf(u, p, got[u][p])) = PartOf(u, p, [got[u][p] EXCEPT ![s] = x])
            <4> DEFINE was == got[u][p]
            <4>1. a = SubOp(u, p, s, was[s], x)
                OBVIOUS
            <4>3. was \in [Subs(p) -> Nat] /\ u \in User /\ s \in Subs(p) /\ x \in Nat
                BY <2>1, <2>2, <2>3
            <4> DEFINE next == [was EXCEPT ![s] = x]
            <4>4. /\ next \in [Subs(p) -> Nat] /\ next[s] = x
                  /\ \A y \in Subs(p) : y # s => next[y] = was[y]
                BY <4>3
            <4> HIDE DEF x, was, a, next
            <4>2. Played(SubOp(u, p, s, was[s], x), PartOf(u, p, was)) = PartOf(u, p, next)
                BY <4>3, <4>4, PartGoesOn
            <4> QED  BY <4>1, <4>2 DEF was, next
        <3> QED  BY <3>1, <3>2 DEF Row
    <2> HIDE DEF to
    <2>6. Played(b, PartOf(u, p, row)) = Board'
        <3> HIDE DEF row
        <3> QED  BY <2>1, <2>2, <2>4, PartEnds
    <2> DEFINE two == <<a, b>>
               film == [k \in 0 .. 2 |-> IF k = 0 THEN Board ELSE IF k = 1 THEN PartOf(u, p, row)
                                         ELSE Board']
    <2>7. two \in Seq({a, b}) /\ Len(two) = 2 /\ two[1] = a /\ two[2] = b
        OBVIOUS
    <2>8. film[0] = Board /\ film[1] = PartOf(u, p, row) /\ film[2] = Board'
        OBVIOUS
    <2> HIDE DEF a, b, row
    <2>9. Launch(two)
        BY <2>1
    <2> HIDE DEF two, film
    <2>10. \A k \in 1 .. 2 : film[k] = Played(two[k], film[k - 1])
        <3>1. \A k \in 1 .. 2 : k = 1 \/ k = 2
            OBVIOUS
        <3> QED  BY <2>5, <2>6, <2>7, <2>8, <3>1
    <2>11. FilmOf(film, two, Board')
        BY <2>7, <2>8, <2>10 DEF FilmOf
    <2> QED  BY <2>7, <2>8, <2>9, <2>11
<1> QED  BY <1>1, <1>2, RevealCases

\* The only batch loses its first callback.
LEMMA OneFires ==
    ASSUME TypeInv, Len(timers) <= 1, NEW b \in DOMAIN timers, Fire(b)
    PROVE  /\ timers # << >> /\ b = 1 /\ ops' = ops
           /\ Left(timers) \in Nat /\ Left(timers) >= 1 /\ Left(timers') = Left(timers) - 1
           /\ Len(timers') <= 1
           /\ Alternates(timers[1]) =>
                 /\ timers' # << >> => Alternates(timers'[1])
                 /\ Head(timers[1]) = IF (Left(timers) - 1) % 2 = 1 THEN "select" ELSE "apply"
<1>1. /\ timers \in Seq(Batch) /\ Len(timers) = 1 /\ b = 1 /\ timers # << >>
      /\ timers[1] \in Batch /\ Len(timers[1]) \in Nat /\ Len(timers[1]) >= 1
    <2> DEFINE n == Len(timers)
    <2>1. /\ timers \in Seq(Batch) /\ n \in Nat /\ n <= 1 /\ b \in 1 .. n
          /\ timers[b] \in Batch /\ Len(timers[b]) \in Nat /\ Len(timers[b]) >= 1
        BY TimersFacts
    <2> HIDE DEF n
    <2>2. n = 1 /\ b = 1
        BY <2>1
    <2>3. timers # << >>
        BY <2>2 DEF n
    <2> QED  BY <2>1, <2>2, <2>3 DEF n
<1> DEFINE batch == timers[1]
           m == Len(batch)
           rest == Tail(batch)
<1>2. batch \in Seq({"select", "apply"}) /\ batch # << >> /\ m \in Nat /\ m >= 1 /\ Len(batch) = m
    BY <1>1 DEF Batch
<1>3. Left(timers) = m
    BY <1>1 DEF Left
<1>4. ops' = ops
    BY DEF Fire
<1>5. CASE m = 1
    <2>1. timers' = RemoveAt(timers, 1) /\ 1 \in 1 .. Len(timers)
        BY <1>1, <1>5 DEF Fire
    <2>2. timers' \in Seq(Batch) /\ Len(timers') = 0
        BY <1>1, <2>1, RemoveAtProperties
    <2>3. timers' = << >>
        BY <2>2
    <2>4. Left(timers') = 0
        BY <2>3 DEF Left
    <2>5. Alternates(batch) => Head(batch) = "apply"
        <3> HIDE DEF batch
        <3>1. 1 \in 1 .. 1 /\ Head(batch) = batch[1] /\ (1 - 1) % 2 # 1
            BY <1>2
        <3> QED  BY <1>5, <3>1 DEF Alternates
    <2> QED  BY <1>1, <1>3, <1>4, <1>5, <2>2, <2>3, <2>4, <2>5
<1>6. CASE m # 1
    <2>1. timers' = [timers EXCEPT ![1] = rest]
        BY <1>1, <1>6 DEF Fire
    <2>2. Len(timers') = 1 /\ timers'[1] = rest /\ timers' # << >>
        <3> HIDE DEF rest
        <3>1. timers \in [1 .. 1 -> Batch]
            BY <1>1
        <3>2. timers' \in [1 .. 1 -> Batch \cup {rest}] /\ timers'[1] = rest
            BY <2>1, <3>1
        <3> DEFINE next == timers'
                   B == Batch \cup {rest}
                   one == 1
        <3>3. next \in [1 .. one -> B] /\ one \in Nat /\ one # 0
            BY <3>2
        <3> HIDE DEF next, B, one
        <3>4. next \in Seq(B) /\ Len(next) = one
            BY <3>3
        <3>5. next # << >>
            BY <3>3, <3>4
        <3> QED  BY <3>2, <3>4, <3>5 DEF next, one
    <2> HIDE DEF batch, m
    <2>3. /\ Len(rest) = m - 1 /\ m > 1 /\ \A k \in 1 .. m - 1 : rest[k] = batch[k + 1]
          /\ Head(batch) = batch[1]
        BY <1>2, <1>6
    <2> HIDE DEF rest
    <2>4. Left(timers') = m - 1
        BY <2>2, <2>3 DEF Left
    <2>5. ASSUME Alternates(batch)
          PROVE  Alternates(rest) /\ Head(batch) = IF (m - 1) % 2 = 1 THEN "select" ELSE "apply"
        <3>1. \A k \in 1 .. m : batch[k] = IF (m - k) % 2 = 1 THEN "select" ELSE "apply"
            BY <2>5 DEF Alternates, m
        <3>2. \A k \in 1 .. m - 1 : rest[k] = IF (m - 1 - k) % 2 = 1 THEN "select" ELSE "apply"
            <4> TAKE k \in 1 .. m - 1
            <4>1. k + 1 \in 1 .. m /\ m - (k + 1) = m - 1 - k
                BY <1>2
            <4> QED  BY <2>3, <3>1, <4>1
        <3>3. 1 \in 1 .. m
            BY <1>2
        <3> QED  BY <2>3, <3>1, <3>2, <3>3 DEF Alternates
    <2>6. timers[1] = batch
        BY DEF batch
    <2> QED  BY <1>1, <1>2, <1>3, <1>4, <2>2, <2>4, <2>5, <2>6
<1> QED  BY <1>5, <1>6

LEMMA FirePlays ==
    ASSUME TypeInv, NEW film, IsFilm(film), PlaysAt(film, ops, curop, timers, page),
           NEW b \in DOMAIN timers, Fire(b)
    PROVE  PlaysAt(film, ops', curop', timers', page')
<1> DEFINE m == Left(timers)
           left == Left(timers')
           n == Len(ops)
<1>1. /\ Len(timers) <= 1 /\ (timers # << >> => Alternates(timers[1]))
      /\ (m + 1) \div 2 <= n /\ curop = n - 1 - m \div 2 /\ page = film[n - (m + 1) \div 2]
    BY DEF PlaysAt
<1>2. /\ b = 1 /\ ops' = ops /\ m \in Nat /\ m >= 1 /\ left = m - 1 /\ Len(timers') <= 1
      /\ timers' # << >> => Alternates(timers'[1])
      /\ Head(timers[1]) = IF (m - 1) % 2 = 1 THEN "select" ELSE "apply"
    BY <1>1, OneFires
<1>3. n \in Nat /\ curop \in Int
    BY TimersFacts
<1>4. \A k \in 1 .. n : film[k] = Played(ops[k], film[k - 1])
    BY DEF IsFilm, FilmOf
<1>5. \/ Head(timers[1]) = "select" /\ curop' = curop + 1 /\ page' = page
      \/ Head(timers[1]) = "apply" /\ GetNewData /\ curop' = curop
    BY <1>2 DEF Fire
<1> HIDE DEF m, left
<1>6. /\ (left + 1) \div 2 <= n /\ curop' = n - 1 - left \div 2
      /\ page' = film[n - (left + 1) \div 2]
    <2>1. CASE (m - 1) % 2 = 1
        <3>1. curop' = curop + 1 /\ page' = page
            BY <1>2, <1>5, <2>1
        <3> HIDE DEF n
        <3>2. (left + 1) \div 2 = (m + 1) \div 2 /\ left \div 2 = m \div 2 - 1
            BY <1>2, <2>1
        <3>3. m \div 2 \in Int
            BY <1>2
        <3> QED  BY <1>1, <1>3, <3>1, <3>2, <3>3
    <2>2. CASE (m - 1) % 2 # 1
        <3>1. curop' = curop /\ GetNewData
            BY <1>2, <1>5, <2>2
        <3> DEFINE k == n - (m + 1) \div 2
        <3> HIDE DEF n
        <3>2. /\ (m + 1) \div 2 = m \div 2 + 1 /\ left \div 2 = m \div 2
              /\ (left + 1) \div 2 = m \div 2 /\ m \div 2 \in Nat
            BY <1>2, <2>2
        <3>3. k \in 0 .. n - 1 /\ curop = k /\ n - (left + 1) \div 2 = k + 1
              /\ (left + 1) \div 2 <= n /\ curop' = n - 1 - left \div 2 /\ page = film[k]
            BY <1>1, <1>3, <3>1, <3>2
        <3> HIDE DEF k
        <3>4. k + 1 \in 1 .. n /\ (k + 1) - 1 = k
            BY <1>3, <3>3
        <3>5. page' = Played(ops[curop + 1], page)
            <4>1. curop \in 0 .. Len(ops) - 1
                BY <3>3 DEF n
            <4> QED  BY <3>1, <4>1, DataPlays
        <3>6. page' = film[k + 1]
            BY <1>4, <3>3, <3>4, <3>5
        <3> QED  BY <3>3, <3>6
    <2> QED  BY <2>1, <2>2
<1> QED  BY <1>2, <1>6 DEF PlaysAt, left, n

LEMMA FireOverruns ==
    ASSUME TypeInv, NEW film, OverrunsAt(film, ops, curop, timers, page),
           NEW b \in DOMAIN timers, Fire(b)
    PROVE  OverrunsAt(film, ops', curop', timers', page')
<1> DEFINE n == Len(ops)
<1>1. /\ Len(timers) <= 1 /\ page = film[n]
      /\ curop >= n \/ (curop = n - 1 /\ Head(timers[1]) = "select")
    BY DEF OverrunsAt
<1>2. b = 1 /\ ops' = ops /\ Len(timers') <= 1
    BY <1>1, OneFires
<1>3. n \in Nat /\ curop \in Int
    BY TimersFacts
<1>4. \/ Head(timers[1]) = "select" /\ curop' = curop + 1 /\ page' = page
      \/ Head(timers[1]) = "apply" /\ GetNewData /\ curop' = curop
    BY <1>2 DEF Fire
<1>5. CASE Head(timers[1]) = "select" /\ curop' = curop + 1 /\ page' = page
    BY <1>1, <1>2, <1>3, <1>5 DEF OverrunsAt
<1>6. CASE Head(timers[1]) = "apply" /\ GetNewData /\ curop' = curop
    <2>1. curop >= n
        BY <1>1, <1>6
    <2>2. page' = page
        BY <1>3, <1>6, <2>1 DEF GetNewData
    <2> QED  BY <1>1, <1>2, <1>6, <2>1, <2>2 DEF OverrunsAt
<1> QED  BY <1>4, <1>5, <1>6

\* When every callback has run the page is at the end of its film.
LEMMA PageIsBoard ==
    ASSUME TypeInv, timers = << >>, autopress \/ curop = Len(ops) - 1, NEW film, IsFilm(film),
           Waits(film) \/ Plays(film) \/ Overruns(film)
    PROVE  page = Board
<1> DEFINE n == Len(ops)
<1>1. n \in Nat /\ film[n] = Board
    BY TimersFacts DEF IsFilm, FilmOf
<1>2. CASE Waits(film)
    <2>1. n = 0
        BY <1>1, <1>2 DEF Waits
    <2> QED  BY <1>1, <1>2, <2>1 DEF Waits
<1>3. CASE Plays(film)
    <2>1. Left(timers) = 0 /\ (0 + 1) \div 2 = 0 /\ n - 0 = n
        BY <1>1 DEF Left
    <2>2. page = film[n - (Left(timers) + 1) \div 2]
        BY <1>3 DEF Plays, PlaysAt
    <2> QED  BY <1>1, <2>1, <2>2
<1>4. CASE Overruns(film)
    BY <1>1, <1>4 DEF Overruns, OverrunsAt
<1> QED  BY <1>2, <1>3, <1>4

LEMMA KeyFilm ==
    ASSUME TypeInv, FilmInv, Ready, page' = page, place' = place,
           NEW S, NEW new \in Seq(S), NEW film, Launch(new), FilmOf(film, new, Board'), film[0] = Board
    PROVE  FilmInv'
<1> SUFFICES ASSUME hurried' = 0
             PROVE  (\E f : IsFilm(f) /\ (Waits(f) \/ Plays(f) \/ Overruns(f)))'
    BY DEF FilmInv
<1>1. hurried = 0 /\ timers = << >>
    BY DEF Launch, TypeInv
<1>2. PICK f : IsFilm(f) /\ (Waits(f) \/ Plays(f) \/ Overruns(f))
    BY <1>1 DEF FilmInv
<1>3. page = Board
    BY <1>1, <1>2, PageIsBoard DEF Ready
<1>4. PlaysAt(film, ops', curop', timers', page')
    BY <1>1, <1>3, LaunchPlays
<1>5. Loaded'
    BY DEF Ready, Loaded
<1>6. FilmOf(film, ops', Board')
    BY DEF Launch
<1>7. IsFilm(film)' /\ Plays(film)'
    BY <1>4, <1>5, <1>6 DEF IsFilm, Plays
<1> QED  BY <1>7

LEMMA EnterFilm ==
    ASSUME BoardInv, ShapeInv, PressEnter
    PROVE  \E S : \E new \in Seq(S) : \E film :
               Launch(new) /\ FilmOf(film, new, Board') /\ film[0] = Board
<1>1. ASSUME Board' = Board, NEW op, op.type # "problem", op.type # "sub", Launch(<<op>>)
      PROVE  \E S : \E new \in Seq(S) : \E film :
                 Launch(new) /\ FilmOf(film, new, Board') /\ film[0] = Board
    <2> DEFINE one == <<op>>
               film == [k \in 0 .. 1 |-> Board]
    <2>1. one \in Seq({op}) /\ Len(one) = 1 /\ one[1] = op /\ film[0] = Board /\ film[1] = Board
        OBVIOUS
    <2>2. Played(op, Board) = Board
        BY <1>1, OthersPlayed
    <2> HIDE DEF one, film
    <2>3. \A k \in 1 .. 1 : film[k] = Played(one[k], film[k - 1])
        BY <2>1, <2>2
    <2>4. FilmOf(film, one, Board')
        BY <1>1, <2>1, <2>3 DEF FilmOf
    <2>5. Launch(one)
        BY <1>1 DEF one
    <2> QED  BY <2>1, <2>4, <2>5
<1>2. contest' = contest
    BY DEF PressEnter
<1>3. CASE UNCHANGED <<arr, score, got>> /\ Launch(<<[type |-> "delay"]>>)
    <2>1. Board' = Board
        BY <1>3 DEF Board, Screen, Ranks, Totals
    <2> DEFINE op == [type |-> "delay"]
    <2>2. op.type # "problem" /\ op.type # "sub"
        OBVIOUS
    <2>3. Launch(<<op>>)
        BY <1>3
    <2> HIDE DEF op
    <2> QED  BY <1>1, <2>1, <2>2, <2>3
<1>4. CASE UNCHANGED <<arr, score, got>> /\ Launch(<<[type |-> "show", user |-> arr[Max(Unshown)]]>>)
    <2>1. Board' = Board
        BY <1>4 DEF Board, Screen, Ranks, Totals
    <2> DEFINE op == [type |-> "show", user |-> arr[Max(Unshown)]]
    <2>2. op.type # "problem" /\ op.type # "sub"
        OBVIOUS
    <2>3. Launch(<<op>>)
        BY <1>4
    <2> HIDE DEF op
    <2> QED  BY <1>1, <2>1, <2>2, <2>3
<1>5. CASE RevealNext
    <2>1. CASE UNCHANGED <<arr, score, got>> /\ Launch(<< >>)
        <3> DEFINE none == << >>
                   film == [k \in {0} |-> Board]
        <3>1. none \in Seq({}) /\ Len(none) = 0 /\ film[0] = Board
            OBVIOUS
        <3>2. Board' = Board
            BY <2>1 DEF Board, Screen, Ranks, Totals
        <3>3. Launch(none)
            BY <2>1
        <3> HIDE DEF none, film
        <3>4. FilmOf(film, none, Board')
            BY <3>1, <3>2 DEF FilmOf
        <3> QED  BY <3>1, <3>3, <3>4
    <2>2. CASE \E i \in User, p \in Problem, key \in Nat : Reveal(i, p, key)
        BY <1>2, <2>2, RevealFilm
    <2> QED  BY <1>5, <2>1, <2>2, RevealNextCases
<1> QED  BY <1>3, <1>4, <1>5 DEF PressEnter

\* The page follows the resolver once every callback has run, unless a key or a click came
\* before: some film leads from what it shows to the board, and the callbacks that are left
\* play exactly the rest of it (getNewData).
THEOREM PageKeepsUp == ResolverSpec => []PageFollows
<1> DEFINE Inv == ShapeInv /\ FilmInv
<1>1. ResolverInit /\ BoardInv => Inv
    <2> SUFFICES ASSUME ResolverInit, BoardInv
                 PROVE  ShapeInv /\ FilmInv
        OBVIOUS
    <2>1. ShapeInv
        BY DEF ResolverInit, FrozenGot, ShapeInv
    <2> DEFINE film == [k \in {0} |-> Board]
    <2>2. film[0] = Board
        OBVIOUS
    <2>3. page = Board /\ timers = << >> /\ ~autopress /\ curop = -1 /\ ops = << >>
        <3>1. DOMAIN arr = User
            BY BoardFacts
        <3> QED  BY <3>1 DEF ResolverInit, Board, Screen, Ranks, Totals, Position
    <2> HIDE DEF film
    <2>4. IsFilm(film)
        <3>1. Len(ops) = 0
            BY <2>3
        <3> QED  BY <2>2, <3>1 DEF IsFilm, FilmOf
    <2>5. Waits(film)
        BY <2>2, <2>3 DEF Waits
    <2> QED  BY <2>1, <2>4, <2>5 DEF FilmInv
<1>2. BoardInv /\ Inv /\ [ResolverNext]_resolverVars => Inv'
    <2> SUFFICES ASSUME BoardInv, ShapeInv, FilmInv, [ResolverNext]_resolverVars
                 PROVE  ShapeInv' /\ FilmInv'
        OBVIOUS
    <2>1. TypeInv
        BY DEF BoardInv
    <2>2. ASSUME UNCHANGED <<arr, score, got>>
          PROVE  ShapeInv' /\ Board' = Board
        BY <2>2 DEF ShapeInv, Board, Screen, Ranks, Totals
    <2>3. ASSUME NEW u \in User, NEW p \in Problem, NEW new, got' = [got EXCEPT ![u][p] = new]
          PROVE  ShapeInv'
        <3> DEFINE in(v) == [q \in Problem |-> got[v][q]]
        <3>1. got = [v \in User |-> in(v)]
            BY DEF ShapeInv
        <3>2. \A v \in User : got'[v] = IF v = u THEN [in(u) EXCEPT ![p] = new] ELSE in(v)
            BY <2>3, <3>1
        <3>3. \A v \in User : got'[v] = [q \in Problem |-> got'[v][q]]
            <4> TAKE v \in User
            <4>1. CASE v = u
                BY <3>2, <4>1
            <4>2. CASE v # u
                BY <3>2, <4>2
            <4> QED  BY <4>1, <4>2
        <3>4. got' = [v \in User |-> got'[v]]
            BY <2>3, <3>1
        <3> QED  BY <3>3, <3>4 DEF ShapeInv
    <2>4. CASE Thaw
        <3>1. place > 0 /\ place \in Nat /\ autopress' = autopress /\ timers' = timers
              /\ curop' = curop /\ page' = page /\ hurried' = hurried
            <4>1. place \in Nat
                BY <2>1, UserFacts DEF TypeInv
            <4>2. place > 0
                BY <2>4 DEF Thaw
            <4>3. /\ autopress' = autopress /\ timers' = timers
                  /\ curop' = curop /\ page' = page /\ hurried' = hurried
                BY <2>4 DEF Thaw, Unloaded
            <4> QED  BY <4>1, <4>2, <4>3
        <3>2. ShapeInv'
            <4>1. \E u \in User, p \in Problem, t \in Nat : \E told, new, to : Replays(u, p, t, told, new, to)
                BY <2>4, ThawReplays
            <4>2. PICK u \in User, p \in Problem, t \in Nat : \E told, new, to : Replays(u, p, t, told, new, to)
                BY <4>1
            <4>3. PICK told, new, to : Replays(u, p, t, told, new, to)
                BY <4>2
            <4>4. got' = [got EXCEPT ![u][p] = new]
                BY <4>3 DEF Replays, GainStep
            <4> QED  BY <2>3, <4>4
        <3>3. FilmInv'
            <4> SUFFICES ASSUME hurried' = 0
                         PROVE  (\E f : IsFilm(f) /\ (Waits(f) \/ Plays(f) \/ Overruns(f)))'
                BY DEF FilmInv
            <4>1. PICK f : IsFilm(f) /\ (Waits(f) \/ Plays(f) \/ Overruns(f))
                BY <3>1 DEF FilmInv
            <4>2. Waits(f)
                BY <3>1, <4>1 DEF Plays, Overruns, Loaded
            <4>3. PICK g : FilmOf(g, ops', Board') /\ g[0] = f[0]
                BY <2>4, <4>1, ThawFilm
            <4>4. IsFilm(g)' /\ Waits(g)'
                BY <3>1, <4>2, <4>3 DEF IsFilm, Waits
            <4> QED  BY <4>4
        <3> QED  BY <3>2, <3>3
    <2>5. CASE NextPlace
        <3>1. /\ place > 0 /\ place \in Nat /\ autopress' = autopress /\ timers' = timers
              /\ curop' = curop /\ page' = page /\ hurried' = hurried /\ ops' = ops
              /\ UNCHANGED <<arr, score, got>>
            BY <2>1, <2>5 DEF NextPlace, Unloaded, TypeInv
        <3>2. ShapeInv' /\ Board' = Board
            BY <2>2, <3>1
        <3>3. \A f : IsFilm(f) => IsFilm(f)'
            BY <3>1, <3>2 DEF IsFilm
        <3>4. \A f : ~Plays(f) /\ ~Overruns(f)
            BY <3>1 DEF Plays, Overruns, Loaded
        <3>5. \A f : Waits(f) => Waits(f)'
            BY <3>1 DEF Waits
        <3> QED  BY <3>1, <3>2, <3>3, <3>4, <3>5 DEF FilmInv
    <2>6. CASE PressA
        <3>1. /\ Loaded /\ ~autopress /\ autopress'
              /\ timers' = IF ops = << >> THEN timers ELSE Append(timers, Callbacks(Len(ops)))
              /\ hurried' = IF timers = << >> THEN hurried ELSE hurried + 1
              /\ place' = place /\ ops' = ops /\ curop' = curop /\ page' = page
              /\ UNCHANGED <<arr, score, got>>
            BY <2>6 DEF PressA
        <3>2. ShapeInv' /\ Board' = Board
            BY <2>2, <3>1
        <3>3. FilmInv'
            <4> SUFFICES ASSUME hurried' = 0
                         PROVE  (\E f : IsFilm(f) /\ (Waits(f) \/ Plays(f) \/ Overruns(f)))'
                BY DEF FilmInv
            <4>1. hurried = 0 /\ timers = << >>
                BY <2>1, <3>1 DEF TypeInv
            <4>2. PICK f : IsFilm(f) /\ (Waits(f) \/ Plays(f) \/ Overruns(f))
                BY <4>1 DEF FilmInv
            <4>3. IsFilm(f)'
                BY <3>1, <3>2, <4>2 DEF IsFilm
            <4>4. Loaded'
                BY <3>1 DEF Loaded
            <4> DEFINE n == Len(ops)
                       batch == Callbacks(n)
            <4>5. n \in Nat /\ (n = 0 <=> ops = << >>)
                <5>1. PICK T : ops \in Seq(T)
                    BY <2>1 DEF TypeInv
                <5> QED  BY <5>1
            <4>6. CASE ops = << >>
                <5>1. /\ Left(timers') = 0 /\ timers' = << >> /\ Len(timers') = 0
                      /\ (0 + 1) \div 2 = 0 /\ 0 \div 2 = 0 /\ n = 0
                    BY <3>1, <4>1, <4>5, <4>6 DEF Left
                <5>2. Waits(f) \/ Plays(f)
                    BY <3>1, <4>2 DEF Overruns
                <5>3. curop = -1 /\ page = f[0]
                    BY <4>1, <4>5, <4>6, <5>1, <5>2 DEF Waits, Plays, PlaysAt
                <5>4. PlaysAt(f, ops', curop', timers', page')
                    BY <3>1, <5>1, <5>3 DEF PlaysAt
                <5>5. Plays(f)'
                    BY <4>4, <5>4 DEF Plays
                <5> QED  BY <4>3, <5>5
            <4>7. CASE ops # << >>
                <5>1. batch \in Batch /\ Alternates(batch) /\ Len(batch) = 2 * n
                    BY <4>5, <4>7, CallbacksAlternate, CallbacksAreABatch
                <5>2. timers' = Append(<< >>, batch)
                    BY <3>1, <4>1, <4>7
                <5> HIDE DEF batch
                <5>3. Len(timers') = 1 /\ timers'[1] = batch /\ timers' # << >>
                    BY <5>2
                <5>4. Left(timers') = 2 * n
                    BY <5>1, <5>3 DEF Left
                <5>5. (2 * n + 1) \div 2 = n /\ (2 * n) \div 2 = n /\ n - n = 0 /\ n >= 1
                    BY <4>5, <4>7
                <5>6. CASE Waits(f)
                    <6> DEFINE left == Left(timers')
                    <6>1. (left + 1) \div 2 = n /\ left \div 2 = n
                        BY <5>4, <5>5
                    <6> HIDE DEF left
                    <6>2. /\ Len(timers') <= 1 /\ (left + 1) \div 2 <= Len(ops')
                          /\ curop' = Len(ops') - 1 - left \div 2
                          /\ page' = f[Len(ops') - (left + 1) \div 2]
                        BY <3>1, <4>5, <5>3, <5>5, <5>6, <6>1 DEF Waits
                    <6>3. PlaysAt(f, ops', curop', timers', page')
                        BY <5>1, <5>3, <6>2 DEF PlaysAt, left
                    <6>4. Plays(f)'
                        BY <4>4, <6>3 DEF Plays
                    <6> QED  BY <4>3, <6>4
                <5>7. CASE Plays(f)
                    <6>1. Left(timers) = 0 /\ (0 + 1) \div 2 = 0 /\ 0 \div 2 = 0
                        BY <4>1 DEF Left
                    <6>2. curop = n - 1 /\ page = f[n]
                        BY <4>5, <5>7, <6>1 DEF Plays, PlaysAt
                    <6>3. Head(batch) = "select"
                        <7>1. batch[1] = IF (2 * n - 1) % 2 = 1 THEN "select" ELSE "apply"
                            <8>1. 1 \in 1 .. 2 * n
                                BY <4>5, <5>5
                            <8> QED  BY <5>1, <8>1 DEF Alternates
                        <7>2. (2 * n - 1) % 2 = 1
                            BY <4>5, <5>5
                        <7>3. Head(batch) = batch[1]
                            BY <5>1 DEF Batch
                        <7> QED  BY <7>1, <7>2, <7>3
                    <6>4. OverrunsAt(f, ops', curop', timers', page')
                        <7>1. Len(ops') = n
                            BY <3>1
                        <7>2. timers' # << >> /\ Len(timers') <= 1
                            BY <5>3
                        <7>3. Head(timers'[1]) = "select"
                            BY <5>3, <6>3
                        <7> HIDE DEF n
                        <7>4. curop' = n - 1 /\ page' = f[n]
                            BY <3>1, <6>2
                        <7> QED  BY <7>1, <7>2, <7>3, <7>4 DEF OverrunsAt
                    <6>5. Overruns(f)'
                        BY <3>1, <4>4, <6>4 DEF Overruns
                    <6> QED  BY <4>3, <6>5
                <5>8. ~Overruns(f)
                    BY <3>1 DEF Overruns
                <5> QED  BY <4>2, <5>6, <5>7, <5>8
            <4> QED  BY <4>6, <4>7
        <3> QED  BY <3>2, <3>3
    <2>7. ASSUME Ready, page' = page, place' = place,
                 \E S : \E new \in Seq(S) : \E film :
                     Launch(new) /\ FilmOf(film, new, Board') /\ film[0] = Board
          PROVE  FilmInv'
        BY <2>1, <2>7, KeyFilm
    <2>8. ASSUME contest' = contest, NEW i \in User, NEW p \in Problem, NEW key, Reveal(i, p, key)
          PROVE  ShapeInv'
        <3>1. CASE ShowsNothing(arr[i], p, key)
            BY <2>2, <3>1 DEF ShowsNothing
        <3>2. CASE Shows(i, p, key)
            <4>1. arr[i] \in User
                BY BoardFacts
            <4>2. \E new : got' = [got EXCEPT ![arr[i]][p] = new]
                BY <3>2 DEF Shows, GainStep
            <4> QED  BY <2>3, <4>1, <4>2
        <3> QED  BY <2>8, <3>1, <3>2, RevealCases
    <2>9. CASE PressEnter
        <3>1. Ready /\ page' = page /\ place' = place /\ contest' = contest
            BY <2>9 DEF PressEnter
        <3>2. FilmInv'
            BY <2>7, <2>9, <3>1, EnterFilm
        <3>3. UNCHANGED <<arr, score, got>> \/ RevealNext
            BY <2>9 DEF PressEnter
        <3>4. CASE RevealNext
            <4>1. UNCHANGED <<arr, score, got>>
                  \/ \E i \in User, p \in Problem, key \in Nat : Reveal(i, p, key)
                BY <3>4, RevealNextCases
            <4> QED  BY <2>2, <2>8, <3>1, <3>2, <4>1
        <3> QED  BY <2>2, <3>2, <3>3, <3>4
    <2>10. ASSUME NEW u \in User, NEW c \in Cells, Click(u, c[1], c[2])
           PROVE  ShapeInv' /\ FilmInv'
        <3>1. PICK p \in Problem : \E s \in Subs(p) : c = <<p, s>>
            BY DEF Cells
        <3>2. PICK s \in Subs(p) : c = <<p, s>>
            BY <3>1
        <3>3. page.rank[u] \in User
            BY <2>1 DEF TypeInv
        <3>4. /\ Ready /\ Reveal(page.rank[u], p, s) /\ place' = place /\ page' = page
              /\ contest' = contest
            BY <2>10, <3>2 DEF Click
        <3>5. FilmInv'
            BY <2>7, <3>3, <3>4, RevealFilm
        <3> QED  BY <2>8, <3>3, <3>4, <3>5
    <2>11. ASSUME NEW b \in DOMAIN timers, Fire(b)
           PROVE  ShapeInv' /\ FilmInv'
        <3>1. /\ UNCHANGED <<arr, score, got>> /\ ops' = ops /\ place' = place
              /\ autopress' = autopress /\ hurried' = hurried /\ timers # << >>
            BY <2>11 DEF Fire
        <3>2. ShapeInv' /\ Board' = Board
            BY <2>2, <3>1
        <3>3. \A f : IsFilm(f) => IsFilm(f)'
            BY <3>1, <3>2 DEF IsFilm
        <3>4. \A f : ~Waits(f)
            BY <3>1 DEF Waits
        <3>5. ASSUME NEW f, IsFilm(f), Plays(f)
              PROVE  Plays(f)'
            <4>1. PlaysAt(f, ops', curop', timers', page')
                BY <2>1, <2>11, <3>5, FirePlays DEF Plays
            <4> QED  BY <3>1, <3>5, <4>1 DEF Plays, Loaded
        <3>6. ASSUME NEW f, Overruns(f)
              PROVE  Overruns(f)'
            <4>1. OverrunsAt(f, ops', curop', timers', page')
                BY <2>1, <2>11, <3>6, FireOverruns DEF Overruns
            <4> QED  BY <3>1, <3>6, <4>1 DEF Overruns, Loaded
        <3> QED  BY <3>1, <3>2, <3>3, <3>4, <3>5, <3>6 DEF FilmInv
    <2>12. CASE UNCHANGED resolverVars
        <3>1. /\ UNCHANGED <<arr, score, got>> /\ ops' = ops /\ place' = place /\ curop' = curop
              /\ autopress' = autopress /\ hurried' = hurried /\ timers' = timers /\ page' = page
            BY <2>12 DEF resolverVars
        <3>2. ShapeInv' /\ Board' = Board
            BY <2>2, <3>1
        <3> QED  BY <3>1, <3>2 DEF FilmInv, IsFilm, Waits, Plays, Overruns, Loaded
    <2> QED  BY <2>4, <2>5, <2>6, <2>9, <2>10, <2>11, <2>12 DEF ResolverNext, CalcOperations
<1>3. BoardInv /\ Inv => PageFollows
    <2> SUFFICES ASSUME BoardInv, FilmInv, timers = << >>, hurried = 0, autopress \/ curop = Len(ops) - 1
                 PROVE  /\ \A i \in User : page.rank[arr[i]] = i
                        /\ page.score = score /\ page.got = got
                        /\ \A u \in User, p \in Problem : page.problem[u][p] = Total(got[u][p])
        BY DEF PageFollows
    <2>1. PICK f : IsFilm(f) /\ (Waits(f) \/ Plays(f) \/ Overruns(f))
        BY DEF FilmInv
    <2>2. page = Board
        BY <2>1, PageIsBoard DEF BoardInv
    <2>3. /\ page.rank = Ranks(arr) /\ page.score = score /\ page.got = got
          /\ page.problem = Totals(got)
        BY <2>2 DEF Board, Screen
    <2>4. \A i \in User : page.rank[arr[i]] = i
        BY <2>3, RankOf, BoardFacts
    <2>5. \A u \in User, p \in Problem : page.problem[u][p] = Total(got[u][p])
        BY <2>3 DEF Totals
    <2> QED  BY <2>3, <2>4, <2>5
<1> QED  BY <1>1, <1>2, <1>3, BoardInvariant, PTL DEF ResolverSpec
=============================================================================
