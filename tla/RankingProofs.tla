---------------------------- MODULE RankingProofs ----------------------------
(***************************************************************************)
(* One generation's selection for any set of solutions, any problem and    *)
(* any operator properties: the relation is lexicographic, the ranking     *)
(* yields its layers, no better solution is left out of the elites or      *)
(* costs more, and an elite of the lowest cost becomes a parent.           *)
(***************************************************************************)
EXTENDS Ranking, FiniteSetTheorems, FunctionTheorems, TLAPS

(* Induction over the levels, the ranks and the rounds of a loop.          *)
LEMMA Upto ==
    ASSUME NEW n \in Nat, NEW S, 0 \in S, \A i \in 1 .. n : i - 1 \in S => i \in S
    PROVE  \A i \in 0 .. n : i \in S
  <1> DEFINE Less == {p \in Nat \X Nat : p[1] < p[2]}
             Left == {i \in 0 .. n : i \notin S}
  <1>1. IsWellFoundedOn(Less, Nat)
    BY NatLessThanWellFounded DEF OpToRel
  <1>2. SUFFICES ASSUME Left # {}
                 PROVE  FALSE
    OBVIOUS
  <1>3. Left \subseteq Nat
    OBVIOUS
  <1>4. PICK x \in Left : \A y \in Left : ~ (<<y, x>> \in Less)
    BY ONLY <1>1, <1>2, <1>3, WFMin
  <1>5. x \in 1 .. n /\ x - 1 \in 0 .. n
    BY <1>4
  <1>6. x - 1 \notin Left
    <2>1. <<x - 1, x>> \in Less
      BY <1>5
    <2>2. QED
      BY <1>4, <2>1
  <1>7. QED
    BY <1>4, <1>5, <1>6

(* A bounded set of numbers has a highest one.                             *)
LEMMA HighestOf ==
    ASSUME NEW S \in SUBSET Nat, S # {}, NEW n \in Nat, \A q \in S : q <= n
    PROVE  Highest(S) \in S /\ \A q \in S : q <= Highest(S)
  <1> DEFINE Less == {p \in Nat \X Nat : p[1] < p[2]}
             Bound == {m \in Nat : \A q \in S : q <= m}
  <1>1. IsWellFoundedOn(Less, Nat)
    BY NatLessThanWellFounded DEF OpToRel
  <1>2. Bound \subseteq Nat /\ Bound # {}
    OBVIOUS
  <1>3. PICK x \in Bound : \A y \in Bound : ~ (<<y, x>> \in Less)
    BY ONLY <1>1, <1>2, WFMin
  <1>4. x \in S
    <2>1. SUFFICES ASSUME x \notin S
                   PROVE  FALSE
      OBVIOUS
    <2>2. \A q \in S : q < x
      BY <1>3, <2>1
    <2>3. x - 1 \in Bound
      <3>1. PICK q \in S : TRUE
        OBVIOUS
      <3>2. q \in Nat /\ q < x /\ x \in Nat
        BY <1>3, <2>2, <3>1
      <3>3. x - 1 \in Nat /\ \A r \in S : r <= x - 1
        BY <2>2, <3>2
      <3>4. QED
        BY <3>3
    <2>4. <<x - 1, x>> \in Less
      BY <1>3, <2>3
    <2>5. QED
      BY <1>3, <2>3, <2>4
  <1>5. \A q \in S : q <= x
    BY <1>3
  <1>6. \E p \in S : \A q \in S : q <= p
    BY <1>4, <1>5
  <1>7. QED
    BY <1>6 DEF Highest

(* A function whose values depend on its values for smaller arguments.     *)
LEMMA Recursion ==
    ASSUME NEW n \in Nat, NEW h \in [1 .. n -> [[1 .. n -> BOOLEAN] -> BOOLEAN]],
           \A i \in 1 .. n : \A f, g \in [1 .. n -> BOOLEAN] :
              (\A j \in 1 .. i - 1 : f[j] = g[j]) => h[i][f] = h[i][g]
    PROVE  \E f \in [1 .. n -> BOOLEAN] : \A i \in 1 .. n : f[i] = h[i][f]
  <1> DEFINE Fits(f, m) == \A i \in 1 .. m : f[i] = h[i][f]
             S == {m \in 0 .. n : \E f \in [1 .. n -> BOOLEAN] : Fits(f, m)}
  <1>1. 0 \in S
    <2> DEFINE f == [i \in 1 .. n |-> TRUE]
    <2>1. f \in [1 .. n -> BOOLEAN] /\ Fits(f, 0) /\ 0 \in 0 .. n
      OBVIOUS
    <2> HIDE DEF f, Fits
    <2>2. QED
      BY <2>1
  <1>2. ASSUME NEW m \in 1 .. n, m - 1 \in S
        PROVE  m \in S
    <2>1. PICK f \in [1 .. n -> BOOLEAN] : Fits(f, m - 1)
      BY <1>2
    <2> DEFINE g == [f EXCEPT ![m] = h[m][f]]
    <2>2. h[m][f] \in BOOLEAN
      BY <2>1
    <2>3. g \in [1 .. n -> BOOLEAN] /\ g[m] = h[m][f] /\ \A j \in 1 .. n : j # m => g[j] = f[j]
      BY <2>1, <2>2
    <2> HIDE DEF g
    <2>4. ASSUME NEW i \in 1 .. m
          PROVE  g[i] = h[i][g]
      <3>1. \A j \in 1 .. i - 1 : j \in 1 .. n /\ j # m
        OBVIOUS
      <3>2. i \in 1 .. n /\ \A j \in 1 .. i - 1 : f[j] = g[j]
        BY <2>3, <3>1
      <3>3. h[i][f] = h[i][g]
        BY <2>1, <2>3, <3>2
      <3>4. CASE i = m
        BY <2>3, <3>3, <3>4
      <3>5. CASE i # m
        BY <2>1, <2>3, <3>2, <3>3, <3>5
      <3>6. QED
        BY <3>4, <3>5
    <2>5. QED
      BY <2>3, <2>4
  <1>3. n \in 0 .. n
    OBVIOUS
  <1>4. n \in S
    <2> HIDE DEF S
    <2>1. \A i \in 1 .. n : i - 1 \in S => i \in S
      BY <1>2
    <2>2. \A i \in 0 .. n : i \in S
      BY <1>1, <2>1, Upto
    <2>3. QED
      BY <1>3, <2>2
  <1>5. QED
    BY <1>4
-----------------------------------------------------------------------------
(* What the relation reads never changes.                                  *)
Given == problem \in Problems /\ ovec \in [Solution -> Vectors]

LEMMA Data ==
    ASSUME Given
    PROVE  /\ problem.goal \in [Objective -> Int] /\ problem.setGoals \subseteq Objective
           /\ problem.priority \in [Objective -> Nat \ {0}]
           /\ problem.violation \in [Solution -> Nat]
           /\ problem.weakDom \in BOOLEAN /\ problem.moga \in BOOLEAN /\ problem.shuffled \in BOOLEAN
           /\ ovec \in [Solution -> [Objective -> Int]]
  <1>1. /\ problem.goal \in [Objective -> Values] /\ problem.setGoals \subseteq Objective
        /\ problem.priority \in [Objective -> Nat \ {0}]
        /\ problem.violation \in [Solution -> Nat]
        /\ {problem.weakDom, problem.moga, problem.shuffled} \subseteq BOOLEAN
    BY RankingAssumption DEF Given
  <1>2. Values \subseteq Int /\ Vectors \subseteq [Objective -> Values]
    BY RankingAssumption
  <1>3. problem.goal \in [Objective -> Int]
    BY <1>1, <1>2
  <1>4. \A v \in Vectors : v \in [Objective -> Int]
    BY <1>2
  <1>5. ovec \in [Solution -> [Objective -> Int]]
    BY <1>4 DEF Given
  <1>6. QED
    BY <1>1, <1>3, <1>5

LEMMA Entries ==
    ASSUME Given, NEW a \in Solution, NEW k \in Objective
    PROVE  /\ ovec[a][k] \in Int /\ problem.goal[k] \in Int /\ Clipped(a, k) \in Int
           /\ \A K \in SUBSET Objective : k \in Missed(a, K) <=> k \in K /\ ovec[a][k] > problem.goal[k]
           /\ ovec[a][k] > problem.goal[k] => Clipped(a, k) = ovec[a][k]
           /\ ~ (ovec[a][k] > problem.goal[k]) => Clipped(a, k) = problem.goal[k]
  <1>1. ovec[a][k] \in Int /\ problem.goal[k] \in Int
    BY Data
  <1>2. QED
    BY <1>1 DEF Clipped, Missed

(* Within the goals of one priority, the decision is dominance of what     *)
(* exceeds the goals.                                                      *)
LEMMA PreferIsBetter ==
    ASSUME Given, NEW a \in Solution, NEW b \in Solution, NEW K \in SUBSET Objective
    PROVE  /\ GoalsPrefer(a, b, K) => BetterAt(a, b, K)
           /\ problem.weakDom /\ BetterAt(a, b, K) => GoalsPrefer(a, b, K)
           /\ GoalsTie(a, b, K) <=> SameAt(a, b, K)
  <1> DEFINE A(k) == ovec[a][k]
             B(k) == ovec[b][k]
             G(k) == problem.goal[k]
             CA(k) == Clipped(a, k)
             CB(k) == Clipped(b, k)
             MA == Missed(a, K)
             MB == Missed(b, K)
  <1>1. \A k \in K : /\ A(k) \in Int /\ G(k) \in Int /\ CA(k) \in Int
                     /\ k \in MA <=> A(k) > G(k)
                     /\ A(k) > G(k) => CA(k) = A(k)
                     /\ ~ (A(k) > G(k)) => CA(k) = G(k)
    BY Entries
  <1>2. \A k \in K : /\ B(k) \in Int /\ CB(k) \in Int
                     /\ k \in MB <=> B(k) > G(k)
                     /\ B(k) > G(k) => CB(k) = B(k)
                     /\ ~ (B(k) > G(k)) => CB(k) = G(k)
    BY Entries
  <1>3. MA \subseteq K /\ MB \subseteq K
    BY DEF Missed
  <1>4. /\ GoalsPrefer(a, b, K) <=>
             \/ MA = {} /\ MB # {}
             \/ /\ MA # {} /\ MB # {}
                /\ \/ /\ \A k \in MA : A(k) < B(k) \/ (problem.weakDom /\ A(k) = B(k))
                      /\ \E k \in MA : A(k) # B(k)
                   \/ (\A k \in MA : A(k) = B(k)) /\ \E k \in MB : A(k) # B(k)
        /\ GoalsTie(a, b, K) <=>
             /\ MA = {} <=> MB = {}
             /\ \A k \in MA : A(k) = B(k)
             /\ \A k \in MB : A(k) = B(k)
    BY DEF GoalsPrefer, GoalsTie, Dominates, NoWorse, Alike
  <1>5. /\ BetterAt(a, b, K) <=> (\A k \in K : CA(k) <= CB(k)) /\ \E k \in K : CA(k) # CB(k)
        /\ SameAt(a, b, K) <=> \A k \in K : CA(k) = CB(k)
    BY DEF BetterAt, SameAt
  <1> HIDE DEF A, B, G, CA, CB, MA, MB
  <1>6. ASSUME GoalsPrefer(a, b, K)
        PROVE  BetterAt(a, b, K)
    <2>1. CASE MA = {} /\ MB # {}
      BY <1>1, <1>2, <1>3, <1>5, <2>1
    <2>2. CASE /\ \A k \in MA : A(k) < B(k) \/ A(k) = B(k)
               /\ \E k \in MA : A(k) # B(k)
      BY <1>1, <1>2, <1>3, <1>5, <2>2
    <2>3. CASE (\A k \in MA : A(k) = B(k)) /\ \E k \in MB : A(k) # B(k)
      BY <1>1, <1>2, <1>3, <1>5, <2>3
    <2>4. QED
      BY <1>4, <1>6, <2>1, <2>2, <2>3
  <1>7. ASSUME problem.weakDom, BetterAt(a, b, K)
        PROVE  GoalsPrefer(a, b, K)
    <2>1. PICK k \in K : CA(k) < CB(k)
      BY <1>1, <1>2, <1>5, <1>7
    <2>2. k \in MB
      BY <1>1, <1>2, <2>1
    <2>3. \A j \in MA : A(j) <= B(j)
      BY <1>1, <1>2, <1>3, <1>5, <1>7
    <2>4. A(k) # B(k)
      BY <1>1, <1>2, <2>1
    <2>5. \A j \in MA : A(j) < B(j) \/ A(j) = B(j)
      BY <1>1, <1>2, <1>3, <2>3
    <2>6. QED
      BY <1>4, <1>7, <2>2, <2>4, <2>5
  <1>8. GoalsTie(a, b, K) <=> SameAt(a, b, K)
    <2>1. ASSUME GoalsTie(a, b, K), NEW k \in K
          PROVE  CA(k) = CB(k)
      BY <1>1, <1>2, <1>4, <2>1
    <2>2. ASSUME \A k \in K : CA(k) = CB(k)
          PROVE  GoalsTie(a, b, K)
      <3>1. \A k \in K : k \in MA <=> k \in MB
        BY <1>1, <1>2, <2>2
      <3>2. \A k \in MA : A(k) = B(k)
        BY <1>1, <1>2, <1>3, <2>2, <3>1
      <3>3. \A k \in MB : A(k) = B(k)
        BY <1>1, <1>2, <1>3, <2>2, <3>1
      <3>4. QED
        BY <1>3, <1>4, <3>1, <3>2, <3>3
    <2>3. QED
      BY <1>5, <2>1, <2>2
  <1>9. QED
    BY <1>6, <1>7, <1>8
(* The priorities that a comparison descends through.                      *)
Top == 1 + Highest({problem.priority[k] : k \in Objective})

LEMMA AllBelowTop ==
    ASSUME Given
    PROVE  /\ Top \in Nat \ {0}
           /\ \A k \in Objective : problem.priority[k] \in Nat \ {0} /\ problem.priority[k] < Top
  <1> DEFINE P == {problem.priority[k] : k \in Objective}
             S == {m \in 0 .. Objectives : \E n \in Nat : \A k \in 1 .. m : problem.priority[k] <= n}
  <1>1. Objectives \in Nat \ {0} /\ \A k \in Objective : problem.priority[k] \in Nat \ {0}
    BY Data, RankingAssumption
  <1>2. 0 \in S
    <2>1. 0 \in 0 .. Objectives /\ 0 \in Nat /\ \A k \in 1 .. 0 : problem.priority[k] <= 0
      BY <1>1
    <2>2. QED
      BY <2>1
  <1>3. ASSUME NEW m \in 1 .. Objectives, m - 1 \in S
        PROVE  m \in S
    <2>1. PICK n \in Nat : \A k \in 1 .. m - 1 : problem.priority[k] <= n
      BY <1>3
    <2> DEFINE p == problem.priority[m]
    <2>2. p \in Nat /\ m \in 0 .. Objectives
      BY <1>1 DEF Objective
    <2>3. n + p \in Nat /\ \A k \in 1 .. m : problem.priority[k] <= n + p
      <3>1. ASSUME NEW k \in 1 .. m
            PROVE  problem.priority[k] <= n + p
        <4>1. problem.priority[k] \in Nat
          BY <1>1, <2>2 DEF Objective
        <4>2. k = m \/ k \in 1 .. m - 1
          BY <2>2
        <4>3. QED
          BY <2>1, <2>2, <4>1, <4>2
      <3>2. QED
        BY <2>2, <3>1
    <2>4. QED
      BY <2>2, <2>3
  <1>4. Objectives \in S
    <2>1. Objectives \in 0 .. Objectives /\ Objectives \in Nat
      BY <1>1
    <2> HIDE DEF S
    <2>2. \A i \in 0 .. Objectives : i \in S
      BY <1>2, <1>3, <2>1, Upto
    <2>3. QED
      BY <2>1, <2>2
  <1>5. PICK n \in Nat : \A k \in Objective : problem.priority[k] <= n
    BY <1>4 DEF Objective
  <1>6. P \subseteq Nat /\ P # {} /\ \A q \in P : q <= n
    BY <1>1, <1>5 DEF Objective
  <1>7. Highest(P) \in P /\ \A q \in P : q <= Highest(P)
    <2> HIDE DEF P
    <2>1. QED
      BY <1>6, HighestOf
  <1>8. Top = 1 + Highest(P)
    BY DEF Top
  <1>9. Highest(P) \in Nat
    BY <1>6, <1>7
  <1>10. \A k \in Objective : problem.priority[k] <= Highest(P)
    BY <1>7
  <1> HIDE DEF P
  <1>11. QED
    BY <1>1, <1>8, <1>9, <1>10

LEMMA LevelsBelow ==
    ASSUME Given, NEW L \in Nat
    PROVE  /\ \A q : q \in Levels(L) <=> \E k \in problem.setGoals : q = problem.priority[k] /\ q < L
           /\ Levels(L) \subseteq Nat \ {0} /\ \A q \in Levels(L) : q < L
           /\ Levels(L) # {} =>
                Highest(Levels(L)) \in Levels(L) /\ \A q \in Levels(L) : q <= Highest(Levels(L))
  <1>1. problem.setGoals \subseteq Objective /\ problem.priority \in [Objective -> Nat \ {0}]
    BY Data
  <1>2. ASSUME NEW q
        PROVE  q \in Levels(L) <=> \E k \in problem.setGoals : q = problem.priority[k] /\ q < L
    BY <1>1 DEF Levels, Below
  <1>3. Levels(L) \subseteq Nat \ {0} /\ \A q \in Levels(L) : q < L
    BY <1>1, <1>2
  <1>4. ASSUME Levels(L) # {}
        PROVE  Highest(Levels(L)) \in Levels(L) /\ \A q \in Levels(L) : q <= Highest(Levels(L))
    <2>1. Levels(L) \in SUBSET Nat /\ \A q \in Levels(L) : q <= L
      BY <1>3
    <2>2. QED
      BY <1>4, <2>1, HighestOf
  <1>5. QED
    BY <1>2, <1>3, <1>4

(* One step of preferability(), given the decisions below.                 *)
Decided(a, b, L, f) ==
    LET highest == Highest(Levels(L))
    IN  \/ GoalsPrefer(a, b, Level(highest))
        \/ /\ GoalsTie(a, b, Level(highest))
           /\ \/ Levels(L) = {1} /\ Dominates(a, b, Below(L))
              \/ (\E q \in Levels(L) : q < highest) /\ f[highest]

LEMMA PreferredDescends ==
    ASSUME Given, NEW a \in Solution, NEW b \in Solution
    PROVE  \E f \in [1 .. Top -> BOOLEAN] :
              /\ Preferred(a, b) <=> f[Top]
              /\ \A L \in 1 .. Top : f[L] <=> Decided(a, b, L, f)
  <1> DEFINE F == [1 .. Top -> BOOLEAN]
             h == [L \in 1 .. Top |-> [f \in F |-> Decided(a, b, L, f)]]
             prefer[level \in 1 .. Top] ==
               LET highest == Highest(Levels(level))
               IN  \/ GoalsPrefer(a, b, Level(highest))
                   \/ /\ GoalsTie(a, b, Level(highest))
                      /\ \/ Levels(level) = {1} /\ Dominates(a, b, Below(level))
                         \/ (\E q \in Levels(level) : q < highest) /\ prefer[highest]
  <1>1. Top \in Nat
    BY AllBelowTop
  <1>2. ASSUME NEW L \in 1 .. Top, NEW f \in F
        PROVE  Decided(a, b, L, f) \in BOOLEAN
    BY DEF Decided
  <1>3. ASSUME NEW L \in 1 .. Top, NEW f \in F, NEW g \in F, \A j \in 1 .. L - 1 : f[j] = g[j]
        PROVE  Decided(a, b, L, f) = Decided(a, b, L, g)
    <2> DEFINE highest == Highest(Levels(L))
    <2>1. L \in Nat
      BY <1>1
    <2>2. ASSUME NEW q \in Levels(L), q < highest
          PROVE  f[highest] = g[highest]
      <3>1. highest \in Levels(L) /\ Levels(L) \subseteq Nat \ {0} /\ \A p \in Levels(L) : p < L
        BY <2>1, <2>2, LevelsBelow
      <3>2. highest \in 1 .. L - 1
        BY <2>1, <3>1
      <3>3. QED
        BY <1>3, <3>2
    <2> HIDE DEF highest
    <2>3. CASE \E q \in Levels(L) : q < highest
      <3>1. f[highest] = g[highest]
        BY <2>2, <2>3
      <3>2. QED
        BY <3>1 DEF Decided, highest
    <2>4. CASE ~ \E q \in Levels(L) : q < highest
      BY <2>4 DEF Decided, highest
    <2>5. QED
      BY <2>3, <2>4
  <1>4. \E f \in F : \A L \in 1 .. Top : f[L] = Decided(a, b, L, f)
    <2>1. h \in [1 .. Top -> [F -> BOOLEAN]]
      BY <1>2
    <2>2. \A L \in 1 .. Top : \A f \in F : h[L][f] = Decided(a, b, L, f)
      OBVIOUS
    <2> HIDE DEF h
    <2>3. \A L \in 1 .. Top : \A f, g \in F :
            (\A j \in 1 .. L - 1 : f[j] = g[j]) => h[L][f] = h[L][g]
      <3>1. ASSUME NEW L \in 1 .. Top, NEW f \in F, NEW g \in F, \A j \in 1 .. L - 1 : f[j] = g[j]
            PROVE  h[L][f] = h[L][g]
        <4>1. Decided(a, b, L, f) = Decided(a, b, L, g)
          BY <1>3, <3>1
        <4>2. h[L][f] = Decided(a, b, L, f) /\ h[L][g] = Decided(a, b, L, g)
          BY <2>2
        <4>3. QED
          BY <4>1, <4>2
      <3>2. QED
        BY <3>1
    <2>4. PICK f \in F : \A L \in 1 .. Top : f[L] = h[L][f]
      BY <1>1, <2>1, <2>3, Recursion
    <2>5. \A L \in 1 .. Top : f[L] = Decided(a, b, L, f)
      BY <2>2, <2>4
    <2>6. QED
      BY <2>5
  <1>5. \E f : f = [L \in 1 .. Top |-> Decided(a, b, L, f)]
    <2>1. PICK f \in F : \A L \in 1 .. Top : f[L] = Decided(a, b, L, f)
      BY <1>4
    <2>2. f = [L \in 1 .. Top |-> Decided(a, b, L, f)]
      BY <2>1
    <2>3. QED
      BY <2>2
  <1>6. prefer = CHOOSE f : f = [L \in 1 .. Top |-> Decided(a, b, L, f)]
    BY DEF prefer, Decided
  <1>7. Preferred(a, b) = prefer[Top]
    BY DEF Preferred, Top
  <1> HIDE DEF prefer
  <1>8. prefer = [L \in 1 .. Top |-> Decided(a, b, L, prefer)]
    BY <1>5, <1>6
  <1>9. prefer \in F /\ \A L \in 1 .. Top : prefer[L] = Decided(a, b, L, prefer)
    BY <1>8 DEF Decided
  <1>10. QED
    BY <1>7, <1>9
(* The lexicographic order on the goals below a level.                     *)
Between(p, L) == {k \in problem.setGoals : p < problem.priority[k] /\ problem.priority[k] < L}
Lowest(L) == {k \in Objective : /\ problem.priority[k] < L
                                /\ \A q \in Levels(L) \ {1} : problem.priority[k] < q}
LeastGoals(a, b, L) ==
    /\ 1 \in Levels(L) /\ SameAt(a, b, Between(0, L))
    /\ \A k \in Lowest(L) : ovec[a][k] <= ovec[b][k]
    /\ \E k \in Lowest(L) : ovec[a][k] < ovec[b][k]
Descends(a, b, L) ==
    \/ \E p \in Levels(L) : SameAt(a, b, Between(p, L)) /\ BetterAt(a, b, Level(p))
    \/ LeastGoals(a, b, L)

LEMMA DominatesAsOrder ==
    ASSUME Given, NEW a \in Solution, NEW b \in Solution, NEW K \in SUBSET Objective
    PROVE  LET less == /\ \A k \in K : ovec[a][k] <= ovec[b][k]
                       /\ \E k \in K : ovec[a][k] < ovec[b][k]
           IN  /\ Dominates(a, b, K) => less
               /\ problem.weakDom /\ less => Dominates(a, b, K)
  <1>1. \A k \in K : ovec[a][k] \in Int /\ ovec[b][k] \in Int
    BY Data
  <1>2. QED
    BY <1>1 DEF Dominates, NoWorse, Alike

LEMMA LevelSets ==
    ASSUME Given, NEW L \in Nat
    PROVE  /\ \A p : Level(p) \in SUBSET Objective
           /\ \A p : Between(p, L) \in SUBSET Objective
           /\ Lowest(L) \in SUBSET Objective /\ Below(L) \in SUBSET Objective
  BY Data DEF Level, Between, Lowest, Below

LEMMA LastLevel ==
    ASSUME Given, NEW a \in Solution, NEW b \in Solution, NEW L \in Nat, NEW f,
           NEW h, Levels(L) = {h}, Highest(Levels(L)) = h
    PROVE  /\ Decided(a, b, L, f) => Descends(a, b, L)
           /\ problem.weakDom /\ Descends(a, b, L) => Decided(a, b, L, f)
  <1>1. h \in Nat \ {0} /\ h < L
    BY LevelsBelow
  <1>2. \A k \in problem.setGoals : problem.priority[k] \in Nat \ {0}
    BY Data
  <1>3. \A k \in problem.setGoals : problem.priority[k] < L => problem.priority[k] = h
    BY LevelsBelow
  <1>4. Between(h, L) = {} /\ Between(0, L) = Level(h)
    BY <1>1, <1>2, <1>3 DEF Between, Level
  <1>5. ~ \E q \in Levels(L) : q < h
    BY <1>1
  <1>6. Decided(a, b, L, f) <=>
            \/ GoalsPrefer(a, b, Level(h))
            \/ GoalsTie(a, b, Level(h)) /\ h = 1 /\ Dominates(a, b, Below(L))
    BY <1>1, <1>5 DEF Decided
  <1>7. /\ GoalsPrefer(a, b, Level(h)) => BetterAt(a, b, Level(h))
        /\ problem.weakDom /\ BetterAt(a, b, Level(h)) => GoalsPrefer(a, b, Level(h))
        /\ GoalsTie(a, b, Level(h)) <=> SameAt(a, b, Level(h))
    BY LevelSets, PreferIsBetter
  <1>8. SameAt(a, b, {})
    BY DEF SameAt
  <1>9. h = 1 => Lowest(L) = Below(L)
    BY DEF Lowest, Below
  <1>10. Descends(a, b, L) <=>
            \/ BetterAt(a, b, Level(h))
            \/ /\ h = 1 /\ SameAt(a, b, Level(h))
               /\ \A k \in Lowest(L) : ovec[a][k] <= ovec[b][k]
               /\ \E k \in Lowest(L) : ovec[a][k] < ovec[b][k]
    BY <1>4, <1>8 DEF Descends, LeastGoals
  <1>11. LET less == /\ \A k \in Below(L) : ovec[a][k] <= ovec[b][k]
                     /\ \E k \in Below(L) : ovec[a][k] < ovec[b][k]
         IN  /\ Dominates(a, b, Below(L)) => less
             /\ problem.weakDom /\ less => Dominates(a, b, Below(L))
    BY LevelSets, DominatesAsOrder
  <1>12. QED
    BY <1>6, <1>7, <1>9, <1>10, <1>11

LEMMA NextLevel ==
    ASSUME Given, NEW a \in Solution, NEW b \in Solution, NEW L \in Nat, NEW f,
           NEW h, h = Highest(Levels(L)), NEW l \in Levels(L), l < h
    PROVE  /\ h \in Nat \ {0} /\ h < L /\ Levels(h) # {}
           /\ Decided(a, b, L, f) <=>
                \/ GoalsPrefer(a, b, Level(h))
                \/ GoalsTie(a, b, Level(h)) /\ f[h]
           /\ Descends(a, b, L) <=>
                \/ BetterAt(a, b, Level(h))
                \/ SameAt(a, b, Level(h)) /\ Descends(a, b, h)
  <1>1. /\ h \in Levels(L) /\ h \in Nat /\ l \in Nat \ {0} /\ h < L /\ h # 1 /\ h > 1
        /\ \A q \in Levels(L) : q <= h
    BY LevelsBelow
  <1>2. \A k \in problem.setGoals : problem.priority[k] \in Nat \ {0}
    BY Data
  <1>3. \A q : q \in Levels(h) <=> q \in Levels(L) /\ q # h
    <2>1. ASSUME NEW q \in Levels(h)
          PROVE  q \in Levels(L) /\ q # h
      BY <1>1, <1>2, <2>1, LevelsBelow
    <2>2. ASSUME NEW q \in Levels(L), q # h
          PROVE  q \in Levels(h)
      BY <1>1, <1>2, <2>2, LevelsBelow
    <2>3. QED
      BY <2>1, <2>2
  <1>4. \A k \in problem.setGoals : problem.priority[k] < L => problem.priority[k] <= h
    BY <1>1, LevelsBelow
  <1>5. Levels(L) # {1}
    BY <1>1
  <1>6. Decided(a, b, L, f) <=>
            \/ GoalsPrefer(a, b, Level(h))
            \/ GoalsTie(a, b, Level(h)) /\ f[h]
    BY <1>5 DEF Decided
  <1>7. Between(h, L) = {}
    BY <1>1, <1>2, <1>4 DEF Between
  <1>8. ASSUME NEW p \in Nat, p < h
        PROVE  Between(p, L) = Between(p, h) \cup Level(h)
    BY <1>1, <1>2, <1>4, <1>8 DEF Between, Level
  <1>9. Lowest(L) = Lowest(h)
    <2>1. \A k \in Objective : problem.priority[k] \in Nat
      BY Data
    <2>2. \A k \in Objective : (/\ problem.priority[k] < L
                                /\ \A q \in Levels(L) \ {1} : problem.priority[k] < q)
                           <=> (/\ problem.priority[k] < h
                                /\ \A q \in Levels(h) \ {1} : problem.priority[k] < q)
      BY <1>1, <1>3, <2>1
    <2>3. QED
      BY <2>2 DEF Lowest
  <1>10. \A p \in Nat : p < h =>
           (SameAt(a, b, Between(p, L)) <=> SameAt(a, b, Between(p, h)) /\ SameAt(a, b, Level(h)))
    BY <1>8 DEF SameAt
  <1>11. SameAt(a, b, {})
    BY DEF SameAt
  <1>12. LeastGoals(a, b, L) <=> SameAt(a, b, Level(h)) /\ LeastGoals(a, b, h)
    <2>1. 0 \in Nat /\ 0 < h
      BY <1>1
    <2>2. 1 \in Levels(L) <=> 1 \in Levels(h)
      BY <1>1, <1>3
    <2>3. SameAt(a, b, Between(0, L)) <=> SameAt(a, b, Between(0, h)) /\ SameAt(a, b, Level(h))
      BY <1>10, <2>1
    <2>4. QED
      BY <1>9, <2>2, <2>3 DEF LeastGoals
  <1>13. \A p \in Levels(h) : p \in Nat /\ p < h
    BY <1>1, LevelsBelow
  <1>14. (\E p \in Levels(L) : SameAt(a, b, Between(p, L)) /\ BetterAt(a, b, Level(p)))
         <=> \/ BetterAt(a, b, Level(h))
             \/ /\ SameAt(a, b, Level(h))
                /\ \E p \in Levels(h) : SameAt(a, b, Between(p, h)) /\ BetterAt(a, b, Level(p))
    BY <1>1, <1>3, <1>7, <1>10, <1>11, <1>13
  <1>15. Levels(h) # {} /\ h \in Nat \ {0}
    BY <1>1, <1>3
  <1>16. QED
    BY <1>1, <1>6, <1>12, <1>14, <1>15 DEF Descends

LEMMA PreferredIsLexicographic ==
    ASSUME Given, NEW a \in Solution, NEW b \in Solution, problem.setGoals # {}
    PROVE  /\ Preferred(a, b) => Descends(a, b, Top)
           /\ problem.weakDom /\ Descends(a, b, Top) => Preferred(a, b)
  <1>1. PICK f \in [1 .. Top -> BOOLEAN] :
            /\ Preferred(a, b) <=> f[Top]
            /\ \A L \in 1 .. Top : f[L] <=> Decided(a, b, L, f)
    BY PreferredDescends
  <1> DEFINE Holds(L) == Levels(L) # {} =>
                           /\ f[L] => Descends(a, b, L)
                           /\ problem.weakDom /\ Descends(a, b, L) => f[L]
             S == {m \in 0 .. Top : \A L \in 1 .. m : Holds(L)}
  <1>2. Top \in Nat \ {0} /\ 0 \in 0 .. Top /\ Top \in 0 .. Top /\ Top \in 1 .. Top
    BY AllBelowTop
  <1>3. 0 \in S
    BY <1>2
  <1>4. ASSUME NEW m \in 1 .. Top, m - 1 \in S
        PROVE  m \in S
    <2>1. m \in Nat /\ m \in 0 .. Top /\ \A L \in 1 .. m : L = m \/ L \in 1 .. m - 1
      BY <1>2
    <2>2. \A L \in 1 .. m - 1 : Holds(L)
      BY <1>4
    <2> DEFINE h == Highest(Levels(m))
    <2>3. f[m] <=> Decided(a, b, m, f)
      BY <1>1
    <2>4. ASSUME Levels(m) # {}
          PROVE  /\ f[m] => Descends(a, b, m)
                 /\ problem.weakDom /\ Descends(a, b, m) => f[m]
      <3>1. h \in Levels(m) /\ h \in Nat /\ Levels(m) \subseteq Nat /\ \A q \in Levels(m) : q <= h
        BY <2>1, <2>4, LevelsBelow
      <3> HIDE DEF h
      <3>2. CASE \A q \in Levels(m) : q = h
        <4>1. Levels(m) = {h} /\ Highest(Levels(m)) = h
          BY <3>1, <3>2 DEF h
        <4>2. QED
          BY <2>1, <2>3, <4>1, LastLevel
      <3>3. CASE \E q \in Levels(m) : q # h
        <4>1. PICK l \in Levels(m) : l < h
          BY <3>1, <3>3
        <4>2. /\ h \in Nat \ {0} /\ h < m /\ Levels(h) # {}
              /\ Decided(a, b, m, f) <=>
                   \/ GoalsPrefer(a, b, Level(h))
                   \/ GoalsTie(a, b, Level(h)) /\ f[h]
              /\ Descends(a, b, m) <=>
                   \/ BetterAt(a, b, Level(h))
                   \/ SameAt(a, b, Level(h)) /\ Descends(a, b, h)
          BY <2>1, <4>1, NextLevel DEF h
        <4>3. h \in 1 .. m - 1
          BY <2>1, <4>2
        <4>4. Holds(h)
          BY <2>2, <4>3
        <4>5. /\ f[h] => Descends(a, b, h)
              /\ problem.weakDom /\ Descends(a, b, h) => f[h]
          BY <4>2, <4>4
        <4>6. /\ GoalsPrefer(a, b, Level(h)) => BetterAt(a, b, Level(h))
              /\ problem.weakDom /\ BetterAt(a, b, Level(h)) => GoalsPrefer(a, b, Level(h))
              /\ GoalsTie(a, b, Level(h)) <=> SameAt(a, b, Level(h))
          BY <2>1, LevelSets, PreferIsBetter
        <4>7. QED
          BY <2>3, <4>2, <4>5, <4>6
      <3>4. QED
        BY <3>2, <3>3
    <2>5. Holds(m)
      BY <2>4
    <2> HIDE DEF Holds
    <2>6. QED
      BY <2>1, <2>2, <2>5
  <1>5. Top \in S
    <2> HIDE DEF S
    <2>1. \A i \in 0 .. Top : i \in S
      BY <1>2, <1>3, <1>4, Upto
    <2>2. QED
      BY <1>2, <2>1
  <1>6. Levels(Top) # {}
    BY <1>2, Data, AllBelowTop, LevelsBelow
  <1>7. QED
    BY <1>1, <1>2, <1>5, <1>6
LEMMA BetterIsLexicographic ==
    ASSUME Given, NEW a \in Solution, NEW b \in Solution
    PROVE  /\ BetterThan(a, b) => Lexicographic(a, b)
           /\ problem.weakDom /\ Lexicographic(a, b) => BetterThan(a, b)
  <1> DEFINE P == {problem.priority[k] : k \in problem.setGoals}
             Above(p) == {k \in problem.setGoals : problem.priority[k] > p}
             Low == {k \in Objective : \A q \in P \ {1} : problem.priority[k] < q}
             less == /\ \A k \in Low : ovec[a][k] <= ovec[b][k]
                     /\ \E k \in Low : ovec[a][k] < ovec[b][k]
             lex == \/ \E p \in P : SameAt(a, b, Above(p)) /\ BetterAt(a, b, Level(p))
                    \/ (1 \in P \/ P = {}) /\ SameAt(a, b, problem.setGoals) /\ less
  <1>1. /\ Top \in Nat /\ problem.setGoals \subseteq Objective
        /\ \A k \in Objective : problem.priority[k] \in Nat \ {0} /\ problem.priority[k] < Top
    BY Data, AllBelowTop
  <1>2. Lexicographic(a, b) <=>
           \/ problem.violation[a] < problem.violation[b]
           \/ problem.violation[a] = 0 /\ problem.violation[b] = 0 /\ lex
    BY DEF Lexicographic
  <1>3. CASE problem.setGoals = {}
    <2>1. P = {} /\ Low = Objective /\ SameAt(a, b, problem.setGoals)
      BY <1>3 DEF SameAt
    <2>2. lex <=> less
      BY <2>1
    <2>3. /\ Dominates(a, b, Objective) => less
          /\ problem.weakDom /\ less => Dominates(a, b, Objective)
      <3>1. Objective \in SUBSET Objective
        OBVIOUS
      <3>2. QED
        BY <2>1, <3>1, DominatesAsOrder
    <2> HIDE DEF lex, less, Low
    <2>4. QED
      BY <1>2, <1>3, <2>2, <2>3 DEF BetterThan
  <1>4. CASE problem.setGoals # {}
    <2>1. P = Levels(Top)
      BY <1>1, LevelsBelow
    <2>2. Low = Lowest(Top) /\ problem.setGoals = Between(0, Top)
      BY <1>1, <2>1 DEF Lowest, Between
    <2>3. \A p : Above(p) = Between(p, Top)
      BY <1>1 DEF Between
    <2>4. P # {}
      BY <1>4
    <2>5. lex <=> Descends(a, b, Top)
      <3> HIDE DEF P, Above, Low
      <3>1. QED
        BY <2>1, <2>2, <2>3, <2>4 DEF Descends, LeastGoals
    <2>6. /\ Preferred(a, b) => Descends(a, b, Top)
          /\ problem.weakDom /\ Descends(a, b, Top) => Preferred(a, b)
      BY <1>4, PreferredIsLexicographic
    <2> HIDE DEF lex
    <2>7. QED
      BY <1>2, <1>4, <2>5, <2>6 DEF BetterThan
  <1>5. QED
    BY <1>3, <1>4
-----------------------------------------------------------------------------
(* The relation is transitive, also with strong dominance.                 *)
LEMMA DominatesChains ==
    ASSUME Given, NEW a \in Solution, NEW b \in Solution, NEW c \in Solution,
           NEW K \in SUBSET Objective, Dominates(a, b, K), Dominates(b, c, K)
    PROVE  Dominates(a, c, K)
  <1>1. \A k \in K : ovec[a][k] \in Int /\ ovec[b][k] \in Int /\ ovec[c][k] \in Int
    BY Data
  <1>2. QED
    BY <1>1 DEF Dominates, NoWorse, Alike

LEMMA PreferChains ==
    ASSUME Given, NEW a \in Solution, NEW b \in Solution, NEW c \in Solution,
           NEW K \in SUBSET Objective
    PROVE  /\ GoalsPrefer(a, b, K) /\ GoalsPrefer(b, c, K) => GoalsPrefer(a, c, K)
           /\ GoalsPrefer(a, b, K) /\ GoalsTie(b, c, K) => GoalsPrefer(a, c, K)
           /\ GoalsTie(a, b, K) /\ GoalsPrefer(b, c, K) => GoalsPrefer(a, c, K)
           /\ GoalsTie(a, b, K) /\ GoalsTie(b, c, K) => GoalsTie(a, c, K)
  <1> DEFINE A(k) == ovec[a][k]
             B(k) == ovec[b][k]
             C(k) == ovec[c][k]
             G(k) == problem.goal[k]
             MA == Missed(a, K)
             MB == Missed(b, K)
             MC == Missed(c, K)
             Pref(x, y, M, O) ==
                \/ M = {} /\ O # {}
                \/ /\ M # {} /\ O # {}
                   /\ \/ /\ \A k \in M : ovec[x][k] < ovec[y][k] \/ (problem.weakDom /\ ovec[x][k] = ovec[y][k])
                         /\ \E k \in M : ovec[x][k] # ovec[y][k]
                      \/ (\A k \in M : ovec[x][k] = ovec[y][k]) /\ \E k \in O : ovec[x][k] # ovec[y][k]
             Tie(x, y, M, O) ==
                /\ M = {} <=> O = {}
                /\ \A k \in M : ovec[x][k] = ovec[y][k]
                /\ \A k \in O : ovec[x][k] = ovec[y][k]
  <1>1. \A x, y : /\ GoalsPrefer(x, y, K) <=> Pref(x, y, Missed(x, K), Missed(y, K))
                  /\ GoalsTie(x, y, K) <=> Tie(x, y, Missed(x, K), Missed(y, K))
    BY DEF GoalsPrefer, GoalsTie, Dominates, NoWorse, Alike
  <1>2. \A k \in K : /\ A(k) \in Int /\ B(k) \in Int /\ C(k) \in Int /\ G(k) \in Int
                     /\ k \in MA <=> A(k) > G(k)
                     /\ k \in MB <=> B(k) > G(k)
                     /\ k \in MC <=> C(k) > G(k)
    BY Entries
  <1>3. MA \subseteq K /\ MB \subseteq K /\ MC \subseteq K
    BY DEF Missed
  <1>4. /\ GoalsPrefer(a, b, K) <=> Pref(a, b, MA, MB)
        /\ GoalsPrefer(b, c, K) <=> Pref(b, c, MB, MC)
        /\ GoalsPrefer(a, c, K) <=> Pref(a, c, MA, MC)
        /\ GoalsTie(a, b, K) <=> Tie(a, b, MA, MB)
        /\ GoalsTie(b, c, K) <=> Tie(b, c, MB, MC)
        /\ GoalsTie(a, c, K) <=> Tie(a, c, MA, MC)
    BY <1>1
  <1> HIDE DEF MA, MB, MC, G
  <1>5. ASSUME Tie(a, b, MA, MB)
        PROVE  MA = MB /\ \A k \in MA : A(k) = B(k)
    BY <1>2, <1>3, <1>5
  <1>6. ASSUME Tie(b, c, MB, MC)
        PROVE  MB = MC /\ \A k \in MB : B(k) = C(k)
    BY <1>2, <1>3, <1>6
  <1>7. ASSUME Pref(a, b, MA, MB), Pref(b, c, MB, MC)
        PROVE  Pref(a, c, MA, MC)
    <2>1. CASE MA = {}
      BY <1>7, <2>1
    <2>2. CASE MA # {}
      <3>1. MB # {} /\ MC # {}
        BY <1>7, <2>2
      <3>2. \A k \in MA : k \in MB /\ (A(k) < B(k) \/ A(k) = B(k))
        BY <1>2, <1>3, <1>7, <2>2
      <3>3. \A k \in MB : k \in MC /\ (B(k) < C(k) \/ B(k) = C(k))
        BY <1>2, <1>3, <1>7, <3>1
      <3>4. CASE \E k \in MA : A(k) # C(k)
        <4>1. ASSUME NEW k \in MA
              PROVE  A(k) < C(k) \/ (problem.weakDom /\ A(k) = C(k))
          <5>1. /\ A(k) \in Int /\ B(k) \in Int /\ C(k) \in Int
                /\ A(k) < B(k) \/ A(k) = B(k)
                /\ B(k) < C(k) \/ B(k) = C(k)
            BY <1>2, <1>3, <3>2, <3>3
          <5>2. CASE problem.weakDom
            BY <5>1, <5>2
          <5>3. CASE ~ problem.weakDom
            <6>1. (\A j \in MA : A(j) < B(j)) \/ (\A j \in MA : A(j) = B(j))
              BY <1>7, <2>2, <5>3
            <6>2. (\A j \in MB : B(j) < C(j)) \/ (\A j \in MB : B(j) = C(j))
              BY <1>7, <3>1, <5>3
            <6>3. PICK i \in MA : A(i) # C(i)
              BY <3>4
            <6>4. (A(k) < B(k) <=> A(i) < B(i)) /\ (B(k) < C(k) <=> B(i) < C(i))
              BY <1>2, <1>3, <3>2, <6>1, <6>2
            <6>5. A(i) < B(i) \/ B(i) < C(i)
              BY <3>2, <3>3, <6>3
            <6>6. QED
              BY <5>1, <6>4, <6>5
          <5>4. QED
            BY <5>2, <5>3
        <4>2. QED
          BY <2>2, <3>1, <3>4, <4>1
      <3>5. CASE \A k \in MA : A(k) = C(k)
        <4>1. \A k \in MA : A(k) = B(k) /\ B(k) = C(k)
          BY <1>2, <1>3, <3>2, <3>3, <3>5
        <4>2. PICK k \in MB : A(k) # B(k)
          BY <1>7, <2>2, <4>1
        <4>3. k \notin MA /\ k \in MC /\ (B(k) < C(k) \/ B(k) = C(k))
          BY <3>3, <4>1, <4>2
        <4>4. A(k) # C(k)
          BY <1>2, <1>3, <4>2, <4>3
        <4>5. QED
          BY <2>2, <3>1, <3>5, <4>3, <4>4
      <3>6. QED
        BY <3>4, <3>5
    <2>3. QED
      BY <2>1, <2>2
  <1>8. ASSUME Pref(a, b, MA, MB), Tie(b, c, MB, MC)
        PROVE  Pref(a, c, MA, MC)
    <2>1. MB = MC /\ \A k \in MB : B(k) = C(k)
      BY <1>6, <1>8
    <2>2. MA # {} => \A k \in MA : k \in MB
      BY <1>2, <1>3, <1>8
    <2>3. QED
      BY <1>8, <2>1, <2>2
  <1>9. ASSUME Tie(a, b, MA, MB), Pref(b, c, MB, MC)
        PROVE  Pref(a, c, MA, MC)
    <2>1. MA = MB /\ \A k \in MA : A(k) = B(k)
      BY <1>5, <1>9
    <2>2. CASE MB = {}
      BY <1>9, <2>1, <2>2
    <2>3. CASE /\ MB # {} /\ MC # {}
               /\ \A k \in MB : B(k) < C(k) \/ (problem.weakDom /\ B(k) = C(k))
               /\ \E k \in MB : B(k) # C(k)
      BY <2>1, <2>3
    <2>4. CASE /\ MB # {} /\ MC # {}
               /\ \A k \in MB : B(k) = C(k)
               /\ \E k \in MC : B(k) # C(k)
      <3>1. PICK k \in MC : B(k) # C(k)
        BY <2>4
      <3>2. k \notin MB /\ k \notin MA
        BY <2>1, <2>4, <3>1
      <3>3. A(k) # C(k)
        BY <1>2, <1>3, <3>1, <3>2
      <3>4. QED
        BY <2>1, <2>4, <3>3
    <2>5. QED
      BY <1>9, <2>2, <2>3, <2>4
  <1>10. ASSUME Tie(a, b, MA, MB), Tie(b, c, MB, MC)
         PROVE  Tie(a, c, MA, MC)
    BY <1>5, <1>6, <1>10
  <1> HIDE DEF Pref, Tie
  <1>11. QED
    BY <1>4, <1>7, <1>8, <1>9, <1>10
LEMMA LastDecides ==
    ASSUME Given, NEW a, NEW b, NEW L \in Nat, NEW f, NEW h,
           Levels(L) = {h}, Highest(Levels(L)) = h
    PROVE  Decided(a, b, L, f) <=>
              \/ GoalsPrefer(a, b, Level(h))
              \/ GoalsTie(a, b, Level(h)) /\ h = 1 /\ Dominates(a, b, Below(L))
  <1>1. h \in Nat /\ ~ \E q \in Levels(L) : q < h
    BY LevelsBelow
  <1>2. QED
    BY <1>1 DEF Decided

LEMMA PreferredChains ==
    ASSUME Given, NEW a \in Solution, NEW b \in Solution, NEW c \in Solution,
           problem.setGoals # {}, Preferred(a, b), Preferred(b, c)
    PROVE  Preferred(a, c)
  <1>1. PICK u \in [1 .. Top -> BOOLEAN] :
            /\ Preferred(a, b) <=> u[Top]
            /\ \A L \in 1 .. Top : u[L] <=> Decided(a, b, L, u)
    BY PreferredDescends
  <1>2. PICK v \in [1 .. Top -> BOOLEAN] :
            /\ Preferred(b, c) <=> v[Top]
            /\ \A L \in 1 .. Top : v[L] <=> Decided(b, c, L, v)
    BY PreferredDescends
  <1>3. PICK w \in [1 .. Top -> BOOLEAN] :
            /\ Preferred(a, c) <=> w[Top]
            /\ \A L \in 1 .. Top : w[L] <=> Decided(a, c, L, w)
    BY PreferredDescends
  <1> DEFINE Holds(L) == Levels(L) # {} /\ u[L] /\ v[L] => w[L]
             S == {m \in 0 .. Top : \A L \in 1 .. m : Holds(L)}
  <1>4. Top \in Nat \ {0} /\ 0 \in 0 .. Top /\ Top \in 0 .. Top /\ Top \in 1 .. Top
    BY AllBelowTop
  <1>5. 0 \in S
    BY <1>4
  <1>6. ASSUME NEW m \in 1 .. Top, m - 1 \in S
        PROVE  m \in S
    <2>1. m \in Nat /\ m \in 0 .. Top /\ \A L \in 1 .. m : L = m \/ L \in 1 .. m - 1
      BY <1>4
    <2>2. \A L \in 1 .. m - 1 : Holds(L)
      BY <1>6
    <2> DEFINE h == Highest(Levels(m))
               K == Level(h)
    <2>3. /\ u[m] <=> Decided(a, b, m, u)
          /\ v[m] <=> Decided(b, c, m, v)
          /\ w[m] <=> Decided(a, c, m, w)
      BY <1>1, <1>2, <1>3
    <2>4. ASSUME Levels(m) # {}, u[m], v[m]
          PROVE  w[m]
      <3>1. h \in Levels(m) /\ h \in Nat /\ Levels(m) \subseteq Nat /\ \A q \in Levels(m) : q <= h
        BY <2>1, <2>4, LevelsBelow
      <3>2. /\ GoalsPrefer(a, b, K) /\ GoalsPrefer(b, c, K) => GoalsPrefer(a, c, K)
            /\ GoalsPrefer(a, b, K) /\ GoalsTie(b, c, K) => GoalsPrefer(a, c, K)
            /\ GoalsTie(a, b, K) /\ GoalsPrefer(b, c, K) => GoalsPrefer(a, c, K)
            /\ GoalsTie(a, b, K) /\ GoalsTie(b, c, K) => GoalsTie(a, c, K)
        BY <2>1, LevelSets, PreferChains
      <3> HIDE DEF h
      <3>3. CASE \A q \in Levels(m) : q = h
        <4>1. Levels(m) = {h} /\ Highest(Levels(m)) = h
          BY <3>1, <3>3 DEF h
        <4>2. \A x, y, f : Decided(x, y, m, f) <=>
                  \/ GoalsPrefer(x, y, K)
                  \/ GoalsTie(x, y, K) /\ h = 1 /\ Dominates(x, y, Below(m))
          BY <2>1, <4>1, LastDecides
        <4>3. Dominates(a, b, Below(m)) /\ Dominates(b, c, Below(m)) => Dominates(a, c, Below(m))
          BY <2>1, LevelSets, DominatesChains
        <4>4. QED
          BY <2>3, <2>4, <3>2, <4>2, <4>3
      <3>4. CASE \E q \in Levels(m) : q # h
        <4>1. PICK l \in Levels(m) : l < h
          BY <3>1, <3>4
        <4>2. /\ h \in Nat \ {0} /\ h < m /\ Levels(h) # {}
              /\ Decided(a, b, m, u) <=> GoalsPrefer(a, b, K) \/ (GoalsTie(a, b, K) /\ u[h])
          BY <2>1, <4>1, NextLevel DEF h
        <4>3. Decided(b, c, m, v) <=> GoalsPrefer(b, c, K) \/ (GoalsTie(b, c, K) /\ v[h])
          BY <2>1, <4>1, NextLevel DEF h
        <4>4. Decided(a, c, m, w) <=> GoalsPrefer(a, c, K) \/ (GoalsTie(a, c, K) /\ w[h])
          BY <2>1, <4>1, NextLevel DEF h
        <4>5. h \in 1 .. m - 1
          BY <2>1, <4>2
        <4>6. u[h] /\ v[h] => w[h]
          BY <2>2, <4>2, <4>5
        <4>7. QED
          BY <2>3, <2>4, <3>2, <4>2, <4>3, <4>4, <4>6
      <3>5. QED
        BY <3>3, <3>4
    <2>5. Holds(m)
      BY <2>4
    <2> HIDE DEF Holds
    <2>6. QED
      BY <2>1, <2>2, <2>5
  <1>7. Top \in S
    <2> HIDE DEF S
    <2>1. \A i \in 0 .. Top : i \in S
      BY <1>4, <1>5, <1>6, Upto
    <2>2. QED
      BY <1>4, <2>1
  <1>8. Levels(Top) # {}
    BY <1>4, Data, AllBelowTop, LevelsBelow
  <1>9. QED
    BY <1>1, <1>2, <1>3, <1>4, <1>7, <1>8

(* isBetterThan() is transitive for every combination of goals, priorities *)
(* and violations, with weak and with strong dominance.                    *)
THEOREM BetterChains ==
    ASSUME Given, NEW a \in Solution, NEW b \in Solution, NEW c \in Solution,
           BetterThan(a, b), BetterThan(b, c)
    PROVE  BetterThan(a, c)
  <1>1. problem.violation[a] \in Nat /\ problem.violation[b] \in Nat /\ problem.violation[c] \in Nat
    BY Data
  <1>2. CASE problem.violation[a] < problem.violation[b] \/ problem.violation[b] < problem.violation[c]
    BY <1>1, <1>2 DEF BetterThan
  <1>3. CASE /\ problem.violation[a] = 0 /\ problem.violation[b] = 0 /\ problem.violation[c] = 0
             /\ problem.setGoals = {} /\ Dominates(a, b, Objective) /\ Dominates(b, c, Objective)
    <2>1. Dominates(a, c, Objective)
      <3>1. Objective \in SUBSET Objective
        OBVIOUS
      <3>2. QED
        BY <1>3, <3>1, DominatesChains
    <2>2. QED
      BY <1>3, <2>1 DEF BetterThan
  <1>4. CASE /\ problem.violation[a] = 0 /\ problem.violation[b] = 0 /\ problem.violation[c] = 0
             /\ problem.setGoals # {} /\ Preferred(a, b) /\ Preferred(b, c)
    BY <1>4, PreferredChains DEF BetterThan
  <1>5. QED
    BY <1>2, <1>3, <1>4 DEF BetterThan

LEMMA NotBetterThanItself ==
    ASSUME Given, NEW a \in Solution
    PROVE  ~ BetterThan(a, a)
  <1>1. SUFFICES ~ Lexicographic(a, a)
    BY BetterIsLexicographic
  <1>2. problem.violation[a] \in Nat /\ \A k \in Objective : ovec[a][k] \in Int
    BY Data
  <1>3. \A K : ~ BetterAt(a, a, K)
    BY DEF BetterAt, SameAt
  <1>4. ~ problem.violation[a] < problem.violation[a]
    BY <1>2
  <1>5. \A K \in SUBSET Objective : ~ \E k \in K : ovec[a][k] < ovec[a][k]
    BY <1>2
  <1> DEFINE Low == {k \in Objective :
                \A q \in {problem.priority[j] : j \in problem.setGoals} \ {1} : problem.priority[k] < q}
  <1>6. ~ \E k \in Low : ovec[a][k] < ovec[a][k]
    BY <1>5
  <1>7. QED
    BY <1>3, <1>4, <1>6, Zenon DEF Lexicographic

LEMMA BetterOneWay ==
    ASSUME Given, NEW a \in Solution, NEW b \in Solution, BetterThan(a, b)
    PROVE  ~ BetterThan(b, a) /\ a # b
  BY BetterChains, NotBetterThanItself

LEMMA GivenStays ==
    Spec => []Given
  <1>1. Init => Given
    BY DEF Init, Given
  <1>2. Given /\ [Next]_vars => Given'
    BY DEF Given, Next, vars, Compare, Compared, CountRanks, Collect, Release, Score,
           Crowd, CrowdingCost, Crowded, Elite, Shuffle, Pick
  <1>3. QED
    BY <1>1, <1>2, PTL DEF Spec

(* The relation of preferability() is lexicographic and, with weak         *)
(* dominance, the lexicographic order itself, for every number of          *)
(* objectives and any goals, priorities and violations.                    *)
THEOREM RelationAlwaysLexicographic == Spec => []RelationIsLexicographic
  <1>1. Given => RelationIsLexicographic
    BY BetterIsLexicographic DEF RelationIsLexicographic
  <1>2. QED
    BY <1>1, GivenStays, PTL
-----------------------------------------------------------------------------
(* Sets of solutions are finite, and their order in the input set lists    *)
(* each member once.                                                       *)
LEMMA Finitely ==
    ASSUME NEW S \in SUBSET Solution
    PROVE  IsFiniteSet(S) /\ Cardinality(S) \in Nat /\ (Cardinality(S) = 0 <=> S = {})
  <1>1. IsFiniteSet(Solution)
    BY RankingAssumption, FS_Interval DEF Solution
  <1>2. IsFiniteSet(S)
    BY <1>1, FS_Subset
  <1>3. QED
    BY <1>2, FS_CardinalityType, FS_EmptySet

(* A sequence without repetition.                                          *)
Distinct(q) == \A i, j \in DOMAIN q : q[i] = q[j] => i = j

LEMMA InOrderLists ==
    ASSUME NEW S \in SUBSET Solution
    PROVE  /\ InOrder(S) \in Seq(Solution) /\ Len(InOrder(S)) = Cardinality(S)
           /\ ToSet(InOrder(S)) = S /\ Distinct(InOrder(S))
  <1> DEFINE n == Cardinality(S)
             UpTo(s) == {t \in S : t <= s}
             g == [s \in S |-> Cardinality(UpTo(s))]
  <1>1. IsFiniteSet(S) /\ n \in Nat /\ S \subseteq Int
    BY Finitely, RankingAssumption DEF Solution
  <1>2. ASSUME NEW s \in S
        PROVE  /\ IsFiniteSet(UpTo(s)) /\ UpTo(s) # {} /\ Cardinality(UpTo(s)) \in 1 .. n
    <2>1. UpTo(s) \in SUBSET S /\ s \in UpTo(s)
      BY <1>1
    <2>2. IsFiniteSet(UpTo(s)) /\ Cardinality(UpTo(s)) <= n
      BY ONLY <1>1, <2>1, FS_Subset
    <2>3. Cardinality(UpTo(s)) \in Nat /\ Cardinality(UpTo(s)) # 0
      BY <2>1, <2>2, FS_CardinalityType, FS_EmptySet
    <2>4. QED
      BY <1>1, <2>1, <2>2, <2>3
  <1>3. ASSUME NEW s \in S, NEW t \in S, s < t
        PROVE  g[s] # g[t]
    <2>1. UpTo(s) \in SUBSET UpTo(t) /\ t \in UpTo(t) /\ t \notin UpTo(s)
      <3>1. s \in Int /\ t \in Int /\ \A x \in S : x \in Int
        BY <1>1
      <3>2. \A x \in S : x <= s => x <= t
        BY <1>3, <3>1
      <3>3. t <= t /\ ~ (t <= s)
        BY <1>3, <3>1
      <3>4. QED
        BY <3>2, <3>3
    <2>2. IsFiniteSet(UpTo(t))
      BY <1>2
    <2>3. Cardinality(UpTo(s)) # Cardinality(UpTo(t))
      <3> HIDE DEF UpTo
      <3>1. QED
        BY <2>1, <2>2, FS_Subset
    <2>4. QED
      BY <2>3
  <1>4. g \in Injection(S, 1 .. n)
    <2>1. g \in [S -> 1 .. n]
      BY <1>2
    <2>2. ASSUME NEW s \in S, NEW t \in S, g[s] = g[t]
          PROVE  s = t
      <3>1. s \in Int /\ t \in Int /\ (s < t \/ t < s \/ s = t)
        BY <1>1
      <3> HIDE DEF g
      <3>2. QED
        BY <1>3, <2>2, <3>1
    <2> HIDE DEF g
    <2>3. QED
      BY <2>1, <2>2 DEF Injection, IsInjective
  <1>5. g \in Surjection(S, 1 .. n)
    <2>1. IsFiniteSet(1 .. n) /\ Cardinality(1 .. n) = n
      BY <1>1, FS_Interval
    <2> HIDE DEF g
    <2>2. QED
      BY <1>4, <2>1, FS_Injection
  <1>6. /\ g \in [S -> 1 .. n] /\ \A s, t \in S : g[s] = g[t] => s = t
        /\ \A i \in 1 .. n : \E s \in S : g[s] = i
    <2> HIDE DEF g
    <2>1. QED
      BY <1>4, <1>5 DEF Injection, Surjection, IsInjective
  <1>7. ASSUME NEW i \in 1 .. n
        PROVE  InOrder(S)[i] \in S /\ g[InOrder(S)[i]] = i
    <2>1. PICK s \in S : g[s] = i
      BY <1>6
    <2>2. \E r \in S : Cardinality({t \in S : t <= r}) = i
      BY <2>1
    <2>3. InOrder(S)[i] = CHOOSE r \in S : Cardinality({t \in S : t <= r}) = i
      BY DEF InOrder
    <2>4. InOrder(S)[i] \in S /\ Cardinality({t \in S : t <= InOrder(S)[i]}) = i
      BY <2>2, <2>3
    <2>5. QED
      BY <2>4
  <1>8. DOMAIN InOrder(S) = 1 .. n /\ \A i \in 1 .. n : InOrder(S)[i] \in S /\ g[InOrder(S)[i]] = i
    BY <1>7 DEF InOrder
  <1>9. InOrder(S) \in [1 .. n -> Solution]
    <2>1. InOrder(S) = [i \in 1 .. n |-> InOrder(S)[i]]
      BY DEF InOrder
    <2>2. QED
      BY <1>8, <2>1
  <1> HIDE DEF g, n
  <1>10. InOrder(S) \in Seq(Solution) /\ Len(InOrder(S)) = n
    BY <1>1, <1>9
  <1>11. Distinct(InOrder(S))
    BY <1>8, <1>9 DEF Distinct
  <1>12. ToSet(InOrder(S)) = S
    <2>1. \A s \in S : g[s] \in 1 .. n /\ InOrder(S)[g[s]] = s
      BY <1>6, <1>8
    <2>2. QED
      BY <1>8, <1>9, <2>1 DEF ToSet
  <1>13. QED
    BY <1>10, <1>11, <1>12 DEF n
-----------------------------------------------------------------------------
(* The ranking. Who dominates a solution, the members of a rank and those  *)
(* of the ranks before it.                                                 *)
Dominators(s) == {t \in Solution : BetterThan(t, s)}
Members(r)    == ToSet(ranks[r])
Earlier(r)    == UNION {Members(q) : q \in 1 .. r - 1}

Peeling == {"collect", "release"}
Peeled  == {"crowd", "elite", "shuffle", "pick"}

Places ==
    /\ pc \in {"compare", "count", "done"} \cup Peeling \cup Peeled
    /\ row \in 1 .. N + 1 /\ (pc # "compare" => row = N + 1)
    /\ pc = "count" => problem.moga
    /\ pc \in Peeling \cup Peeled => ~ problem.moga

(* The counts hold what the comparisons so far have found.                 *)
Met(s, t) == t < row \/ s < row
Counted ==
    /\ domCount \in [Solution -> Int]
    /\ pc \in {"compare", "count"} =>
         \A s \in Solution : domCount[s] = Cardinality({t \in Dominators(s) : Met(s, t)})
    /\ \A s \in Solution : dominatedBy[s] = {t \in Solution : BetterThan(s, t) /\ Met(s, t)}
    /\ dominatedBy \in [Solution -> SUBSET Solution]
    /\ pc = "compare" => mark = -1 /\ ranks = <<>>

(* Each rank so far is a layer.                                            *)
Layered ==
    (pc = "done" => ~ problem.moga) /\ pc # "count" =>
        /\ ranks \in Seq(Seq(Solution))
        /\ \A r \in 1 .. Len(ranks) :
             /\ Distinct(ranks[r])
             /\ \A s \in Members(r) :
                  /\ Dominators(s) \subseteq Earlier(r)
                  /\ r > 1 => \E t \in Members(r - 1) : t \in Dominators(s)
                  /\ \A q \in 1 .. Len(ranks) : q # r => s \notin Members(q)
        /\ pc \in Peeled \cup {"done"} => Collected = Solution

(* A solution that is in a rank is marked with it; the others count who    *)
(* still dominates them, somebody of the last rank among them.             *)
Marked ==
    /\ \A r \in 1 .. Len(ranks) : \A s \in Members(r) : domCount[s] = -r
    /\ pc = "collect" =>
         /\ mark = -1 - Len(ranks)
         /\ \A s \in Solution \ Collected :
              /\ domCount[s] = Cardinality(Dominators(s) \ Collected)
              /\ Len(ranks) > 0 => ~ Dominators(s) \subseteq Earlier(Len(ranks))
    /\ pc = "release" =>
         /\ Len(ranks) > 0 /\ mark = -Len(ranks)
         /\ \A s \in Solution \ Collected :
              /\ domCount[s] = Cardinality(Dominators(s) \ Earlier(Len(ranks)))
              /\ domCount[s] # 0

RankInv ==
    /\ Given /\ Places /\ Counted /\ Layered
    /\ pc \in Peeling => Marked

LEMMA RelationStays ==
    ASSUME UNCHANGED <<problem, ovec>>
    PROVE  /\ Given => Given'
           /\ \A a, b : BetterThan(a, b)' <=> BetterThan(a, b)
           /\ \A s : Dominators(s)' = Dominators(s)
  <1>1. Given => Given'
    BY DEF Given
  <1>2. ASSUME NEW a, NEW b
        PROVE  BetterThan(a, b)' <=> BetterThan(a, b)
    <2>1. Preferred(a, b)' <=> Preferred(a, b)
      BY SMTT(30) DEF Preferred, Dominates, NoWorse, Alike, GoalsPrefer, GoalsTie, Missed,
         Below, Levels, Highest, Level
    <2>2. Dominates(a, b, Objective)' <=> Dominates(a, b, Objective)
      BY DEF Dominates, NoWorse, Alike
    <2>3. QED
      BY <2>1, <2>2 DEF BetterThan
  <1>3. ASSUME NEW s
        PROVE  Dominators(s)' = Dominators(s)
    BY <1>2 DEF Dominators
  <1>4. QED
    BY <1>1, <1>2, <1>3

LEMMA RanksStay ==
    ASSUME UNCHANGED ranks
    PROVE  /\ \A r : Members(r)' = Members(r)
           /\ \A r : Earlier(r)' = Earlier(r)
           /\ Collected' = Collected
  BY DEF Members, Earlier, Collected

LEMMA NobodyDominatesFirst ==
    ASSUME Given, NEW s \in Solution
    PROVE  /\ Dominators(s) \in SUBSET Solution /\ s \notin Dominators(s)
           /\ \A t \in Dominators(s) : s \notin Dominators(t)
  BY NotBetterThanItself, BetterOneWay DEF Dominators

LEMMA RankInit == Init => RankInv
  <1> SUFFICES ASSUME Init
               PROVE  RankInv
    OBVIOUS
  <1> USE DEF Init
  <1>1. Given /\ N \in Nat \ {0}
    BY RankingAssumption DEF Given
  <1>2. Places
    BY <1>1 DEF Places, Peeling, Peeled
  <1>3. \A s \in Solution, t \in Solution : ~ Met(s, t)
    BY <1>1 DEF Met, Solution
  <1>4. Counted
    <2>1. ASSUME NEW s \in Solution
          PROVE  {t \in Dominators(s) : Met(s, t)} = {}
      BY <1>3 DEF Dominators
    <2>2. Cardinality({}) = 0
      BY FS_EmptySet
    <2>3. \A s \in Solution : domCount[s] = Cardinality({t \in Dominators(s) : Met(s, t)})
      BY <2>1, <2>2
    <2>4. \A s \in Solution : dominatedBy[s] = {t \in Solution : BetterThan(s, t) /\ Met(s, t)}
      BY <1>3
    <2>5. QED
      BY <2>3, <2>4 DEF Counted
  <1>5. Layered
    BY DEF Layered, Peeled
  <1>6. QED
    BY <1>1, <1>2, <1>4, <1>5 DEF RankInv, Peeling

LEMMA CompareCounts ==
    ASSUME RankInv, Compare
    PROVE  RankInv'
  <1> DEFINE worse  == {j \in row + 1 .. N : BetterThan(row, j)}
             better == {j \in row + 1 .. N : ~BetterThan(row, j) /\ BetterThan(j, row)}
             Old(s) == {t \in Dominators(s) : Met(s, t)}
             Now(s) == {t \in Dominators(s) : t < row + 1 \/ s < row + 1}
  <1>1. /\ pc = "compare" /\ pc' = "compare" /\ row \in 1 .. N /\ row' = row + 1 /\ N \in Nat
        /\ Given /\ Given' /\ row \in Solution /\ Solution \subseteq Int
        /\ \A a, b : BetterThan(a, b)' <=> BetterThan(a, b)
        /\ \A s : Dominators(s)' = Dominators(s)
    BY RankingAssumption, RelationStays DEF RankInv, Places, Compare, Solution
  <1>2. /\ domCount' = [s \in Solution |->
                 IF s = row THEN domCount[s] + Cardinality(better)
                 ELSE IF s \in worse THEN domCount[s] + 1 ELSE domCount[s]]
        /\ dominatedBy' = [s \in Solution |->
                 IF s = row THEN dominatedBy[s] \cup worse
                 ELSE IF s \in better THEN dominatedBy[s] \cup {row} ELSE dominatedBy[s]]
        /\ mark' = mark /\ ranks' = ranks
    BY DEF Compare
  <1>3. /\ \A s \in Solution : domCount[s] = Cardinality(Old(s)) /\ domCount[s] \in Int
        /\ \A s \in Solution : dominatedBy[s] = {t \in Solution : BetterThan(s, t) /\ Met(s, t)}
        /\ mark = -1 /\ ranks = <<>>
    BY <1>1 DEF RankInv, Counted
  <1>4. \A s, t : Met(s, t)' <=> t < row + 1 \/ s < row + 1
    BY <1>1 DEF Met
  <1>5. \A j : j \in worse <=> j \in Solution /\ j > row /\ BetterThan(row, j)
    BY <1>1 DEF Solution
  <1>6. \A j : j \in better <=> j \in Solution /\ j > row /\ BetterThan(j, row)
    <2>1. \A j \in Solution : BetterThan(j, row) => ~ BetterThan(row, j)
      BY <1>1, BetterOneWay
    <2>2. QED
      BY <1>1, <2>1 DEF Solution
  <1> HIDE DEF worse, better
  <1>7. ASSUME NEW s \in Solution
        PROVE  /\ \A t : t \in Old(s) <=> t \in Solution /\ BetterThan(t, s) /\ (t < row \/ s < row)
               /\ \A t : t \in Now(s) <=> t \in Solution /\ BetterThan(t, s) /\ (t < row + 1 \/ s < row + 1)
               /\ Old(s) \in SUBSET Solution /\ Now(s) \in SUBSET Solution
    BY DEF Dominators, Met
  <1> HIDE DEF Old, Now
  <1>0. \A t \in Solution : /\ t < row + 1 <=> t < row \/ t = row
                            /\ t < row <=> ~ (t = row \/ t > row)
                            /\ t = row => ~ (t > row)
    <2>1. row \in Int /\ \A t \in Solution : t \in Int
      BY <1>1
    <2>2. QED
      BY <2>1
  <1>8. ASSUME NEW s \in Solution
        PROVE  domCount'[s] = Cardinality(Now(s)) /\ domCount'[s] \in Int
    <2>1. s \in Int /\ row \in Int
      BY <1>1
    <2>2. IsFiniteSet(Old(s)) /\ Cardinality(Old(s)) \in Nat /\ Cardinality(Now(s)) \in Nat
      BY <1>7, Finitely
    <2>3. CASE s = row
      <3>1. better \in SUBSET Solution
        BY <1>6
      <3>2. IsFiniteSet(better) /\ Cardinality(better) \in Nat
        BY <3>1, Finitely
      <3>3. ~ BetterThan(row, row) /\ \A t \in Solution : t \in Int
        BY <1>1, NotBetterThanItself
      <3>4. Now(s) = Old(s) \cup better /\ Old(s) \cap better = {}
        <4>1. \A t \in Solution : t \in Now(s) <=> t \in Old(s) \/ t \in better
          BY <1>0, <1>6, <1>7, <2>3, <3>3
        <4>2. \A t \in Solution : ~ (t \in Old(s) /\ t \in better)
          BY <1>0, <1>6, <1>7, <2>3
        <4>3. QED
          BY <1>7, <3>1, <4>1, <4>2
      <3>5. Cardinality(Now(s)) = Cardinality(Old(s)) + Cardinality(better)
        BY <2>2, <3>2, <3>4, FS_Union, FS_EmptySet
      <3>6. domCount'[s] = domCount[s] + Cardinality(better)
        BY <1>2, <2>3
      <3>7. QED
        BY <1>3, <2>2, <3>5, <3>6
    <2>4. CASE s # row /\ s \in worse
      <3>1. row \notin Old(s)
        BY <1>5, <1>7, <2>1, <2>4
      <3>2. \A t \in Solution : t \in Int
        BY <1>1
      <3>3. Now(s) = Old(s) \cup {row}
        <4>1. row \in Solution /\ BetterThan(row, s) /\ s > row /\ ~ (s < row)
          BY <1>0, <1>1, <1>5, <2>4
        <4>2. \A t \in Solution : t \in Now(s) <=> t \in Old(s) \/ t = row
          BY <1>0, <1>7, <2>4, <4>1
        <4>3. QED
          BY <1>7, <4>1, <4>2
      <3>4. Cardinality(Now(s)) = Cardinality(Old(s)) + 1
        BY <2>2, <3>1, <3>3, FS_AddElement
      <3>5. domCount'[s] = domCount[s] + 1
        BY <1>2, <2>4
      <3>6. QED
        BY <1>3, <2>2, <3>4, <3>5
    <2>5. CASE s # row /\ s \notin worse
      <3>1. \A t \in Solution : t \in Int
        BY <1>1
      <3>2. s > row => ~ BetterThan(row, s)
        BY <1>5, <2>5
      <3>3. Now(s) = Old(s)
        <4>1. \A t \in Solution : t \in Now(s) <=> t \in Old(s)
          BY <1>0, <1>7, <2>5, <3>2
        <4>2. QED
          BY <1>7, <4>1
      <3>4. domCount'[s] = domCount[s]
        BY <1>2, <2>5
      <3>5. QED
        BY <1>3, <3>3, <3>4
    <2>6. QED
      BY <2>3, <2>4, <2>5
  <1>9. ASSUME NEW s \in Solution
        PROVE  \A t : t \in dominatedBy'[s] <=>
                        t \in Solution /\ BetterThan(s, t) /\ (t < row + 1 \/ s < row + 1)
    <2>1. s \in Int /\ row \in Int /\ row \in Solution /\ \A t \in Solution : t \in Int
      BY <1>1
    <2>2. \A t : t \in dominatedBy[s] <=> t \in Solution /\ BetterThan(s, t) /\ (t < row \/ s < row)
      BY <1>3 DEF Met
    <2>3. ~ BetterThan(row, row)
      BY <1>1, NotBetterThanItself
    <2>4. CASE s = row
      <3>1. dominatedBy'[s] = dominatedBy[s] \cup worse
        BY <1>2, <2>4
      <3>2. QED
        BY <1>0, <1>5, <2>2, <2>3, <2>4, <3>1
    <2>5. CASE s # row /\ s \in better
      <3>1. dominatedBy'[s] = dominatedBy[s] \cup {row}
        BY <1>2, <2>5
      <3>2. QED
        <4>1. row \in Solution /\ BetterThan(s, row) /\ ~ (s < row)
          BY <1>0, <1>1, <1>6, <2>5
        <4>2. QED
          BY <1>0, <2>2, <2>5, <3>1, <4>1
    <2>6. CASE s # row /\ s \notin better
      <3>1. dominatedBy'[s] = dominatedBy[s]
        BY <1>2, <2>6
      <3>2. s > row => ~ BetterThan(s, row)
        BY <1>6, <2>6
      <3>3. QED
        BY <1>0, <2>2, <2>6, <3>1, <3>2
    <2>7. QED
      BY <2>4, <2>5, <2>6
  <1>10. Counted'
    <2>1. domCount' \in [Solution -> Int]
      BY <1>2, <1>8
    <2>2. \A s \in Solution : {t \in Dominators(s)' : Met(s, t)'} = Now(s)
      BY <1>1, <1>4 DEF Now
    <2>3. \A s \in Solution : domCount'[s] = Cardinality({t \in Dominators(s)' : Met(s, t)'})
      BY <1>8, <2>2
    <2>4. \A s \in Solution : dominatedBy'[s] = {t \in Solution : BetterThan(s, t)' /\ Met(s, t)'}
      <3>1. \A s \in Solution : dominatedBy'[s] = {t \in Solution : BetterThan(s, t)
                                                   /\ (t < row + 1 \/ s < row + 1)}
        BY <1>9
      <3>2. QED
        BY <1>1, <1>4, <3>1
    <2>5. \A s \in Solution : dominatedBy'[s] \in SUBSET Solution
      BY <1>9
    <2>6. dominatedBy' \in [Solution -> SUBSET Solution]
      BY <1>2, <2>5
    <2>7. QED
      BY <1>1, <1>2, <1>3, <2>1, <2>3, <2>4, <2>6 DEF Counted
  <1>11. Places'
    BY <1>1 DEF RankInv, Places, Peeling, Peeled
  <1>12. Layered'
    BY <1>1, <1>2, <1>3 DEF Layered, Peeled
  <1>13. QED
    BY <1>1, <1>10, <1>11, <1>12 DEF RankInv, Peeling

LEMMA ComparedCounts ==
    ASSUME RankInv, Compared
    PROVE  RankInv'
  <1>1. /\ pc = "compare" /\ row = N + 1 /\ row' = N + 1 /\ N \in Nat \ {0}
        /\ problem.moga \in BOOLEAN
        /\ pc' = IF problem.moga THEN "count" ELSE "collect"
    <2>1. N \in Nat \ {0} /\ problem.moga \in BOOLEAN
      BY RankingAssumption, Data DEF RankInv
    <2>2. pc = "compare" /\ row > N /\ row' = row /\ pc' = IF problem.moga THEN "count" ELSE "collect"
      BY DEF Compared, ranking
    <2>3. row \in 1 .. N + 1
      BY DEF RankInv, Places
    <2>4. QED
      BY <2>1, <2>2, <2>3
  <1>2. UNCHANGED <<problem, ovec, row, domCount, dominatedBy, mark, ranks>>
    BY DEF Compared, ranking
  <1>3. /\ Given' /\ \A a, b : BetterThan(a, b)' <=> BetterThan(a, b)
        /\ \A s : Dominators(s)' = Dominators(s)
    BY <1>2, RelationStays DEF RankInv
  <1>4. Places'
    BY <1>1, <1>2 DEF RankInv, Places, Peeling, Peeled
  <1>5. \A s, t : Met(s, t)' <=> Met(s, t)
    BY <1>2 DEF Met
  <1>6. Counted'
    <2>1. \A s \in Solution : {t \in Dominators(s)' : Met(s, t)'} = {t \in Dominators(s) : Met(s, t)}
      BY <1>3, <1>5
    <2>2. \A s \in Solution : {t \in Solution : BetterThan(s, t)' /\ Met(s, t)'}
                            = {t \in Solution : BetterThan(s, t) /\ Met(s, t)}
      BY <1>3, <1>5
    <2>3. QED
      BY <1>1, <1>2, <2>1, <2>2 DEF RankInv, Counted
  <1>7. ranks' = <<>> /\ mark' = -1
    BY <1>1, <1>2 DEF RankInv, Counted
  <1>8. Layered'
    BY <1>1, <1>7 DEF Layered, Peeled
  <1>9. pc' = "collect" => Marked'
    <2>1. Collected' = {}
      BY <1>7 DEF Collected
    <2>2. \A s \in Solution : \A t \in Solution : Met(s, t)
      BY <1>1 DEF Met, Solution
    <2>3. \A s \in Solution : {t \in Dominators(s) : Met(s, t)} = Dominators(s)
      BY <2>2 DEF Dominators
    <2>4. \A s \in Solution : domCount[s] = Cardinality(Dominators(s))
      BY <1>1, <2>3 DEF RankInv, Counted
    <2>5. \A s \in Solution : domCount'[s] = Cardinality(Dominators(s)' \ Collected')
      BY <1>2, <1>3, <2>1, <2>4
    <2>6. Len(ranks') = 0
      BY <1>7
    <2>7. QED
      BY <1>7, <2>5, <2>6 DEF Marked
  <1>10. QED
    BY <1>1, <1>3, <1>4, <1>6, <1>8, <1>9 DEF RankInv, Peeling

LEMMA UnionOfRanks ==
    ASSUME NEW T, NEW q \in Seq(T), NEW s
    PROVE  s \in UNION {ToSet(q[r]) : r \in DOMAIN q} <=> \E r \in 1 .. Len(q) : s \in ToSet(q[r])
  <1>1. DOMAIN q = 1 .. Len(q)
    OBVIOUS
  <1> HIDE DEF ToSet
  <1>2. QED
    BY <1>1

(* What the ranks look like in the middle of the peeling.                  *)
LEMMA PeelingFacts ==
    ASSUME RankInv, pc \in Peeling
    PROVE  /\ Given /\ N \in Nat /\ row = N + 1 /\ ~ problem.moga
           /\ ranks \in Seq(Seq(Solution)) /\ Len(ranks) \in Nat
           /\ domCount \in [Solution -> Int]
           /\ \A s \in Solution : dominatedBy[s] = {t \in Solution : BetterThan(s, t)}
           /\ \A r \in 1 .. Len(ranks) :
                /\ Members(r) \in SUBSET Solution /\ Members(r) \subseteq Collected
                /\ Distinct(ranks[r])
                /\ \A s \in Members(r) :
                     /\ Dominators(s) \subseteq Earlier(r)
                     /\ r > 1 => \E t \in Members(r - 1) : t \in Dominators(s)
                     /\ \A q \in 1 .. Len(ranks) : q # r => s \notin Members(q)
                     /\ domCount[s] = -r
           /\ \A s : s \in Collected <=> \E r \in 1 .. Len(ranks) : s \in Members(r)
           /\ Collected \in SUBSET Solution
           /\ \A s \in Solution \ Collected : domCount[s] \in Nat
  <1>1. Given /\ N \in Nat /\ row = N + 1 /\ ~ problem.moga /\ pc # "done" /\ pc # "count" /\ pc # "compare"
    BY RankingAssumption DEF RankInv, Places, Peeling
  <1>2. ranks \in Seq(Seq(Solution)) /\ Len(ranks) \in Nat /\ domCount \in [Solution -> Int]
    BY <1>1 DEF RankInv, Layered, Counted
  <1>3. \A s \in Solution : dominatedBy[s] = {t \in Solution : BetterThan(s, t)}
    <2>1. \A s, t \in Solution : Met(s, t)
      BY <1>1 DEF Met, Solution
    <2>2. QED
      BY <2>1 DEF RankInv, Counted
  <1>4. \A s : s \in Collected <=> \E r \in 1 .. Len(ranks) : s \in Members(r)
    BY <1>2, UnionOfRanks DEF Collected, Members
  <1>5. \A r \in 1 .. Len(ranks) : Members(r) \in SUBSET Solution
    <2>1. ASSUME NEW r \in 1 .. Len(ranks)
          PROVE  Members(r) \in SUBSET Solution
      <3>1. ranks[r] \in Seq(Solution)
        BY <1>2
      <3>2. QED
        BY <3>1 DEF Members, ToSet
    <2>2. QED
      BY <2>1
  <1>6. \A r \in 1 .. Len(ranks) :
           /\ Distinct(ranks[r])
           /\ \A s \in Members(r) :
                /\ Dominators(s) \subseteq Earlier(r)
                /\ r > 1 => \E t \in Members(r - 1) : t \in Dominators(s)
                /\ \A q \in 1 .. Len(ranks) : q # r => s \notin Members(q)
    BY <1>1 DEF RankInv, Layered
  <1>7. \A r \in 1 .. Len(ranks) : \A s \in Members(r) : domCount[s] = -r
    BY DEF RankInv, Marked
  <1>8. ASSUME NEW s \in Solution, s \notin Collected
        PROVE  domCount[s] \in Nat
    <2>1. Dominators(s) \in SUBSET Solution
      BY DEF Dominators
    <2>2. \A X : Cardinality(Dominators(s) \ X) \in Nat
      BY <2>1, Finitely
    <2>3. domCount[s] = Cardinality(Dominators(s) \ Collected)
            \/ domCount[s] = Cardinality(Dominators(s) \ Earlier(Len(ranks)))
      BY <1>8 DEF RankInv, Marked, Peeling
    <2>4. QED
      BY <2>2, <2>3
  <1>9. QED
    BY <1>1, <1>2, <1>3, <1>4, <1>5, <1>6, <1>7, <1>8

LEMMA CollectRanks ==
    ASSUME RankInv, Collect
    PROVE  RankInv'
  <1> SUFFICES ASSUME NEW n, n = Len(ranks)
               PROVE  RankInv'
    OBVIOUS
  <1> DEFINE new == {s \in Solution : domCount[s] = 0}
  <1>1. /\ pc = "collect" /\ pc' = "release"
        /\ ranks' = Append(ranks, Having(0))
        /\ domCount' = [s \in Solution |-> IF domCount[s] = 0 THEN mark ELSE domCount[s]]
        /\ UNCHANGED <<problem, ovec, row, dominatedBy, mark>>
    BY DEF Collect
  <1>2. pc \in Peeling
    BY <1>1 DEF Peeling
  <1>3. /\ Given /\ N \in Nat /\ row = N + 1 /\ ~ problem.moga
        /\ ranks \in Seq(Seq(Solution)) /\ n \in Nat /\ n = Len(ranks)
        /\ domCount \in [Solution -> Int]
        /\ Collected \in SUBSET Solution
    BY <1>2, PeelingFacts
  <1>4. \A r \in 1 .. n :
           /\ Members(r) \in SUBSET Solution /\ Members(r) \subseteq Collected
           /\ Distinct(ranks[r])
           /\ \A s \in Members(r) :
                /\ Dominators(s) \subseteq Earlier(r)
                /\ r > 1 => \E t \in Members(r - 1) : t \in Dominators(s)
                /\ \A q \in 1 .. n : q # r => s \notin Members(q)
                /\ domCount[s] = -r
    BY <1>2, PeelingFacts
  <1>5. \A s : s \in Collected <=> \E r \in 1 .. n : s \in Members(r)
    BY <1>2, PeelingFacts
  <1>6. /\ mark = -1 - n
        /\ \A s \in Solution \ Collected :
             /\ domCount[s] = Cardinality(Dominators(s) \ Collected)
             /\ n > 0 => ~ Dominators(s) \subseteq Earlier(n)
    BY <1>1, <1>2 DEF RankInv, Marked
  <1>7. /\ Given' /\ \A a, b : BetterThan(a, b)' <=> BetterThan(a, b)
        /\ \A s : Dominators(s)' = Dominators(s)
    BY <1>1, <1>3, RelationStays
  <1>8. /\ Having(0) \in Seq(Solution) /\ ToSet(Having(0)) = new /\ Distinct(Having(0))
    <2>1. new \in SUBSET Solution
      OBVIOUS
    <2>2. QED
      BY <2>1, InOrderLists DEF Having
  <1>9. /\ ranks' \in Seq(Seq(Solution)) /\ Len(ranks') = n + 1
        /\ \A r \in 1 .. n : ranks'[r] = ranks[r]
        /\ ranks'[n + 1] = Having(0)
    BY <1>1, <1>3, <1>8
  <1>10. /\ \A r \in 1 .. n : Members(r)' = Members(r)
         /\ Members(n + 1)' = new
    BY <1>8, <1>9 DEF Members
  <1>11. \A r \in 1 .. n : Earlier(r)' = Earlier(r)
    <2>1. ASSUME NEW r \in 1 .. n
          PROVE  Earlier(r)' = Earlier(r)
      <3>1. \A q \in 1 .. r - 1 : Members(q)' = Members(q)
        BY <1>3, <1>10
      <3>2. QED
        BY <3>1 DEF Earlier
    <2>2. QED
      BY <2>1
  <1>12. Earlier(n + 1)' = Collected
    <2>1. \A q : q \in 1 .. (n + 1) - 1 <=> q \in 1 .. n
      BY <1>3
    <2>2. QED
      BY <1>5, <1>10, <2>1 DEF Earlier
  <1>13. new \in SUBSET Solution /\ new \cap Collected = {}
    <2>1. \A s \in Collected : domCount[s] # 0
      BY <1>3, <1>4, <1>5
    <2>2. QED
      BY <2>1
  <1>14. ASSUME NEW s \in new
         PROVE  Dominators(s) \subseteq Collected
    <2>1. s \in Solution \ Collected /\ domCount[s] = 0 /\ Dominators(s) \ Collected \in SUBSET Solution
      BY <1>13 DEF Dominators
    <2>2. Cardinality(Dominators(s) \ Collected) = 0
      BY <1>6, <2>1
    <2>3. Dominators(s) \ Collected = {}
      BY <2>1, <2>2, Finitely
    <2>4. QED
      BY <2>3
  <1>15. ASSUME NEW s \in new, n > 0
         PROVE  \E t \in Members(n) : t \in Dominators(s)
    <2>1. s \in Solution \ Collected
      BY <1>13
    <2>2. PICK t \in Dominators(s) : t \notin Earlier(n)
      BY <1>6, <1>15, <2>1
    <2>3. PICK r \in 1 .. n : t \in Members(r)
      BY <1>5, <1>14, <2>2
    <2>4. r = n
      <3>1. r \in 1 .. n - 1 => t \in Earlier(n)
        BY <2>3 DEF Earlier
      <3>2. QED
        BY <1>3, <2>2, <2>3, <3>1
    <2>5. QED
      BY <2>2, <2>3, <2>4
  <1>16. Collected' = Collected \cup new
    <2>1. \A s : s \in Collected' <=> \E r \in 1 .. n + 1 : s \in Members(r)'
      BY <1>9, UnionOfRanks DEF Collected, Members
    <2>2. \A r : r \in 1 .. n + 1 <=> r \in 1 .. n \/ r = n + 1
      BY <1>3
    <2>3. QED
      BY <1>5, <1>10, <2>1, <2>2
  <1> HIDE DEF new
  <1>17. Places'
    BY <1>1, <1>2 DEF RankInv, Places, Peeling, Peeled
  <1>18. Counted'
    <2>1. \A s, t : Met(s, t)' <=> Met(s, t)
      BY <1>1 DEF Met
    <2>2. mark \in Int
      BY <1>3, <1>6
    <2>3. domCount' \in [Solution -> Int]
      BY <1>1, <1>3, <2>2
    <2>4. \A s \in Solution : {t \in Solution : BetterThan(s, t)' /\ Met(s, t)'}
                            = {t \in Solution : BetterThan(s, t) /\ Met(s, t)}
      BY <1>7, <2>1
    <2>5. QED
      BY <1>1, <2>3, <2>4 DEF RankInv, Counted
  <1>19. Layered'
    <2>1. ASSUME NEW r \in 1 .. n + 1
          PROVE  /\ Distinct(ranks'[r])
                 /\ \A s \in Members(r)' :
                      /\ Dominators(s) \subseteq Earlier(r)'
                      /\ r > 1 => \E t \in Members(r - 1)' : t \in Dominators(s)
                      /\ \A q \in 1 .. n + 1 : q # r => s \notin Members(q)'
      <3>1. \A q \in 1 .. n + 1 : q \in 1 .. n \/ q = n + 1
        BY <1>3
      <3>2. CASE r \in 1 .. n
        <4>1. r > 1 => r - 1 \in 1 .. n
          BY <1>3, <3>2
        <4>2. Members(r) \subseteq Collected /\ Members(n + 1)' \cap Collected = {}
          BY <1>4, <1>10, <1>13, <3>2
        <4>3. Distinct(ranks'[r]) /\ Members(r)' = Members(r) /\ Earlier(r)' = Earlier(r)
          BY <1>4, <1>9, <1>10, <1>11, <3>2
        <4>4. \A s \in Members(r) : /\ Dominators(s) \subseteq Earlier(r)
                                    /\ r > 1 => \E t \in Members(r - 1) : t \in Dominators(s)
                                    /\ \A q \in 1 .. n : q # r => s \notin Members(q)
          BY <1>4, <3>2
        <4>5. r > 1 => Members(r - 1)' = Members(r - 1)
          BY <1>10, <4>1
        <4>6. ASSUME NEW q \in 1 .. n + 1, q # r, NEW s \in Members(r)
              PROVE  s \notin Members(q)'
          <5>1. CASE q \in 1 .. n
            <6>1. Members(q)' = Members(q) /\ s \notin Members(q)
              BY <1>10, <4>4, <4>6, <5>1
            <6>2. QED
              BY <6>1
          <5>2. CASE q = n + 1
            BY <4>2, <4>6, <5>2
          <5>3. QED
            BY <3>1, <5>1, <5>2
        <4>7. ASSUME NEW s \in Members(r)'
              PROVE  /\ Dominators(s) \subseteq Earlier(r)'
                     /\ r > 1 => \E t \in Members(r - 1)' : t \in Dominators(s)
                     /\ \A q \in 1 .. n + 1 : q # r => s \notin Members(q)'
          <5>1. s \in Members(r)
            BY <4>3, <4>7
          <5>2. Dominators(s) \subseteq Earlier(r)' /\ \A q \in 1 .. n + 1 : q # r => s \notin Members(q)'
            BY <4>3, <4>4, <4>6, <5>1
          <5>3. r > 1 => \E t \in Members(r - 1)' : t \in Dominators(s)
            BY <4>4, <4>5, <5>1
          <5>4. QED
            BY <5>2, <5>3
        <4>8. QED
          BY <4>3, <4>7
      <3>3. CASE r = n + 1
        <4>1. r > 1 => n > 0 /\ n \in 1 .. n /\ r - 1 = n
          BY <1>3, <3>3
        <4>2. \A q \in 1 .. n : Members(q)' \subseteq Collected
          BY <1>4, <1>10
        <4>3. \A q \in 1 .. n + 1 : q # r => \A s \in new : s \notin Members(q)'
          BY <1>13, <3>1, <3>3, <4>2
        <4>4. r > 1 => \A s \in new : \E t \in Members(r - 1)' : t \in Dominators(s)
          BY <1>10, <1>15, <4>1
        <4>5. QED
          BY <1>8, <1>9, <1>10, <1>12, <1>14, <3>3, <4>3, <4>4
      <3>4. QED
        BY <3>1, <3>2, <3>3
    <2>2. QED
      BY <1>1, <1>7, <1>9, <2>1 DEF Layered, Peeled
  <1>20. Marked'
    <2>1. ASSUME NEW r \in 1 .. n + 1, NEW s \in Members(r)'
          PROVE  domCount'[s] = -r
      <3>1. r \in 1 .. n \/ r = n + 1
        BY <1>3
      <3>2. CASE r \in 1 .. n
        <4>1. s \in Solution /\ domCount[s] = -r /\ domCount[s] # 0
          BY <1>3, <1>4, <1>10, <3>2
        <4>2. QED
          BY <1>1, <4>1
      <3>3. CASE r = n + 1
        <4>1. s \in Solution /\ domCount[s] = 0
          BY <1>10, <3>3 DEF new
        <4>2. domCount'[s] = mark
          BY <1>1, <4>1
        <4>3. mark = -r
          BY <1>3, <1>6, <3>3
        <4>4. QED
          BY <4>2, <4>3
      <3>4. QED
        BY <3>1, <3>2, <3>3
    <2>2. ASSUME NEW s \in Solution, s \notin Collected'
          PROVE  /\ domCount'[s] = Cardinality(Dominators(s) \ Earlier(n + 1)')
                 /\ domCount'[s] # 0
      <3>1. s \notin Collected /\ domCount[s] # 0
        BY <1>16, <2>2 DEF new
      <3>2. domCount'[s] = domCount[s]
        BY <1>1, <3>1
      <3>3. QED
        BY <1>6, <1>12, <3>1, <3>2
    <2>3. mark' = -(n + 1) /\ n + 1 > 0
      BY <1>1, <1>3, <1>6
    <2>4. QED
      BY <1>1, <1>7, <1>9, <2>1, <2>2, <2>3 DEF Marked
  <1>21. QED
    BY <1>1, <1>7, <1>17, <1>18, <1>19, <1>20 DEF RankInv

LEMMA ReleaseRanks ==
    ASSUME RankInv, Release
    PROVE  RankInv'
  <1> SUFFICES ASSUME NEW n, n = Len(ranks)
               PROVE  RankInv'
    OBVIOUS
  <1> DEFINE Freed(s) == {t \in Solution : domCount[t] = mark /\ s \in dominatedBy[t]}
  <1>1. /\ pc = "release" /\ pc' = "collect"
        /\ domCount' = [s \in Solution |-> domCount[s] - Cardinality(Freed(s))]
        /\ mark' = mark - 1
        /\ UNCHANGED <<problem, ovec, row, dominatedBy, ranks>>
    BY DEF Release
  <1>2. pc \in Peeling
    BY <1>1 DEF Peeling
  <1>3. /\ Given /\ N \in Nat /\ row = N + 1 /\ ~ problem.moga
        /\ ranks \in Seq(Seq(Solution)) /\ n \in Nat /\ n = Len(ranks)
        /\ domCount \in [Solution -> Int]
        /\ Collected \in SUBSET Solution
        /\ \A s \in Solution \ Collected : domCount[s] \in Nat
        /\ \A s \in Solution : dominatedBy[s] = {t \in Solution : BetterThan(s, t)}
    BY <1>2, PeelingFacts
  <1>4. \A r \in 1 .. n :
           /\ Members(r) \in SUBSET Solution /\ Members(r) \subseteq Collected
           /\ \A s \in Members(r) :
                /\ Dominators(s) \subseteq Earlier(r)
                /\ \A q \in 1 .. n : q # r => s \notin Members(q)
                /\ domCount[s] = -r
    BY <1>2, PeelingFacts
  <1>5. \A s : s \in Collected <=> \E r \in 1 .. n : s \in Members(r)
    BY <1>2, PeelingFacts
  <1>6. /\ n > 0 /\ mark = -n
        /\ \A s \in Solution \ Collected :
             /\ domCount[s] = Cardinality(Dominators(s) \ Earlier(n))
             /\ domCount[s] # 0
    BY <1>1, <1>2 DEF RankInv, Marked
  <1>7. /\ Given' /\ \A a, b : BetterThan(a, b)' <=> BetterThan(a, b)
        /\ \A s : Dominators(s)' = Dominators(s)
    BY <1>1, <1>3, RelationStays
  <1>8. /\ \A r : Members(r)' = Members(r)
        /\ \A r : Earlier(r)' = Earlier(r)
        /\ Collected' = Collected
    BY <1>1, RanksStay
  <1>9. ASSUME NEW t \in Solution
        PROVE  domCount[t] = mark <=> t \in Members(n)
    <2>1. n \in 1 .. n
      BY <1>3, <1>6
    <2>2. CASE t \in Collected
      <3>1. PICK r \in 1 .. n : t \in Members(r)
        BY <1>5, <2>2
      <3>2. domCount[t] = -r
        BY <1>4, <3>1
      <3>3. domCount[t] = mark <=> r = n
        BY <1>3, <1>6, <3>2
      <3>4. r # n => t \notin Members(n)
        BY <1>4, <2>1, <3>1
      <3>5. QED
        BY <3>1, <3>3, <3>4
    <2>3. CASE t \notin Collected
      <3>1. domCount[t] \in Nat /\ t \notin Members(n)
        BY <1>3, <1>4, <2>1, <2>3
      <3>2. domCount[t] # mark
        BY <1>3, <1>6, <3>1
      <3>3. QED
        BY <3>1, <3>2
    <2>4. QED
      BY <2>2, <2>3
  <1>10. ASSUME NEW s \in Solution
         PROVE  /\ Freed(s) = Dominators(s) \cap Members(n)
                /\ Freed(s) \in SUBSET Solution
                /\ domCount'[s] = domCount[s] - Cardinality(Freed(s))
    <2>1. \A t \in Solution : s \in dominatedBy[t] <=> t \in Dominators(s)
      BY <1>3 DEF Dominators
    <2>2. \A t \in Solution : t \in Freed(s) <=> t \in Dominators(s) /\ t \in Members(n)
      BY <1>9, <2>1
    <2>3. Freed(s) \subseteq Solution /\ Dominators(s) \subseteq Solution
      BY DEF Dominators
    <2>4. QED
      BY <1>1, <2>2, <2>3
  <1> HIDE DEF Freed
  <1>11. ASSUME NEW r \in 1 .. n, NEW s \in Members(r)
         PROVE  domCount'[s] = -r
    <2>1. s \in Solution /\ domCount[s] = -r /\ Dominators(s) \subseteq Earlier(r)
      BY <1>4
    <2>2. ASSUME NEW t \in Earlier(r)
          PROVE  t \notin Members(n)
      <3>1. PICK q \in 1 .. r - 1 : t \in Members(q)
        BY <2>2 DEF Earlier
      <3>2. q \in 1 .. n /\ n \in 1 .. n /\ q # n
        BY <1>3, <1>6, <3>1
      <3>3. QED
        BY <1>4, <3>1, <3>2
    <2>3. Freed(s) = {}
      BY <1>10, <2>1, <2>2
    <2>4. Cardinality(Freed(s)) = 0
      BY <2>3, FS_EmptySet
    <2>5. domCount'[s] = domCount[s] - 0
      BY <1>10, <2>1, <2>4
    <2>6. QED
      BY <1>3, <2>1, <2>5
  <1>12. ASSUME NEW s \in Solution, s \notin Collected
         PROVE  /\ domCount'[s] = Cardinality(Dominators(s) \ Collected)
                /\ ~ Dominators(s) \subseteq Earlier(n)
    <2> DEFINE rest == Dominators(s) \ Collected
               before == Dominators(s) \ Earlier(n)
    <2>1. \A t : t \in Collected <=> t \in Earlier(n) \/ t \in Members(n)
      <3>1. \A r : r \in 1 .. n <=> r \in 1 .. n - 1 \/ r = n
        BY <1>3, <1>6
      <3>2. QED
        BY <1>5, <3>1 DEF Earlier
    <2>2. \A t \in Members(n) : t \notin Earlier(n)
      <3>1. ASSUME NEW q \in 1 .. n - 1
            PROVE  q \in 1 .. n /\ q # n /\ n \in 1 .. n
        BY <1>3, <1>6
      <3>2. QED
        BY <1>4, <3>1 DEF Earlier
    <2>3. before = rest \cup Freed(s) /\ rest \cap Freed(s) = {}
      BY <1>10, <2>1, <2>2
    <2>4. rest \in SUBSET Solution /\ before \in SUBSET Solution
      BY DEF Dominators
    <2>5. /\ IsFiniteSet(rest) /\ IsFiniteSet(Freed(s))
          /\ Cardinality(rest) \in Nat /\ Cardinality(Freed(s)) \in Nat
      BY <1>10, <2>4, Finitely
    <2>6. Cardinality(before) = Cardinality(rest) + Cardinality(Freed(s))
      <3> HIDE DEF before, rest
      <3>1. Cardinality(rest \cup Freed(s)) = Cardinality(rest) + Cardinality(Freed(s))
                                               - Cardinality(rest \cap Freed(s))
        BY ONLY <2>5, FS_Union
      <3>2. Cardinality(rest \cap Freed(s)) = 0
        BY ONLY <2>3, FS_EmptySet
      <3>3. QED
        BY ONLY <2>3, <2>5, <3>1, <3>2
    <2>7. domCount[s] = Cardinality(before) /\ Cardinality(before) # 0
      BY <1>6, <1>12
    <2>8. domCount'[s] = Cardinality(rest)
      BY <1>10, <2>5, <2>6, <2>7
    <2>9. before # {}
      BY <2>4, <2>7, Finitely
    <2>10. QED
      BY <2>8, <2>9
  <1>13. Places'
    BY <1>1, <1>2 DEF RankInv, Places, Peeling, Peeled
  <1>14. Counted'
    <2>1. \A s, t : Met(s, t)' <=> Met(s, t)
      BY <1>1 DEF Met
    <2>2. \A s \in Solution : domCount'[s] \in Int
      <3>1. \A s \in Solution : domCount[s] \in Int /\ Cardinality(Freed(s)) \in Nat
        BY <1>3, <1>10, Finitely
      <3>2. QED
        BY <1>10, <3>1
    <2>3. domCount' \in [Solution -> Int]
      BY <1>1, <2>2
    <2>4. \A s \in Solution : {t \in Solution : BetterThan(s, t)' /\ Met(s, t)'}
                            = {t \in Solution : BetterThan(s, t) /\ Met(s, t)}
      BY <1>7, <2>1
    <2>5. QED
      BY <1>1, <2>3, <2>4 DEF RankInv, Counted
  <1>15. Layered'
    <2>1. ~ (pc' \in Peeled \cup {"done"})
      BY <1>1 DEF Peeled
    <2>2. pc # "done" /\ pc # "count"
      BY <1>1
    <2>3. \A r : Members(r - 1)' = Members(r - 1)
      BY <1>8
    <2>4. QED
      BY <1>1, <1>7, <1>8, <2>1, <2>2, <2>3 DEF RankInv, Layered
  <1>16. Marked'
    <2>1. mark' = -1 - n
      BY <1>1, <1>3, <1>6
    <2>2. Len(ranks') = n
      BY <1>1
    <2>3. Earlier(Len(ranks))' = Earlier(n)
      BY <1>1 DEF Earlier, Members
    <2>4. QED
      BY <1>1, <1>7, <1>8, <1>11, <1>12, <2>1, <2>2, <2>3 DEF Marked
  <1>17. QED
    BY <1>1, <1>7, <1>13, <1>14, <1>15, <1>16 DEF RankInv

LEMMA CountedRanks ==
    ASSUME RankInv, CountRanks
    PROVE  RankInv'
  <1>1. /\ pc = "count" /\ pc' = "done"
        /\ UNCHANGED <<problem, ovec, row, domCount, dominatedBy>>
    BY DEF CountRanks
  <1>2. problem.moga /\ row \in 1 .. N + 1 /\ row = N + 1
    BY <1>1 DEF RankInv, Places
  <1>3. /\ Given' /\ \A a, b : BetterThan(a, b)' <=> BetterThan(a, b)
    BY <1>1, RelationStays DEF RankInv
  <1>4. Places'
    BY <1>1, <1>2 DEF Places, Peeling, Peeled
  <1>5. Counted'
    <2>1. \A s, t : Met(s, t)' <=> Met(s, t)
      BY <1>1 DEF Met
    <2>2. \A s \in Solution : {t \in Solution : BetterThan(s, t)' /\ Met(s, t)'}
                            = {t \in Solution : BetterThan(s, t) /\ Met(s, t)}
      BY <1>3, <2>1
    <2>3. QED
      BY <1>1, <2>2 DEF RankInv, Counted
  <1>6. Layered'
    BY <1>1, <1>2 DEF Layered
  <1>7. QED
    BY <1>1, <1>3, <1>4, <1>5, <1>6 DEF RankInv, Peeling

(* The operators after the ranking leave the ranks alone.                  *)
LEMMA RankedStays ==
    ASSUME RankInv, UNCHANGED <<problem, ovec, ranking>>,
           pc \in Peeled \/ (pc = "collect" /\ Collected = Solution),
           pc' \in Peeled \cup {"done"}
    PROVE  RankInv'
  <1>1. UNCHANGED <<problem, ovec, row, domCount, dominatedBy, mark, ranks>>
    BY DEF ranking
  <1>2. /\ Given' /\ \A a, b : BetterThan(a, b)' <=> BetterThan(a, b)
        /\ \A s : Dominators(s)' = Dominators(s)
    BY <1>1, RelationStays DEF RankInv
  <1>3. /\ \A r : Members(r)' = Members(r)
        /\ \A r : Earlier(r)' = Earlier(r)
        /\ Collected' = Collected
    BY <1>1, RanksStay
  <1>4. pc # "done" /\ pc # "count" /\ pc # "compare" /\ pc \in Peeling \cup Peeled
    BY DEF Peeled, Peeling
  <1>5. pc' # "compare" /\ pc' # "count" /\ pc' \notin Peeling
    BY DEF Peeled, Peeling
  <1>6. ~ problem.moga /\ row = N + 1 /\ row \in 1 .. N + 1
    BY <1>4 DEF RankInv, Places
  <1>7. Places'
    BY <1>1, <1>5, <1>6 DEF Places
  <1>8. Counted'
    <2>1. \A s, t : Met(s, t)' <=> Met(s, t)
      BY <1>1 DEF Met
    <2>2. \A s \in Solution : {t \in Solution : BetterThan(s, t)' /\ Met(s, t)'}
                            = {t \in Solution : BetterThan(s, t) /\ Met(s, t)}
      BY <1>2, <2>1
    <2>3. QED
      BY <1>1, <1>5, <2>2 DEF RankInv, Counted
  <1>9. Collected = Solution
    BY <1>4 DEF RankInv, Layered
  <1>10. Layered'
    <2>1. \A r : Members(r - 1)' = Members(r - 1)
      BY <1>3
    <2>2. Solution' = Solution
      BY DEF Solution
    <2>3. QED
      BY <1>1, <1>2, <1>3, <1>4, <1>9, <2>1, <2>2 DEF RankInv, Layered
  <1>11. QED
    BY <1>2, <1>5, <1>7, <1>8, <1>10 DEF RankInv

LEMMA RankNext == RankInv /\ [Next]_vars => RankInv'
  <1> SUFFICES ASSUME RankInv, [Next]_vars
               PROVE  RankInv'
    OBVIOUS
  <1>1. CASE Compare
    BY <1>1, CompareCounts
  <1>2. CASE Compared
    BY <1>2, ComparedCounts
  <1>3. CASE CountRanks
    BY <1>3, CountedRanks
  <1>4. CASE Collect
    BY <1>4, CollectRanks
  <1>5. CASE Release
    BY <1>5, ReleaseRanks
  <1>6. CASE Score
    BY <1>6, RankedStays DEF Score, Peeled
  <1>7. CASE Crowd \/ CrowdingCost \/ Crowded
    <2>1. UNCHANGED <<problem, ovec, ranking>> /\ pc = "crowd" /\ pc' \in {"crowd", "elite"}
      BY <1>7 DEF Crowd, CrowdingCost, Crowded
    <2>2. QED
      BY <2>1, RankedStays DEF Peeled
  <1>8. CASE Elite \/ Shuffle \/ Pick
    <2>1. /\ UNCHANGED <<problem, ovec, ranking>> /\ pc \in {"elite", "shuffle", "pick"}
          /\ pc' \in {"shuffle", "pick", "done"}
      BY <1>8 DEF Elite, Shuffle, Pick
    <2>2. QED
      BY <2>1, RankedStays DEF Peeled
  <1>9. CASE UNCHANGED vars
    <2>1. UNCHANGED <<problem, ovec, ranking, pc, row, domCount, dominatedBy, mark, ranks>>
      BY <1>9 DEF vars, ranking
    <2>2. CASE pc \in Peeled
      BY <2>1, <2>2, RankedStays DEF Peeled
    <2>3. CASE pc \notin Peeled
      <3>1. /\ Given' /\ \A a, b : BetterThan(a, b)' <=> BetterThan(a, b)
            /\ \A s : Dominators(s)' = Dominators(s)
        BY <2>1, RelationStays DEF RankInv
      <3>2. /\ \A r : Members(r)' = Members(r)
            /\ \A r : Earlier(r)' = Earlier(r)
            /\ Collected' = Collected
        BY <2>1, RanksStay
      <3>3. \A s, t : Met(s, t)' <=> Met(s, t)
        BY <2>1 DEF Met
      <3>4. Places'
        BY <2>1 DEF RankInv, Places
      <3>5. Counted'
        <4>1. \A s \in Solution : /\ {t \in Solution : BetterThan(s, t)' /\ Met(s, t)'}
                                     = {t \in Solution : BetterThan(s, t) /\ Met(s, t)}
                                  /\ {t \in Dominators(s)' : Met(s, t)'} = {t \in Dominators(s) : Met(s, t)}
          BY <3>1, <3>3
        <4>2. QED
          BY <2>1, <4>1 DEF RankInv, Counted
      <3>6. Layered'
        <4>1. \A r : Members(r - 1)' = Members(r - 1)
          BY <3>2
        <4>2. QED
          BY <2>1, <3>1, <3>2, <4>1 DEF RankInv, Layered
      <3>7. pc \in Peeling => Marked'
        <4>1. Earlier(Len(ranks))' = Earlier(Len(ranks))
          BY <2>1 DEF Earlier, Members
        <4>2. QED
          BY <2>1, <3>1, <3>2, <4>1 DEF RankInv, Marked
      <3>8. QED
        BY <2>1, <3>1, <3>4, <3>5, <3>6, <3>7 DEF RankInv
    <2>4. QED
      BY <2>2, <2>3
  <1>10. QED
    BY <1>1, <1>2, <1>3, <1>4, <1>5, <1>6, <1>7, <1>8, <1>9 DEF Next

LEMMA RanksStand == Spec => []RankInv
  BY RankInit, RankNext, PTL DEF Spec

(* Peeling with counters and marks gives the layers of the relation, for   *)
(* any set and any relation that the problem calls for.                    *)
THEOREM RanksAreAlwaysLayers == Spec => []RanksAreLayers
  <1>1. RankInv => RanksAreLayers
    <2> SUFFICES ASSUME RankInv, pc = "crowd",
                        NEW r \in DOMAIN ranks, NEW s \in ToSet(ranks[r])
                 PROVE  /\ \A t \in Solution : BetterThan(t, s) =>
                             \E q \in 1 .. r - 1 : t \in ToSet(ranks[q])
                        /\ r > 1 => \E t \in ToSet(ranks[r - 1]) : BetterThan(t, s)
                        /\ \A q \in DOMAIN ranks : q # r => s \notin ToSet(ranks[q])
      BY DEF RanksAreLayers
    <2>1. ranks \in Seq(Seq(Solution)) /\ DOMAIN ranks = 1 .. Len(ranks)
      BY DEF RankInv, Layered
    <2>2. /\ Dominators(s) \subseteq Earlier(r)
          /\ r > 1 => \E t \in Members(r - 1) : t \in Dominators(s)
          /\ \A q \in 1 .. Len(ranks) : q # r => s \notin Members(q)
      BY <2>1 DEF RankInv, Layered, Members
    <2>3. QED
      BY <2>1, <2>2 DEF Members, Earlier, Dominators
  <1>2. QED
    BY <1>1, RanksStand, PTL
-----------------------------------------------------------------------------
(* Sequences without repetition have as many members as entries; sorting,  *)
(* cutting and joining keep them so.                                       *)
LEMMA DistinctCounts ==
    ASSUME NEW q \in Seq(Solution), Distinct(q)
    PROVE  Cardinality(ToSet(q)) = Len(q) /\ Len(q) \in Nat /\ ToSet(q) \in SUBSET Solution
  <1>1. Len(q) \in Nat /\ DOMAIN q = 1 .. Len(q) /\ ToSet(q) \in SUBSET Solution
    BY DEF ToSet
  <1>2. q \in [1 .. Len(q) -> ToSet(q)] /\ \A x \in ToSet(q) : \E i \in 1 .. Len(q) : q[i] = x
    BY <1>1 DEF ToSet
  <1>3. q \in Surjection(1 .. Len(q), ToSet(q))
    BY ONLY <1>2, Fun_IsSurj
  <1>4. \A i, j \in 1 .. Len(q) : q[i] = q[j] => i = j
    BY <1>1 DEF Distinct
  <1>5. q \in Injection(1 .. Len(q), ToSet(q))
    BY ONLY <1>2, <1>4, Fun_IsInj
  <1>6. IsFiniteSet(1 .. Len(q)) /\ Cardinality(1 .. Len(q)) = Len(q)
    BY <1>1, FS_Interval
  <1>7. Cardinality(ToSet(q)) = Cardinality(1 .. Len(q))
    BY ONLY <1>3, <1>5, <1>6, FS_Surjection
  <1>8. QED
    BY <1>1, <1>6, <1>7

LEMMA SortedIsDistinct ==
    ASSUME NEW q \in Seq(Solution), Distinct(q), NEW key, NEW s \in SortedBy(q, key)
    PROVE  /\ s \in Seq(Solution) /\ Len(s) = Len(q) /\ ToSet(s) = ToSet(q) /\ Distinct(s)
           /\ \A i \in 1 .. Len(s) - 1 : key[s[i]] <= key[s[i + 1]]
  <1>1. /\ s \in [1 .. Len(q) -> ToSet(q)] /\ ToSet(s) = ToSet(q)
        /\ \A i \in 1 .. Len(q) - 1 : key[s[i]] <= key[s[i + 1]]
    BY DEF SortedBy
  <1>2. Len(q) \in Nat /\ ToSet(q) \in SUBSET Solution /\ Cardinality(ToSet(q)) = Len(q)
    BY DistinctCounts
  <1>3. s \in Seq(Solution) /\ Len(s) = Len(q) /\ DOMAIN s = 1 .. Len(q)
    <2>1. s \in [1 .. Len(q) -> Solution]
      BY <1>1, <1>2
    <2>2. QED
      BY <1>2, <2>1
  <1>4. \A x \in ToSet(q) : \E i \in 1 .. Len(q) : s[i] = x
    <2>1. \A x \in ToSet(s) : \E i \in 1 .. Len(q) : s[i] = x
      BY <1>3 DEF ToSet
    <2>2. QED
      BY <1>1, <2>1
  <1>5. s \in Surjection(1 .. Len(q), ToSet(q))
    BY ONLY <1>1, <1>4, Fun_IsSurj
  <1>6. IsFiniteSet(1 .. Len(q)) /\ Cardinality(1 .. Len(q)) = Len(q)
    <2>1. Len(q) \in Nat
      BY <1>2
    <2>2. QED
      BY ONLY <2>1, FS_Interval
  <1>7. s \in Injection(1 .. Len(q), ToSet(q))
    BY ONLY <1>2, <1>5, <1>6, FS_Surjection
  <1>8. \A i, j \in 1 .. Len(q) : s[i] = s[j] => i = j
    BY ONLY <1>7, Fun_InjectionProperties
  <1>9. QED
    BY <1>1, <1>3, <1>8 DEF Distinct

LEMMA StartIsDistinct ==
    ASSUME NEW q \in Seq(Solution), Distinct(q), NEW n \in Nat, n <= Len(q)
    PROVE  /\ SubSeq(q, 1, n) \in Seq(Solution) /\ Len(SubSeq(q, 1, n)) = n
           /\ Distinct(SubSeq(q, 1, n)) /\ ToSet(SubSeq(q, 1, n)) \subseteq ToSet(q)
  <1>1. /\ SubSeq(q, 1, n) \in Seq(Solution) /\ Len(SubSeq(q, 1, n)) = n
        /\ \A i \in 1 .. n : SubSeq(q, 1, n)[i] = q[i]
    OBVIOUS
  <1>2. DOMAIN SubSeq(q, 1, n) = 1 .. n /\ 1 .. n \subseteq DOMAIN q
    BY <1>1
  <1>3. QED
    BY <1>1, <1>2 DEF Distinct, ToSet

LEMMA JoinIsDistinct ==
    ASSUME NEW p \in Seq(Solution), NEW q \in Seq(Solution), Distinct(p), Distinct(q),
           ToSet(p) \cap ToSet(q) = {}
    PROVE  /\ p \o q \in Seq(Solution) /\ Len(p \o q) = Len(p) + Len(q)
           /\ ToSet(p \o q) = ToSet(p) \cup ToSet(q) /\ Distinct(p \o q)
  <1> DEFINE m == Len(p)
             n == Len(q)
  <1>1. /\ p \o q \in Seq(Solution) /\ Len(p \o q) = m + n /\ m \in Nat /\ n \in Nat
        /\ DOMAIN p = 1 .. m /\ DOMAIN q = 1 .. n /\ DOMAIN (p \o q) = 1 .. m + n
        /\ \A i \in 1 .. m : (p \o q)[i] = p[i]
    OBVIOUS
  <1>2. \A i \in 1 .. m + n : i > m => i - m \in 1 .. n /\ (p \o q)[i] = q[i - m]
    OBVIOUS
  <1>3. \A i \in 1 .. m + n : i > m \/ i \in 1 .. m
    BY <1>1
  <1>4. \A i \in 1 .. n : i + m \in 1 .. m + n /\ i + m > m /\ (p \o q)[i + m] = q[i]
    OBVIOUS
  <1> HIDE DEF m, n
  <1>5. \A i \in 1 .. m : p[i] \in ToSet(p) /\ p[i] \notin ToSet(q)
    BY <1>1 DEF ToSet
  <1>6. \A i \in 1 .. n : q[i] \in ToSet(q)
    BY <1>1 DEF ToSet
  <1>7. Distinct(p \o q)
    <2>1. ASSUME NEW i \in 1 .. m + n, NEW j \in 1 .. m + n, (p \o q)[i] = (p \o q)[j]
          PROVE  i = j
      <3>1. CASE i > m /\ j > m
        <4>1. i - m \in 1 .. n /\ j - m \in 1 .. n /\ q[i - m] = q[j - m]
          BY <1>2, <2>1, <3>1
        <4>2. \A k, l \in 1 .. n : q[k] = q[l] => k = l
          BY <1>1 DEF Distinct
        <4>3. i - m = j - m
          BY <4>1, <4>2
        <4>4. QED
          BY <1>1, <4>3
      <3>2. CASE i \in 1 .. m /\ j \in 1 .. m
        BY <1>1, <2>1, <3>2 DEF Distinct
      <3>3. CASE i > m /\ j \in 1 .. m
        BY <1>1, <1>2, <1>5, <1>6, <2>1, <3>3
      <3>4. CASE i \in 1 .. m /\ j > m
        BY <1>1, <1>2, <1>5, <1>6, <2>1, <3>4
      <3>5. QED
        BY <1>3, <3>1, <3>2, <3>3, <3>4
    <2>2. QED
      BY <1>1, <2>1 DEF Distinct
  <1>8. ToSet(p \o q) = ToSet(p) \cup ToSet(q)
    <2>1. \A x : x \in ToSet(p \o q) <=> \E i \in 1 .. m + n : (p \o q)[i] = x
      BY <1>1 DEF ToSet
    <2>2. \A x : x \in ToSet(p) <=> \E i \in 1 .. m : p[i] = x
      BY <1>1 DEF ToSet
    <2>3. \A x : x \in ToSet(q) <=> \E i \in 1 .. n : q[i] = x
      BY <1>1 DEF ToSet
    <2>4. \A i \in 1 .. m : i \in 1 .. m + n
      BY <1>1
    <2>5. ASSUME NEW x \in ToSet(p \o q)
          PROVE  x \in ToSet(p) \/ x \in ToSet(q)
      <3>1. PICK i \in 1 .. m + n : (p \o q)[i] = x
        BY <2>1, <2>5
      <3>2. CASE i > m
        <4>1. i - m \in 1 .. n /\ q[i - m] = x
          BY <1>2, <3>1, <3>2
        <4>2. QED
          BY <2>3, <4>1
      <3>3. CASE i \in 1 .. m
        BY <1>1, <2>2, <3>1, <3>3
      <3>4. QED
        BY <1>3, <3>2, <3>3
    <2>6. ASSUME NEW x \in ToSet(p)
          PROVE  x \in ToSet(p \o q)
      BY <1>1, <2>1, <2>2, <2>4
    <2>7. ASSUME NEW x \in ToSet(q)
          PROVE  x \in ToSet(p \o q)
      BY <1>4, <2>1, <2>3
    <2>8. QED
      BY <2>5, <2>6, <2>7
  <1>9. QED
    BY <1>1, <1>7, <1>8 DEF m, n
-----------------------------------------------------------------------------
(* The elites. What is known of the ranks when the selection begins.       *)
LEMMA RankedFacts ==
    ASSUME RankInv, pc \in Peeled
    PROVE  /\ Given /\ ~ problem.moga /\ N \in Nat \ {0}
           /\ ranks \in Seq(Seq(Solution)) /\ Len(ranks) \in Nat
           /\ \A r \in 1 .. Len(ranks) :
                /\ ranks[r] \in Seq(Solution) /\ Distinct(ranks[r]) /\ Members(r) \in SUBSET Solution
                /\ \A s \in Members(r) : /\ Dominators(s) \subseteq Earlier(r)
                                         /\ \A q \in 1 .. Len(ranks) : q # r => s \notin Members(q)
           /\ \A s \in Solution : \E r \in 1 .. Len(ranks) : s \in Members(r)
  <1>1. Given /\ ~ problem.moga /\ N \in Nat \ {0} /\ pc # "done" /\ pc # "count"
    BY RankingAssumption DEF RankInv, Places, Peeled
  <1>2. ranks \in Seq(Seq(Solution)) /\ Len(ranks) \in Nat /\ Collected = Solution
    BY <1>1 DEF RankInv, Layered
  <1>3. \A r \in 1 .. Len(ranks) : ranks[r] \in Seq(Solution)
    BY <1>2
  <1>4. \A r \in 1 .. Len(ranks) : Members(r) \in SUBSET Solution
    BY <1>3 DEF Members, ToSet
  <1>5. \A s : s \in Collected <=> \E r \in 1 .. Len(ranks) : s \in Members(r)
    BY <1>2, UnionOfRanks DEF Collected, Members
  <1>6. \A r \in 1 .. Len(ranks) :
          /\ Distinct(ranks[r])
          /\ \A s \in Members(r) : /\ Dominators(s) \subseteq Earlier(r)
                                   /\ \A q \in 1 .. Len(ranks) : q # r => s \notin Members(q)
    BY <1>1 DEF RankInv, Layered
  <1>7. QED
    BY <1>1, <1>2, <1>3, <1>4, <1>5, <1>6

LEMMA EarlierGrows ==
    ASSUME NEW r \in Nat
    PROVE  Earlier(r + 2) = Earlier(r + 1) \cup Members(r + 1)
  <1>1. (r + 2) - 1 = r + 1 /\ (r + 1) - 1 = r /\ \A q : q \in 1 .. r + 1 <=> q \in 1 .. r \/ q = r + 1
    OBVIOUS
  <1>2. QED
    BY <1>1 DEF Earlier

LEMMA WholeUnfolds ==
    ASSUME ranks \in Seq(Seq(Solution))
    PROVE  /\ Whole[0] = <<>>
           /\ \A r \in 1 .. Len(ranks) : Whole[r] = Whole[r - 1] \o ranks[r]
           /\ \A r \in 0 .. Len(ranks) : Whole[r] \in Seq(Solution)
  <1> SUFFICES ASSUME NEW n, n = Len(ranks)
               PROVE  /\ Whole[0] = <<>>
                      /\ \A r \in 1 .. n : Whole[r] = Whole[r - 1] \o ranks[r]
                      /\ \A r \in 0 .. n : Whole[r] \in Seq(Solution)
    OBVIOUS
  <1> DEFINE Fits(f, m) == f[0] = <<>> /\ \A i \in 1 .. m : f[i] = f[i - 1] \o ranks[i]
             S == {m \in 0 .. n : \E f \in [0 .. n -> Seq(Solution)] : Fits(f, m)}
  <1>1. n \in Nat /\ \A r \in 1 .. n : ranks[r] \in Seq(Solution)
    OBVIOUS
  <1>2. 0 \in S
    <2> DEFINE f == [i \in 0 .. n |-> <<>>]
    <2>1. f \in [0 .. n -> Seq(Solution)] /\ Fits(f, 0) /\ 0 \in 0 .. n
      BY <1>1
    <2> HIDE DEF f, Fits
    <2>2. QED
      BY <2>1
  <1>3. ASSUME NEW m \in 1 .. n, m - 1 \in S
        PROVE  m \in S
    <2>1. PICK f \in [0 .. n -> Seq(Solution)] : Fits(f, m - 1)
      BY <1>3
    <2> DEFINE g == [f EXCEPT ![m] = f[m - 1] \o ranks[m]]
    <2>2. m - 1 \in 0 .. n /\ m \in 0 .. n
      BY <1>1
    <2>3. f[m - 1] \o ranks[m] \in Seq(Solution)
      BY <1>1, <2>2
    <2>4. /\ g \in [0 .. n -> Seq(Solution)] /\ g[m] = f[m - 1] \o ranks[m]
          /\ \A j \in 0 .. n : j # m => g[j] = f[j]
      BY <2>2, <2>3
    <2> HIDE DEF g
    <2>5. ASSUME NEW i \in 1 .. m
          PROVE  g[i] = g[i - 1] \o ranks[i]
      <3>1. i \in 0 .. n /\ i - 1 \in 0 .. n /\ i - 1 # m
        BY <1>1
      <3>2. CASE i = m
        BY <2>4, <3>1, <3>2
      <3>3. CASE i # m
        <4>1. i \in 1 .. m - 1
          BY <3>3
        <4>2. QED
          BY <2>1, <2>4, <3>1, <3>3, <4>1
      <3>4. QED
        BY <3>2, <3>3
    <2>6. g[0] = <<>>
      BY <1>1, <2>1, <2>4
    <2>7. QED
      BY <2>2, <2>4, <2>5, <2>6
  <1>4. n \in S
    <2> HIDE DEF S
    <2>1. \A i \in 1 .. n : i - 1 \in S => i \in S
      BY <1>3
    <2>2. \A i \in 0 .. n : i \in S
      BY <1>1, <1>2, <2>1, Upto
    <2>3. QED
      BY <1>1, <2>2
  <1>5. PICK f \in [0 .. n -> Seq(Solution)] : Fits(f, n)
    BY <1>4
  <1>6. f = [r \in 0 .. Len(ranks) |-> IF r = 0 THEN <<>> ELSE f[r - 1] \o ranks[r]]
    <2>1. \A r \in 0 .. n : f[r] = IF r = 0 THEN <<>> ELSE f[r - 1] \o ranks[r]
      BY <1>1, <1>5
    <2>2. QED
      BY <2>1
  <1>7. Whole = [r \in 0 .. Len(ranks) |-> IF r = 0 THEN <<>> ELSE Whole[r - 1] \o ranks[r]]
    BY <1>6 DEF Whole
  <1>8. Whole[0] = <<>> /\ \A r \in 1 .. n : Whole[r] = Whole[r - 1] \o ranks[r]
    <2>1. \A r \in 0 .. n : Whole[r] = IF r = 0 THEN <<>> ELSE Whole[r - 1] \o ranks[r]
      BY <1>7
    <2>2. 0 \in 0 .. n /\ \A r \in 1 .. n : r \in 0 .. n /\ r # 0
      BY <1>1
    <2>3. ASSUME NEW r \in 1 .. n
          PROVE  Whole[r] = Whole[r - 1] \o ranks[r]
      BY ONLY <2>1, <2>2, <2>3
    <2>4. Whole[0] = <<>>
      BY ONLY <2>1, <2>2
    <2>5. QED
      BY <2>3, <2>4
  <1>9. \A r \in 0 .. n : Whole[r] \in Seq(Solution)
    <2> DEFINE T == {r \in 0 .. n : Whole[r] \in Seq(Solution)}
    <2>1. 0 \in T
      <3>1. 0 \in 0 .. n /\ <<>> \in Seq(Solution)
        BY <1>1
      <3>2. QED
        BY <1>8, <3>1
    <2>2. ASSUME NEW i \in 1 .. n, i - 1 \in T
          PROVE  i \in T
      <3>1. i \in 0 .. n /\ ranks[i] \in Seq(Solution)
        BY <1>1
      <3>2. Whole[i - 1] \in Seq(Solution) /\ Whole[i] = Whole[i - 1] \o ranks[i]
        BY <1>8, <2>2
      <3>3. Whole[i] \in Seq(Solution)
        BY <3>1, <3>2
      <3>4. QED
        BY <3>1, <3>3
    <2> HIDE DEF T
    <2>3. \A r \in 0 .. n : r \in T
      BY <1>1, <2>1, <2>2, Upto
    <2>4. QED
      BY <2>3 DEF T
  <1>10. QED
    BY <1>8, <1>9

(* The ranks one after the other.                                          *)
LEMMA WholeFacts ==
    ASSUME RankInv, pc \in Peeled
    PROVE  /\ \A r \in 0 .. Len(ranks) :
                /\ Whole[r] \in Seq(Solution) /\ Len(Whole[r]) \in Nat
                /\ Distinct(Whole[r]) /\ ToSet(Whole[r]) = Earlier(r + 1)
                /\ \A q \in 0 .. r : Len(Whole[q]) <= Len(Whole[r])
           /\ \A r \in 1 .. Len(ranks) : /\ Whole[r] = Whole[r - 1] \o ranks[r]
                                         /\ Len(Whole[r]) = Len(Whole[r - 1]) + Len(ranks[r])
           /\ Len(Whole[0]) = 0 /\ Len(Whole[Len(ranks)]) = N
  <1> SUFFICES ASSUME NEW n, n = Len(ranks)
               PROVE  /\ \A r \in 0 .. n :
                           /\ Whole[r] \in Seq(Solution) /\ Len(Whole[r]) \in Nat
                           /\ Distinct(Whole[r]) /\ ToSet(Whole[r]) = Earlier(r + 1)
                           /\ \A q \in 0 .. r : Len(Whole[q]) <= Len(Whole[r])
                      /\ \A r \in 1 .. n : /\ Whole[r] = Whole[r - 1] \o ranks[r]
                                           /\ Len(Whole[r]) = Len(Whole[r - 1]) + Len(ranks[r])
                      /\ Len(Whole[0]) = 0 /\ Len(Whole[n]) = N
    OBVIOUS
  <1>1. /\ ranks \in Seq(Seq(Solution)) /\ n \in Nat /\ N \in Nat \ {0}
        /\ \A r \in 1 .. n :
             /\ ranks[r] \in Seq(Solution) /\ Distinct(ranks[r]) /\ Members(r) \in SUBSET Solution
             /\ \A s \in Members(r) : \A q \in 1 .. n : q # r => s \notin Members(q)
        /\ \A s \in Solution : \E r \in 1 .. n : s \in Members(r)
    BY RankedFacts
  <1>2. /\ Whole[0] = <<>>
        /\ \A r \in 1 .. n : Whole[r] = Whole[r - 1] \o ranks[r]
        /\ \A r \in 0 .. n : Whole[r] \in Seq(Solution) /\ Len(Whole[r]) \in Nat
    <2>1. /\ Whole[0] = <<>>
          /\ \A r \in 1 .. n : Whole[r] = Whole[r - 1] \o ranks[r]
          /\ \A r \in 0 .. n : Whole[r] \in Seq(Solution)
      BY <1>1, WholeUnfolds
    <2>2. \A q \in Seq(Solution) : Len(q) \in Nat
      OBVIOUS
    <2>3. QED
      BY <2>1, <2>2
  <1>3. \A r \in 1 .. n : Len(ranks[r]) \in Nat /\ Len(Whole[r]) = Len(Whole[r - 1]) + Len(ranks[r])
    <2>1. ASSUME NEW r \in 1 .. n
          PROVE  Len(ranks[r]) \in Nat /\ Len(Whole[r]) = Len(Whole[r - 1]) + Len(ranks[r])
      <3>1. r - 1 \in 0 .. n /\ ranks[r] \in Seq(Solution)
        BY <1>1
      <3>2. Whole[r - 1] \in Seq(Solution) /\ Whole[r] = Whole[r - 1] \o ranks[r]
        BY <1>2, <3>1
      <3>3. QED
        BY <3>1, <3>2
    <2>2. QED
      BY <2>1
  <1>4. \A r \in 0 .. n : Distinct(Whole[r]) /\ ToSet(Whole[r]) = Earlier(r + 1)
    <2> DEFINE S == {r \in 0 .. n : Distinct(Whole[r]) /\ ToSet(Whole[r]) = Earlier(r + 1)}
    <2>1. 0 \in S
      <3>1. ToSet(Whole[0]) = {} /\ Distinct(Whole[0])
        BY <1>2 DEF ToSet, Distinct
      <3>2. Earlier(0 + 1) = {}
        BY DEF Earlier
      <3>3. 0 \in 0 .. n
        BY <1>1
      <3>4. QED
        BY <3>1, <3>2, <3>3
    <2>2. ASSUME NEW i \in 1 .. n, i - 1 \in S
          PROVE  i \in S
      <3>1. i \in 0 .. n /\ i - 1 \in Nat /\ i - 1 \in 0 .. n /\ (i - 1) + 1 = i /\ (i - 1) + 2 = i + 1
        BY <1>1
      <3>2. /\ Whole[i - 1] \in Seq(Solution) /\ Distinct(Whole[i - 1]) /\ ToSet(Whole[i - 1]) = Earlier(i)
            /\ Whole[i] = Whole[i - 1] \o ranks[i]
        BY <1>2, <2>2, <3>1
      <3>3. ranks[i] \in Seq(Solution) /\ Distinct(ranks[i])
        BY <1>1
      <3>4. ToSet(Whole[i - 1]) \cap ToSet(ranks[i]) = {}
        <4>1. \A q \in 1 .. i - 1 : q \in 1 .. n /\ q # i
          BY <1>1
        <4>2. \A q \in 1 .. i - 1 : \A s \in Members(q) : s \notin Members(i)
          BY <1>1, <4>1
        <4>3. QED
          BY <3>2, <4>2 DEF Earlier, Members
      <3>5. Distinct(Whole[i]) /\ ToSet(Whole[i]) = Earlier(i) \cup Members(i)
        BY <3>2, <3>3, <3>4, JoinIsDistinct DEF Members
      <3>6. Earlier(i + 1) = Earlier(i) \cup Members(i)
        BY <3>1, EarlierGrows
      <3>7. QED
        BY <3>1, <3>5, <3>6
    <2> HIDE DEF S
    <2>3. \A r \in 0 .. n : r \in S
      BY <1>1, <2>1, <2>2, Upto
    <2>4. QED
      BY <2>3 DEF S
  <1>5. \A r \in 0 .. n : \A q \in 0 .. r : Len(Whole[q]) <= Len(Whole[r])
    <2> DEFINE S == {r \in 0 .. n : \A q \in 0 .. r : Len(Whole[q]) <= Len(Whole[r])}
    <2>1. 0 \in S
      BY <1>1, <1>2
    <2>2. ASSUME NEW i \in 1 .. n, i - 1 \in S
          PROVE  i \in S
      <3>1. i \in 0 .. n /\ i - 1 \in 0 .. n /\ \A q \in 0 .. i : q \in 0 .. n /\ (q \in 0 .. i - 1 \/ q = i)
        BY <1>1
      <3>2. Len(Whole[i - 1]) <= Len(Whole[i])
        <4>1. /\ Len(Whole[i - 1]) \in Nat /\ Len(ranks[i]) \in Nat
              /\ Len(Whole[i]) = Len(Whole[i - 1]) + Len(ranks[i])
          BY <1>2, <1>3, <3>1
        <4>2. \A x, y \in Nat : x <= x + y
          OBVIOUS
        <4>3. QED
          BY ONLY <4>1, <4>2, Zenon
      <3>3. \A q \in 0 .. i - 1 : Len(Whole[q]) <= Len(Whole[i - 1])
        BY <2>2
      <3>4. QED
        BY <1>2, <3>1, <3>2, <3>3
    <2> HIDE DEF S
    <2>3. \A r \in 0 .. n : r \in S
      BY <1>1, <2>1, <2>2, Upto
    <2>4. QED
      BY <2>3 DEF S
  <1>6. Len(Whole[n]) = N
    <2>1. n \in 0 .. n /\ (n + 1) - 1 = n
      BY <1>1
    <2>2. Earlier(n + 1) = Solution
      BY <1>1, <2>1 DEF Earlier
    <2>3. Cardinality(Solution) = N
      BY <1>1, FS_Interval DEF Solution
    <2>4. QED
      BY <1>2, <1>4, <2>1, <2>2, <2>3, DistinctCounts
  <1>7. QED
    BY <1>2, <1>3, <1>4, <1>5, <1>6

LEMMA EliteSizeRange == EliteSize \in 0 .. N
  <1>1. N \in Nat /\ Ratio \in 0 .. 100
    BY RankingAssumption
  <1>2. N * Ratio \in Nat /\ N * Ratio <= N * 100
    <2>1. \A x \in Nat : N * x \in Nat
      BY <1>1
    <2>2. 100 - Ratio \in Nat
      BY <1>1
    <2>3. N * (100 - Ratio) \in Nat /\ N * (100 - Ratio) = N * 100 - N * Ratio
      BY <1>1, <2>1, <2>2
    <2>4. QED
      BY <1>1, <2>1, <2>3
  <1>3. \A x \in Nat : x <= N * 100 => (x + 99) \div 100 \in 0 .. N
    BY <1>1
  <1>4. QED
    BY <1>2, <1>3 DEF EliteSize

(* The ranks that fit are the first ones.                                  *)
LEMMA FittingRanks ==
    ASSUME RankInv, pc \in Peeled, NEW kept,
           kept = Cardinality({r \in DOMAIN ranks : Len(Whole[r]) <= EliteSize})
    PROVE  /\ kept \in 0 .. Len(ranks) /\ Len(Whole[kept]) <= EliteSize
           /\ kept < Len(ranks) => Len(Whole[kept + 1]) > EliteSize
  <1> SUFFICES ASSUME NEW n, n = Len(ranks)
               PROVE  /\ kept \in 0 .. n /\ Len(Whole[kept]) <= EliteSize
                      /\ kept < n => Len(Whole[kept + 1]) > EliteSize
    OBVIOUS
  <1> DEFINE fit == {r \in 1 .. n : Len(Whole[r]) <= EliteSize}
             S == {m \in 0 .. n : \E k \in 0 .. m :
                     /\ Len(Whole[k]) <= EliteSize
                     /\ k < m => Len(Whole[k + 1]) > EliteSize}
  <1>1. /\ n \in Nat /\ DOMAIN ranks = 1 .. n /\ EliteSize \in Nat
        /\ Len(Whole[0]) = 0
        /\ \A r \in 0 .. n : /\ Len(Whole[r]) \in Nat
                             /\ \A q \in 0 .. r : Len(Whole[q]) <= Len(Whole[r])
    BY RankedFacts, WholeFacts, EliteSizeRange
  <1>2. 0 \in S
    BY <1>1
  <1>3. ASSUME NEW m \in 1 .. n, m - 1 \in S
        PROVE  m \in S
    <2>1. PICK k \in 0 .. m - 1 : /\ Len(Whole[k]) <= EliteSize
                                  /\ k < m - 1 => Len(Whole[k + 1]) > EliteSize
      BY <1>3
    <2>2. k \in 0 .. m /\ m \in 0 .. m /\ m \in 0 .. n /\ (k < m - 1 \/ k + 1 = m)
      BY <1>1
    <2>3. CASE k < m - 1 \/ Len(Whole[m]) > EliteSize
      <3>1. Len(Whole[k + 1]) > EliteSize
        BY <2>1, <2>2, <2>3
      <3>2. QED
        BY <2>1, <2>2, <3>1
    <2>4. CASE Len(Whole[m]) <= EliteSize
      <3>1. ~ (m < m)
        BY <2>2
      <3>2. QED
        BY <2>2, <2>4, <3>1
    <2>5. Len(Whole[m]) > EliteSize \/ Len(Whole[m]) <= EliteSize
      BY <1>1, <2>2
    <2>6. QED
      BY <2>3, <2>4, <2>5
  <1>4. n \in S
    <2> HIDE DEF S
    <2>1. \A m \in 0 .. n : m \in S
      BY <1>1, <1>2, <1>3, Upto
    <2>2. QED
      BY <1>1, <2>1
  <1>5. PICK k \in 0 .. n : /\ Len(Whole[k]) <= EliteSize
                            /\ k < n => Len(Whole[k + 1]) > EliteSize
    BY <1>4
  <1>6. fit = 1 .. k
    <2>1. ASSUME NEW r \in 1 .. n
          PROVE  Len(Whole[r]) <= EliteSize <=> r \in 1 .. k
      <3>1. r \in 0 .. n /\ k \in Nat
        BY <1>1
      <3>2. CASE r \in 1 .. k
        <4>1. r \in 0 .. k
          BY <3>2
        <4>2. Len(Whole[r]) <= Len(Whole[k]) /\ Len(Whole[r]) \in Nat /\ Len(Whole[k]) \in Nat
          BY <1>1, <3>1, <4>1
        <4>3. QED
          BY <1>1, <1>5, <3>2, <4>2
      <3>3. CASE r \notin 1 .. k
        <4>1. k < n /\ k + 1 \in 0 .. r /\ k + 1 \in 0 .. n
          BY <1>1, <3>1, <3>3
        <4>2. /\ Len(Whole[k + 1]) <= Len(Whole[r]) /\ Len(Whole[k + 1]) > EliteSize
              /\ Len(Whole[r]) \in Nat /\ Len(Whole[k + 1]) \in Nat
          BY <1>1, <1>5, <3>1, <4>1
        <4>3. QED
          BY <1>1, <3>3, <4>2
      <3>4. QED
        BY <3>2, <3>3
    <2>2. \A r \in 1 .. k : r \in 1 .. n
      BY <1>1
    <2>3. QED
      BY <2>1, <2>2
  <1>7. Cardinality(1 .. k) = k
    <2>1. k \in Nat
      BY <1>1
    <2>2. QED
      BY ONLY <2>1, FS_Interval
  <1>8. kept = k
    BY <1>1, <1>6, <1>7
  <1>9. QED
    BY <1>5, <1>8

(* The elites are as many as they should be, and nobody is better than     *)
(* one of them and left out.                                               *)
Closed(q) ==
    /\ q \in Seq(Solution) /\ Len(q) = EliteSize /\ Distinct(q)
    /\ \A b \in ToSet(q) : Dominators(b) \subseteq ToSet(q)

LEMMA EliteIsClosed ==
    ASSUME RankInv, Elite
    PROVE  Closed(elites')
  <1> SUFFICES ASSUME NEW n, n = Len(ranks)
               PROVE  Closed(elites')
    OBVIOUS
  <1>1. pc \in Peeled
    BY DEF Elite, Peeled
  <1>2. /\ n \in Nat
        /\ \A r \in 1 .. n :
             /\ ranks[r] \in Seq(Solution) /\ Distinct(ranks[r])
             /\ \A s \in Members(r) : /\ Dominators(s) \subseteq Earlier(r)
                                      /\ \A q \in 1 .. n : q # r => s \notin Members(q)
    BY <1>1, RankedFacts
  <1>3. /\ \A r \in 0 .. n : /\ Whole[r] \in Seq(Solution) /\ Len(Whole[r]) \in Nat
                             /\ Distinct(Whole[r]) /\ ToSet(Whole[r]) = Earlier(r + 1)
        /\ \A r \in 1 .. n : Len(Whole[r]) = Len(Whole[r - 1]) + Len(ranks[r])
        /\ Len(Whole[n]) = N
    BY <1>1, WholeFacts
  <1>4. PICK kept : /\ kept = Cardinality({r \in DOMAIN ranks : Len(Whole[r]) <= EliteSize})
                    /\ \/ EliteSize - Len(Whole[kept]) = 0 /\ elites' = Whole[kept]
                       \/ /\ EliteSize - Len(Whole[kept]) # 0
                          /\ \E s \in SortedBy(ranks[kept + 1], cost) :
                               elites' = Whole[kept] \o SubSeq(s, 1, EliteSize - Len(Whole[kept]))
    BY DEF Elite
  <1>5. /\ kept \in 0 .. n /\ Len(Whole[kept]) <= EliteSize
        /\ kept < n => Len(Whole[kept + 1]) > EliteSize
    BY <1>1, <1>4, FittingRanks
  <1>6. EliteSize \in 0 .. N /\ N \in Nat
    BY EliteSizeRange, RankingAssumption
  <1>7. /\ Whole[kept] \in Seq(Solution) /\ Len(Whole[kept]) \in Nat
        /\ Distinct(Whole[kept]) /\ ToSet(Whole[kept]) = Earlier(kept + 1)
    BY <1>3, <1>5
  <1>8. \A b \in Earlier(kept + 1) : Dominators(b) \subseteq Earlier(kept + 1)
    <2>1. SUFFICES ASSUME NEW r \in 1 .. (kept + 1) - 1, NEW b \in Members(r)
                   PROVE  Dominators(b) \subseteq Earlier(kept + 1)
      BY DEF Earlier
    <2>2. r \in 1 .. n /\ \A q \in 1 .. r - 1 : q \in 1 .. (kept + 1) - 1
      BY <1>2, <1>5
    <2>3. Earlier(r) \subseteq Earlier(kept + 1)
      BY <2>2 DEF Earlier
    <2>4. QED
      BY <1>2, <2>1, <2>2, <2>3
  <1>9. CASE elites' = Whole[kept] /\ EliteSize - Len(Whole[kept]) = 0
    <2>1. Len(elites') = EliteSize
      BY <1>6, <1>7, <1>9
    <2>2. QED
      BY <1>7, <1>8, <1>9, <2>1 DEF Closed
  <1>10. ASSUME EliteSize - Len(Whole[kept]) # 0, NEW s \in SortedBy(ranks[kept + 1], cost),
                elites' = Whole[kept] \o SubSeq(s, 1, EliteSize - Len(Whole[kept]))
         PROVE  Closed(elites')
    <2> DEFINE missing == EliteSize - Len(Whole[kept])
    <2>1. missing \in Nat \ {0}
      BY <1>5, <1>6, <1>7, <1>10
    <2>2. kept < n
      <3>1. kept # n
        BY <1>3, <1>6, <2>1
      <3>2. QED
        BY <1>2, <1>5, <3>1
    <2>3. kept + 1 \in 1 .. n /\ (kept + 1) - 1 = kept /\ kept \in Nat
      BY <1>2, <1>5, <2>2
    <2>4. ranks[kept + 1] \in Seq(Solution) /\ Distinct(ranks[kept + 1])
      BY <1>2, <2>3
    <2>5. missing <= Len(ranks[kept + 1])
      <3>1. Len(Whole[kept + 1]) = Len(Whole[kept]) + Len(ranks[kept + 1])
        BY <1>3, <2>3
      <3>2. Len(Whole[kept + 1]) > EliteSize
        BY <1>5, <2>2
      <3>3. Len(ranks[kept + 1]) \in Nat
        BY <2>4
      <3>4. \A e, x, y \in Nat : x + y > e => e - x <= y
        OBVIOUS
      <3>5. EliteSize \in Nat
        BY <1>6
      <3>6. Len(Whole[kept]) + Len(ranks[kept + 1]) > EliteSize
        BY ONLY <3>1, <3>2
      <3>7. QED
        BY <1>7, <3>3, <3>4, <3>5, <3>6, Zenon
    <2>6. /\ s \in Seq(Solution) /\ Len(s) = Len(ranks[kept + 1])
          /\ ToSet(s) = Members(kept + 1) /\ Distinct(s)
      BY <1>10, <2>4, SortedIsDistinct DEF Members
    <2> DEFINE start == SubSeq(s, 1, missing)
    <2>7. /\ start \in Seq(Solution) /\ Len(start) = missing
          /\ Distinct(start) /\ ToSet(start) \subseteq Members(kept + 1)
      <3> HIDE DEF missing
      <3>1. /\ SubSeq(s, 1, missing) \in Seq(Solution) /\ Len(SubSeq(s, 1, missing)) = missing
            /\ Distinct(SubSeq(s, 1, missing)) /\ ToSet(SubSeq(s, 1, missing)) \subseteq ToSet(s)
        BY <2>1, <2>5, <2>6, StartIsDistinct
      <3>2. QED
        BY <2>6, <3>1
    <2>8. ToSet(Whole[kept]) \cap ToSet(start) = {}
      <3>1. \A q \in 1 .. (kept + 1) - 1 : q \in 1 .. n /\ q # kept + 1
        BY <1>2, <2>3
      <3>2. \A q \in 1 .. (kept + 1) - 1 : \A t \in Members(q) : t \notin Members(kept + 1)
        BY <1>2, <2>3, <3>1
      <3> HIDE DEF start
      <3>3. QED
        BY <1>7, <2>7, <3>2 DEF Earlier
    <2>9. elites' = Whole[kept] \o start
      BY <1>10
    <2>10. missing \in Int /\ Len(Whole[kept]) + missing = EliteSize
      BY <1>6, <1>7
    <2> HIDE DEF start, missing
    <2>11. /\ elites' \in Seq(Solution) /\ Len(elites') = EliteSize /\ Distinct(elites')
           /\ ToSet(elites') = Earlier(kept + 1) \cup ToSet(start)
      <3>1. /\ Whole[kept] \o start \in Seq(Solution) /\ Distinct(Whole[kept] \o start)
            /\ Len(Whole[kept] \o start) = Len(Whole[kept]) + Len(start)
            /\ ToSet(Whole[kept] \o start) = ToSet(Whole[kept]) \cup ToSet(start)
        BY <1>7, <2>7, <2>8, JoinIsDistinct
      <3>2. QED
        BY <1>7, <2>7, <2>9, <2>10, <3>1
    <2>12. \A b \in ToSet(start) : Dominators(b) \subseteq Earlier(kept + 1)
      BY <1>2, <2>3, <2>7
    <2>13. QED
      BY <1>8, <2>11, <2>12 DEF Closed
  <1>11. QED
    BY <1>4, <1>9, <1>10
-----------------------------------------------------------------------------
(* The costs. A share of the crowding is never negative, and the shares of *)
(* all objectives are never more than a rank.                              *)
LEMMA Times ==
    ASSUME NEW k \in Nat, NEW x \in Int, NEW y \in Int, x <= y
    PROVE  k * x \in Int /\ k * y \in Int /\ k * x <= k * y
  <1>1. y - x \in Nat
    OBVIOUS
  <1>2. \A a, b \in Nat : a * b \in Nat
    OBVIOUS
  <1>3. k * (y - x) \in Nat /\ k * (y - x) = k * y - k * x
    BY <1>1, <1>2
  <1>4. QED
    BY <1>3

LEMMA Quotient ==
    ASSUME NEW a \in Nat, NEW b \in Nat \ {0}
    PROVE  /\ a \div b \in Nat /\ b * (a \div b) <= a
           /\ \A q \in Nat : b * q <= a => q <= a \div b
  <1>1. a \div b \in Nat /\ b * (a \div b) <= a /\ a < b * (a \div b) + b
    OBVIOUS
  <1>2. ASSUME NEW q \in Nat, b * q <= a, ~ (q <= a \div b)
        PROVE  FALSE
    <2>1. (a \div b) + 1 <= q
      BY <1>1, <1>2
    <2>2. b * ((a \div b) + 1) <= b * q /\ b * q \in Int
      BY <1>1, <2>1, Times
    <2>3. b * ((a \div b) + 1) = b * (a \div b) + b
      BY <1>1
    <2>4. QED
      BY <1>1, <1>2, <2>2, <2>3
  <1>3. QED
    BY <1>1, <1>2

LEMMA ShareRange ==
    ASSUME NEW spread \in Nat, NEW gap \in 0 .. spread
    PROVE  Share(spread, gap) \in 0 .. (Unit \div Objectives)
  <1>1. Unit \in Nat /\ Objectives \in Nat \ {0}
    BY RankingAssumption
  <1> DEFINE whole == Unit \div Objectives
             m == spread * Objectives
             u == Unit \div m
  <1>2. whole \in Nat /\ \A q \in Nat : Objectives * q <= Unit => q <= whole
    BY <1>1, Quotient
  <1>3. CASE spread = 0
    BY <1>2, <1>3 DEF Share
  <1>4. CASE spread # 0
    <2>1. m \in Nat \ {0}
      BY <1>1, <1>4
    <2>2. u \in Nat /\ m * u <= Unit
      <3> HIDE DEF m
      <3>1. QED
        BY <1>1, <2>1, Quotient
    <2>3. u * spread \in Nat
      <3> HIDE DEF u
      <3>1. \A x, y \in Nat : x * y \in Nat
        OBVIOUS
      <3>2. QED
        BY <2>2, <3>1
    <2>4. Objectives * (u * spread) <= Unit
      <3> HIDE DEF u
      <3>1. Objectives * (u * spread) = m * u
        BY <1>1, <2>2
      <3>2. QED
        BY <2>2, <3>1
    <2>5. u * spread <= whole
      BY <1>2, <2>3, <2>4
    <2>6. u * 0 <= u * gap /\ u * gap <= u * spread /\ u * gap \in Int /\ u * 0 = 0
      <3> HIDE DEF u
      <3>1. 0 <= gap /\ gap <= spread /\ gap \in Int
        OBVIOUS
      <3>2. QED
        BY <2>2, <3>1, Times
    <2>7. Share(spread, gap) = whole - u * gap
      BY <1>4 DEF Share
    <2> HIDE DEF u, whole
    <2>8. whole - u * gap \in 0 .. whole
      BY <1>2, <2>3, <2>5, <2>6
    <2>9. QED
      BY <2>7, <2>8 DEF whole
  <1>5. QED
    BY <1>3, <1>4

LEMMA SortedUpward ==
    ASSUME NEW s \in Seq(Solution), NEW key \in [Solution -> Int],
           \A i \in 1 .. Len(s) - 1 : key[s[i]] <= key[s[i + 1]]
    PROVE  \A j \in 1 .. Len(s) : \A i \in 1 .. j : key[s[i]] <= key[s[j]]
  <1> SUFFICES ASSUME NEW n, n = Len(s)
               PROVE  \A j \in 1 .. n : \A i \in 1 .. j : key[s[i]] <= key[s[j]]
    OBVIOUS
  <1> DEFINE S == {j \in 0 .. n : \A i \in 1 .. j : key[s[i]] <= key[s[j]]}
  <1>1. n \in Nat /\ \A i \in 1 .. n : key[s[i]] \in Int
    OBVIOUS
  <1>2. 0 \in S
    BY <1>1
  <1>3. ASSUME NEW j \in 1 .. n, j - 1 \in S
        PROVE  j \in S
    <2>1. j \in 0 .. n /\ \A i \in 1 .. j : i \in 1 .. n /\ (i = j \/ (i \in 1 .. j - 1 /\ j - 1 \in 1 .. n))
      BY <1>1
    <2>2. j - 1 \in 1 .. n => key[s[j - 1]] <= key[s[j]]
      <3>1. j - 1 \in 1 .. n => j - 1 \in 1 .. Len(s) - 1 /\ (j - 1) + 1 = j
        BY <1>1
      <3>2. QED
        BY <3>1
    <2>3. \A i \in 1 .. j - 1 : key[s[i]] <= key[s[j - 1]]
      BY <1>3
    <2>4. ASSUME NEW i \in 1 .. j
          PROVE  key[s[i]] <= key[s[j]]
      <3>1. key[s[i]] \in Int /\ key[s[j]] \in Int /\ (j - 1 \in 1 .. n => key[s[j - 1]] \in Int)
        BY <1>1, <2>1
      <3>2. CASE i = j
        BY <3>1, <3>2
      <3>3. CASE i \in 1 .. j - 1 /\ j - 1 \in 1 .. n
        <4>1. key[s[i]] <= key[s[j - 1]] /\ key[s[j - 1]] <= key[s[j]]
          BY <2>2, <2>3, <3>3
        <4>2. \A x, y, z \in Int : x <= y /\ y <= z => x <= z
          OBVIOUS
        <4>3. QED
          BY ONLY <3>1, <3>3, <4>1, <4>2, Zenon
      <3>4. QED
        BY <2>1, <3>2, <3>3
    <2>5. QED
      BY <2>1, <2>4
  <1> HIDE DEF S
  <1>4. \A j \in 0 .. n : j \in S
    BY <1>1, <1>2, <1>3, Upto
  <1>5. \A j \in 1 .. n : j \in 0 .. n
    BY <1>1
  <1>6. QED
    BY <1>4, <1>5 DEF S

(* Within the crowding of one rank, what a solution has so far gathered;   *)
(* ranks that are done cost a rank more at most, the others what their     *)
(* rank costs.                                                             *)
Gathered ==
    /\ rank \in 1 .. Len(ranks) + 1 /\ objective \in 1 .. Objectives + 1
    /\ cDist \in [Solution -> Int] /\ cost \in [Solution -> Int]
    /\ \A r \in 1 .. Len(ranks) : \A s \in Members(r) :
         /\ r >= rank => cost[s] = Unit * (r - 1)
         /\ r < rank => Unit * (r - 1) <= cost[s] /\ cost[s] <= Unit * r
         /\ r > rank => cDist[s] = 0
         /\ r = rank => cDist[s] \in 0 .. (objective - 1) * (Unit \div Objectives)

Priced ==
    /\ cost \in [Solution -> Int]
    /\ \A r \in 1 .. Len(ranks) : \A s \in Members(r) :
         Unit * (r - 1) <= cost[s] /\ cost[s] <= Unit * r

Unranked == {"compare", "count"} \cup Peeling
CostInv ==
    /\ pc \in Unranked =>
         cDist = [s \in Solution |-> 0] /\ rank = 1 /\ objective = 1 /\ cost = [s \in Solution |-> 0]
    /\ pc = "crowd" => Gathered
    /\ pc \in {"elite", "shuffle", "pick"} => Priced
    /\ pc = "done" => cost \in [Solution -> Int]
    /\ pc = "done" /\ problem.moga =>
         \A s \in Solution : cost[s] = Unit * Cardinality(Dominators(s))

LEMMA UnitRange ==
    /\ Unit \in Nat /\ Objectives \in Nat \ {0} /\ Unit \div Objectives \in Nat
    /\ \A k \in Int : Unit * k \in Int
    /\ \A k \in Nat : k * (Unit \div Objectives) \in Nat
    /\ Objectives * (Unit \div Objectives) <= Unit
  <1>1. Unit \in Nat /\ Objectives \in Nat \ {0}
    BY RankingAssumption
  <1>2. Unit \div Objectives \in Nat /\ Objectives * (Unit \div Objectives) <= Unit
    BY <1>1, Quotient
  <1>3. \A x \in Nat, y \in Int : x * y \in Int
    OBVIOUS
  <1>4. \A x, y \in Nat : x * y \in Nat
    OBVIOUS
  <1>5. QED
    BY <1>1, <1>2, <1>3, <1>4

LEMMA ScorePrices ==
    ASSUME RankInv, CostInv, Score
    PROVE  CostInv'
  <1> SUFFICES ASSUME NEW n, n = Len(ranks)
               PROVE  CostInv'
    OBVIOUS
  <1>1. /\ pc = "collect" /\ pc' = "crowd" /\ Collected = Solution
        /\ cost' = [s \in Solution |->
              Unit * (CHOOSE r \in DOMAIN ranks : s \in ToSet(ranks[r])) - Unit]
        /\ cDist' = [s \in Solution |-> 0] /\ rank' = 1 /\ objective' = 1 /\ ranks' = ranks
    BY DEF Score, ranking, crowding, CostInv, Unranked, Peeling
  <1>2. /\ n \in Nat /\ DOMAIN ranks = 1 .. n
        /\ \A r \in 1 .. n : /\ Members(r) \in SUBSET Solution
                             /\ \A s \in Members(r) : \A q \in 1 .. n : q # r => s \notin Members(q)
        /\ \A s \in Solution : \E r \in 1 .. n : s \in Members(r)
    BY <1>1, PeelingFacts DEF Peeling
  <1>3. ASSUME NEW r \in 1 .. n, NEW s \in Members(r)
        PROVE  cost'[s] = Unit * (r - 1)
    <2>1. s \in Solution
      BY <1>2
    <2>2. (CHOOSE q \in DOMAIN ranks : s \in ToSet(ranks[q])) = r
      BY <1>2, <1>3 DEF Members
    <2>3. cost'[s] = Unit * r - Unit
      BY <1>1, <2>1, <2>2
    <2>4. r \in Int /\ Unit \in Nat
      BY <1>2, UnitRange
    <2>5. QED
      BY <2>3, <2>4
  <1>4. cost' \in [Solution -> Int]
    <2>1. \A s \in Solution : cost'[s] \in Int
      <3>1. \A r \in 1 .. n : Unit * (r - 1) \in Int
        BY <1>2, UnitRange
      <3>2. QED
        BY <1>2, <1>3, <3>1
    <2>2. QED
      BY <1>1, <2>1
  <1>5. Gathered'
    <2>1. \A r : Members(r)' = Members(r)
      BY <1>1 DEF Members
    <2>2. 1 \in 1 .. n + 1 /\ 1 \in 1 .. Objectives + 1 /\ ~ (\E r \in 1 .. n : r < 1)
      BY <1>2, UnitRange
    <2>3. 0 \in 0 .. (1 - 1) * (Unit \div Objectives)
      BY UnitRange
    <2>4. cDist' \in [Solution -> Int] /\ \A r \in 1 .. n : \A s \in Members(r) : cDist'[s] = 0
      BY <1>1, <1>2
    <2>5. ASSUME NEW r \in 1 .. n, NEW s \in Members(r)
          PROVE  /\ cost'[s] = Unit * (r - 1) /\ ~ (r < 1) /\ cDist'[s] = 0
                 /\ cDist'[s] \in 0 .. (1 - 1) * (Unit \div Objectives)
      <3>1. cDist'[s] = 0
        BY <2>4
      <3>2. ~ (r < 1)
        BY <2>2
      <3>3. QED
        BY <1>3, <2>3, <3>1, <3>2
    <2>6. QED
      BY <1>1, <1>4, <2>1, <2>2, <2>4, <2>5 DEF Gathered
  <1>6. QED
    BY <1>1, <1>5 DEF CostInv, Unranked, Peeling

(* What one objective adds to a solution of the rank.                      *)
LEMMA CrowdAdds ==
    ASSUME RankInv, CostInv, Crowd
    PROVE  /\ cDist' \in [Solution -> Int]
           /\ \A x \in Solution \ Members(rank) : cDist'[x] = cDist[x]
           /\ \A x \in Members(rank) :
                cDist'[x] \in 0 .. ((objective - 1) * (Unit \div Objectives) + (Unit \div Objectives))
  <1> DEFINE key == [s \in Solution |-> ovec[s][objective]]
             whole == Unit \div Objectives
             sofar == (objective - 1) * whole
  <1>1. pc = "crowd" /\ pc \in Peeled /\ rank <= Len(ranks) /\ objective <= Objectives
    BY DEF Crowd, Peeled
  <1>2. /\ Len(ranks) \in Nat /\ Given
        /\ \A r \in 1 .. Len(ranks) : /\ ranks[r] \in Seq(Solution) /\ Distinct(ranks[r])
                                      /\ Members(r) \in SUBSET Solution
    BY <1>1, RankedFacts
  <1>3. Gathered /\ rank \in 1 .. Len(ranks) /\ objective \in 1 .. Objectives /\ objective - 1 \in Nat
    BY <1>1, <1>2, UnitRange DEF CostInv, Gathered
  <1>4. cDist \in [Solution -> Int] /\ \A x \in Members(rank) : cDist[x] \in 0 .. sofar
    <2>1. rank = rank /\ rank \in 1 .. Len(ranks)
      BY <1>3
    <2>2. QED
      BY <1>3, <2>1 DEF Gathered
  <1>5. whole \in Nat /\ sofar \in Nat
    BY <1>3, UnitRange
  <1> HIDE DEF whole, sofar
  <1>6. key \in [Solution -> Int]
    <2>1. \A s \in Solution : ovec[s][objective] \in Int
      BY <1>2, <1>3, Data DEF Objective
    <2>2. QED
      BY <2>1
  <1>7. PICK s \in SortedBy(ranks[rank], key) :
          cDist' = [x \in Solution |->
             IF x \notin ToSet(s) THEN cDist[x]
             ELSE IF [y \in ToSet(s) |-> CHOOSE i \in DOMAIN s : s[i] = y][x] \in {1, Len(s)} THEN 0
             ELSE cDist[x] + Share(key[s[Len(s)]] - key[s[1]],
                    key[s[[y \in ToSet(s) |-> CHOOSE i \in DOMAIN s : s[i] = y][x] + 1]]
                      - key[s[[y \in ToSet(s) |-> CHOOSE i \in DOMAIN s : s[i] = y][x] - 1]])]
    BY DEF Crowd
  <1> DEFINE last == Len(s)
             place(x) == CHOOSE i \in DOMAIN s : s[i] = x
  <1>8. /\ s \in Seq(Solution) /\ ToSet(s) = Members(rank) /\ Members(rank) \in SUBSET Solution
        /\ \A i \in 1 .. last - 1 : key[s[i]] <= key[s[i + 1]]
    BY <1>2, <1>3, <1>7, SortedIsDistinct DEF Members
  <1> HIDE DEF key
  <1>9. \A x \in Solution :
          cDist'[x] = IF x \notin Members(rank) THEN cDist[x]
                      ELSE IF place(x) \in {1, last} THEN 0
                      ELSE cDist[x] + Share(key[s[last]] - key[s[1]],
                                            key[s[place(x) + 1]] - key[s[place(x) - 1]])
    <2> DEFINE index(x) == [y \in ToSet(s) |-> CHOOSE i \in DOMAIN s : s[i] = y][x]
    <2>1. \A x \in ToSet(s) : index(x) = place(x)
      OBVIOUS
    <2>2. \A x \in Solution :
            cDist'[x] = IF x \notin ToSet(s) THEN cDist[x]
                        ELSE IF index(x) \in {1, last} THEN 0
                        ELSE cDist[x] + Share(key[s[last]] - key[s[1]],
                                              key[s[index(x) + 1]] - key[s[index(x) - 1]])
      BY <1>7
    <2> HIDE DEF place, index
    <2>3. ASSUME NEW x \in Solution, x \in ToSet(s)
          PROVE  cDist'[x] = IF place(x) \in {1, last} THEN 0
                      ELSE cDist[x] + Share(key[s[last]] - key[s[1]],
                                            key[s[place(x) + 1]] - key[s[place(x) - 1]])
      <3>1. index(x) = place(x)
        BY <2>1, <2>3
      <3>2. cDist'[x] = IF index(x) \in {1, last} THEN 0
                      ELSE cDist[x] + Share(key[s[last]] - key[s[1]],
                                            key[s[index(x) + 1]] - key[s[index(x) - 1]])
        BY <2>2, <2>3
      <3>3. QED
        BY ONLY <3>1, <3>2
    <2>4. \A x \in Solution : x \notin ToSet(s) => cDist'[x] = cDist[x]
      BY <2>2
    <2>5. QED
      BY <1>8, <2>3, <2>4
  <1>10. ASSUME NEW x \in Members(rank)
         PROVE  cDist'[x] \in 0 .. (sofar + whole)
    <2>1. place(x) \in 1 .. last /\ last \in Nat /\ x \in Solution
      <3>1. \E i \in DOMAIN s : s[i] = x
        BY <1>8, <1>10 DEF ToSet
      <3>2. place(x) \in DOMAIN s
        BY <3>1
      <3>3. DOMAIN s = 1 .. Len(s) /\ Len(s) \in Nat
        BY <1>8
      <3>4. QED
        BY <1>8, <1>10, <3>2, <3>3
    <2> HIDE DEF place
    <2>2. cDist[x] \in 0 .. sofar
      BY <1>4, <1>10
    <2>3. CASE place(x) \in {1, last}
      <3>1. cDist'[x] = 0
        BY <1>9, <1>10, <2>1, <2>3
      <3>2. QED
        BY <1>5, <3>1
    <2>4. CASE place(x) \notin {1, last}
      <3> DEFINE spread == key[s[last]] - key[s[1]]
                 gap == key[s[place(x) + 1]] - key[s[place(x) - 1]]
      <3>1. /\ place(x) + 1 \in 1 .. last /\ place(x) - 1 \in 1 .. place(x) + 1
            /\ place(x) - 1 \in 1 .. last /\ 1 \in 1 .. place(x) - 1 /\ last \in 1 .. last
            /\ place(x) + 1 \in 1 .. last /\ 1 \in 1 .. last
        BY <2>1, <2>4
      <3>2. \A j \in 1 .. last : \A i \in 1 .. j : key[s[i]] <= key[s[j]]
        BY <1>6, <1>8, SortedUpward
      <3>3. /\ key[s[place(x) - 1]] <= key[s[place(x) + 1]]
            /\ key[s[1]] <= key[s[place(x) - 1]] /\ key[s[place(x) + 1]] <= key[s[last]]
        BY <3>1, <3>2
      <3>4. \A i \in 1 .. last : key[s[i]] \in Int
        <4>1. \A i \in 1 .. last : s[i] \in Solution
          BY <1>8
        <4>2. QED
          BY <1>6, <4>1
      <3>5. /\ key[s[1]] \in Int /\ key[s[last]] \in Int
            /\ key[s[place(x) - 1]] \in Int /\ key[s[place(x) + 1]] \in Int
        BY <3>1, <3>4
      <3>6. \A a, b, c, d \in Int : a <= b /\ b <= c /\ c <= d => d - a \in Nat /\ c - b \in 0 .. d - a
        OBVIOUS
      <3>7. spread \in Nat /\ gap \in 0 .. spread
        BY ONLY <3>3, <3>5, <3>6
      <3>8. cDist'[x] = cDist[x] + Share(spread, gap)
        BY <1>9, <1>10, <2>1, <2>4
      <3> HIDE DEF spread, gap
      <3>9. Share(spread, gap) \in 0 .. whole
        BY <3>7, ShareRange DEF whole
      <3>10. \A a \in 0 .. sofar, b \in 0 .. whole : a + b \in 0 .. (sofar + whole)
        BY <1>5
      <3>11. QED
        BY <2>2, <3>8, <3>9, <3>10
    <2>5. QED
      BY <2>3, <2>4
  <1>11. cDist' = [x \in Solution |-> cDist'[x]]
    BY <1>7
  <1>12. \A x \in Solution \ Members(rank) : cDist'[x] = cDist[x]
    BY <1>9
  <1>13. cDist' \in [Solution -> Int]
    <2>1. \A x \in Solution : cDist'[x] \in Int
      <3>1. \A x \in Members(rank) : cDist'[x] \in Int
        BY <1>10
      <3>2. QED
        BY <1>4, <1>12, <3>1
    <2>2. QED
      BY <1>11, <2>1
  <1>14. QED
    BY <1>10, <1>12, <1>13 DEF sofar, whole

LEMMA CrowdGathers ==
    ASSUME RankInv, CostInv, Crowd
    PROVE  CostInv'
  <1> SUFFICES ASSUME NEW n, n = Len(ranks), NEW whole, whole = Unit \div Objectives
               PROVE  CostInv'
    OBVIOUS
  <1>1. /\ pc = "crowd" /\ pc' = "crowd" /\ pc \in Peeled /\ objective <= Objectives
        /\ objective' = objective + 1 /\ UNCHANGED <<ranks, rank, cost>>
    BY DEF Crowd, Peeled, ranking
  <1>2. Gathered /\ n \in Nat /\ \A r \in 1 .. n : Members(r) \in SUBSET Solution
    BY <1>1, RankedFacts DEF CostInv
  <1>3. /\ rank \in 1 .. n + 1 /\ objective \in 1 .. Objectives /\ cost \in [Solution -> Int]
        /\ Objectives \in Nat /\ objective + 1 \in 1 .. Objectives + 1
        /\ \A r \in 1 .. n : \A s \in Members(r) :
             /\ r >= rank => cost[s] = Unit * (r - 1)
             /\ r < rank => Unit * (r - 1) <= cost[s] /\ cost[s] <= Unit * r
             /\ r > rank => cDist[s] = 0
    BY <1>1, <1>2, UnitRange DEF Gathered
  <1>4. /\ cDist' \in [Solution -> Int]
        /\ \A x \in Solution \ Members(rank) : cDist'[x] = cDist[x]
        /\ \A x \in Members(rank) : cDist'[x] \in 0 .. ((objective - 1) * whole + whole)
    BY CrowdAdds
  <1>5. (objective - 1) * whole + whole = ((objective + 1) - 1) * whole
    <2>1. whole \in Int /\ objective \in Int
      BY <1>3, UnitRange
    <2>2. QED
      BY <2>1
  <1>6. \A r : Members(r)' = Members(r)
    BY <1>1 DEF Members
  <1>7. ASSUME NEW r \in 1 .. n, NEW s \in Members(r)
        PROVE  /\ r > rank => cDist'[s] = 0
               /\ r = rank => cDist'[s] \in 0 .. ((objective + 1) - 1) * whole
    <2>1. CASE r = rank
      <3>1. cDist'[s] \in 0 .. ((objective - 1) * whole + whole)
        BY <1>4, <1>7, <2>1
      <3>2. ~ (r > rank)
        BY <1>3, <2>1
      <3>3. QED
        BY <1>5, <3>1, <3>2
    <2>2. CASE r > rank
      <3>1. r # rank /\ rank \in 1 .. n
        BY <1>2, <1>3, <2>2
      <3>2. s \in Solution \ Members(rank)
        <4>1. \A q \in 1 .. n : q # r => s \notin Members(q)
          BY <1>1, <1>7, RankedFacts
        <4>2. QED
          BY <1>2, <1>7, <3>1, <4>1
      <3>3. QED
        BY <1>3, <1>4, <1>7, <2>2, <3>1, <3>2
    <2>3. QED
      BY <2>1, <2>2
  <1>8. Gathered'
    BY <1>1, <1>3, <1>4, <1>6, <1>7 DEF Gathered
  <1>9. QED
    BY <1>1, <1>8 DEF CostInv, Unranked, Peeling

LEMMA CrowdingCosts ==
    ASSUME RankInv, CostInv, CrowdingCost
    PROVE  CostInv'
  <1> SUFFICES ASSUME NEW n, n = Len(ranks)
               PROVE  CostInv'
    OBVIOUS
  <1>1. /\ pc = "crowd" /\ pc' = "crowd" /\ pc \in Peeled /\ rank <= n /\ objective > Objectives
        /\ cost' = [s \in Solution |-> IF s \in Members(rank) THEN cost[s] + cDist[s] ELSE cost[s]]
        /\ rank' = rank + 1 /\ objective' = 1 /\ UNCHANGED <<ranks, cDist>>
    BY DEF CrowdingCost, Peeled, ranking, Members
  <1>2. Gathered /\ n \in Nat /\ \A r \in 1 .. n : Members(r) \in SUBSET Solution
    BY <1>1, RankedFacts DEF CostInv
  <1>3. /\ rank \in 1 .. n /\ objective = Objectives + 1
        /\ cost \in [Solution -> Int] /\ cDist \in [Solution -> Int]
        /\ Objectives \in Nat \ {0} /\ rank + 1 \in 1 .. n + 1 /\ 1 \in 1 .. Objectives + 1
    BY <1>1, <1>2, UnitRange DEF Gathered
  <1>4. \A r \in 1 .. n : \A s \in Members(r) :
             /\ r >= rank => cost[s] = Unit * (r - 1)
             /\ r < rank => Unit * (r - 1) <= cost[s] /\ cost[s] <= Unit * r
             /\ r > rank => cDist[s] = 0
             /\ r = rank => cDist[s] \in 0 .. (objective - 1) * (Unit \div Objectives)
    BY <1>2 DEF Gathered
  <1>5. \A x \in 0 .. (objective - 1) * (Unit \div Objectives) : x \in Nat /\ x <= Unit
    <2>1. (objective - 1) * (Unit \div Objectives) = Objectives * (Unit \div Objectives)
      BY <1>3
    <2>2. Objectives * (Unit \div Objectives) \in Nat
      BY <1>3, UnitRange
    <2>3. Objectives * (Unit \div Objectives) <= Unit /\ Unit \in Nat
      BY UnitRange
    <2>4. \A b, u \in Nat : b <= u => \A x \in 0 .. b : x \in Nat /\ x <= u
      OBVIOUS
    <2>5. QED
      BY ONLY <2>1, <2>2, <2>3, <2>4
  <1>6. cost' \in [Solution -> Int]
    BY <1>1, <1>3
  <1>7. \A r : Members(r)' = Members(r)
    BY <1>1 DEF Members
  <1>8. ASSUME NEW r \in 1 .. n, NEW s \in Members(r)
        PROVE  /\ r >= rank + 1 => cost'[s] = Unit * (r - 1)
               /\ r < rank + 1 => Unit * (r - 1) <= cost'[s] /\ cost'[s] <= Unit * r
               /\ r > rank + 1 => cDist'[s] = 0
               /\ r = rank + 1 => cDist'[s] \in 0 .. (1 - 1) * (Unit \div Objectives)
    <2>1. /\ s \in Solution /\ r \in Nat /\ rank \in Nat
          /\ \A q \in 1 .. n : q # r => s \notin Members(q)
      BY <1>1, <1>2, <1>3, <1>8, RankedFacts
    <2>2. 0 \in 0 .. (1 - 1) * (Unit \div Objectives)
      BY UnitRange
    <2>3. CASE r = rank
      <3>1. cost'[s] = cost[s] + cDist[s]
        BY <1>1, <1>8, <2>1, <2>3
      <3>2. cost[s] = Unit * (r - 1) /\ cDist[s] \in Nat /\ cDist[s] <= Unit
        BY <1>4, <1>5, <1>8, <2>1, <2>3
      <3>3. Unit * r = Unit * (r - 1) + Unit /\ Unit * (r - 1) \in Int /\ Unit \in Nat
        BY <2>1, UnitRange
      <3>4. Unit * (r - 1) <= cost'[s] /\ cost'[s] <= Unit * r
        BY ONLY <3>1, <3>2, <3>3
      <3>5. ~ (r >= rank + 1) /\ ~ (r > rank + 1) /\ r # rank + 1
        BY <2>1, <2>3
      <3>6. QED
        BY <3>4, <3>5
    <2>4. CASE r # rank
      <3>1. cost'[s] = cost[s] /\ cDist'[s] = cDist[s]
        BY <1>1, <1>3, <2>1, <2>4
      <3>2. /\ r >= rank + 1 <=> r > rank
            /\ r < rank + 1 <=> r < rank
            /\ r > rank + 1 => r > rank
            /\ r = rank + 1 => r > rank
            /\ r > rank => r >= rank
        BY <2>1, <2>4
      <3>3. QED
        BY <1>4, <1>8, <2>2, <3>1, <3>2
    <2>5. QED
      BY <2>3, <2>4
  <1>9. Gathered'
    BY <1>1, <1>3, <1>6, <1>7, <1>8 DEF Gathered
  <1>10. QED
    BY <1>1, <1>9 DEF CostInv, Unranked, Peeling

LEMMA CostInit == Init => CostInv
  BY DEF Init, CostInv, Unranked, Peeling

LEMMA CostNext == RankInv /\ CostInv /\ [Next]_vars => CostInv'
  <1> SUFFICES ASSUME RankInv, CostInv, [Next]_vars
               PROVE  CostInv'
    OBVIOUS
  <1>1. CASE Compare \/ Compared \/ Collect \/ Release
    <2>1. /\ UNCHANGED <<cDist, rank, objective, cost>> /\ pc \in Unranked /\ pc' \in Unranked
          /\ pc' \notin {"crowd", "elite", "shuffle", "pick", "done"}
      BY <1>1 DEF Compare, Compared, Collect, Release, crowding, Unranked, Peeling
    <2>2. QED
      BY <2>1 DEF CostInv
  <1>2. CASE CountRanks
    <2>1. /\ pc = "count" /\ pc' = "done" /\ UNCHANGED <<problem, ovec>>
          /\ cost' = [s \in Solution |-> Unit * domCount[s]]
      BY <1>2 DEF CountRanks
    <2>2. row = N + 1 /\ N \in Nat
      BY <2>1, RankingAssumption DEF RankInv, Places
    <2>3. \A s, t \in Solution : Met(s, t)
      BY <2>2 DEF Met, Solution
    <2>4. \A s \in Solution : {t \in Dominators(s) : Met(s, t)} = Dominators(s)
      BY <2>3 DEF Dominators
    <2>5. \A s \in Solution : domCount[s] = Cardinality(Dominators(s)) /\ domCount[s] \in Int
      BY <2>1, <2>4 DEF RankInv, Counted
    <2>6. \A s : Dominators(s)' = Dominators(s)
      BY <2>1, RelationStays
    <2>7. \A s \in Solution : Unit * domCount[s] \in Int
      BY <2>5, UnitRange
    <2>8. QED
      BY <2>1, <2>5, <2>6, <2>7 DEF CostInv, Unranked, Peeling
  <1>3. CASE Score
    BY <1>3, ScorePrices
  <1>4. CASE Crowd
    BY <1>4, CrowdGathers
  <1>5. CASE CrowdingCost
    BY <1>5, CrowdingCosts
  <1>6. CASE Crowded
    <2>1. /\ pc = "crowd" /\ pc' = "elite" /\ pc \in Peeled /\ rank > Len(ranks)
          /\ UNCHANGED <<ranks, cost>>
      BY <1>6 DEF Crowded, Peeled, ranking
    <2>2. Len(ranks) \in Nat /\ Gathered
      BY <2>1, RankedFacts DEF CostInv
    <2>3. \A r \in 1 .. Len(ranks) : r < rank
      BY <2>1, <2>2 DEF Gathered
    <2>4. Priced
      BY <2>2, <2>3 DEF Gathered, Priced
    <2>5. Priced'
      BY <2>1, <2>4 DEF Priced, Members
    <2>6. QED
      BY <2>1, <2>5 DEF CostInv, Unranked, Peeling
  <1>7. CASE Elite \/ Shuffle \/ Pick
    <2>1. /\ pc \in {"elite", "shuffle", "pick"} /\ pc' \in {"shuffle", "pick", "done"}
          /\ pc \in Peeled /\ UNCHANGED <<ranks, cost, problem>>
      BY <1>7 DEF Elite, Shuffle, Pick, Peeled, ranking
    <2>2. Priced /\ ~ problem.moga
      BY <2>1, RankedFacts DEF CostInv
    <2>3. Priced'
      BY <2>1, <2>2 DEF Priced, Members
    <2>4. QED
      BY <2>1, <2>2, <2>3 DEF CostInv, Unranked, Peeling, Priced
  <1>8. CASE UNCHANGED vars
    <2>1. UNCHANGED <<problem, ovec, pc, ranks, cost, cDist, rank, objective>>
      BY <1>8 DEF vars, ranking, crowding
    <2>2. \A s : Dominators(s)' = Dominators(s)
      BY <2>1, RelationStays
    <2>3. QED
      BY <2>1, <2>2 DEF CostInv, Gathered, Priced, Members
  <1>9. QED
    BY <1>1, <1>2, <1>3, <1>4, <1>5, <1>6, <1>7, <1>8 DEF Next

LEMMA CostsStand == Spec => []CostInv
  BY RanksStand, CostInit, CostNext, PTL DEF Spec

(* However crowded, a better solution never costs more.                    *)
THEOREM PreferredIsAlwaysCheaper == Spec => []PreferredIsCheaper
  <1>1. RankInv /\ CostInv => PreferredIsCheaper
    <2> SUFFICES ASSUME RankInv, CostInv, pc = "elite" \/ (pc = "done" /\ problem.moga),
                        NEW a \in Solution, NEW b \in Solution, BetterThan(a, b)
                 PROVE  cost[a] <= cost[b]
      BY DEF PreferredIsCheaper
    <2>1. CASE pc = "elite"
      <3>1. /\ Len(ranks) \in Nat /\ Priced
            /\ \A r \in 1 .. Len(ranks) : \A s \in Members(r) : Dominators(s) \subseteq Earlier(r)
            /\ \A s \in Solution : \E r \in 1 .. Len(ranks) : s \in Members(r)
        BY <2>1, RankedFacts DEF CostInv, Peeled
      <3>2. PICK r \in 1 .. Len(ranks) : b \in Members(r)
        BY <3>1
      <3>3. PICK q \in 1 .. r - 1 : a \in Members(q)
        BY <3>1, <3>2 DEF Dominators, Earlier
      <3>4. q \in 1 .. Len(ranks) /\ q \in Int /\ r - 1 \in Int /\ q <= r - 1
        BY <3>1
      <3>5. Unit * q <= Unit * (r - 1) /\ Unit * q \in Int /\ Unit * (r - 1) \in Int
        BY <3>4, UnitRange, Times
      <3>6. cost[a] <= Unit * q /\ Unit * (r - 1) <= cost[b] /\ cost[a] \in Int /\ cost[b] \in Int
        BY <3>1, <3>2, <3>3, <3>4 DEF Priced
      <3>7. QED
        BY ONLY <3>5, <3>6
    <2>2. CASE pc = "done" /\ problem.moga
      <3>1. /\ cost[a] = Unit * Cardinality(Dominators(a)) /\ cost[b] = Unit * Cardinality(Dominators(b))
            /\ Given
        BY <2>2 DEF CostInv, RankInv
      <3>2. Dominators(a) \in SUBSET Dominators(b)
        BY <3>1, BetterChains DEF Dominators
      <3>3. Dominators(a) \in SUBSET Solution /\ Dominators(b) \in SUBSET Solution
        BY DEF Dominators
      <3>4. /\ IsFiniteSet(Dominators(b))
            /\ Cardinality(Dominators(a)) \in Nat /\ Cardinality(Dominators(b)) \in Nat
        BY <3>3, Finitely
      <3>5. Cardinality(Dominators(a)) <= Cardinality(Dominators(b))
        BY ONLY <3>2, <3>4, FS_Subset
      <3>6. Unit * Cardinality(Dominators(a)) <= Unit * Cardinality(Dominators(b))
        BY <3>4, <3>5, UnitRange, Times
      <3>7. QED
        BY <3>1, <3>6
    <2>3. QED
      BY <2>1, <2>2
  <1>2. QED
    BY <1>1, RanksStand, CostsStand, PTL
-----------------------------------------------------------------------------
(* The tournaments. A round pairs every elite once, so at its end each has *)
(* a winner that is not dearer; the first round always ends.               *)
Beaten(e) == \E w \in ToSet(winners) : cost[w] <= cost[e]

ElitesInv ==
    /\ pc \in {"shuffle", "pick"} => Closed(elites)
    /\ pc \notin {"pick", "done"} => winners = <<>>
    /\ pc = "pick" =>
         /\ at \in 0 .. EliteSize - 1 /\ order \in Orders
         /\ winners \in Seq(ToSet(elites)) /\ Len(winners) < EliteSize
         /\ \/ \A e \in ToSet(elites) : Beaten(e)
            \/ /\ 2 * Len(winners) = at
               /\ \A i \in 1 .. at : Beaten(elites[order[i]])
    /\ pc = "done" /\ winners # <<>> =>
         /\ elites \in Seq(Solution) /\ Len(elites) = EliteSize /\ EliteSize \in Nat \ {0}
         /\ winners \in Seq(ToSet(elites)) /\ Len(winners) = EliteSize
         /\ \A e \in ToSet(elites) : Beaten(e)

LEMMA ElitesInit == Init => ElitesInv
  BY DEF Init, ElitesInv

LEMMA OrderOf ==
    ASSUME NEW n \in Nat, n = Len(elites), NEW o \in Orders
    PROVE  o \in [1 .. n -> 1 .. n] /\ \A j \in 1 .. n : \E i \in 1 .. n : o[i] = j
  <1>1. CASE problem.shuffled
    <2>1. o \in [1 .. n -> 1 .. n] /\ ToSet(o) = 1 .. n
      BY <1>1 DEF Orders
    <2>2. QED
      BY <2>1 DEF ToSet
  <1>2. CASE ~ problem.shuffled
    <2>1. o = [i \in 1 .. n |-> i]
      BY <1>2 DEF Orders
    <2>2. QED
      BY <2>1
  <1>3. QED
    BY <1>1, <1>2

LEMMA PickKeeps ==
    ASSUME RankInv, CostInv, ElitesInv, Pick
    PROVE  ElitesInv'
  <1> SUFFICES ASSUME NEW n, n = EliteSize
               PROVE  ElitesInv'
    OBVIOUS
  <1>1. pc = "pick" /\ pc \in Peeled /\ UNCHANGED <<problem, ovec, cost, elites>>
    BY DEF Pick, Peeled
  <1>2. /\ elites \in Seq(Solution) /\ Len(elites) = n /\ Closed(elites)
        /\ at \in 0 .. n - 1 /\ order \in Orders /\ n \in Nat
        /\ winners \in Seq(ToSet(elites)) /\ Len(winners) \in Nat /\ Len(winners) < n
        /\ \/ \A e \in ToSet(elites) : Beaten(e)
           \/ /\ 2 * Len(winners) = at
              /\ \A i \in 1 .. at : Beaten(elites[order[i]])
    BY <1>1, EliteSizeRange DEF ElitesInv, Closed
  <1>3. order \in [1 .. n -> 1 .. n] /\ \A j \in 1 .. n : \E i \in 1 .. n : order[i] = j
    BY <1>2, OrderOf
  <1>4. DOMAIN elites = 1 .. n /\ \A i \in 1 .. n : elites[order[i]] \in ToSet(elites)
    <2>1. DOMAIN elites = 1 .. n
      BY <1>2
    <2>2. \A i \in 1 .. n : elites[i] \in ToSet(elites)
      BY <2>1 DEF ToSet
    <2>3. QED
      BY <1>3, <2>1, <2>2
  <1>5. ToSet(elites) \in SUBSET Solution /\ cost \in [Solution -> Int]
    BY <1>1, <1>2 DEF ToSet, CostInv, Priced
  <1> DEFINE other == IF at = n - 1 THEN at + 1 ELSE at + 2
             w == Winner(elites[order[at + 1]], elites[order[other]])
  <1>6. /\ winners' = Append(winners, w)
        /\ pc' = IF Len(winners') < n THEN "pick" ELSE "done"
        /\ IF pc' = "pick" /\ at + 2 >= n
           THEN at' = 0 /\ order' \in Orders
           ELSE at' = at + 2 /\ order' = order
    BY <1>2 DEF Pick
  <1>7. at + 1 \in 1 .. n /\ other \in 1 .. n
    BY <1>2
  <1>8. /\ w \in ToSet(elites) /\ cost[w] <= cost[elites[order[at + 1]]]
        /\ cost[w] <= cost[elites[order[other]]]
    <2>1. ASSUME NEW a \in ToSet(elites), NEW b \in ToSet(elites)
          PROVE  Winner(a, b) \in ToSet(elites) /\ cost[Winner(a, b)] <= cost[a]
                                                 /\ cost[Winner(a, b)] <= cost[b]
      <3>1. cost[a] \in Int /\ cost[b] \in Int
        BY <1>5
      <3>2. QED
        BY <3>1 DEF Winner
    <2>2. QED
      BY <1>4, <1>7, <2>1
  <1> HIDE DEF w
  <1>9. /\ winners' \in Seq(ToSet(elites)) /\ Len(winners') = Len(winners) + 1
        /\ ToSet(winners') = ToSet(winners) \cup {w} /\ winners' # <<>>
    <2>1. /\ winners' \in Seq(ToSet(elites)) /\ Len(winners') = Len(winners) + 1
          /\ \A i \in 1 .. Len(winners) : winners'[i] = winners[i]
          /\ winners'[Len(winners) + 1] = w
      BY <1>2, <1>6, <1>8
    <2>2. /\ DOMAIN winners = 1 .. Len(winners) /\ DOMAIN winners' = 1 .. Len(winners) + 1
          /\ \A i : i \in 1 .. Len(winners) + 1 <=> i \in 1 .. Len(winners) \/ i = Len(winners) + 1
      BY <1>2, <2>1
    <2>3. ToSet(winners') = ToSet(winners) \cup {w}
      BY <2>1, <2>2 DEF ToSet
    <2>4. winners' # <<>>
      BY <1>2, <2>1
    <2>5. QED
      BY <2>1, <2>3, <2>4
  <1> DEFINE Meets(e) == \E x \in ToSet(winners') : cost[x] <= cost[e]
  <1>10. /\ \A e : Beaten(e) => Meets(e)
         /\ Meets(elites[order[at + 1]]) /\ Meets(elites[order[other]])
    BY <1>8, <1>9 DEF Beaten
  <1>11. (\A e \in ToSet(elites) : Beaten(e)) => \A e \in ToSet(elites) : Meets(e)
    BY <1>10
  <1>12. ASSUME 2 * Len(winners) = at, \A i \in 1 .. at : Beaten(elites[order[i]]), at + 2 >= n
         PROVE  \A e \in ToSet(elites) : Meets(e)
    <2>1. \A i \in 1 .. n : i \in 1 .. at \/ i = at + 1 \/ i = other
      BY <1>2, <1>12
    <2>2. \A i \in 1 .. n : Meets(elites[order[i]])
      BY <1>10, <1>12, <2>1
    <2>3. ASSUME NEW e \in ToSet(elites)
          PROVE  \E i \in 1 .. n : elites[order[i]] = e
      <3>1. PICK j \in 1 .. n : elites[j] = e
        BY <1>4 DEF ToSet
      <3>2. QED
        BY <1>3, <3>1
    <2>4. QED
      BY <2>2, <2>3
  <1>13. ASSUME 2 * Len(winners) = at, \A i \in 1 .. at : Beaten(elites[order[i]]), ~ (at + 2 >= n)
         PROVE  /\ at' = at + 2 /\ order' = order /\ pc' = "pick"
                /\ 2 * Len(winners') = at' /\ at' \in 0 .. n - 1
                /\ \A i \in 1 .. at' : Meets(elites[order'[i]])
    <2>1. Len(winners') < n
      BY <1>2, <1>9, <1>13
    <2>2. at' = at + 2 /\ order' = order /\ pc' = "pick"
      BY <1>6, <1>13, <2>1
    <2>3. other = at + 2
      BY <1>2, <1>13
    <2>4. \A i \in 1 .. at + 2 : i \in 1 .. at \/ i = at + 1 \/ i = at + 2
      BY <1>2
    <2>5. \A i \in 1 .. at + 2 : Meets(elites[order[i]])
      BY <1>10, <1>13, <2>3, <2>4
    <2>6. 2 * Len(winners') = at + 2 /\ at + 2 \in 0 .. n - 1
      BY <1>2, <1>9, <1>13
    <2>7. QED
      BY <2>2, <2>5, <2>6
  <1>14. \/ \A e \in ToSet(elites) : Meets(e)
         \/ /\ 2 * Len(winners') = at' /\ pc' = "pick"
            /\ \A i \in 1 .. at' : Meets(elites[order'[i]])
    <2> HIDE DEF Meets
    <2>1. CASE \A e \in ToSet(elites) : Beaten(e)
      BY <1>11, <2>1
    <2>2. CASE 2 * Len(winners) = at /\ \A i \in 1 .. at : Beaten(elites[order[i]])
      <3>1. CASE at + 2 >= n
        BY <1>12, <2>2, <3>1
      <3>2. CASE ~ (at + 2 >= n)
        BY <1>13, <2>2, <3>2
      <3>3. QED
        BY <3>1, <3>2
    <2>3. QED
      BY <1>2, <2>1, <2>2
  <1> HIDE DEF Meets, other
  <1>15. /\ \A e : Dominators(e)' = Dominators(e)
         /\ EliteSize' = EliteSize /\ elites' = elites
    BY <1>1, RelationStays DEF EliteSize
  <1>16. Closed(elites)'
    BY <1>2, <1>15 DEF Closed
  <1>17. \A e : Beaten(e)' <=> Meets(e)
    BY <1>1 DEF Beaten, Meets
  <1>18. \A i : Beaten(elites[order[i]])' <=> Meets(elites[order'[i]])
    BY <1>1 DEF Beaten, Meets
  <1>19. CASE pc' = "pick"
    <2>1. Len(winners') < n
      BY <1>6, <1>19
    <2>2. at' \in 0 .. n - 1 /\ order' \in Orders'
      <3>1. Orders' = Orders
        BY <1>1 DEF Orders
      <3>2. QED
        BY <1>2, <1>6, <1>19, <3>1
    <2>3. QED
      BY <1>9, <1>14, <1>15, <1>16, <1>17, <1>18, <1>19, <2>1, <2>2 DEF ElitesInv
  <1>20. CASE pc' = "done"
    <2>1. Len(winners') = n /\ n \in Nat \ {0}
      <3>1. ~ (Len(winners') < n)
        BY <1>6, <1>20
      <3>2. QED
        BY <1>2, <1>9, <3>1
    <2>2. \A e \in ToSet(elites) : Meets(e)
      BY <1>14, <1>20
    <2>3. QED
      BY <1>2, <1>9, <1>15, <1>17, <1>20, <2>1, <2>2 DEF ElitesInv
  <1>21. QED
    BY <1>6, <1>19, <1>20

LEMMA ElitesNext == RankInv /\ CostInv /\ ElitesInv /\ [Next]_vars => ElitesInv'
  <1> SUFFICES ASSUME RankInv, CostInv, ElitesInv, [Next]_vars
               PROVE  ElitesInv'
    OBVIOUS
  <1>1. CASE Compare \/ Compared \/ CountRanks \/ Collect \/ Release \/ Score
             \/ Crowd \/ CrowdingCost \/ Crowded
    <2>1. pc \notin {"pick", "done"} /\ winners' = winners /\ pc' \notin {"shuffle", "pick"}
      BY <1>1 DEF Compare, Compared, CountRanks, Collect, Release, Score, Crowd, CrowdingCost,
                  Crowded, tournament
    <2>2. QED
      BY <2>1 DEF ElitesInv
  <1>2. CASE Elite
    <2>1. pc = "elite" /\ pc' = "shuffle" /\ winners' = winners /\ UNCHANGED <<problem, ovec>>
      BY <1>2 DEF Elite, tournament
    <2>2. (\A s : Dominators(s)' = Dominators(s)) /\ EliteSize' = EliteSize
      BY <2>1, RelationStays DEF EliteSize
    <2>3. Closed(elites')
      BY <1>2, EliteIsClosed
    <2>4. Closed(elites)'
      BY <2>2, <2>3 DEF Closed
    <2>5. QED
      BY <2>1, <2>4 DEF ElitesInv
  <1>3. CASE Shuffle
    <2>1. /\ pc = "shuffle" /\ pc' \in {"pick", "done"} /\ at' = 0 /\ order' \in Orders
          /\ (pc' = "pick" => EliteSize # 0) /\ winners = <<>> /\ winners' = <<>>
          /\ Closed(elites) /\ UNCHANGED <<problem, ovec, elites>>
      BY <1>3 DEF Shuffle, ElitesInv
    <2>2. (\A s : Dominators(s)' = Dominators(s)) /\ EliteSize' = EliteSize /\ Orders' = Orders
      BY <2>1, RelationStays DEF EliteSize, Orders
    <2>3. Closed(elites)'
      BY <2>1, <2>2 DEF Closed
    <2>4. EliteSize \in Nat /\ (EliteSize # 0 => 0 \in 0 .. EliteSize - 1 /\ 0 < EliteSize)
      BY EliteSizeRange
    <2>5. /\ winners' \in Seq(ToSet(elites)) /\ Len(winners') = 0 /\ 2 * 0 = 0
          /\ \A i \in 1 .. 0 : FALSE
      BY <2>1
    <2>6. QED
      BY <2>1, <2>2, <2>3, <2>4, <2>5 DEF ElitesInv
  <1>4. CASE Pick
    BY <1>4, PickKeeps
  <1>5. CASE UNCHANGED vars
    <2>1. UNCHANGED <<problem, ovec, pc, cost, elites, order, at, winners>>
      BY <1>5 DEF vars, tournament
    <2>2. /\ \A s : Dominators(s)' = Dominators(s)
          /\ EliteSize' = EliteSize /\ Orders' = Orders
      BY <2>1, RelationStays DEF EliteSize, Orders
    <2>3. \A e : Beaten(e)' <=> Beaten(e)
      BY <2>1 DEF Beaten
    <2>4. Closed(elites)' <=> Closed(elites)
      BY <2>1, <2>2 DEF Closed
    <2>5. \A i : Beaten(elites[order[i]])' <=> Beaten(elites[order[i]])
      BY <2>1 DEF Beaten
    <2>6. QED
      BY <2>1, <2>2, <2>3, <2>4, <2>5 DEF ElitesInv
  <1>6. QED
    BY <1>1, <1>2, <1>3, <1>4, <1>5 DEF Next

LEMMA ElitesStand == Spec => []ElitesInv
  BY RanksStand, CostsStand, ElitesInit, ElitesNext, PTL DEF Spec

(* The elite set has its size, and no better solution is left out of it.   *)
THEOREM ElitesAlwaysBest == Spec => []ElitesBest
  <1>1. ElitesInv => ElitesBest
    <2> SUFFICES ASSUME ElitesInv, pc = "shuffle"
                 PROVE  /\ Len(elites) = EliteSize /\ Cardinality(ToSet(elites)) = EliteSize
                        /\ \A a \in Solution \ ToSet(elites), b \in ToSet(elites) : ~ BetterThan(a, b)
      BY DEF ElitesBest
    <2>1. Closed(elites)
      BY DEF ElitesInv
    <2>2. Cardinality(ToSet(elites)) = Len(elites)
      BY <2>1, DistinctCounts DEF Closed
    <2>3. QED
      BY <2>1, <2>2 DEF Closed, Dominators
  <1>2. QED
    BY <1>1, ElitesStand, PTL

(* One of a sequence of solutions is not dearer than any other.            *)
LEMMA CheapestOf ==
    ASSUME NEW q \in Seq(Solution), Len(q) # 0, cost \in [Solution -> Int]
    PROVE  \E c \in ToSet(q) : \A e \in ToSet(q) : cost[c] <= cost[e]
  <1> SUFFICES ASSUME NEW n, n = Len(q)
               PROVE  \E c \in ToSet(q) : \A e \in ToSet(q) : cost[c] <= cost[e]
    OBVIOUS
  <1> DEFINE S == {m \in 0 .. n : m = 0 \/ \E i \in 1 .. m : \A j \in 1 .. m : cost[q[i]] <= cost[q[j]]}
  <1>1. n \in Nat \ {0} /\ DOMAIN q = 1 .. n /\ \A i \in 1 .. n : cost[q[i]] \in Int
    OBVIOUS
  <1>2. 0 \in S
    BY <1>1
  <1>3. ASSUME NEW m \in 1 .. n, m - 1 \in S
        PROVE  m \in S
    <2>1. \A j \in 1 .. m : j \in 1 .. n /\ (j = m \/ j \in 1 .. m - 1)
      BY <1>1
    <2>2. m \in 0 .. n /\ m \in 1 .. m /\ \A j \in 1 .. m - 1 : j \in 1 .. m
      BY <1>1
    <2>3. CASE m - 1 = 0
      <3>1. \A j \in 1 .. m : cost[q[m]] <= cost[q[j]]
        BY <1>1, <2>1, <2>3
      <3>2. QED
        BY <2>2, <3>1
    <2>4. CASE m - 1 # 0
      <3>1. PICK i \in 1 .. m - 1 : \A j \in 1 .. m - 1 : cost[q[i]] <= cost[q[j]]
        BY <1>3, <2>4
      <3>2. i \in 1 .. m /\ cost[q[i]] \in Int /\ cost[q[m]] \in Int
        BY <1>1, <2>1, <2>2
      <3>3. CASE cost[q[i]] <= cost[q[m]]
        <4>1. \A j \in 1 .. m : cost[q[i]] <= cost[q[j]]
          BY <2>1, <3>1, <3>3
        <4>2. QED
          BY <2>2, <3>2, <4>1
      <3>4. CASE ~ (cost[q[i]] <= cost[q[m]])
        <4>1. \A j \in 1 .. m : cost[q[m]] <= cost[q[j]]
          <5>1. ASSUME NEW j \in 1 .. m
                PROVE  cost[q[m]] <= cost[q[j]]
            <6>1. cost[q[j]] \in Int
              BY <1>1, <2>1
            <6>2. j = m \/ cost[q[i]] <= cost[q[j]]
              BY <2>1, <3>1
            <6>3. QED
              BY <3>2, <3>4, <6>1, <6>2
          <5>2. QED
            BY <5>1
        <4>2. QED
          BY <2>2, <4>1
      <3>5. QED
        BY <3>3, <3>4
    <2>5. QED
      BY <2>3, <2>4
  <1> HIDE DEF S
  <1>4. \A m \in 0 .. n : m \in S
    BY <1>1, <1>2, <1>3, Upto
  <1>5. PICK i \in 1 .. n : \A j \in 1 .. n : cost[q[i]] <= cost[q[j]]
    <2>1. n \in 0 .. n /\ n # 0
      BY <1>1
    <2>2. QED
      BY <1>4, <2>1 DEF S
  <1>6. QED
    BY <1>1, <1>5 DEF ToSet

(* Whatever the permutations, an elite of the lowest cost is a parent.     *)
THEOREM BestAlwaysBreeds == Spec => []BestBreeds
  <1>1. CostInv /\ ElitesInv => BestBreeds
    <2> SUFFICES ASSUME CostInv, ElitesInv, pc = "done", winners # <<>>
                 PROVE  /\ \E w \in ToSet(winners) : \A e \in ToSet(elites) : cost[w] <= cost[e]
                        /\ Len(winners) = Len(elites) /\ ToSet(winners) \subseteq ToSet(elites)
      BY DEF BestBreeds
    <2>1. /\ elites \in Seq(Solution) /\ Len(elites) = EliteSize /\ EliteSize \in Nat \ {0}
          /\ winners \in Seq(ToSet(elites)) /\ Len(winners) = EliteSize
          /\ \A e \in ToSet(elites) : Beaten(e)
          /\ cost \in [Solution -> Int]
      BY DEF ElitesInv, CostInv
    <2>2. ToSet(winners) \subseteq ToSet(elites) /\ ToSet(elites) \subseteq Solution
      <3>1. \A X : \A s \in Seq(X) : ToSet(s) \subseteq X
        BY DEF ToSet
      <3>2. QED
        BY <2>1, <3>1
    <2>3. PICK c \in ToSet(elites) : \A e \in ToSet(elites) : cost[c] <= cost[e]
      BY <2>1, CheapestOf
    <2>4. PICK w \in ToSet(winners) : cost[w] <= cost[c]
      BY <2>1 DEF Beaten
    <2>5. \A e \in ToSet(elites) : cost[w] <= cost[e]
      <3>1. \A e \in ToSet(elites) : cost[e] \in Int
        BY <2>1, <2>2
      <3>2. cost[w] \in Int /\ cost[c] \in Int
        BY <2>2, <3>1
      <3>3. QED
        BY <2>3, <2>4, <3>1, <3>2
    <2>6. QED
      BY <2>1, <2>2, <2>5
  <1>2. QED
    BY <1>1, CostsStand, ElitesStand, PTL
-----------------------------------------------------------------------------
(* Why the peeling ends: as long as solutions are left, one of them is not *)
(* dominated by another, so each rank takes at least one.                  *)
LEMMA SomebodyIsFree ==
    ASSUME RankInv, pc = "collect", Collected # Solution
    PROVE  \E s \in Solution : domCount[s] = 0
  <1> DEFINE left == Solution \ Collected
             S == {n \in Nat : \E s \in left : Cardinality(Dominators(s)) = n}
             Less == {p \in Nat \X Nat : p[1] < p[2]}
  <1>1. /\ Given /\ Collected \in SUBSET Solution
        /\ \A s \in left : domCount[s] = Cardinality(Dominators(s) \ Collected)
    BY PeelingFacts DEF RankInv, Marked, Peeling
  <1>2. \A s \in Solution : /\ Dominators(s) \in SUBSET Solution /\ IsFiniteSet(Dominators(s))
                            /\ Cardinality(Dominators(s)) \in Nat
    <2>1. \A s \in Solution : Dominators(s) \in SUBSET Solution
      BY DEF Dominators
    <2>2. QED
      BY <2>1, Finitely
  <1>3. S \subseteq Nat /\ S # {}
    BY <1>1, <1>2
  <1>4. IsWellFoundedOn(Less, Nat)
    BY NatLessThanWellFounded DEF OpToRel
  <1>5. PICK n \in S : \A m \in S : ~ (<<m, n>> \in Less)
    BY ONLY <1>3, <1>4, WFMin
  <1>6. PICK s \in left : Cardinality(Dominators(s)) = n
    BY <1>5
  <1>7. ASSUME NEW t \in Dominators(s), t \notin Collected
        PROVE  FALSE
    <2>1. t \in left /\ BetterThan(t, s) /\ s \in Solution
      BY <1>6, <1>7 DEF Dominators
    <2>2. Dominators(t) \in SUBSET Dominators(s) /\ t \notin Dominators(t)
      BY <1>1, <2>1, BetterChains, NotBetterThanItself DEF Dominators
    <2>3. IsFiniteSet(Dominators(s)) /\ Cardinality(Dominators(t)) \in Nat /\ n \in Nat
      BY <1>2, <1>5, <2>1
    <2>4. Cardinality(Dominators(t)) <= n /\ Cardinality(Dominators(t)) # n
      <3>1. Dominators(t) # Dominators(s)
        BY <1>7, <2>2
      <3>2. QED
        BY ONLY <1>6, <2>2, <2>3, <3>1, FS_Subset
    <2>5. Cardinality(Dominators(t)) \in S
      BY <2>1, <2>3
    <2>6. <<Cardinality(Dominators(t)), n>> \in Less
      BY <2>3, <2>4
    <2>7. QED
      BY <1>5, <2>5, <2>6
  <1>8. Dominators(s) \ Collected = {}
    BY <1>7
  <1>9. domCount[s] = 0
    BY <1>1, <1>6, <1>8, FS_EmptySet
  <1>10. QED
    BY <1>6, <1>9

Filled == pc \in Peeling => \A r \in 1 .. Len(ranks) : ranks[r] # <<>>

(* The loop is never left or stopped before every solution has a rank: the *)
(* next rank is not empty and there are fewer ranks than solutions.        *)
NeverStalls ==
    pc = "collect" /\ Collected # Solution => Having(0) # <<>> /\ Len(ranks) < N

LEMMA RankIsFilled ==
    ASSUME RankInv, pc = "collect", Collected # Solution
    PROVE  Having(0) # <<>>
  <1> DEFINE new == {s \in Solution : domCount[s] = 0}
  <1>1. new \in SUBSET Solution /\ new # {}
    BY SomebodyIsFree
  <1>2. ToSet(Having(0)) = new
    <2> HIDE DEF new
    <2>1. ToSet(InOrder(new)) = new
      BY <1>1, InOrderLists
    <2>2. QED
      BY <2>1 DEF Having, new
  <1>3. ToSet(<<>>) = {}
    BY DEF ToSet
  <1>4. QED
    BY <1>1, <1>2, <1>3

LEMMA RanksFilled == Spec => []Filled
  <1>1. Init => Filled
    BY DEF Init, Filled, Peeling
  <1>2. RankInv /\ Filled /\ [Next]_vars => Filled'
    <2> SUFFICES ASSUME RankInv, Filled, [Next]_vars, NEW n, n = Len(ranks)
                 PROVE  Filled'
      OBVIOUS
    <2>1. CASE Compare \/ CountRanks \/ Score \/ Crowd \/ CrowdingCost \/ Crowded
               \/ Elite \/ Shuffle \/ Pick
      <3>1. pc' \notin Peeling
        BY <2>1 DEF Compare, CountRanks, Score, Crowd, CrowdingCost, Crowded, Elite, Shuffle,
                    Pick, Peeling
      <3>2. QED
        BY <3>1 DEF Filled
    <2>2. CASE Compared
      <3>1. pc = "compare" /\ ranks' = ranks
        BY <2>2 DEF Compared, ranking
      <3>2. ranks' = <<>>
        BY <3>1 DEF RankInv, Counted
      <3>3. QED
        BY <3>2 DEF Filled
    <2>3. CASE Collect
      <3>1. pc = "collect" /\ pc \in Peeling /\ Collected # Solution /\ ranks' = Append(ranks, Having(0))
        BY <2>3 DEF Collect, Peeling
      <3>2. ranks \in Seq(Seq(Solution)) /\ n \in Nat /\ Having(0) # <<>>
        BY <3>1, PeelingFacts, RankIsFilled
      <3>3. /\ Len(ranks') = n + 1 /\ ranks'[n + 1] = Having(0)
            /\ \A r \in 1 .. n : ranks'[r] = ranks[r]
        BY <3>1, <3>2
      <3>4. \A r \in 1 .. n + 1 : r \in 1 .. n \/ r = n + 1
        BY <3>2
      <3>5. \A r \in 1 .. n : ranks[r] # <<>>
        BY <3>1 DEF Filled
      <3>6. \A r \in 1 .. n + 1 : ranks'[r] # <<>>
        BY <3>2, <3>3, <3>4, <3>5
      <3>7. QED
        BY <3>3, <3>6 DEF Filled
    <2>4. CASE Release \/ UNCHANGED vars
      <3>1. ranks' = ranks /\ (pc' \in Peeling => pc \in Peeling)
        BY <2>4 DEF Release, vars, ranking, Peeling
      <3>2. QED
        BY <3>1 DEF Filled
    <2>5. QED
      BY <2>1, <2>2, <2>3, <2>4 DEF Next
  <1>3. QED
    BY <1>1, <1>2, RanksStand, PTL DEF Spec

(* For any set and relation, the peeling never comes to a halt before all  *)
(* solutions are in ranks: the reason why sortRanksNonDomOriginal() ends.  *)
THEOREM PeelingNeverStalls == Spec => []NeverStalls
  <1>1. ASSUME RankInv, Filled, pc = "collect", Collected # Solution
        PROVE  Having(0) # <<>> /\ Len(ranks) < N
    <2> SUFFICES ASSUME NEW n, n = Len(ranks)
                 PROVE  n < N
      BY <1>1, RankIsFilled
    <2>1. /\ n \in Nat /\ N \in Nat /\ Collected \in SUBSET Solution
          /\ \A r \in 1 .. n :
               /\ Members(r) \in SUBSET Solution /\ Members(r) \subseteq Collected
               /\ \A s \in Members(r) : \A q \in 1 .. n : q # r => s \notin Members(q)
               /\ ranks[r] \in Seq(Solution) /\ ranks[r] # <<>>
      <3>1. \A r \in 1 .. n : ranks[r] \in Seq(Solution)
        BY <1>1, PeelingFacts DEF Peeling
      <3>2. QED
        BY <1>1, <3>1, PeelingFacts DEF Peeling, Filled
    <2>2. \A r \in 1 .. n : Members(r) # {}
      <3>1. ASSUME NEW q \in Seq(Solution), q # <<>>
            PROVE  ToSet(q) # {}
        <4>1. 1 \in DOMAIN q
          BY <3>1
        <4>2. QED
          BY <4>1 DEF ToSet
      <3>2. QED
        BY <2>1, <3>1 DEF Members
    <2> DEFINE one == [r \in 1 .. n |-> CHOOSE s \in Members(r) : TRUE]
    <2>3. \A r \in 1 .. n : one[r] \in Members(r)
      BY <2>2
    <2>4. one \in [1 .. n -> Collected]
      BY <2>1, <2>3
    <2> HIDE DEF one
    <2>5. \A q, r \in 1 .. n : one[q] = one[r] => q = r
      BY <2>1, <2>3
    <2>6. one \in Injection(1 .. n, Collected)
      BY ONLY <2>4, <2>5, Fun_IsInj
    <2>7. IsFiniteSet(Collected) /\ Cardinality(Collected) \in Nat
      BY <2>1, Finitely
    <2>8. n <= Cardinality(Collected)
      <3>1. Cardinality(1 .. n) <= Cardinality(Collected)
        BY ONLY <2>6, <2>7, FS_Injection
      <3>2. Cardinality(1 .. n) = n
        BY ONLY <2>1, FS_Interval
      <3>3. QED
        BY <3>1, <3>2
    <2>9. Cardinality(Collected) < N
      <3>1. IsFiniteSet(Solution) /\ Cardinality(Solution) = N
        <4>1. N \in Nat
          BY <2>1
        <4>2. QED
          BY ONLY <4>1, FS_Interval DEF Solution
      <3>2. Cardinality(Collected) <= N /\ Cardinality(Collected) # N
        BY ONLY <1>1, <2>1, <3>1, FS_Subset
      <3>3. QED
        BY <2>1, <2>7, <3>2
    <2>10. QED
      BY <2>1, <2>7, <2>8, <2>9
  <1>2. RankInv /\ Filled => NeverStalls
    BY <1>1 DEF NeverStalls
  <1>3. QED
    BY <1>2, RanksStand, RanksFilled, PTL
=============================================================================
