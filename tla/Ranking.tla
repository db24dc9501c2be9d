------------------------------ MODULE Ranking ------------------------------
(***************************************************************************)
(* One generation's selection: the set is ranked by the relation the       *)
(* problem calls for (dominance, preferability, constraint handling),      *)
(* NonDominanceRanking or MOGANonDominanceRanking turns the comparisons    *)
(* into ranks, NSGAIICrowding refines the costs, NSGAIIEliteSelection      *)
(* keeps the best and TournamentFiltrationForDirection picks the parents.  *)
(***************************************************************************)
EXTENDS Integers, Sequences, FiniteSets, SequencesExt

CONSTANTS
    N,          \* the number of solutions of the input set
    Objectives, \* the number of objectives
    Values,     \* the values objectives and goals can take
    Vectors,    \* the objective vectors that solutions can have
    Problems,   \* what is set in the problem and in the operators
    Ratio,      \* the elite ratio in per cent
    Unit        \* the cost of one rank; crowding adds at most this

Solution  == 1 .. N
Objective == 1 .. Objectives

ASSUME RankingAssumption ==
    /\ N \in Nat \ {0} /\ Objectives \in Nat \ {0} /\ Values \subseteq Int
    /\ Vectors \subseteq [Objective -> Values]
    /\ Ratio \in 0 .. 100 /\ Unit \in Nat
    /\ \A p \in Problems :
         /\ p.goal \in [Objective -> Values] /\ p.setGoals \subseteq Objective
         /\ p.priority \in [Objective -> Nat \ {0}]
         /\ p.violation \in [Solution -> Nat]
         /\ {p.weakDom, p.moga, p.shuffled} \subseteq BOOLEAN
    \* a crowding distance is a whole number of units per objective
    /\ \A x, y \in Values, k \in 1 .. Unit : x - y = k => Unit % (k * Objectives) = 0

VARIABLES
    problem,     \* goals, priorities, violations and the operators' properties
    ovec,        \* the objective vectors of the set
    pc,          \* the place in the chain of operators
    row,         \* the solution that is compared with those after it
    domCount,    \* by how many solutions a solution is dominated, or a mark
    dominatedBy, \* the solutions it dominates
    mark,        \* noOfRanks, the mark of the rank that is collected
    ranks,       \* the output sets of the ranking
    cost,
    cDist, rank, objective, \* the loops of the crowding
    elites,
    order, at,   \* the tournaments' permutation and index
    winners

ranking == <<row, domCount, dominatedBy, mark, ranks>>
crowding == <<cDist, rank, objective>>
tournament == <<order, at, winners>>
vars == <<problem, ovec, pc, ranking, cost, crowding, elites, tournament>>

\* the orders in which indSort() can put a sequence that has no entry twice
SortedBy(seq, key) ==
    {s \in [DOMAIN seq -> ToSet(seq)] :
        /\ \A i \in 1 .. Len(seq) - 1 : key[s[i]] <= key[s[i + 1]]
        /\ ToSet(s) = ToSet(seq)}

Init ==
    /\ problem \in Problems
    /\ ovec \in [Solution -> Vectors]
    /\ pc = "compare"
    /\ row = 1
    /\ domCount = [s \in Solution |-> 0]
    /\ dominatedBy = [s \in Solution |-> {}]
    /\ mark = -1
    /\ ranks = <<>>
    /\ cost = [s \in Solution |-> 0]
    /\ cDist = [s \in Solution |-> 0] /\ rank = 1 /\ objective = 1
    /\ elites = <<>>
    /\ order = <<>> /\ at = 0 /\ winners = <<>>
-----------------------------------------------------------------------------
(* The relation. a and b are solutions, K is a set of objectives.          *)
NoWorse(a, b, K) ==
    \A k \in K : ovec[a][k] < ovec[b][k] \/ (problem.weakDom /\ ovec[a][k] = ovec[b][k])
Alike(a, b, K) == \A k \in K : ovec[a][k] = ovec[b][k]

\* weakDominance or strongDominance, and the last part of preferability()
Dominates(a, b, K) == NoWorse(a, b, K) /\ ~Alike(a, b, K)

\* the goals in K that a does not meet
Missed(a, K) == {k \in K : ovec[a][k] > problem.goal[k]}

\* bug: does not notice goals that only b misses
GoalsPreferMissed(a, b, K) ==
    \/ Missed(a, K) = {} /\ Missed(b, K) # {}
    \/ /\ Missed(a, K) # {} /\ Missed(b, K) # {}
       /\ Dominates(a, b, Missed(a, K))

\* the decision on the goals K of one priority
GoalsPrefer(a, b, K) ==
    \/ Missed(a, K) = {} /\ Missed(b, K) # {}
    \/ /\ Missed(a, K) # {} /\ Missed(b, K) # {}
       /\ \/ Dominates(a, b, Missed(a, K))
          \/ Alike(a, b, Missed(a, K)) /\ ~Alike(a, b, Missed(b, K))

GoalsTie(a, b, K) ==
    /\ Missed(a, K) = {} <=> Missed(b, K) = {}
    /\ Alike(a, b, Missed(a, K)) /\ Alike(a, b, Missed(b, K))

\* the objectives of a lower priority, and the priorities of their goals
Below(level) == {k \in Objective : problem.priority[k] < level}
Levels(level) == {problem.priority[k] : k \in Below(level) \cap problem.setGoals}
Highest(P) == CHOOSE p \in P : \A q \in P : q <= p

\* the goals of one priority
Level(p) == {k \in problem.setGoals : problem.priority[k] = p}

\* preferability(): the goals of the highest priority first
Preferred(a, b) ==
    LET top == 1 + Highest({problem.priority[k] : k \in Objective})
        prefer[level \in 1 .. top] ==
          LET highest == Highest(Levels(level))
          IN  \/ GoalsPrefer(a, b, Level(highest))
              \/ /\ GoalsTie(a, b, Level(highest))
                 /\ \/ Levels(level) = {1} /\ Dominates(a, b, Below(level))
                    \/ (\E q \in Levels(level) : q < highest) /\ prefer[highest]
    IN  prefer[top]

\* isBetterThan() of the relation that evaluateNode() has chosen
BetterThan(a, b) ==
    \/ problem.violation[a] < problem.violation[b]
    \/ /\ problem.violation[a] = 0 /\ problem.violation[b] = 0
       /\ \/ problem.setGoals = {} /\ Dominates(a, b, Objective)
          \/ problem.setGoals # {} /\ Preferred(a, b)
-----------------------------------------------------------------------------
\* bug: compares a solution with itself too, and what is no worse counts against it
CompareAll ==
    /\ pc = "compare" /\ row <= N
    /\ LET worse  == {j \in row .. N : BetterThan(row, j)}
           better == {j \in row .. N : ~BetterThan(row, j)}
       IN  /\ domCount' = [s \in Solution |->
                 IF s = row THEN domCount[s] + Cardinality(better)
                 ELSE IF s \in worse THEN domCount[s] + 1 ELSE domCount[s]]
           /\ dominatedBy' = [s \in Solution |->
                 IF s = row THEN dominatedBy[s] \cup worse
                 ELSE IF s \in better THEN dominatedBy[s] \cup {row} ELSE dominatedBy[s]]
    /\ row' = row + 1
    /\ UNCHANGED <<problem, ovec, pc, mark, ranks, cost, crowding, elites, tournament>>

\* A solution is compared with all that follow it.
Compare ==
    /\ pc = "compare" /\ row <= N
    /\ LET worse  == {j \in row + 1 .. N : BetterThan(row, j)}
           better == {j \in row + 1 .. N : ~BetterThan(row, j) /\ BetterThan(j, row)}
       IN  /\ domCount' = [s \in Solution |->
                 IF s = row THEN domCount[s] + Cardinality(better)
                 ELSE IF s \in worse THEN domCount[s] + 1 ELSE domCount[s]]
           /\ dominatedBy' = [s \in Solution |->
                 IF s = row THEN dominatedBy[s] \cup worse
                 ELSE IF s \in better THEN dominatedBy[s] \cup {row} ELSE dominatedBy[s]]
    /\ row' = row + 1
    /\ UNCHANGED <<problem, ovec, pc, mark, ranks, cost, crowding, elites, tournament>>

Compared ==
    /\ pc = "compare" /\ row > N
    /\ pc' = IF problem.moga THEN "count" ELSE "collect"
    /\ UNCHANGED <<problem, ovec, ranking, cost, crowding, elites, tournament>>

\* a set of solutions in the order of the input set
InOrder(S) ==
    [i \in 1 .. Cardinality(S) |-> CHOOSE s \in S : Cardinality({t \in S : t <= s}) = i]

\* the solutions with this count
Having(count) == InOrder({s \in Solution : domCount[s] = count})

\* MOGA: the rank of a solution is the number of those that dominate it.
CountRanks ==
    /\ pc = "count"
    /\ cost' = [s \in Solution |-> Unit * domCount[s]]
    /\ ranks' = SelectSeq([c \in 1 .. N |-> Having(c - 1)], LAMBDA r : r # <<>>)
    /\ pc' = "done"
    /\ UNCHANGED <<problem, ovec, row, domCount, dominatedBy, mark, crowding, elites, tournament>>

Collected == UNION {ToSet(ranks[r]) : r \in DOMAIN ranks}

\* sortRanksNonDomOriginal(): who is not dominated any more makes a rank. The
\* bound N on the ranks is reached only if a rank comes out empty.
Collect ==
    /\ pc = "collect" /\ Collected # Solution /\ Len(ranks) < N
    /\ ranks' = Append(ranks, Having(0))
    /\ domCount' = [s \in Solution |-> IF domCount[s] = 0 THEN mark ELSE domCount[s]]
    /\ pc' = "release"
    /\ UNCHANGED <<problem, ovec, row, dominatedBy, mark, cost, crowding, elites, tournament>>

\* bug: one dominating solution less is enough
ReleaseOutright ==
    /\ pc = "release"
    /\ domCount' = [s \in Solution |->
          IF \E t \in Solution : domCount[t] = mark /\ s \in dominatedBy[t] THEN 0
          ELSE domCount[s]]
    /\ mark' = mark - 1
    /\ pc' = "collect"
    /\ UNCHANGED <<problem, ovec, row, dominatedBy, ranks, cost, crowding, elites, tournament>>

\* What the rank dominates is dominated by so many less.
Release ==
    /\ pc = "release"
    /\ domCount' = [s \in Solution |->
          domCount[s] - Cardinality({t \in Solution : domCount[t] = mark /\ s \in dominatedBy[t]})]
    /\ mark' = mark - 1
    /\ pc' = "collect"
    /\ UNCHANGED <<problem, ovec, row, dominatedBy, ranks, cost, crowding, elites, tournament>>

\* The rank becomes the cost.
Score ==
    /\ pc = "collect" /\ Collected = Solution
    /\ cost' = [s \in Solution |->
          Unit * (CHOOSE r \in DOMAIN ranks : s \in ToSet(ranks[r])) - Unit]
    /\ pc' = "crowd"
    /\ UNCHANGED <<problem, ovec, ranking, crowding, elites, tournament>>
-----------------------------------------------------------------------------
\* bug: forgets to divide by the number of objectives
ShareSum(spread, gap) ==
    IF spread = 0 THEN 0 ELSE Unit - (Unit \div spread) * gap

\* the part of one objective in the crowding of a solution whose neighbours
\* are that gap apart
Share(spread, gap) ==
    IF spread = 0 THEN 0
    ELSE Unit \div Objectives - (Unit \div (spread * Objectives)) * gap

(* The solutions of a rank are sorted by one objective. The first and the  *)
(* last start anew from zero, the others get the more the closer their     *)
(* neighbours are.                                                         *)
Crowd ==
    /\ pc = "crowd" /\ rank <= Len(ranks) /\ objective <= Objectives
    /\ LET key == [s \in Solution |-> ovec[s][objective]]
       IN  \E s \in SortedBy(ranks[rank], key) :
             LET last   == Len(s)
                 spread == key[s[last]] - key[s[1]]
                 place  == [x \in ToSet(s) |-> CHOOSE i \in DOMAIN s : s[i] = x]
             IN  cDist' = [x \in Solution |->
                   IF x \notin ToSet(s) THEN cDist[x]
                   ELSE IF place[x] \in {1, last} THEN 0
                   ELSE cDist[x] + Share(spread, key[s[place[x] + 1]] - key[s[place[x] - 1]])]
    /\ objective' = objective + 1
    /\ UNCHANGED <<problem, ovec, pc, ranking, cost, rank, elites, tournament>>

CrowdingCost ==
    /\ pc = "crowd" /\ rank <= Len(ranks) /\ objective > Objectives
    /\ cost' = [s \in Solution |->
                  IF s \in ToSet(ranks[rank]) THEN cost[s] + cDist[s] ELSE cost[s]]
    /\ rank' = rank + 1
    /\ objective' = 1
    /\ UNCHANGED <<problem, ovec, pc, ranking, cDist, elites, tournament>>

Crowded ==
    /\ pc = "crowd" /\ rank > Len(ranks)
    /\ pc' = "elite"
    /\ UNCHANGED <<problem, ovec, ranking, cost, crowding, elites, tournament>>
-----------------------------------------------------------------------------
EliteSize == (N * Ratio + 99) \div 100

\* the first r ranks, one after the other
Whole[r \in 0 .. Len(ranks)] == IF r = 0 THEN <<>> ELSE Whole[r - 1] \o ranks[r]

\* bug: when the next rank does not fit, its successors may
EliteFirstFit ==
    /\ pc = "elite"
    /\ LET fit  == {r \in DOMAIN ranks : Len(Whole[r]) <= EliteSize}
           kept == Cardinality(fit)
           missing == EliteSize - Len(Whole[kept])
       IN  IF missing = 0 \/ kept + 2 > Len(ranks) THEN elites' = Whole[kept]
           ELSE \E s \in SortedBy(ranks[kept + 2], cost) :
                  elites' = Whole[kept] \o SubSeq(s, 1, IF missing < Len(s) THEN missing ELSE Len(s))
    /\ pc' = "shuffle"
    /\ UNCHANGED <<problem, ovec, ranking, cost, crowding, tournament>>

(* Whole ranks as long as they fit, then the cheapest of the next rank.    *)
Elite ==
    /\ pc = "elite"
    /\ LET kept    == Cardinality({r \in DOMAIN ranks : Len(Whole[r]) <= EliteSize})
           missing == EliteSize - Len(Whole[kept])
       IN  IF missing = 0 THEN elites' = Whole[kept]
           ELSE \E s \in SortedBy(ranks[kept + 1], cost) :
                  elites' = Whole[kept] \o SubSeq(s, 1, missing)
    /\ pc' = "shuffle"
    /\ UNCHANGED <<problem, ovec, ranking, cost, crowding, tournament>>

\* randomPermutationSampling(), or the order of the input set
Orders ==
    LET places == 1 .. Len(elites)
    IN  IF problem.shuffled THEN {p \in [places -> places] : ToSet(p) = places}
        ELSE {[i \in places |-> i]}

Shuffle ==
    /\ pc = "shuffle"
    /\ order' \in Orders
    /\ at' = 0
    /\ pc' = IF EliteSize = 0 THEN "done" ELSE "pick"
    /\ UNCHANGED <<problem, ovec, ranking, cost, crowding, elites, winners>>

\* bug: the dearer of the two wins
WinnerDearer(a, b) == IF cost[a] > cost[b] THEN a ELSE b

Winner(a, b) == IF cost[a] < cost[b] THEN a ELSE b

(* A tournament of two neighbours, the last one alone if their number is   *)
(* odd; as many as there are elites (NumberOfMappings is -1).              *)
Pick ==
    /\ pc = "pick"
    /\ LET a == elites[order[at + 1]]
           b == elites[order[IF at = Len(elites) - 1 THEN at + 1 ELSE at + 2]]
       IN  winners' = Append(winners, Winner(a, b))
    /\ pc' = IF Len(winners') < Len(elites) THEN "pick" ELSE "done"
    /\ IF pc' = "pick" /\ at + 2 >= Len(elites)
       THEN at' = 0 /\ order' \in Orders
       ELSE at' = at + 2 /\ order' = order
    /\ UNCHANGED <<problem, ovec, ranking, cost, crowding, elites>>

Next ==
    \/ Compare \/ Compared \/ CountRanks \/ Collect \/ Release \/ Score
    \/ Crowd \/ CrowdingCost \/ Crowded \/ Elite \/ Shuffle \/ Pick

\* the chain is one loop of the pool thread
Spec == Init /\ [][Next]_vars /\ WF_vars(Next)
-----------------------------------------------------------------------------
(* The properties. A goal vector is compared in levels: within a level an  *)
(* objective that meets its goal counts as if it were the goal.            *)
Clipped(a, k) == IF ovec[a][k] > problem.goal[k] THEN ovec[a][k] ELSE problem.goal[k]
SameAt(a, b, K) == \A k \in K : Clipped(a, k) = Clipped(b, k)
BetterAt(a, b, K) ==
    (\A k \in K : Clipped(a, k) <= Clipped(b, k)) /\ ~SameAt(a, b, K)

(* The relation that seven nested flags decide is lexicographic, as the    *)
(* description of the operator promises: feasibility and violation first,  *)
(* then the goals of one priority after the other, and dominance last,     *)
(* among the objectives below every goal that has a priority above one; so *)
(* it is no relation of its own, and has no cycles, also with strong       *)
(* dominance, which only makes it prefer less.                             *)
Lexicographic(a, b) ==
    LET Priorities == {problem.priority[k] : k \in problem.setGoals}
        Above(p) == {k \in problem.setGoals : problem.priority[k] > p}
        Low == {k \in Objective : \A q \in Priorities \ {1} : problem.priority[k] < q}
    IN  \/ problem.violation[a] < problem.violation[b]
        \/ /\ problem.violation[a] = 0 /\ problem.violation[b] = 0
           /\ \/ \E p \in Priorities : SameAt(a, b, Above(p)) /\ BetterAt(a, b, Level(p))
              \/ /\ 1 \in Priorities \/ Priorities = {}
                 /\ SameAt(a, b, problem.setGoals)
                 /\ \A k \in Low : ovec[a][k] <= ovec[b][k]
                 /\ \E k \in Low : ovec[a][k] < ovec[b][k]
RelationIsLexicographic ==
  row = 1 =>
    \A a, b \in Solution : /\ BetterThan(a, b) => Lexicographic(a, b)
                           /\ problem.weakDom /\ Lexicographic(a, b) => BetterThan(a, b)

(* Peeling with counters and marks gives the layers of the relation: each  *)
(* solution is in one rank only, none of its rank or a later one is better *)
(* than it, and, after the first, one of the rank before is.               *)
RanksAreLayers ==
    pc = "crowd" /\ rank = 1 =>
        \A r \in DOMAIN ranks : \A s \in ToSet(ranks[r]) :
            /\ \A t \in Solution : BetterThan(t, s) =>
                 \E q \in 1 .. r - 1 : t \in ToSet(ranks[q])
            /\ r > 1 => \E t \in ToSet(ranks[r - 1]) : BetterThan(t, s)
            /\ \A q \in DOMAIN ranks : q # r => s \notin ToSet(ranks[q])

(* The peeling loop ends when everything is in a rank, which a cycle of    *)
(* the relation or a lost decrement would make impossible.                 *)
RankingEnds == <>(pc = "done")

(* Ranks and crowding share one number: however crowded a better solution  *)
(* is, it never costs more than one it is better than.                     *)
PreferredIsCheaper ==
    pc = "elite" \/ (pc = "done" /\ problem.moga) =>
        \A a, b \in Solution : BetterThan(a, b) => cost[a] <= cost[b]

(* No solution is left out of the elites that is better than one of them,  *)
(* and the elite set has its size.                                         *)
ElitesBest ==
    pc = "shuffle" =>
        /\ Len(elites) = EliteSize /\ Cardinality(ToSet(elites)) = EliteSize
        /\ \A a \in Solution \ ToSet(elites), b \in ToSet(elites) : ~BetterThan(a, b)

(* Whatever the permutations, an elite of the lowest cost is a parent, and *)
(* nobody is who is not an elite.                                          *)
BestBreeds ==
    pc = "done" /\ winners # <<>> =>
        /\ \E w \in ToSet(winners) : \A e \in ToSet(elites) : cost[w] <= cost[e]
        /\ Len(winners) = Len(elites) /\ ToSet(winners) \subseteq ToSet(elites)
=============================================================================
