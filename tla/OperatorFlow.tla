----------------------------- MODULE OperatorFlow -----------------------------
(***************************************************************************)
(* An evolutionary workflow of Tigon: an initialiser, an evaluator and the *)
(* operators of one algorithm, evaluated one after the other over the sets *)
(* of TaggedSets, generation after generation. Operators find their sets   *)
(* by tag only, and keep raw pointers to what they found. A set is a list  *)
(* of solutions (IMapping objects, shared by pointer); of a solution only  *)
(* its identity and whether its objectives are up to date are kept.        *)
(***************************************************************************)
EXTENDS TaggedSets

CONSTANTS
    Chains,    \* the flows considered: operators in the order of their evaluation
    Mapping,   \* identities of solutions: positive integers, reused when no set refers to one
    PopSize,   \* OptimizationSetSize of the initialiser
    Main       \* the tag TMainOptimizationSet

\* out, add and in are OutputTags, AdditionalOutputTags and InputTags; size is
\* the number of solutions per created set, number the solutions in all (0: as
\* many as there are parents)
ASSUME ChainAssumption ==
    /\ Mapping \subseteq Nat /\ IsFiniteSet(Mapping)
    /\ PopSize \in Nat \ {0}
    /\ Main \in Tag
    /\ <<>> \notin Chains
    /\ Chains \subseteq Seq([kind : {"init", "evaluate", "rank", "score", "elite", "reduce", "pool",
                              "children", "filtered", "vary", "truncate", "merge"},
                      out : Seq(Tag), add : Seq(Tag), in : Seq(Tag),
                      size : Nat, number : Nat])

VARIABLES
    chain,     \* the flow that was loaded
    reg,       \* the sets and the tag registry
    maps,      \* the solutions in every set
    done,      \* solutions whose functions are all evaluated
    outs, ins, \* per operator: m_outputSets, m_inputSets
    creator,   \* operators with m_setsCreator
    later,     \* isFirstIteration of the reduction was cleared
    failed,    \* the shared error state is not NoError
    at, phase  \* the operator whose turn it is, and the part of its turn

vars == <<chain, reg, maps, done, outs, ins, creator, later, failed, at, phase>>

Ops == 1 .. Len(chain)
Op  == chain[at]
Solutions(r, m) == UNION {ToSet(m[s]) : s \in r.sets}

TypeOK ==
    /\ chain \in Chains
    /\ reg \in Registry
    /\ maps \in [SetId -> Seq(Mapping)]
    /\ done \subseteq Solutions(reg, maps)
    /\ outs \in [Ops -> Seq(SetId)]
    /\ ins \in [Ops -> Seq(SetId)]
    /\ creator \subseteq Ops
    /\ later \in BOOLEAN
    /\ failed \in BOOLEAN
    /\ phase \in {"update", "node", "gone"}
    /\ at \in IF phase = "gone" THEN 1 .. Len(chain) + 1 ELSE Ops

Init ==
    /\ chain \in Chains
    /\ reg = EmptyRegistry
    /\ maps = [s \in SetId |-> <<>>]
    /\ done = {}
    /\ outs = [o \in Ops |-> <<>>]
    /\ ins = [o \in Ops |-> <<>>]
    /\ creator = {}
    /\ later = FALSE
    /\ failed = FALSE
    /\ at = 1
    /\ phase = "update"

-----------------------------------------------------------------------------
(* What an operator does to its sets *)

\* k identities that are not used
Room(S, used, k)    == k \in 0 .. Cardinality(S \ used)
FreshIn(S, used, k) == CHOOSE q \in [1 .. k -> S \ used] : IsInjective(q)

\* a slip the runs must notice: the list shrinks while it is walked, every other set stays
clearEveryOther(r, o) ==
    ForEach(removeSet, r, [i \in 1 .. (Len(o) + 1) \div 2 |-> o[2 * i - 1]])

\* clearOutputSets(): every cached set that is still registered is deleted
clearOutputSets(r, o) == ForEach(removeSet, r, o)

\* the sets found with all output tags get the additional tags
TagAll(r, found, add) ==
    ForEach(LAMBDA q, t : ForEach(LAMBDA p, s : tagSet(p, s, t), q, found), r, add)

\* the new state of the sets: r with the contents m, of which d is evaluated
Become(r, m, d) ==
    /\ reg' = r
    /\ maps' = [s \in SetId |-> IF s \in r.sets THEN m[s] ELSE <<>>]
    /\ done' = d \cap Solutions(r, maps')

\* appendOutputSet() once per element of contents, on top of the sets in r
\* with the cached outputs kept; d is what is evaluated
AppendOutputSets(r, kept, contents, d) ==
    LET new == FreshIn(SetId, r.sets, Len(contents)) IN
    /\ Room(SetId, r.sets, Len(contents))
    /\ Become(ForEach(LAMBDA q, s : appendSet(q, s, ToSet(Op.out)), r, new),
              [s \in SetId |-> IF s \in ToSet(new)
                               THEN contents[CHOOSE i \in DOMAIN new : new[i] = s]
                               ELSE maps[s]], d)
    /\ outs' = [outs EXCEPT ![at] = kept \o new]
    /\ creator' = creator \cup {at}

\* the outputs are cleared and replaced by sets with these contents
Replace(contents, d) ==
    AppendOutputSets(clearOutputSets(reg, outs[at]), <<>>, contents, d)

Inputs == [i \in DOMAIN ins[at] |-> maps[ins[at][i]]]

\* setsUnion(): the solutions of the input sets, every one once
Union(q) == ForEach(LAMBDA u, x : IF x \in ToSet(u) THEN u ELSE Append(u, x), <<>>, FlattenSeq(q))

\* cut a list into lists of n
Chunks(q, n) == [i \in 1 .. (Len(q) + n - 1) \div n |-> SubSeq(q, (i - 1) * n + 1,
                                                     IF i * n < Len(q) THEN i * n ELSE Len(q))]

\* the ceil(total / 2) first solutions of ranked lists: whole ranks while they
\* fit, and the cheapest ones of the next rank, whichever they are
Elites(ranks) ==
    LET size == (Len(FlattenSeq(ranks)) + 1) \div 2
        Whole(j) == FlattenSeq(SubSeq(ranks, 1, j))
        whole == CHOOSE j \in 0 .. Len(ranks) :
                   /\ Len(Whole(j)) <= size
                   /\ j = Len(ranks) \/ Len(Whole(j + 1)) > size
        missing == size - Len(Whole(whole))
    IN IF missing = 0 THEN {Whole(whole)}
       ELSE {Whole(whole) \o SetToSeq(C) : C \in
              {D \in SUBSET ToSet(ranks[whole + 1]) : Cardinality(D) = missing}}

-----------------------------------------------------------------------------
(* A turn: look the sets up, then do the operator's own work *)

\* a slip the runs must notice: no return to the first operator
AdvanceNoWrap == at' = at + 1 /\ phase' = "update"

\* the next operator, after the last one the next generation
Advance ==
    /\ at' = IF at = Len(chain) THEN 1 ELSE at + 1
    /\ phase' = "update"

\* the sets with the output tags; these also get the additional tags. Without
\* output tags the cached sets stay and get no tag
FoundOutputs == IF Op.out = <<>> THEN outs[at] ELSE setsWithTags(reg, Op.out)
TaggedOutputs == IF Op.out = <<>> THEN reg ELSE TagAll(reg, FoundOutputs, Op.add)

\* a slip the runs must notice: inputs are looked up only once
updateSetsOnce ==
    /\ phase = "update" /\ ~failed
    /\ outs' = [outs EXCEPT ![at] = FoundOutputs]
    /\ reg' = TaggedOutputs
    /\ ins' = [ins EXCEPT ![at] = IF Op.in = <<>> \/ @ # <<>> THEN @ ELSE setsWithTags(reg', Op.in)]
    /\ phase' = "node"
    /\ UNCHANGED <<maps, done, creator, later, failed, at>>

\* IOperator::updateSets()
updateSets ==
    /\ phase = "update" /\ ~failed
    /\ outs' = [outs EXCEPT ![at] = FoundOutputs]
    /\ reg' = TaggedOutputs
    /\ ins' = [ins EXCEPT ![at] = IF Op.in = <<>> THEN @ ELSE setsWithTags(reg', Op.in)]
    /\ phase' = "node"
    /\ UNCHANGED <<maps, done, creator, later, failed, at>>

Node(kind) == phase = "node" /\ Op.kind = kind /\ Advance

\* RandomInit: creates the population unless there is one
Initialise ==
    /\ Node("init")
    /\ IF outs[at] = <<>>
       THEN LET new == FreshIn(Mapping, Solutions(reg, maps), PopSize)
            IN /\ Room(Mapping, Solutions(reg, maps), PopSize)
               /\ AppendOutputSets(reg, <<>>, <<new>>, done)
       ELSE UNCHANGED <<reg, maps, done, outs, creator>>
    /\ UNCHANGED <<ins, later, failed>>

OutputSolutions == UNION {ToSet(maps[s]) : s \in ToSet(outs[at])}

\* Evaluator: brings every solution for evaluation up to date
Evaluate ==
    /\ Node("evaluate")
    /\ done' = done \cup OutputSolutions
    /\ UNCHANGED <<reg, maps, outs, ins, creator, later, failed>>

\* a slip the runs must notice: the exception is swallowed and the generation goes on
EvaluateIgnores ==
    /\ Node("evaluate")
    /\ \E some \in SUBSET OutputSolutions : done' = done \cup some
    /\ UNCHANGED <<reg, maps, outs, ins, creator, later, failed>>

\* a function throws part way: the generation ends here. A TException leaves
\* the error state behind, any other exception does not
EvaluateThrows ==
    /\ phase = "node" /\ Op.kind = "evaluate"
    /\ \E some \in SUBSET (OutputSolutions \ done) :
         /\ some # OutputSolutions \ done
         /\ done' = done \cup some
    /\ failed' \in BOOLEAN
    /\ at' = 1 /\ phase' = "update"
    /\ UNCHANGED <<reg, maps, outs, ins, creator, later>>

\* the solutions of pop by their ranks, 1 to n
Ranks(pop, rank, n) == [k \in 1 .. n |-> Listed(pop, {x \in ToSet(pop) : rank[x] = k})]

\* NonDominanceRanking: the population split into ranks, best first; the
\* rank of every solution is a matter of its objectives
Rank ==
    /\ Node("rank")
    /\ LET pop == maps[ins[at][1]] IN
       \E n \in 1 .. Len(pop) :
       \E rank \in {f \in [ToSet(pop) -> 1 .. n] : \A k \in 1 .. n : \E x \in ToSet(pop) : f[x] = k} :
         Replace(Ranks(pop, rank, n), done)
    /\ UNCHANGED <<ins, later, failed>>

\* crowding, niching, fitness: assign costs, touch no set
Score ==
    /\ Node("score")
    /\ UNCHANGED <<reg, maps, done, outs, ins, creator, later, failed>>

\* NSGAIIEliteSelection
Elite ==
    /\ Node("elite")
    /\ \E e \in Elites(Inputs) : Replace(<<e>>, done)
    /\ UNCHANGED <<ins, later, failed>>

\* SMSEMOAReduce: everything the first time, then everything but one solution
\* of the worst rank
Reduce ==
    /\ Node("reduce")
    /\ IF ins[at] = <<>> THEN UNCHANGED <<reg, maps, done, outs, creator, later>>
       ELSE /\ later' = TRUE
            /\ IF later
               THEN \E worst \in ToSet(Last(Inputs)) :
                      Replace(<<Listed(FlattenSeq(Inputs), Mapping \ {worst})>>, done)
               ELSE Replace(<<Union(Inputs)>>, done)
    /\ UNCHANGED <<ins, failed>>

\* StochasticUniversalSampling: a mating pool per input set, with repetition
Pool ==
    /\ Node("pool")
    /\ \E pick \in [DOMAIN ins[at] -> [1 .. PopSize -> 1 .. PopSize]] :
         Replace([i \in DOMAIN ins[at] |-> [k \in DOMAIN Inputs[i] |-> Inputs[i][pick[i][k]]]], done)
    /\ UNCHANGED <<ins, later, failed>>

\* a slip the runs must notice: the parents themselves are put into the new sets
BreedAliases(parents, size) == Replace(Chunks(parents, size), done)

\* clones of the given parents, evaluated when their parents are, in new sets
Breed(parents, size) ==
    LET cleared == clearOutputSets(reg, outs[at])
        new == FreshIn(Mapping, Solutions(cleared, maps), Len(parents))
    IN /\ Room(Mapping, Solutions(cleared, maps), Len(parents))
       /\ Replace(Chunks(new, size),
                  (done \cap Solutions(cleared, maps))
                    \cup {new[i] : i \in {j \in DOMAIN new : parents[j] \in done}})

\* TournamentFiltrationForDirection: winners among the union of the inputs
Children ==
    /\ Node("children")
    /\ LET pop == Union(Inputs)
           n   == IF Op.number = 0 THEN Len(pop) ELSE Op.number
       IN \E winner \in [1 .. n -> ToSet(pop)] : Breed(winner, Op.size)
    /\ UNCHANGED <<ins, later, failed>>

\* RandFiltrationForDirection: every solution of every input, in some order
Filtered ==
    /\ Node("filtered")
    /\ LET pop == FlattenSeq(Inputs)
       IN \E perm \in {f \in [DOMAIN pop -> DOMAIN pop] : ToSet(f) = DOMAIN pop} :
            Breed([i \in DOMAIN pop |-> pop[perm[i]]], Op.size)
    /\ UNCHANGED <<ins, later, failed>>

\* crossover and mutation: change decision variables of some of the solutions
Vary ==
    /\ Node("vary")
    /\ \E changed \in SUBSET OutputSolutions : done' = done \ changed
    /\ UNCHANGED <<reg, maps, outs, ins, creator, later, failed>>

\* TruncateSets
Truncate ==
    /\ Node("truncate")
    /\ Become(reg, [s \in SetId |-> IF Contains(outs[at], s) /\ Len(maps[s]) > Op.size
                                    THEN SubSeq(maps[s], 1, Op.size) ELSE maps[s]], done)
    /\ UNCHANGED <<outs, ins, creator, later, failed>>

\* a slip the runs must notice: all inputs are merged, whatever the population's size
MergeAll ==
    /\ Node("merge")
    /\ Become(reg, [maps EXCEPT ![outs[at][1]] = FlattenSeq(Inputs)], done)
    /\ UNCHANGED <<outs, ins, creator, later, failed>>

\* MergeForNextIteration: overwrites the population from the front, in the
\* order of the tag's list, and stops at its size
Merge ==
    /\ Node("merge")
    /\ LET next == FlattenSeq(Inputs) IN
       Become(reg, [maps EXCEPT ![outs[at][1]] =
                      [i \in DOMAIN @ |-> IF i <= Len(next) THEN next[i] ELSE @[i]]], done)
    /\ UNCHANGED <<outs, ins, creator, later, failed>>

-----------------------------------------------------------------------------
(* Between generations the flow may be deleted, operator by operator *)

StartUnload ==
    /\ at = 1 /\ phase = "update"
    /\ phase' = "gone"
    /\ UNCHANGED <<reg, maps, done, outs, ins, creator, later, failed, at>>

\* ~IOperator(): a creator looks its sets up once more and deletes them
Destroy ==
    /\ phase = "gone" /\ at \in Ops
    /\ IF at \in creator
       THEN /\ Become(clearOutputSets(TaggedOutputs, FoundOutputs), maps, done)
            /\ outs' = [outs EXCEPT ![at] = <<>>]
       ELSE UNCHANGED <<reg, maps, done, outs>>
    /\ at' = at + 1
    /\ UNCHANGED <<ins, creator, later, failed, phase>>

Next ==
    /\ \/ updateSets
       \/ Initialise \/ Evaluate \/ EvaluateThrows
       \/ Rank \/ Score \/ Elite \/ Reduce \/ Pool
       \/ Children \/ Filtered \/ Vary \/ Truncate \/ Merge
       \/ StartUnload \/ Destroy
    /\ UNCHANGED chain

Spec == Init /\ [][Next]_vars

-----------------------------------------------------------------------------
(* What a flow must be like for the properties below that depend on its    *)
(* wiring. Nothing in the code demands it of an algorithm.                 *)

Selecting == {"elite", "reduce", "pool"}
Breeding  == {"children", "filtered"}
Replacing == {"rank"} \cup Selecting \cup Breeding   \* these clear their outputs first
Making    == {"init"} \cup Replacing

Out(c, o) == ToSet(c[o].out)
In(c, o)  == ToSet(c[o].in)
MakersOf(c) == {p \in DOMAIN c : c[p].kind \in Making}

\* the tags that a set made by p may ever carry
MayCarry(c, p) == Out(c, p) \cup UNION {ToSet(c[o].add) : o \in DOMAIN c}

\* No operator takes for an input what it takes for one of its outputs.
KeepsApart(c) ==
    \A o \in DOMAIN c :
      /\ c[o].out # <<>>
      /\ c[o].kind \in Replacing /\ c[o].in # <<>>
           => \A p \in MakersOf(c) : ~ (In(c, o) \cup Out(c, o) \subseteq MayCarry(c, p))

\* The sets of p and of other makers are not taken for each other.
ToldApart(c, p) ==
    \A q \in MakersOf(c) \ {p} : /\ ~ (Out(c, q) \subseteq MayCarry(c, p))
                                 /\ ~ (Out(c, p) \subseteq MayCarry(c, q))

\* p always makes a set, and everyone knows it for p's.
Reliable(c, p) ==
    c[p].kind \in {"init", "rank", "elite"} /\ c[p].out # <<>> /\ ToldApart(c, p)

\* o reads what such an operator before it makes.
Supplied(c, o) ==
    c[o].in # <<>> /\ \E p \in 1 .. o - 1 : Reliable(c, p) /\ In(c, o) \subseteq Out(c, p)

\* What is ranked is evaluated by the operator just before.
RanksEvaluated(c) ==
    \A o \in DOMAIN c : c[o].kind = "rank" =>
      /\ o > 1 /\ c[o - 1].kind = "evaluate" /\ c[o - 1].out # <<>>
      /\ Supplied(c, o)
      /\ \A p \in MakersOf(c) : In(c, o) \subseteq MayCarry(c, p) => Out(c, o - 1) \subseteq Out(c, p)

\* Parents can only be sets of the selection just before.
BreedsSelected(c) ==
    \A o \in DOMAIN c : c[o].kind \in Breeding =>
      /\ o > 1 /\ c[o - 1].kind \in Selecting
      /\ c[o - 1].kind \in {"reduce", "pool"} => Supplied(c, o - 1)
      /\ c[o].in # <<>> /\ In(c, o) \subseteq Out(c, o - 1)
      /\ c[o].add = <<>>
      /\ \A p \in MakersOf(c) \ {o - 1} : ~ (In(c, o) \subseteq MayCarry(c, p))

\* What o finds by its output tags can only be made by b.
OnlyBy(c, o, b) == \A q \in MakersOf(c) \ {b} : ~ (Out(c, o) \subseteq MayCarry(c, q))

\* The sets with the tags T are those that P make.
Names(c, T, P) ==
    /\ \A p \in P : T \subseteq Out(c, p)
    /\ \A q \in MakersOf(c) \ P : ~ (T \subseteq MayCarry(c, q))

\* Variation follows breeding and changes bred sets only.
VariesBred(c) ==
    /\ \A o \in DOMAIN c : c[o].kind \in Selecting => ToldApart(c, o)
    /\ \A o \in DOMAIN c : c[o].kind \in Breeding => c[o].size > 0
    /\ \A v \in DOMAIN c : c[v].kind = "vary" =>
         \E b \in 1 .. v - 1 :
           /\ c[b].kind \in Breeding
           /\ \A k \in b + 1 .. v : c[k].kind \in {"vary", "truncate"} /\ OnlyBy(c, k, b)

\* o reads what p makes
Reads(c, o, p) == c[o].in # <<>> /\ Names(c, In(c, o), {p})

\* e selects among the ranks that r made of the population.
Splits(c, e, r) ==
    /\ c[r].kind = "rank" /\ Reads(c, e, r)
    /\ \A o \in r + 1 .. e - 1 : c[o].kind = "score"

\* A generation selects with e and breeds right after it, and ends with the
\* merge of both, or of what was bred when e is a mating pool, into the
\* population that the first operator made.
Generation(c, e) ==
    LET b == e + 1
        m == Len(c)
    IN /\ c[1].kind = "init" /\ Names(c, {Main}, {1})
       /\ e > 1 /\ c[e].kind \in Selecting
       /\ c[b].kind \in Breeding /\ Reads(c, b, e) /\ c[b].size > 0
       /\ b < m /\ c[m].kind = "merge"
       /\ \A o \in 2 .. e - 1 : c[o].kind \in {"evaluate", "rank", "score"}
       /\ \A o \in 2 .. e - 1 : c[o].kind = "rank" => Reads(c, o, 1)
       /\ IF c[e].kind = "pool" THEN Reads(c, e, 1) ELSE \E r \in 2 .. e - 1 : Splits(c, e, r)
       /\ \A o \in b + 1 .. m - 1 : c[o].kind \in {"vary", "truncate"} /\ Names(c, Out(c, o), {b})
       /\ Names(c, Out(c, m), {1})
       /\ c[m].in # <<>> /\ Names(c, In(c, m), IF c[e].kind = "pool" THEN {b} ELSE {e, b})
       /\ \A o \in b .. m : c[o].add = <<>>
       /\ \A p \in DOMAIN c : c[p].out # <<>>
       /\ \A p \in MakersOf(c) : ToldApart(c, p)

\* What is selected and bred is at least what the population needs.
Refills(c, e) ==
    LET truncated == {o \in e + 2 .. Len(c) - 1 : c[o].kind = "truncate"} IN
    \/ c[e].kind = "elite" /\ c[e + 1].kind = "children" /\ c[e + 1].number = 0 /\ truncated = {}
    \/ /\ c[e].kind = "reduce" /\ c[e + 1].kind = "children" /\ c[e + 1].number > 0
       /\ \A o \in truncated : c[o].size > 0
    \/ c[e].kind = "pool" /\ c[e + 1].kind = "filtered" /\ truncated = {}

WellWired(c) ==
    /\ KeepsApart(c) /\ RanksEvaluated(c) /\ BreedsSelected(c) /\ VariesBred(c)
    /\ \E e \in DOMAIN c : Generation(c, e) /\ Refills(c, e)

-----------------------------------------------------------------------------
(* Properties *)

\* The registry, the sets' own tags and the list of sets agree after any number
\* of generations, failures and destructions (IPSet::tagSet, appendSet,
\* removeTagFromSet, removeSet each keep three structures in step by hand).
TagsAgree == Agree(reg)

Selectors == {o \in Ops : chain[o].kind \in Selecting}

\* Parents are taken from what this generation selected and from nothing else:
\* the ranks carry "for selection" as well, and so did the sets of the last
\* generation (NSGAII.cpp, "to ensure that TournamentFiltrationForDirection
\* only finds the Elite set").
ParentsAreSelected ==
    phase = "node" /\ Op.kind \in Breeding
      => \E o \in Selectors : o < at /\ ins[at] = outs[o] /\ ins[at] # <<>>

\* An operator that first deletes its old outputs does not delete its inputs,
\* which it reads afterwards, and no cached pointer is used after the set died.
InputsOutliveClear ==
    phase = "node"
      => /\ ToSet(ins[at]) \cup ToSet(outs[at]) \subseteq reg.sets
         /\ Op.kind \in Replacing => ToSet(ins[at]) \cap ToSet(outs[at]) = {}

\* Objectives are read only of solutions whose functions were all evaluated
\* since their variables last changed, also in the generation after a failed one.
RankedAreEvaluated ==
    phase = "node" /\ Op.kind = "rank" => ToSet(maps[ins[at][1]]) \subseteq done

MainSets == {s \in reg.sets : Main \in reg.own[s]}

\* The population keeps its size and holds no solution twice.
PopulationKept ==
    \A s \in MainSets : Len(maps[s]) = PopSize /\ Cardinality(ToSet(maps[s])) = PopSize

\* Elitism: between generations every selected elite is in the population,
\* although the merge cuts off what does not fit. It relies on the order in
\* which the tag's list holds elites and children.
ElitesSurvive ==
    at = 1 /\ phase = "update"
      => \A o \in Ops : chain[o].kind \in {"elite", "reduce"}
           => \A s \in ToSet(outs[o]) : \A p \in MainSets :
                Len(maps[s]) < PopSize => ToSet(maps[s]) \subseteq ToSet(maps[p])

\* Nothing is left behind: when the last operator of a flow is gone, so are
\* the sets it and the others created and every tag.
NothingLeft ==
    phase = "gone" /\ at \notin Ops => reg = EmptyRegistry

Selected ==
    UNION {ToSet(maps[s]) : s \in (UNION {ToSet(outs[o]) : o \in Selectors}) \cap reg.sets}

\* Variation works on clones: no step makes a selected solution out of date,
\* whose objectives the next generation's elites would otherwise be judged by.
SelectedUntouched ==
    [][\A x \in Selected \cap done : x \in Solutions(reg', maps') => x \in done']_vars
=============================================================================
