-------------------------- MODULE OperatorFlowProofs --------------------------
(***************************************************************************)
(* Safety of the operator chain for every chain of operators, every set of *)
(* tags and any population, in this order:                                 *)
(*  - lemmas on loops, lists and the registry's operations;                *)
(*  - FlowInv: registry and sets agree, nothing is left when the flow is   *)
(*    gone, whatever the wiring;                                           *)
(*  - SeenInv, Supply and what they rest on: with inputs and outputs wired *)
(*    apart, no operator deletes what it reads, ranks what is not          *)
(*    evaluated, breeds from anything but the selection, or varies what    *)
(*    was selected;                                                        *)
(*  - lemmas on flat lists, chunks, ranks, elites and unions;              *)
(*  - the sets of every maker, Of(p), in a flow with a Generation: types,  *)
(*    elitism (KinInv) and the population's size (FullInv).                *)
(***************************************************************************)
EXTENDS OperatorFlow, FiniteSetTheorems, TLAPS

(* Induction over the rounds of a loop, and the results of its rounds.     *)
LEMMA Upto ==
    ASSUME NEW n \in Nat, NEW S, 0 \in S, \A i \in 1 .. n : i - 1 \in S => i \in S
    PROVE  \A i \in 0 .. n : i \in S
  <1> DEFINE Less == {p \in Nat \X Nat : p[1] < p[2]}
             Missed == {i \in 0 .. n : i \notin S}
  <1>1. IsWellFoundedOn(Less, Nat)
    BY NatLessThanWellFounded DEF OpToRel
  <1>2. SUFFICES ASSUME Missed # {}
                 PROVE  FALSE
    OBVIOUS
  <1>3. Missed \subseteq Nat
    OBVIOUS
  <1>4. PICK x \in Missed : \A y \in Missed : ~ (<<y, x>> \in Less)
    BY ONLY <1>1, <1>2, <1>3, WFMin
  <1>5. x \in 1 .. n /\ x - 1 \in 0 .. n
    BY <1>4
  <1>6. x - 1 \notin Missed
    <2>1. <<x - 1, x>> \in Less
      BY <1>5
    <2>2. QED
      BY <1>4, <2>1
  <1>7. QED
    BY <1>4, <1>5, <1>6

Bodies(n, A)     == [1 .. n -> [A -> A]]
Runs(n, A, a, h) == {f \in [0 .. n -> A] : f[0] = a /\ \A i \in 1 .. n : f[i] = h[i][f[i - 1]]}

LEMMA Rounds ==
    ASSUME NEW n \in Nat, NEW A, NEW a \in A, NEW h \in Bodies(n, A)
    PROVE  Runs(n, A, a, h) # {}
  <1> USE DEF Bodies
  <1> DEFINE Fits(f, m) == f[0] = a /\ \A i \in 1 .. m : f[i] = h[i][f[i - 1]]
             S == {m \in 0 .. n : \E f \in [0 .. m -> A] : Fits(f, m)}
  <1>1. 0 \in S
    <2> DEFINE f == [i \in 0 .. 0 |-> a]
    <2>1. f \in [0 .. 0 -> A] /\ Fits(f, 0)
      OBVIOUS
    <2>2. QED
      <3> HIDE DEF f, Fits
      <3>1. QED
        BY <2>1
  <1>2. ASSUME NEW m \in 1 .. n, m - 1 \in S
        PROVE  m \in S
    <2>1. PICK f \in [0 .. m - 1 -> A] : Fits(f, m - 1)
      BY <1>2
    <2> DEFINE g == [i \in 0 .. m |-> IF i = m THEN h[m][f[m - 1]] ELSE f[i]]
    <2>2. f[m - 1] \in A /\ h[m][f[m - 1]] \in A
      BY <2>1
    <2>3. g \in [0 .. m -> A]
      BY <2>1, <2>2
    <2>4. g[0] = a
      BY <2>1
    <2>5. ASSUME NEW i \in 1 .. m
          PROVE  g[i] = h[i][g[i - 1]]
      <3>1. i - 1 \in 0 .. m - 1 /\ i - 1 # m /\ g[i - 1] = f[i - 1]
        OBVIOUS
      <3>2. CASE i = m
        BY <3>1, <3>2
      <3>3. CASE i # m
        BY <2>1, <3>1, <3>3
      <3>4. QED
        BY <3>2, <3>3
    <2>6. Fits(g, m)
      BY <2>4, <2>5
    <2>7. QED
      <3> HIDE DEF g, Fits
      <3>1. QED
        BY <2>3, <2>6
  <1>3. n \in S
    <2>1. n \in 0 .. n
      OBVIOUS
    <2> HIDE DEF S
    <2>2. QED
      BY <1>1, <1>2, <2>1, Upto
  <1>4. PICK f \in [0 .. n -> A] : Fits(f, n)
    BY <1>3
  <1>5. QED
    BY <1>4 DEF Runs
-----------------------------------------------------------------------------
(* Sequences without repetition, and the entries of one that are in a set. *)
LEMMA AppendOne ==
    ASSUME NEW T, NEW k \in Seq(T), NEW s \in T
    PROVE  /\ Append(k, s) \in Seq(T)
           /\ ToSet(Append(k, s)) = ToSet(k) \cup {s}
           /\ IsInjective(k) /\ s \notin ToSet(k) => IsInjective(Append(k, s))
  <1>1. /\ Append(k, s) \in Seq(T) /\ Len(Append(k, s)) = Len(k) + 1 /\ Len(k) \in Nat
        /\ DOMAIN k = 1 .. Len(k) /\ DOMAIN Append(k, s) = 1 .. Len(k) + 1
        /\ Append(k, s)[Len(k) + 1] = s
        /\ \A i \in 1 .. Len(k) : Append(k, s)[i] = k[i]
    OBVIOUS
  <1>2. ToSet(Append(k, s)) = ToSet(k) \cup {s}
    <2>1. ASSUME NEW x \in ToSet(Append(k, s))
          PROVE  x \in ToSet(k) \cup {s}
      BY <1>1, <2>1 DEF ToSet
    <2>2. ASSUME NEW x \in ToSet(k) \cup {s}
          PROVE  x \in ToSet(Append(k, s))
      <3>1. s = Append(k, s)[Len(k) + 1] /\ Len(k) + 1 \in DOMAIN Append(k, s)
        BY <1>1
      <3>2. \A i \in DOMAIN k : k[i] = Append(k, s)[i] /\ i \in DOMAIN Append(k, s)
        BY <1>1
      <3>3. QED
        BY <2>2, <3>1, <3>2 DEF ToSet
    <2>3. QED
      BY <2>1, <2>2
  <1>3. ASSUME IsInjective(k), s \notin ToSet(k)
        PROVE  IsInjective(Append(k, s))
    <2>1. \A i \in 1 .. Len(k) : Append(k, s)[i] # s
      BY <1>1, <1>3 DEF ToSet
    <2>2. QED
      BY <1>1, <1>3, <2>1 DEF IsInjective
  <1>4. QED
    BY <1>1, <1>2, <1>3

LEMMA ListedRounds ==
    ASSUME NEW E, NEW q \in Seq(E), NEW S
    PROVE  \E c : /\ c[0] = <<>>
                  /\ \A i \in 1 .. Len(q) :
                        c[i] = IF q[i] \in S THEN Append(c[i - 1], q[i]) ELSE c[i - 1]
                  /\ Listed(q, S) = c[Len(q)]
  <1> DEFINE n == Len(q)
             T == Seq(E)
             e == <<>>
             Step(k, s) == IF s \in S THEN Append(k, s) ELSE k
             h == [i \in 1 .. n |-> [x \in T |-> Step(x, q[i])]]
             Loop(f) == f = [i \in 0 .. n |-> IF i = 0 THEN e ELSE Step(f[i - 1], q[i])]
             c == CHOOSE f : Loop(f)
  <1>1. n \in Nat
    OBVIOUS
  <1>2. \A x \in T, i \in 1 .. n : Step(x, q[i]) \in T
    OBVIOUS
  <1>3. Listed(q, S) = c[n]
    BY DEF Listed, ForEach
  <1>4. \A k, s : Step(k, s) = IF s \in S THEN Append(k, s) ELSE k
    OBVIOUS
  <1> HIDE DEF Step
  <1>5. h \in Bodies(n, T)
    BY <1>2 DEF Bodies
  <1>6. PICK f \in Runs(n, T, e, h) : TRUE
    <2>1. e \in T
      OBVIOUS
    <2> HIDE DEF h, n, T, e
    <2>2. QED
      BY <1>1, <1>5, <2>1, Rounds
  <1>7. ASSUME NEW i \in 1 .. n
        PROVE  f[i] = Step(f[i - 1], q[i])
    <2>1. f[i - 1] \in T
      BY <1>1, <1>6 DEF Runs
    <2>2. QED
      BY <1>6, <2>1 DEF Runs
  <1>8. Loop(f)
    BY <1>6, <1>7 DEF Runs
  <1>9. Loop(c)
    <2> HIDE DEF Loop
    <2>1. QED
      BY <1>8
  <1> HIDE DEF c
  <1>10. c[0] = <<>> /\ \A i \in 1 .. n : c[i] = Step(c[i - 1], q[i])
    BY <1>1, <1>9
  <1>11. QED
    BY <1>3, <1>4, <1>10

LEMMA ListedIs ==
    ASSUME NEW E, NEW q \in Seq(E), NEW S
    PROVE  /\ Listed(q, S) \in Seq(E)
           /\ ToSet(Listed(q, S)) = ToSet(q) \cap S
           /\ IsInjective(q) => IsInjective(Listed(q, S))
  <1>1. PICK c : /\ c[0] = <<>>
                 /\ \A i \in 1 .. Len(q) :
                       c[i] = IF q[i] \in S THEN Append(c[i - 1], q[i]) ELSE c[i - 1]
                 /\ Listed(q, S) = c[Len(q)]
    BY ListedRounds
  <1> DEFINE First(i) == {q[j] : j \in 1 .. i}
             Good(i) == /\ c[i] \in Seq(E)
                        /\ ToSet(c[i]) = First(i) \cap S
                        /\ IsInjective(q) => IsInjective(c[i])
             R == {i \in 0 .. Len(q) : Good(i)}
  <1>2. 0 \in R
    <2>1. c[0] = <<>> /\ <<>> \in Seq(E) /\ DOMAIN <<>> = {}
      BY <1>1
    <2>2. First(0) = {}
      OBVIOUS
    <2>3. ToSet(c[0]) = {}
      BY <2>1 DEF ToSet
    <2>4. IsInjective(c[0])
      BY <2>1 DEF IsInjective
    <2>5. Good(0)
      BY <2>1, <2>2, <2>3, <2>4
    <2> HIDE DEF Good
    <2>6. QED
      BY <2>5
  <1>3. ASSUME NEW i \in 1 .. Len(q), i - 1 \in R
        PROVE  i \in R
    <2>1. First(i) = First(i - 1) \cup {q[i]}
      <3>1. 1 .. i = (1 .. (i - 1)) \cup {i}
        OBVIOUS
      <3>2. QED
        BY <3>1
    <2>2. Good(i - 1) /\ q[i] \in E
      BY <1>3
    <2>3. CASE q[i] \notin S
      BY <1>1, <2>1, <2>2, <2>3
    <2>4. CASE q[i] \in S
      <3>1. c[i] = Append(c[i - 1], q[i])
        BY <1>1, <2>4
      <3>2. IsInjective(q) => q[i] \notin ToSet(c[i - 1])
        <4>1. SUFFICES ASSUME IsInjective(q), q[i] \in First(i - 1)
                       PROVE  FALSE
          BY <2>2
        <4>2. PICK j \in 1 .. i - 1 : q[i] = q[j]
          BY <4>1
        <4>3. QED
          BY <4>1, <4>2 DEF IsInjective
      <3> HIDE DEF First
      <3>3. c[i] \in Seq(E) /\ ToSet(c[i]) = ToSet(c[i - 1]) \cup {q[i]}
        BY <2>2, <3>1, AppendOne
      <3>4. IsInjective(q) => IsInjective(c[i])
        BY <2>2, <3>1, <3>2, AppendOne
      <3>5. ToSet(c[i]) = First(i) \cap S
        BY <2>1, <2>2, <2>4, <3>3
      <3>6. QED
        BY <3>3, <3>4, <3>5
    <2>5. QED
      BY <2>3, <2>4
  <1>4. Good(Len(q))
    <2>1. Len(q) \in Nat
      OBVIOUS
    <2>2. Len(q) \in 0 .. Len(q)
      BY <2>1
    <2>3. Len(q) \in R
      <3> HIDE DEF R
      <3>1. QED
        BY <1>2, <1>3, <2>1, <2>2, Upto
    <2> HIDE DEF Good
    <2>4. QED
      BY <2>3
  <1>5. First(Len(q)) = ToSet(q)
    BY DEF ToSet
  <1>6. QED
    BY <1>1, <1>4, <1>5
-----------------------------------------------------------------------------
(* The registry: what the lists say of registered sets is what the sets    *)
(* say themselves, and nothing is known of other sets.                     *)
Sound(r) ==
    /\ r \in Registry
    /\ Agree(r)
    /\ \A s \in SetId : s \notin r.sets => r.own[s] = {}

LEMMA EmptySound == Sound(EmptyRegistry)
  <1>1. EmptyRegistry \in Registry
    BY DEF EmptyRegistry, Registry
  <1>2. ToSet(<<>>) = {} /\ IsInjective(<<>>)
    BY DEF ToSet, IsInjective
  <1>3. QED
    BY <1>1, <1>2 DEF Sound, Agree, EmptyRegistry

LEMMA RegistryIs ==
    ASSUME NEW r \in Registry
    PROVE  /\ r.sets \subseteq SetId
           /\ r.index \in [Tag -> Seq(SetId)]
           /\ r.own \in [SetId -> SUBSET Tag]
  BY DEF Registry

LEMMA RemoveSound ==
    ASSUME NEW r, Sound(r), NEW s \in SetId
    PROVE  /\ Sound(removeSet(r, s))
           /\ removeSet(r, s).sets = r.sets \ {s}
           /\ removeSet(r, s).own = [r.own EXCEPT ![s] = {}]
  <1> DEFINE z == removeSet(r, s)
  <1>1. /\ r \in Registry /\ r.sets \subseteq SetId /\ r.index \in [Tag -> Seq(SetId)]
        /\ r.own \in [SetId -> SUBSET Tag]
    BY RegistryIs DEF Sound
  <1>2. CASE s \notin r.sets
    <2>1. z = r /\ r.own[s] = {}
      BY <1>2 DEF removeSet, Sound
    <2>2. r.own = [r.own EXCEPT ![s] = {}]
      BY <1>1, <2>1
    <2>3. QED
      BY <1>2, <2>1, <2>2
  <1>3. CASE s \in r.sets
    <2>1. /\ z.sets = r.sets \ {s} /\ z.own = [r.own EXCEPT ![s] = {}]
          /\ z.index = untagged(r, s)
          /\ z = [sets |-> z.sets, index |-> z.index, own |-> z.own]
      BY <1>1, <1>3 DEF removeSet, Registry
    <2>2. ASSUME NEW t \in Tag
          PROVE  /\ z.index[t] \in Seq(SetId)
                 /\ ToSet(z.index[t]) = ToSet(r.index[t]) \ {s}
                 /\ IsInjective(z.index[t])
      <3>1. z.index[t] = IF t \in r.own[s] THEN Listed(r.index[t], SetId \ {s}) ELSE r.index[t]
        BY <2>1 DEF untagged
      <3>2. /\ r.index[t] \in Seq(SetId)
            /\ ToSet(r.index[t]) = {x \in r.sets : t \in r.own[x]}
            /\ IsInjective(r.index[t])
        BY <1>1 DEF Sound, Agree
      <3>3. CASE t \in r.own[s]
        <4>1. z.index[t] = Listed(r.index[t], SetId \ {s})
          BY <3>1, <3>3
        <4>2. /\ z.index[t] \in Seq(SetId)
              /\ ToSet(z.index[t]) = ToSet(r.index[t]) \cap (SetId \ {s})
              /\ IsInjective(z.index[t])
          BY <3>2, <4>1, ListedIs
        <4>3. ToSet(r.index[t]) \subseteq SetId
          BY <1>1, <3>2
        <4>4. QED
          BY <4>2, <4>3
      <3>4. CASE t \notin r.own[s]
        BY <3>1, <3>2, <3>4
      <3>5. QED
        BY <3>3, <3>4
    <2>3. z \in Registry
      <3>1. z.index \in [Tag -> Seq(SetId)]
        BY <2>1, <2>2 DEF untagged
      <3>2. z.sets \in SUBSET SetId /\ z.own \in [SetId -> SUBSET Tag]
        BY <1>1, <2>1
      <3> HIDE DEF z
      <3>3. QED
        BY <2>1, <3>1, <3>2 DEF Registry
    <2>4. Agree(z)
      <3> SUFFICES ASSUME NEW t \in Tag
                   PROVE  /\ ToSet(z.index[t]) = {x \in z.sets : t \in z.own[x]}
                          /\ IsInjective(z.index[t])
        BY DEF Agree
      <3>1. ToSet(r.index[t]) = {x \in r.sets : t \in r.own[x]}
        BY DEF Sound, Agree
      <3>2. \A x \in z.sets : z.own[x] = r.own[x]
        BY <1>1, <2>1
      <3> HIDE DEF z
      <3>3. QED
        BY <2>1, <2>2, <3>1, <3>2
    <2>5. \A x \in SetId : x \notin z.sets => z.own[x] = {}
      BY <1>1, <2>1 DEF Sound
    <2>6. QED
      BY <2>1, <2>3, <2>4, <2>5 DEF Sound
  <1>4. QED
    BY <1>2, <1>3

LEMMA AppendSound ==
    ASSUME NEW r, Sound(r), NEW s \in SetId, s \notin r.sets, NEW tags \in SUBSET Tag
    PROVE  /\ Sound(appendSet(r, s, tags))
           /\ appendSet(r, s, tags).sets = r.sets \cup {s}
           /\ appendSet(r, s, tags).own = [r.own EXCEPT ![s] = tags]
  <1> DEFINE z == appendSet(r, s, tags)
  <1>1. /\ r.sets \subseteq SetId /\ r.index \in [Tag -> Seq(SetId)]
        /\ r.own \in [SetId -> SUBSET Tag]
    BY RegistryIs DEF Sound
  <1>2. /\ z.sets = r.sets \cup {s} /\ z.own = [r.own EXCEPT ![s] = tags]
        /\ z.index = [t \in Tag |-> IF t \in tags THEN Append(r.index[t], s) ELSE r.index[t]]
        /\ z = [sets |-> z.sets, index |-> z.index, own |-> z.own]
    BY DEF appendSet
  <1> HIDE DEF z
  <1>3. ASSUME NEW t \in Tag
        PROVE  /\ z.index[t] \in Seq(SetId)
               /\ ToSet(z.index[t]) = {x \in z.sets : t \in z.own[x]}
               /\ IsInjective(z.index[t])
    <2>1. /\ r.index[t] \in Seq(SetId)
          /\ ToSet(r.index[t]) = {x \in r.sets : t \in r.own[x]}
          /\ IsInjective(r.index[t])
      BY <1>1 DEF Sound, Agree
    <2>2. z.own[s] = tags /\ \A x \in r.sets : z.own[x] = r.own[x]
      BY <1>1, <1>2
    <2>3. CASE t \in tags
      <3>1. z.index[t] = Append(r.index[t], s)
        BY <1>2, <2>3
      <3>2. s \notin ToSet(r.index[t])
        BY <2>1
      <3>3. /\ z.index[t] \in Seq(SetId)
            /\ ToSet(z.index[t]) = ToSet(r.index[t]) \cup {s}
            /\ IsInjective(z.index[t])
        BY ONLY <2>1, <3>1, <3>2, s \in SetId, AppendOne
      <3>4. QED
        BY <1>2, <2>1, <2>2, <2>3, <3>3
    <2>4. CASE t \notin tags
      BY <1>2, <2>1, <2>2, <2>4
    <2>5. QED
      BY <2>3, <2>4
  <1>4. z \in Registry
    <2>1. z.index \in [Tag -> Seq(SetId)]
      BY <1>2, <1>3
    <2>2. z.sets \in SUBSET SetId /\ z.own \in [SetId -> SUBSET Tag]
      BY <1>1, <1>2
    <2>3. QED
      BY <1>2, <2>1, <2>2 DEF Registry
  <1>5. \A x \in SetId : x \notin z.sets => z.own[x] = {}
    BY <1>1, <1>2 DEF Sound
  <1>6. Sound(z)
    BY <1>3, <1>4, <1>5 DEF Sound, Agree
  <1>7. QED
    BY <1>2, <1>6 DEF z

LEMMA TagSound ==
    ASSUME NEW r, Sound(r), NEW s \in r.sets, NEW tag \in Tag
    PROVE  /\ Sound(tagSet(r, s, tag))
           /\ tagSet(r, s, tag).sets = r.sets
           /\ tagSet(r, s, tag).own = [r.own EXCEPT ![s] = @ \cup {tag}]
  <1> DEFINE z == tagSet(r, s, tag)
  <1>1. /\ r \in Registry /\ r.sets \subseteq SetId /\ r.index \in [Tag -> Seq(SetId)]
        /\ r.own \in [SetId -> SUBSET Tag]
    BY RegistryIs DEF Sound
  <1>2. /\ z.sets = r.sets /\ z.own = [r.own EXCEPT ![s] = @ \cup {tag}]
        /\ z.index = [r.index EXCEPT ![tag] = IF s \in ToSet(@) THEN @ ELSE Append(@, s)]
        /\ z = [sets |-> z.sets, index |-> z.index, own |-> z.own]
    BY <1>1 DEF tagSet, Registry
  <1> HIDE DEF z
  <1>3. ASSUME NEW t \in Tag
        PROVE  /\ z.index[t] \in Seq(SetId)
               /\ ToSet(z.index[t]) = {x \in z.sets : t \in z.own[x]}
               /\ IsInjective(z.index[t])
    <2>1. /\ r.index[t] \in Seq(SetId)
          /\ ToSet(r.index[t]) = {x \in r.sets : t \in r.own[x]}
          /\ IsInjective(r.index[t])
      BY <1>1 DEF Sound, Agree
    <2>2. \A x \in r.sets : z.own[x] = IF x = s THEN r.own[x] \cup {tag} ELSE r.own[x]
      BY <1>1, <1>2
    <2>3. CASE t = tag /\ s \notin ToSet(r.index[t])
      <3>1. z.index[t] = Append(r.index[t], s)
        BY <1>1, <1>2, <2>3
      <3>2. s \in SetId
        BY <1>1
      <3>3. /\ z.index[t] \in Seq(SetId)
            /\ ToSet(z.index[t]) = ToSet(r.index[t]) \cup {s}
            /\ IsInjective(z.index[t])
        BY ONLY <2>1, <2>3, <3>1, <3>2, AppendOne
      <3>4. QED
        BY <1>2, <2>1, <2>2, <2>3, <3>3
    <2>4. CASE t # tag \/ s \in ToSet(r.index[t])
      <3>1. z.index[t] = r.index[t]
        BY <1>1, <1>2, <2>4
      <3>2. ToSet(z.index[t]) = {x \in z.sets : t \in z.own[x]}
        BY <1>2, <2>1, <2>2, <2>4, <3>1
      <3>3. QED
        BY <2>1, <3>1, <3>2
    <2>5. QED
      BY <2>3, <2>4
  <1>4. z \in Registry
    <2>1. z.index \in [Tag -> Seq(SetId)]
      BY <1>1, <1>2, <1>3
    <2>2. z.sets \in SUBSET SetId /\ z.own \in [SetId -> SUBSET Tag]
      BY <1>1, <1>2
    <2>3. QED
      BY <1>2, <2>1, <2>2 DEF Registry
  <1>5. \A x \in SetId : x \notin z.sets => z.own[x] = {}
    BY <1>1, <1>2 DEF Sound
  <1>6. Sound(z)
    BY <1>3, <1>4, <1>5 DEF Sound, Agree
  <1>7. QED
    BY <1>2, <1>6 DEF z
-----------------------------------------------------------------------------
(* The loops over sets and tags, round by round.                           *)
LEMMA AppendTyped ==
    ASSUME NEW r \in Registry, NEW s \in SetId, NEW tags \in SUBSET Tag
    PROVE  appendSet(r, s, tags) \in Registry
  <1>1. /\ r.sets \in SUBSET SetId /\ r.index \in [Tag -> Seq(SetId)]
        /\ r.own \in [SetId -> SUBSET Tag]
    BY DEF Registry
  <1>2. [r.own EXCEPT ![s] = tags] \in [SetId -> SUBSET Tag]
    BY <1>1
  <1>3. CASE s \in r.sets
    <2>1. appendSet(r, s, tags) = [sets |-> r.sets, index |-> r.index, own |-> [r.own EXCEPT ![s] = tags]]
      BY <1>3 DEF appendSet, Registry
    <2>2. QED
      BY <1>1, <1>2, <2>1 DEF Registry
  <1>4. CASE s \notin r.sets
    <2>1. \A t \in Tag : Append(r.index[t], s) \in Seq(SetId) /\ r.index[t] \in Seq(SetId)
      BY <1>1
    <2>2. [t \in Tag |-> IF t \in tags THEN Append(r.index[t], s) ELSE r.index[t]] \in [Tag -> Seq(SetId)]
      BY <2>1
    <2>3. r.sets \cup {s} \in SUBSET SetId
      BY <1>1
    <2>4. QED
      BY <1>2, <1>4, <2>2, <2>3 DEF Registry, appendSet
  <1>5. QED
    BY <1>3, <1>4

LEMMA TagTyped ==
    ASSUME NEW r \in Registry, NEW s \in SetId, NEW tag \in Tag
    PROVE  tagSet(r, s, tag) \in Registry
  <1>1. /\ r.sets \in SUBSET SetId /\ r.index \in [Tag -> Seq(SetId)]
        /\ r.own \in [SetId -> SUBSET Tag]
    BY DEF Registry
  <1>2. CASE s \notin r.sets
    <2>1. r.own[s] \cup {tag} \in SUBSET Tag
      BY <1>1
    <2>2. QED
      BY <1>2, <2>1, AppendTyped DEF tagSet
  <1>3. CASE s \in r.sets
    <2> DEFINE ix == [r.index EXCEPT ![tag] = IF s \in ToSet(@) THEN @ ELSE Append(@, s)]
               ow == [r.own EXCEPT ![s] = @ \cup {tag}]
    <2>1. tagSet(r, s, tag) = [sets |-> r.sets, index |-> ix, own |-> ow]
      BY <1>3 DEF tagSet, Registry
    <2>2. Append(r.index[tag], s) \in Seq(SetId) /\ r.index[tag] \in Seq(SetId)
      BY <1>1
    <2>3. ix \in [Tag -> Seq(SetId)] /\ ow \in [SetId -> SUBSET Tag]
      BY <1>1, <2>2
    <2> HIDE DEF ix, ow
    <2>4. QED
      BY <1>1, <2>1, <2>3 DEF Registry
  <1>4. QED
    BY <1>2, <1>3

LEMMA ClearRounds ==
    ASSUME NEW r, Sound(r), NEW o \in Seq(SetId)
    PROVE  \E c : /\ c[0] = r
                  /\ \A i \in 1 .. Len(o) : c[i] = removeSet(c[i - 1], o[i])
                  /\ clearOutputSets(r, o) = c[Len(o)]
  <1> DEFINE n == Len(o)
             T == {x \in Registry : Sound(x)}
             h == [i \in 1 .. n |-> [x \in T |-> removeSet(x, o[i])]]
             Loop(f) == f = [i \in 0 .. n |-> IF i = 0 THEN r ELSE removeSet(f[i - 1], o[i])]
             c == CHOOSE f : Loop(f)
  <1>1. n \in Nat /\ r \in T
    BY DEF Sound
  <1>2. \A x \in T, i \in 1 .. n : removeSet(x, o[i]) \in T
    <2>1. \A x, s : Sound(x) /\ s \in SetId => Sound(removeSet(x, s))
      BY RemoveSound
    <2>2. \A x \in T, i \in 1 .. n : Sound(x) /\ o[i] \in SetId
      OBVIOUS
    <2>3. \A x : Sound(x) => x \in T
      BY DEF Sound
    <2>4. QED
      BY <2>1, <2>2, <2>3
  <1>3. clearOutputSets(r, o) = c[n]
    BY DEF clearOutputSets, ForEach
  <1>4. h \in Bodies(n, T)
    BY <1>2 DEF Bodies
  <1>5. PICK f \in Runs(n, T, r, h) : TRUE
    <2> HIDE DEF h, n, T
    <2>1. QED
      BY <1>1, <1>4, Rounds
  <1>6. ASSUME NEW i \in 1 .. n
        PROVE  f[i] = removeSet(f[i - 1], o[i])
    <2>1. f[i - 1] \in T
      BY <1>1, <1>5 DEF Runs
    <2>2. QED
      BY <1>5, <2>1 DEF Runs
  <1>7. Loop(f)
    BY <1>5, <1>6 DEF Runs
  <1>8. Loop(c)
    <2> HIDE DEF Loop
    <2>1. QED
      BY <1>7
  <1> HIDE DEF c
  <1>9. c[0] = r /\ \A i \in 1 .. n : c[i] = removeSet(c[i - 1], o[i])
    BY <1>1, <1>8
  <1>10. QED
    BY <1>3, <1>9

Appended(r, new, tags) == ForEach(LAMBDA q, s : appendSet(q, s, tags), r, new)

LEMMA AppendRounds ==
    ASSUME NEW r \in Registry, NEW o \in Seq(SetId), NEW tags \in SUBSET Tag
    PROVE  \E c : /\ c[0] = r
                  /\ \A i \in 1 .. Len(o) : c[i] = appendSet(c[i - 1], o[i], tags)
                  /\ Appended(r, o, tags) = c[Len(o)]
  <1> DEFINE n == Len(o)
             h == [i \in 1 .. n |-> [x \in Registry |-> appendSet(x, o[i], tags)]]
             Loop(f) == f = [i \in 0 .. n |-> IF i = 0 THEN r ELSE appendSet(f[i - 1], o[i], tags)]
             c == CHOOSE f : Loop(f)
  <1>1. n \in Nat /\ r \in Registry
    OBVIOUS
  <1>2. \A x \in Registry, i \in 1 .. n : appendSet(x, o[i], tags) \in Registry
    BY AppendTyped
  <1>3. Appended(r, o, tags) = c[n]
    BY DEF Appended, ForEach
  <1>4. h \in Bodies(n, Registry)
    BY <1>2 DEF Bodies
  <1>5. PICK f \in Runs(n, Registry, r, h) : TRUE
    <2> HIDE DEF h, n
    <2>1. QED
      BY <1>1, <1>4, Rounds
  <1>6. ASSUME NEW i \in 1 .. n
        PROVE  f[i] = appendSet(f[i - 1], o[i], tags)
    <2>1. f[i - 1] \in Registry
      BY <1>1, <1>5 DEF Runs
    <2>2. QED
      BY <1>5, <2>1 DEF Runs
  <1>7. Loop(f)
    BY <1>5, <1>6 DEF Runs
  <1>8. Loop(c)
    <2> HIDE DEF Loop
    <2>1. QED
      BY <1>7
  <1> HIDE DEF c
  <1>9. c[0] = r /\ \A i \in 1 .. n : c[i] = appendSet(c[i - 1], o[i], tags)
    BY <1>1, <1>8
  <1>10. QED
    BY <1>3, <1>9

TagSets(r, found, t) == ForEach(LAMBDA p, s : tagSet(p, s, t), r, found)

LEMMA TagRounds ==
    ASSUME NEW r \in Registry, NEW o \in Seq(SetId), NEW t \in Tag
    PROVE  \E c : /\ c[0] = r
                  /\ \A i \in 1 .. Len(o) : c[i] = tagSet(c[i - 1], o[i], t)
                  /\ TagSets(r, o, t) = c[Len(o)]
  <1> DEFINE n == Len(o)
             h == [i \in 1 .. n |-> [x \in Registry |-> tagSet(x, o[i], t)]]
             Loop(f) == f = [i \in 0 .. n |-> IF i = 0 THEN r ELSE tagSet(f[i - 1], o[i], t)]
             c == CHOOSE f : Loop(f)
  <1>1. n \in Nat /\ r \in Registry
    OBVIOUS
  <1>2. \A x \in Registry, i \in 1 .. n : tagSet(x, o[i], t) \in Registry
    BY TagTyped
  <1>3. TagSets(r, o, t) = c[n]
    BY DEF TagSets, ForEach
  <1>4. h \in Bodies(n, Registry)
    BY <1>2 DEF Bodies
  <1>5. PICK f \in Runs(n, Registry, r, h) : TRUE
    <2> HIDE DEF h, n
    <2>1. QED
      BY <1>1, <1>4, Rounds
  <1>6. ASSUME NEW i \in 1 .. n
        PROVE  f[i] = tagSet(f[i - 1], o[i], t)
    <2>1. f[i - 1] \in Registry
      BY <1>1, <1>5 DEF Runs
    <2>2. QED
      BY <1>5, <2>1 DEF Runs
  <1>7. Loop(f)
    BY <1>5, <1>6 DEF Runs
  <1>8. Loop(c)
    <2> HIDE DEF Loop
    <2>1. QED
      BY <1>7
  <1> HIDE DEF c
  <1>9. c[0] = r /\ \A i \in 1 .. n : c[i] = tagSet(c[i - 1], o[i], t)
    BY <1>1, <1>8
  <1>10. QED
    BY <1>3, <1>9
(* What the loops do.                                                      *)
FirstOf(q, i) == {q[j] : j \in 1 .. i}

LEMMA FirstsGrow ==
    ASSUME NEW T, NEW q \in Seq(T)
    PROVE  /\ FirstOf(q, 0) = {}
           /\ \A i \in 1 .. Len(q) : FirstOf(q, i) = FirstOf(q, i - 1) \cup {q[i]}
           /\ FirstOf(q, Len(q)) = ToSet(q)
  <1>1. ASSUME NEW i \in 1 .. Len(q)
        PROVE  FirstOf(q, i) = FirstOf(q, i - 1) \cup {q[i]}
    <2>1. 1 .. i = (1 .. (i - 1)) \cup {i}
      OBVIOUS
    <2>2. QED
      BY <2>1 DEF FirstOf
  <1>2. QED
    BY <1>1 DEF FirstOf, ToSet

Prefix(o, i) == [j \in 1 .. i |-> o[j]]

LEMMA PrefixesGrow ==
    ASSUME NEW o \in Seq(SetId)
    PROVE  /\ \A q \in Seq(SetId) : q \o Prefix(o, 0) = q
           /\ Prefix(o, Len(o)) = o
           /\ \A q \in Seq(SetId), i \in 1 .. Len(o) :
                 Append(q \o Prefix(o, i - 1), o[i]) = q \o Prefix(o, i)
  <1>1. ASSUME NEW i \in 0 .. Len(o)
        PROVE  Prefix(o, i) \in Seq(SetId) /\ Len(Prefix(o, i)) = i
    BY DEF Prefix
  <1>2. ASSUME NEW q \in Seq(SetId)
        PROVE  q \o Prefix(o, 0) = q
    <2>1. Prefix(o, 0) \in Seq(SetId) /\ Len(Prefix(o, 0)) = 0
      BY <1>1
    <2>2. QED
      BY <2>1
  <1>3. ASSUME NEW q \in Seq(SetId), NEW i \in 1 .. Len(o)
        PROVE  Append(q \o Prefix(o, i - 1), o[i]) = q \o Prefix(o, i)
    <2> DEFINE x == Prefix(o, i - 1)
               y == Prefix(o, i)
    <2>1. /\ x \in Seq(SetId) /\ Len(x) = i - 1 /\ y \in Seq(SetId) /\ Len(y) = i
          /\ o[i] \in SetId
      BY <1>1
    <2>2. y[i] = o[i] /\ \A j \in 1 .. i - 1 : x[j] = y[j]
      BY DEF Prefix
    <2> HIDE DEF x, y
    <2> DEFINE z == q \o x
               w == q \o y
               e == o[i]
               n == Len(q)
    <2>3. /\ n \in Nat /\ i \in Nat \ {0} /\ e \in SetId
          /\ z \in Seq(SetId) /\ Len(z) = n + i - 1 /\ w \in Seq(SetId) /\ Len(w) = n + i
      BY <2>1
    <2>4. /\ \A j \in 1 .. n + i - 1 : z[j] = IF j <= n THEN q[j] ELSE x[j - n]
          /\ \A j \in 1 .. n + i : w[j] = IF j <= n THEN q[j] ELSE y[j - n]
      BY <2>1, <2>3
    <2>5. \A j \in 1 .. n + i - 1 : z[j] = w[j]
      BY <2>2, <2>3, <2>4
    <2>6. w[n + i] = e
      BY <2>2, <2>3, <2>4
    <2> HIDE DEF z, w, n, e
    <2>7. /\ Append(z, e) \in Seq(SetId) /\ Len(Append(z, e)) = n + i
          /\ \A j \in 1 .. n + i : Append(z, e)[j] = w[j]
      BY <2>3, <2>5, <2>6
    <2>8. Append(z, e) = w
      BY <2>3, <2>7
    <2>9. QED
      BY <2>8 DEF x, y, z, w, e
  <1>4. Prefix(o, Len(o)) = o
    BY DEF Prefix
  <1>5. QED
    BY <1>2, <1>3, <1>4

LEMMA ClearSound ==
    ASSUME NEW r, Sound(r), NEW o \in Seq(SetId)
    PROVE  /\ Sound(clearOutputSets(r, o))
           /\ clearOutputSets(r, o).sets = r.sets \ ToSet(o)
           /\ \A s \in SetId \ ToSet(o) : clearOutputSets(r, o).own[s] = r.own[s]
  <1>1. PICK c : /\ c[0] = r
                 /\ \A i \in 1 .. Len(o) : c[i] = removeSet(c[i - 1], o[i])
                 /\ clearOutputSets(r, o) = c[Len(o)]
    BY ClearRounds
  <1> DEFINE Good(i) == /\ Sound(c[i])
                        /\ c[i].sets = r.sets \ FirstOf(o, i)
                        /\ \A s \in SetId \ FirstOf(o, i) : c[i].own[s] = r.own[s]
             S == {i \in 0 .. Len(o) : Good(i)}
  <1>2. Len(o) \in Nat /\ Len(o) \in 0 .. Len(o) /\ 0 \in 0 .. Len(o)
    OBVIOUS
  <1>3. 0 \in S
    BY <1>1, <1>2, FirstsGrow
  <1>4. ASSUME NEW i \in 1 .. Len(o), i - 1 \in S
        PROVE  i \in S
    <2>1. Good(i - 1) /\ o[i] \in SetId /\ FirstOf(o, i) = FirstOf(o, i - 1) \cup {o[i]}
      <3> HIDE DEF Good
      <3>1. FirstOf(o, i) = FirstOf(o, i - 1) \cup {o[i]}
        BY FirstsGrow
      <3>2. QED
        BY <1>4, <3>1
    <2>2. c[i] = removeSet(c[i - 1], o[i])
      BY <1>1
    <2>3. /\ Sound(c[i]) /\ c[i].sets = c[i - 1].sets \ {o[i]}
          /\ c[i].own = [c[i - 1].own EXCEPT ![o[i]] = {}]
      <3>1. Sound(c[i - 1]) /\ o[i] \in SetId
        BY <2>1
      <3> DEFINE x == c[i - 1]
                 z == removeSet(x, o[i])
      <3>2. Sound(z) /\ z.sets = x.sets \ {o[i]} /\ z.own = [x.own EXCEPT ![o[i]] = {}]
        BY ONLY <3>1, RemoveSound
      <3>3. QED
        BY ONLY <2>2, <3>2
    <2>4. c[i - 1].own \in [SetId -> SUBSET Tag]
      BY <2>1, RegistryIs DEF Sound
    <2>5. Good(i)
      BY <2>1, <2>3, <2>4
    <2> HIDE DEF Good
    <2>6. QED
      BY <2>5
  <1>5. Len(o) \in S
    <2> HIDE DEF S
    <2>1. QED
      BY <1>2, <1>3, <1>4, Upto
  <1>6. QED
    BY <1>1, <1>5, FirstsGrow

LEMMA AppendsSound ==
    ASSUME NEW r, Sound(r), NEW o \in Seq(SetId), IsInjective(o), ToSet(o) \cap r.sets = {},
           NEW tags \in SUBSET Tag
    PROVE  /\ Sound(Appended(r, o, tags))
           /\ Appended(r, o, tags).sets = r.sets \cup ToSet(o)
           /\ \A s \in SetId :
                 Appended(r, o, tags).own[s] = IF s \in ToSet(o) THEN tags ELSE r.own[s]
           /\ \A t \in tags : Appended(r, o, tags).index[t] = r.index[t] \o o
  <1>0. r \in Registry
    BY DEF Sound
  <1>1. PICK c : /\ c[0] = r
                 /\ \A i \in 1 .. Len(o) : c[i] = appendSet(c[i - 1], o[i], tags)
                 /\ Appended(r, o, tags) = c[Len(o)]
    BY <1>0, AppendRounds
  <1> DEFINE Good(i) == /\ Sound(c[i])
                        /\ c[i].sets = r.sets \cup FirstOf(o, i)
                        /\ \A s \in SetId :
                              c[i].own[s] = IF s \in FirstOf(o, i) THEN tags ELSE r.own[s]
                        /\ \A t \in tags : c[i].index[t] = r.index[t] \o Prefix(o, i)
             S == {i \in 0 .. Len(o) : Good(i)}
  <1>2. Len(o) \in Nat /\ Len(o) \in 0 .. Len(o) /\ 0 \in 0 .. Len(o)
    OBVIOUS
  <1>3. 0 \in S
    <2>1. ASSUME NEW t \in Tag
          PROVE  r.index[t] = r.index[t] \o Prefix(o, 0)
      <3>1. r.index[t] \in Seq(SetId)
        BY <1>0, RegistryIs
      <3>2. QED
        BY <3>1, PrefixesGrow
    <2>2. Good(0)
      BY <1>1, <2>1, FirstsGrow
    <2> HIDE DEF Good
    <2>3. QED
      BY <1>2, <2>2
  <1>4. ASSUME NEW i \in 1 .. Len(o), i - 1 \in S
        PROVE  i \in S
    <2>1. Good(i - 1) /\ o[i] \in SetId /\ FirstOf(o, i) = FirstOf(o, i - 1) \cup {o[i]}
      <3> HIDE DEF Good
      <3>1. FirstOf(o, i) = FirstOf(o, i - 1) \cup {o[i]}
        BY FirstsGrow
      <3>2. QED
        BY <1>4, <3>1
    <2>2. c[i] = appendSet(c[i - 1], o[i], tags)
      BY <1>1
    <2>3. o[i] \notin r.sets
      BY DEF ToSet
    <2>4. o[i] \notin FirstOf(o, i - 1)
      BY DEF FirstOf, IsInjective
    <2>5. /\ Sound(c[i]) /\ c[i].sets = c[i - 1].sets \cup {o[i]}
          /\ c[i].own = [c[i - 1].own EXCEPT ![o[i]] = tags]
      BY <2>1, <2>2, <2>3, <2>4, AppendSound
    <2>6. c[i - 1].own \in [SetId -> SUBSET Tag]
      BY <2>1, RegistryIs DEF Sound
    <2>7. ASSUME NEW t \in tags
          PROVE  c[i].index[t] = r.index[t] \o Prefix(o, i)
      <3>1. c[i].index[t] = Append(c[i - 1].index[t], o[i])
        BY <2>1, <2>2, <2>3, <2>4 DEF appendSet
      <3>2. c[i - 1].index[t] = r.index[t] \o Prefix(o, i - 1)
        BY <2>1
      <3>3. r.index[t] \in Seq(SetId)
        BY <1>0, RegistryIs
      <3> DEFINE q == r.index[t]
                 x == c[i].index[t]
      <3>4. q \in Seq(SetId) /\ x = Append(q \o Prefix(o, i - 1), o[i])
        BY <3>1, <3>2, <3>3
      <3>5. x = q \o Prefix(o, i)
        <4> HIDE DEF q, x
        <4>1. QED
          BY ONLY <3>4, PrefixesGrow, i \in 1 .. Len(o), o \in Seq(SetId)
      <3>6. QED
        BY <3>5
    <2>8. Good(i)
      BY <2>1, <2>5, <2>6, <2>7
    <2> HIDE DEF Good
    <2>9. QED
      BY <2>8
  <1>5. Len(o) \in S
    <2> HIDE DEF S
    <2>1. QED
      BY <1>2, <1>3, <1>4, Upto
  <1>6. Good(Len(o)) /\ FirstOf(o, Len(o)) = ToSet(o) /\ Prefix(o, Len(o)) = o
    <2>1. FirstOf(o, Len(o)) = ToSet(o) /\ Prefix(o, Len(o)) = o
      BY FirstsGrow, PrefixesGrow
    <2> HIDE DEF Good
    <2>2. QED
      BY <1>5, <2>1
  <1>7. QED
    BY <1>1, <1>6

(* The sets of q, and only these, have got the tags T.                     *)
Tagged(z, r, q, T) ==
    /\ Sound(z)
    /\ z.sets = r.sets
    /\ \A s \in SetId : z.own[s] = IF s \in ToSet(q) THEN r.own[s] \cup T ELSE r.own[s]

LEMMA TagsSound ==
    ASSUME NEW r, Sound(r), NEW o \in Seq(SetId), ToSet(o) \subseteq r.sets, NEW t \in Tag
    PROVE  Tagged(TagSets(r, o, t), r, o, {t})
  <1>0. r \in Registry
    BY DEF Sound
  <1>1. PICK c : /\ c[0] = r
                 /\ \A i \in 1 .. Len(o) : c[i] = tagSet(c[i - 1], o[i], t)
                 /\ TagSets(r, o, t) = c[Len(o)]
    BY <1>0, TagRounds
  <1> DEFINE Good(i) == /\ Sound(c[i])
                        /\ c[i].sets = r.sets
                        /\ \A s \in SetId :
                              c[i].own[s] = IF s \in FirstOf(o, i) THEN r.own[s] \cup {t}
                                            ELSE r.own[s]
             S == {i \in 0 .. Len(o) : Good(i)}
  <1>2. Len(o) \in Nat /\ Len(o) \in 0 .. Len(o) /\ 0 \in 0 .. Len(o)
    OBVIOUS
  <1>3. 0 \in S
    BY <1>1, <1>2, FirstsGrow
  <1>4. ASSUME NEW i \in 1 .. Len(o), i - 1 \in S
        PROVE  i \in S
    <2>1. Good(i - 1) /\ o[i] \in SetId /\ FirstOf(o, i) = FirstOf(o, i - 1) \cup {o[i]}
      <3> HIDE DEF Good
      <3>1. FirstOf(o, i) = FirstOf(o, i - 1) \cup {o[i]}
        BY FirstsGrow
      <3>2. QED
        BY <1>4, <3>1
    <2>2. c[i] = tagSet(c[i - 1], o[i], t)
      BY <1>1
    <2>3. o[i] \in c[i - 1].sets
      BY <2>1 DEF ToSet
    <2>4. /\ Sound(c[i]) /\ c[i].sets = c[i - 1].sets
          /\ c[i].own = [c[i - 1].own EXCEPT ![o[i]] = @ \cup {t}]
      BY <2>1, <2>2, <2>3, TagSound
    <2>5. c[i - 1].own \in [SetId -> SUBSET Tag]
      BY <2>1, RegistryIs DEF Sound
    <2>6. \A s \in SetId : c[i].own[s] = IF s = o[i] THEN c[i - 1].own[s] \cup {t}
                                         ELSE c[i - 1].own[s]
      BY <2>4, <2>5
    <2>7. Good(i)
      BY <2>1, <2>4, <2>6
    <2> HIDE DEF Good
    <2>8. QED
      BY <2>7
  <1>5. Len(o) \in S
    <2> HIDE DEF S
    <2>1. QED
      BY <1>2, <1>3, <1>4, Upto
  <1>6. QED
    BY <1>1, <1>5, FirstsGrow DEF Tagged

LEMMA TagAllRounds ==
    ASSUME NEW r, Sound(r), NEW o \in Seq(SetId), ToSet(o) \subseteq r.sets, NEW add \in Seq(Tag)
    PROVE  \E c : /\ c[0] = r
                  /\ \A i \in 1 .. Len(add) : c[i] = TagSets(c[i - 1], o, add[i])
                  /\ TagAll(r, o, add) = c[Len(add)]
  <1> DEFINE n == Len(add)
             T == {x \in Registry : Sound(x) /\ x.sets = r.sets}
             h == [i \in 1 .. n |-> [x \in T |-> TagSets(x, o, add[i])]]
             Loop(f) == f = [i \in 0 .. n |-> IF i = 0 THEN r ELSE TagSets(f[i - 1], o, add[i])]
             c == CHOOSE f : Loop(f)
  <1>1. n \in Nat /\ r \in T
    BY DEF Sound
  <1>2. \A x \in T, i \in 1 .. n : TagSets(x, o, add[i]) \in T
    <2>1. \A x : Sound(x) /\ x.sets = r.sets => x \in T
      BY DEF Sound
    <2> SUFFICES ASSUME NEW x \in T, NEW i \in 1 .. n
                 PROVE  TagSets(x, o, add[i]) \in T
      OBVIOUS
    <2>2. Sound(x) /\ x.sets = r.sets /\ add[i] \in Tag
      OBVIOUS
    <2> HIDE DEF T
    <2>3. Tagged(TagSets(x, o, add[i]), x, o, {add[i]})
      BY <2>2, TagsSound
    <2>4. QED
      BY <2>1, <2>2, <2>3 DEF Tagged
  <1>3. TagAll(r, o, add) = c[n]
    BY DEF TagAll, TagSets, ForEach
  <1>4. h \in Bodies(n, T)
    BY <1>2 DEF Bodies
  <1>5. PICK f \in Runs(n, T, r, h) : TRUE
    <2> HIDE DEF h, n, T
    <2>1. QED
      BY <1>1, <1>4, Rounds
  <1>6. ASSUME NEW i \in 1 .. n
        PROVE  f[i] = TagSets(f[i - 1], o, add[i])
    <2>1. f[i - 1] \in T
      BY <1>1, <1>5 DEF Runs
    <2>2. QED
      BY <1>5, <2>1 DEF Runs
  <1>7. Loop(f)
    BY <1>5, <1>6 DEF Runs
  <1>8. Loop(c)
    <2> HIDE DEF Loop
    <2>1. QED
      BY <1>7
  <1> HIDE DEF c
  <1>9. c[0] = r /\ \A i \in 1 .. n : c[i] = TagSets(c[i - 1], o, add[i])
    BY <1>1, <1>8
  <1>10. QED
    BY <1>3, <1>9

LEMMA TagAllSound ==
    ASSUME NEW r, Sound(r), NEW o \in Seq(SetId), ToSet(o) \subseteq r.sets, NEW add \in Seq(Tag)
    PROVE  Tagged(TagAll(r, o, add), r, o, ToSet(add))
  <1>1. PICK c : /\ c[0] = r
                 /\ \A i \in 1 .. Len(add) : c[i] = TagSets(c[i - 1], o, add[i])
                 /\ TagAll(r, o, add) = c[Len(add)]
    BY TagAllRounds
  <1> DEFINE S == {i \in 0 .. Len(add) : Tagged(c[i], r, o, FirstOf(add, i))}
  <1>2. Len(add) \in Nat /\ Len(add) \in 0 .. Len(add) /\ 0 \in 0 .. Len(add)
    OBVIOUS
  <1>3. 0 \in S
    BY <1>1, <1>2, FirstsGrow DEF Tagged
  <1>4. ASSUME NEW i \in 1 .. Len(add), i - 1 \in S
        PROVE  i \in S
    <2>1. /\ Tagged(c[i - 1], r, o, FirstOf(add, i - 1)) /\ add[i] \in Tag
          /\ FirstOf(add, i) = FirstOf(add, i - 1) \cup {add[i]}
      BY <1>4, FirstsGrow
    <2>2. c[i] = TagSets(c[i - 1], o, add[i])
      BY <1>1
    <2>3. Sound(c[i - 1]) /\ ToSet(o) \subseteq c[i - 1].sets
      BY <2>1 DEF Tagged
    <2>4. Tagged(c[i], c[i - 1], o, {add[i]})
      BY <2>1, <2>2, <2>3, TagsSound
    <2>5. Tagged(c[i], r, o, FirstOf(add, i))
      BY <2>1, <2>4 DEF Tagged
    <2>6. QED
      BY <2>5
  <1>5. Len(add) \in S
    <2> HIDE DEF S
    <2>1. QED
      BY <1>2, <1>3, <1>4, Upto
  <1>6. QED
    BY <1>1, <1>5, FirstsGrow
LEMMA FoundIs ==
    ASSUME NEW r, Sound(r), NEW tags \in Seq(Tag)
    PROVE  /\ setsWithTags(r, tags) \in Seq(SetId)
           /\ IsInjective(setsWithTags(r, tags))
           /\ tags = <<>> => setsWithTags(r, tags) = <<>>
           /\ tags # <<>> => ToSet(setsWithTags(r, tags)) = {s \in r.sets : ToSet(tags) \subseteq r.own[s]}
  <1>1. CASE tags = <<>>
    BY <1>1 DEF setsWithTags, IsInjective
  <1>2. CASE tags # <<>>
    <2> DEFINE q == r.index[Head(tags)]
               S == {s \in SetId : \A t \in ToSet(tags) : s \in ToSet(r.index[t])}
    <2>1. /\ r.sets \subseteq SetId /\ r.index \in [Tag -> Seq(SetId)]
          /\ r.own \in [SetId -> SUBSET Tag]
      BY RegistryIs DEF Sound
    <2>2. \A t \in Tag : /\ ToSet(r.index[t]) = {s \in r.sets : t \in r.own[s]}
                         /\ IsInjective(r.index[t])
      BY DEF Sound, Agree
    <2>3. Head(tags) \in ToSet(tags) /\ ToSet(tags) \subseteq Tag
      BY <1>2 DEF ToSet
    <2>4. q \in Seq(SetId) /\ IsInjective(q) /\ setsWithTags(r, tags) = Listed(q, S)
      BY <1>2, <2>1, <2>2, <2>3 DEF setsWithTags
    <2>5. /\ Listed(q, S) \in Seq(SetId) /\ IsInjective(Listed(q, S))
          /\ ToSet(Listed(q, S)) = ToSet(q) \cap S
      <3> HIDE DEF q, S
      <3>1. QED
        BY <2>4, ListedIs
    <2>6. ToSet(q) \cap S = {s \in r.sets : ToSet(tags) \subseteq r.own[s]}
      <3>1. ToSet(q) = {s \in r.sets : Head(tags) \in r.own[s]}
        BY <2>2, <2>3
      <3>2. S = {s \in SetId : \A t \in ToSet(tags) : s \in r.sets /\ t \in r.own[s]}
        BY <2>2, <2>3
      <3> HIDE DEF q, S
      <3>3. QED
        BY <2>1, <2>3, <3>1, <3>2
    <2>7. QED
      BY <1>2, <2>4, <2>5, <2>6
  <1>3. QED
    BY <1>1, <1>2

(* There are as many fresh identities as there is room for.                *)
LEMMA FreshIs ==
    ASSUME NEW S, IsFiniteSet(S), NEW used, NEW k, Room(S, used, k)
    PROVE  /\ FreshIn(S, used, k) \in Seq(S)
           /\ Len(FreshIn(S, used, k)) = k
           /\ IsInjective(FreshIn(S, used, k))
           /\ ToSet(FreshIn(S, used, k)) \cap used = {}
  <1> DEFINE F == S \ used
             q == FreshIn(S, used, k)
  <1>1. IsFiniteSet(F)
    BY FS_Subset
  <1>2. Cardinality(F) \in Nat /\ ExistsBijection(1 .. Cardinality(F), F)
    BY <1>1, FS_CardinalityType
  <1>3. k \in 0 .. Cardinality(F) /\ k \in Nat
    BY <1>2 DEF Room
  <1>4. PICK g \in Bijection(1 .. Cardinality(F), F) : TRUE
    BY <1>2 DEF ExistsBijection
  <1>5. g \in [1 .. Cardinality(F) -> F] /\ IsInjective(g)
    BY <1>4 DEF Bijection, Injection
  <1>6. \E p \in [1 .. k -> F] : IsInjective(p)
    <2> DEFINE p == [i \in 1 .. k |-> g[i]]
    <2>1. \A i \in 1 .. k : i \in 1 .. Cardinality(F)
      BY <1>2, <1>3
    <2>2. p \in [1 .. k -> F]
      BY <1>5, <2>1
    <2>3. IsInjective(p)
      BY <1>5, <2>1 DEF IsInjective
    <2> HIDE DEF p
    <2>4. QED
      BY <2>2, <2>3
  <1>7. q \in [1 .. k -> F] /\ IsInjective(q)
    BY <1>6 DEF FreshIn
  <1> HIDE DEF q
  <1>8. q \in Seq(S) /\ Len(q) = k
    BY <1>3, <1>7
  <1>9. ToSet(q) \cap used = {}
    BY <1>7 DEF ToSet
  <1>10. QED
    BY <1>7, <1>8, <1>9 DEF q
-----------------------------------------------------------------------------
(* The chain. Operators that create sets are remembered as creators.       *)
Places ==
    /\ chain \in Chains
    /\ outs \in [Ops -> Seq(SetId)]
    /\ ins \in [Ops -> Seq(SetId)]
    /\ creator \subseteq {o \in Ops : chain[o].kind \in Making}
    /\ phase \in {"update", "node", "gone"}
    /\ at \in Nat \ {0}
    /\ phase # "gone" => at \in Ops

FlowInv == Places /\ Sound(reg)

LEMMA ChainIs ==
    ASSUME Places
    PROVE  /\ Len(chain) \in Nat \ {0}
           /\ \A o \in Ops : /\ chain[o].out \in Seq(Tag) /\ chain[o].add \in Seq(Tag)
                             /\ chain[o].in \in Seq(Tag)
                             /\ ToSet(chain[o].out) \in SUBSET Tag
                             /\ ToSet(chain[o].add) \in SUBSET Tag
                             /\ ToSet(chain[o].in) \in SUBSET Tag
  <1>1. chain # <<>> /\ chain \in Chains
    BY ChainAssumption DEF Places
  <1> DEFINE Operators ==
               [kind : {"init", "evaluate", "rank", "score", "elite", "reduce", "pool",
                        "children", "filtered", "vary", "truncate", "merge"},
                out : Seq(Tag), add : Seq(Tag), in : Seq(Tag), size : Nat, number : Nat]
  <1>2. chain \in Seq(Operators)
    BY <1>1, ChainAssumption
  <1>3. \A o \in Ops : chain[o] \in Operators
    <2> HIDE DEF Operators
    <2>1. QED
      BY ONLY <1>2 DEF Ops
  <1>4. Len(chain) \in Nat \ {0}
    <2> HIDE DEF Operators
    <2>1. QED
      BY <1>1, <1>2
  <1>5. \A o \in Ops : chain[o].out \in Seq(Tag) /\ chain[o].add \in Seq(Tag) /\ chain[o].in \in Seq(Tag)
    BY <1>3
  <1>6. \A q \in Seq(Tag) : ToSet(q) \in SUBSET Tag
    BY DEF ToSet
  <1> HIDE DEF Operators
  <1>7. QED
    BY <1>4, <1>5, <1>6

LEMMA SizeIs ==
    ASSUME Places, NEW o \in Ops
    PROVE  chain[o].size \in Nat
  <1> DEFINE T == [kind : {"init", "evaluate", "rank", "score", "elite", "reduce", "pool",
                           "children", "filtered", "vary", "truncate", "merge"},
                   out : Seq(Tag), add : Seq(Tag), in : Seq(Tag), size : Nat, number : Nat]
  <1>1. chain \in Seq(T)
    BY ChainAssumption DEF Places
  <1>2. chain[o] \in T
    <2> HIDE DEF T
    <2>1. QED
      BY ONLY <1>1, o \in Ops DEF Ops
  <1>3. QED
    BY <1>2

LEMMA InitFlow == Init => FlowInv
  <1> SUFFICES ASSUME Init
               PROVE  FlowInv
    OBVIOUS
  <1>1. chain # <<>> /\ chain \in Chains
    BY ChainAssumption DEF Init
  <1>2. Len(chain) \in Nat \ {0}
    BY <1>1, ChainAssumption
  <1>3. Places
    BY <1>1, <1>2 DEF Init, Places, Ops
  <1>4. QED
    BY <1>3, EmptySound DEF Init, FlowInv

(* What a step may do to the sets.                                         *)
Idle == UNCHANGED <<reg, outs, ins, creator>>

(* The sets made by the operator whose turn it is have replaced those it   *)
(* knew of.                                                                *)
Remade(new) ==
    /\ new \in Seq(SetId) /\ IsInjective(new)
    /\ ToSet(new) \cap (reg.sets \ ToSet(outs[at])) = {}
    /\ Sound(reg')
    /\ reg'.sets = (reg.sets \ ToSet(outs[at])) \cup ToSet(new)
    /\ \A s \in reg'.sets :
          reg'.own[s] = IF s \in ToSet(new) THEN ToSet(Op.out) ELSE reg.own[s]
    /\ \A t \in ToSet(Op.out) :
          \E q \in Seq(SetId) : ToSet(q) \cap ToSet(new) = {} /\ reg'.index[t] = q \o new
    /\ outs' = [outs EXCEPT ![at] = new]
    /\ creator' = creator \cup {at}

LEMMA ReplaceMakes ==
    ASSUME FlowInv, at \in Ops, NEW contents, NEW d, Replace(contents, d)
    PROVE  \E new : /\ Remade(new) /\ Len(new) = Len(contents)
                    /\ \A s \in reg'.sets :
                          maps'[s] = IF s \in ToSet(new)
                                     THEN contents[CHOOSE i \in DOMAIN new : new[i] = s]
                                     ELSE maps[s]
                    /\ done' = d \cap Solutions(reg', maps')
  <1> DEFINE r == clearOutputSets(reg, outs[at])
             new == FreshIn(SetId, r.sets, Len(contents))
             Filled(s) == IF s \in ToSet(new) THEN contents[CHOOSE i \in DOMAIN new : new[i] = s]
                          ELSE maps[s]
  <1>0. /\ Room(SetId, r.sets, Len(contents))
        /\ Become(Appended(r, new, ToSet(Op.out)), [s \in SetId |-> Filled(s)], d)
        /\ outs' = [outs EXCEPT ![at] = <<>> \o new]
        /\ creator' = creator \cup {at}
    BY Zenon DEF Replace, AppendOutputSets, Appended
  <1>1. /\ Room(SetId, r.sets, Len(contents))
        /\ reg' = Appended(r, new, ToSet(Op.out))
        /\ outs' = [outs EXCEPT ![at] = <<>> \o new]
        /\ creator' = creator \cup {at}
    BY <1>0 DEF Become
  <1>2. outs[at] \in Seq(SetId) /\ Sound(reg) /\ ToSet(Op.out) \in SUBSET Tag
    BY ChainIs DEF FlowInv, Places, Op
  <1>3. /\ Sound(r) /\ r.sets = reg.sets \ ToSet(outs[at])
        /\ \A s \in SetId \ ToSet(outs[at]) : r.own[s] = reg.own[s]
    BY <1>2, ClearSound
  <1> HIDE DEF r
  <1>4. /\ new \in Seq(SetId) /\ IsInjective(new) /\ ToSet(new) \cap r.sets = {}
        /\ Len(new) = Len(contents)
    BY <1>1, FreshIs, SetIdAssumption
  <1> HIDE DEF new
  <1>5. /\ Sound(reg') /\ reg'.sets = r.sets \cup ToSet(new)
        /\ \A s \in SetId : reg'.own[s] = IF s \in ToSet(new) THEN ToSet(Op.out) ELSE r.own[s]
        /\ \A t \in ToSet(Op.out) : reg'.index[t] = r.index[t] \o new
    BY <1>1, <1>2, <1>3, <1>4, AppendsSound
  <1>6. <<>> \o new = new
    BY <1>4
  <1>7. reg'.sets \subseteq SetId
    BY <1>5, RegistryIs DEF Sound
  <1>8. \A t \in ToSet(Op.out) : r.index[t] \in Seq(SetId) /\ ToSet(r.index[t]) \subseteq r.sets
    BY <1>2, <1>3, RegistryIs DEF Sound, Agree
  <1>9. \A t \in ToSet(Op.out) :
          \E q \in Seq(SetId) : ToSet(q) \cap ToSet(new) = {} /\ reg'.index[t] = q \o new
    <2> SUFFICES ASSUME NEW t \in ToSet(Op.out)
                 PROVE  \E q \in Seq(SetId) : /\ ToSet(q) \cap ToSet(new) = {}
                                             /\ reg'.index[t] = q \o new
      OBVIOUS
    <2> DEFINE q == r.index[t]
    <2>1. q \in Seq(SetId) /\ ToSet(q) \subseteq r.sets /\ reg'.index[t] = q \o new
      BY <1>5, <1>8
    <2> HIDE DEF q
    <2>2. QED
      BY <1>4, <2>1
  <1>10. Remade(new)
    BY <1>1, <1>3, <1>4, <1>5, <1>6, <1>7, <1>9 DEF Remade
  <1>11. \A s \in reg'.sets : maps'[s] = Filled(s)
    <2> HIDE DEF Filled
    <2>1. QED
      BY <1>0, <1>1, <1>7 DEF Become
  <1>12. done' = d \cap Solutions(reg', maps')
    BY <1>0 DEF Become
  <1>13. QED
    BY <1>4, <1>10, <1>11, <1>12

LEMMA ClearNothing ==
    ASSUME NEW r, Sound(r)
    PROVE  clearOutputSets(r, <<>>) = r
  <1> DEFINE o == <<>>
  <1>1. o \in Seq(SetId) /\ Len(o) = 0
    OBVIOUS
  <1> HIDE DEF o
  <1>2. PICK c : /\ c[0] = r
                 /\ \A i \in 1 .. Len(o) : c[i] = removeSet(c[i - 1], o[i])
                 /\ clearOutputSets(r, o) = c[Len(o)]
    BY <1>1, ClearRounds
  <1>3. QED
    BY <1>1, <1>2 DEF o

(* The operator whose turn it is found its output sets and has tagged      *)
(* them: the sets with its output tags, or the ones it knows if it has no  *)
(* output tags.                                                            *)
Found(z) ==
    /\ FoundOutputs \in Seq(SetId)
    /\ Sound(z)
    /\ z.sets = reg.sets
    /\ \A s \in SetId : reg.own[s] \subseteq z.own[s] /\ z.own[s] \subseteq reg.own[s] \cup ToSet(Op.add)
    /\ \A s \in SetId \ ToSet(FoundOutputs) : z.own[s] = reg.own[s]
    /\ Op.out = <<>> => z = reg /\ FoundOutputs = outs[at]
    /\ Op.out # <<>> => ToSet(FoundOutputs) = {s \in reg.sets : ToSet(Op.out) \subseteq reg.own[s]}

LEMMA TaggedOutputsFound ==
    ASSUME FlowInv, at \in Ops
    PROVE  Found(TaggedOutputs)
  <1>1. /\ Sound(reg) /\ outs[at] \in Seq(SetId) /\ Op.out \in Seq(Tag) /\ Op.add \in Seq(Tag)
        /\ ToSet(Op.add) \in SUBSET Tag
    BY ChainIs DEF FlowInv, Places, Op
  <1>2. CASE Op.out = <<>>
    BY <1>1, <1>2 DEF FoundOutputs, TaggedOutputs, Found
  <1>3. CASE Op.out # <<>>
    <2>1. /\ FoundOutputs = setsWithTags(reg, Op.out)
          /\ TaggedOutputs = TagAll(reg, FoundOutputs, Op.add)
      BY <1>3 DEF FoundOutputs, TaggedOutputs
    <2>2. /\ FoundOutputs \in Seq(SetId)
          /\ ToSet(FoundOutputs) = {s \in reg.sets : ToSet(Op.out) \subseteq reg.own[s]}
      BY <1>1, <1>3, <2>1, FoundIs
    <2>3. Tagged(TaggedOutputs, reg, FoundOutputs, ToSet(Op.add))
      BY <1>1, <2>1, <2>2, TagAllSound
    <2>4. QED
      BY <1>3, <2>2, <2>3 DEF Found, Tagged
  <1>4. QED
    BY <1>2, <1>3

LEMMA UpdateFinds ==
    ASSUME FlowInv, updateSets
    PROVE  /\ at \in Ops
           /\ Found(reg')
           /\ outs' = [outs EXCEPT ![at] = FoundOutputs]
           /\ ins' \in [Ops -> Seq(SetId)]
           /\ \A o \in Ops \ {at} : ins'[o] = ins[o]
           /\ Op.in = <<>> => ins'[at] = ins[at]
           /\ Op.in # <<>> => ToSet(ins'[at]) = {s \in reg'.sets : ToSet(Op.in) \subseteq reg'.own[s]}
  <1>1. at \in Ops /\ ins \in [Ops -> Seq(SetId)] /\ reg' = TaggedOutputs
    BY DEF FlowInv, Places, updateSets
  <1>2. Found(reg') /\ Sound(reg')
    BY <1>1, TaggedOutputsFound DEF Found
  <1>3. Op.in \in Seq(Tag)
    BY <1>1, ChainIs DEF FlowInv, Op
  <1>4. CASE Op.in = <<>>
    BY <1>1, <1>2, <1>4 DEF updateSets
  <1>5. CASE Op.in # <<>>
    <2>1. /\ setsWithTags(reg', Op.in) \in Seq(SetId)
          /\ ToSet(setsWithTags(reg', Op.in)) = {s \in reg'.sets : ToSet(Op.in) \subseteq reg'.own[s]}
      BY <1>2, <1>3, <1>5, FoundIs
    <2>2. ins' = [ins EXCEPT ![at] = setsWithTags(reg', Op.in)]
      BY <1>5 DEF updateSets
    <2>3. QED
      BY <1>1, <1>2, <1>5, <2>1, <2>2 DEF updateSets
  <1>6. QED
    BY <1>4, <1>5

(* The work of an operator is done, or the generation ended with it.       *)
Works ==
    /\ phase = "node" /\ phase' = "update" /\ at' \in Ops /\ ins' = ins
    /\ \/ UNCHANGED <<reg, outs, creator>>
       \/ Op.kind \in Making /\ \E new : Remade(new)

LEMMA AdvanceStays ==
    ASSUME FlowInv, phase = "node", Advance
    PROVE  at' \in Ops /\ phase' = "update"
  <1>1. at \in 1 .. Len(chain) /\ Len(chain) \in Nat \ {0}
    BY ChainIs DEF FlowInv, Places, Ops
  <1>2. QED
    BY <1>1 DEF Advance, Ops

LEMMA InitialiseWorks ==
    ASSUME FlowInv, Initialise
    PROVE  Works
  <1>1. /\ phase = "node" /\ phase' = "update" /\ at' \in Ops /\ ins' = ins
        /\ Op.kind \in Making
    BY AdvanceStays DEF Initialise, Node, Making, Replacing, Selecting, Breeding
  <1>2. CASE outs[at] # <<>>
    BY <1>1, <1>2 DEF Initialise, Works
  <1>3. CASE outs[at] = <<>>
    <2> DEFINE new == FreshIn(Mapping, Solutions(reg, maps), PopSize)
    <2>1. AppendOutputSets(reg, <<>>, <<new>>, done)
      BY <1>3 DEF Initialise
    <2>2. clearOutputSets(reg, outs[at]) = reg
      BY <1>3, ClearNothing DEF FlowInv
    <2>3. Replace(<<new>>, done)
      BY <2>1, <2>2 DEF Replace
    <2>4. \E z : Remade(z)
      <3>1. at \in Ops
        BY <1>1 DEF FlowInv, Places
      <3> HIDE DEF new
      <3>2. QED
        BY <2>3, <3>1, ReplaceMakes
    <2>5. QED
      BY <1>1, <2>4 DEF Works
  <1>4. QED
    BY <1>2, <1>3

LEMMA NodeWorks ==
    ASSUME FlowInv,
           \/ Initialise \/ Evaluate \/ EvaluateThrows
           \/ Rank \/ Score \/ Elite \/ Reduce \/ Pool
           \/ Children \/ Filtered \/ Vary \/ Truncate \/ Merge
    PROVE  Works
  <1>1. CASE Evaluate \/ Score \/ Vary
    BY <1>1, AdvanceStays DEF Evaluate, Score, Vary, Node, Works
  <1>2. CASE EvaluateThrows
    <2>1. 1 \in Ops
      BY ChainIs DEF FlowInv, Ops
    <2>2. QED
      BY <1>2, <2>1 DEF EvaluateThrows, Works
  <1>3. CASE Truncate \/ Merge
    BY <1>3, AdvanceStays DEF Truncate, Merge, Become, Node, Works
  <1>4. ASSUME Node(Op.kind), Op.kind \in Making, ins' = ins, \E x, y : Replace(x, y)
        PROVE  Works
    <2>1. at \in Ops
      BY <1>4 DEF FlowInv, Places, Node
    <2>2. \E new : Remade(new)
      BY <1>4, <2>1, ReplaceMakes
    <2>3. QED
      BY <1>4, <2>2, AdvanceStays DEF Works, Node
  <1>5. CASE Rank
    BY <1>4, <1>5 DEF Rank, Node, Making, Replacing, Selecting, Breeding
  <1>6. CASE Elite
    BY <1>4, <1>6 DEF Elite, Node, Making, Replacing, Selecting, Breeding
  <1>7. CASE Reduce
    <2>1. CASE ins[at] = <<>>
      BY <1>7, <2>1, AdvanceStays DEF Reduce, Node, Works
    <2>2. CASE ins[at] # <<>>
      BY <1>4, <1>7, <2>2 DEF Reduce, Node, Making, Replacing, Selecting, Breeding
    <2>3. QED
      BY <2>1, <2>2
  <1>8. CASE Pool
    BY <1>4, <1>8 DEF Pool, Node, Making, Replacing, Selecting, Breeding
  <1>9. CASE Children
    BY <1>4, <1>9 DEF Children, Breed, Node, Making, Replacing, Selecting, Breeding
  <1>10. CASE Filtered
    BY <1>4, <1>10 DEF Filtered, Breed, Node, Making, Replacing, Selecting, Breeding
  <1>11. QED
    BY <1>1, <1>2, <1>3, <1>5, <1>6, <1>7, <1>8, <1>9, <1>10, InitialiseWorks

(* Every step is one of these.                                             *)
LEMMA StepIs ==
    ASSUME FlowInv, [Next]_vars
    PROVE  /\ chain' = chain
           /\ \/ UNCHANGED <<reg, maps, done, outs, ins, creator, at, phase>>
              \/ updateSets
              \/ Works /\ Next
              \/ StartUnload
              \/ Destroy
  BY NodeWorks DEF Next, vars

LEMMA DestroyClears ==
    ASSUME FlowInv, Destroy
    PROVE  /\ at \in Ops /\ at' = at + 1 /\ phase = "gone" /\ phase' = "gone"
           /\ ins' = ins /\ creator' = creator
           /\ \/ at \notin creator /\ UNCHANGED <<reg, outs>>
              \/ /\ at \in creator
                 /\ Sound(reg')
                 /\ reg'.sets = reg.sets \ ToSet(FoundOutputs)
                 /\ \A s \in reg'.sets : reg.own[s] \subseteq reg'.own[s]
                 /\ outs' = [outs EXCEPT ![at] = <<>>]
                 /\ Found(TaggedOutputs)
  <1>1. at \in Ops
    BY DEF Destroy
  <1>2. Found(TaggedOutputs)
    BY <1>1, TaggedOutputsFound
  <1>3. CASE at \notin creator
    BY <1>1, <1>3 DEF Destroy
  <1>4. CASE at \in creator
    <2> DEFINE z == TaggedOutputs
               o == FoundOutputs
    <2>1. reg' = clearOutputSets(z, o) /\ outs' = [outs EXCEPT ![at] = <<>>]
      BY <1>4 DEF Destroy, Become
    <2>2. Sound(z) /\ o \in Seq(SetId) /\ z.sets = reg.sets /\ \A s \in SetId : reg.own[s] \subseteq z.own[s]
      BY <1>2 DEF Found
    <2> HIDE DEF z, o
    <2>3. /\ Sound(reg') /\ reg'.sets = z.sets \ ToSet(o)
          /\ \A s \in SetId \ ToSet(o) : reg'.own[s] = z.own[s]
      BY <2>1, <2>2, ClearSound
    <2>4. z.sets \subseteq SetId
      BY <2>2, RegistryIs DEF Sound
    <2>5. /\ reg'.sets = reg.sets \ ToSet(o)
          /\ \A s \in reg'.sets : reg.own[s] \subseteq reg'.own[s]
      BY <2>2, <2>3, <2>4
    <2>6. QED
      BY <1>1, <1>2, <1>4, <2>1, <2>3, <2>5 DEF Destroy, o, z
  <1>5. QED
    BY <1>3, <1>4

LEMMA NextFlow ==
    ASSUME FlowInv, [Next]_vars
    PROVE  FlowInv'
  <1>1. chain' = chain /\ Ops' = Ops /\ Len(chain) \in Nat \ {0}
    BY StepIs, ChainIs DEF FlowInv, Ops
  <1>2. /\ chain \in Chains
        /\ outs \in [Ops -> Seq(SetId)] /\ ins \in [Ops -> Seq(SetId)]
        /\ creator \subseteq {o \in Ops : chain[o].kind \in Making}
        /\ at \in Nat \ {0} /\ (phase # "gone" => at \in Ops) /\ Sound(reg)
        /\ phase \in {"update", "node", "gone"}
    BY DEF FlowInv, Places
  <1>3. CASE UNCHANGED <<reg, outs, ins, creator, at, phase>>
    BY <1>1, <1>2, <1>3 DEF FlowInv, Places, Sound, Agree
  <1>4. CASE updateSets
    <2>1. Sound(reg') /\ outs' \in [Ops -> Seq(SetId)] /\ ins' \in [Ops -> Seq(SetId)] /\ at \in Ops
      BY <1>2, <1>4, UpdateFinds DEF Found
    <2>2. creator' = creator /\ at' = at /\ phase' = "node"
      BY <1>4 DEF updateSets
    <2>3. QED
      BY <1>1, <1>2, <2>1, <2>2 DEF FlowInv, Places
  <1>5. CASE Works
    <2>1. at \in Ops /\ at \in Nat \ {0} /\ at' \in Nat \ {0}
      BY <1>1, <1>2, <1>5 DEF Works, Ops
    <2>2. CASE UNCHANGED <<reg, outs, creator>>
      BY <1>1, <1>2, <1>5, <2>1, <2>2 DEF Works, FlowInv, Places, Sound, Agree
    <2>3. ASSUME NEW new, Remade(new), Op.kind \in Making
          PROVE  FlowInv'
      <3>1. /\ Sound(reg') /\ outs' \in [Ops -> Seq(SetId)]
            /\ creator' \subseteq {o \in Ops : chain[o].kind \in Making}
        BY <1>2, <2>1, <2>3 DEF Remade, Op
      <3>2. QED
        BY <1>1, <1>2, <1>5, <2>1, <3>1 DEF Works, FlowInv, Places
    <2>4. QED
      BY <1>5, <2>2, <2>3 DEF Works
  <1>6. CASE StartUnload
    BY <1>1, <1>2, <1>6 DEF StartUnload, FlowInv, Places, Sound, Agree
  <1>7. CASE Destroy
    <2>1. outs' \in [Ops -> Seq(SetId)] /\ Sound(reg')
      <3>1. CASE UNCHANGED <<reg, outs>>
        BY <1>2, <3>1 DEF Sound, Agree
      <3>2. CASE Sound(reg') /\ outs' = [outs EXCEPT ![at] = <<>>]
        <4>1. <<>> \in Seq(SetId)
          OBVIOUS
        <4>2. QED
          BY <1>2, <3>2, <4>1
      <3>3. QED
        BY <1>7, <3>1, <3>2, DestroyClears
    <2>2. at \in Ops /\ at' \in Nat \ {0}
      BY <1>1, <1>7, DestroyClears DEF Ops
    <2>3. phase' = "gone" /\ ins' = ins /\ creator' = creator
      BY <1>7, DestroyClears
    <2>4. QED
      BY <1>1, <1>2, <2>1, <2>2, <2>3 DEF FlowInv, Places
  <1>8. QED
    BY <1>3, <1>4, <1>5, <1>6, <1>7, StepIs

(* Whatever the chain of operators, in every state of any number of        *)
(* generations, failures and destructions, the lists of every tag, the     *)
(* tags kept in every set and the list of sets agree (IPSet keeps the      *)
(* three in step by hand).                                                 *)
THEOREM RegistryAlwaysAgrees == Spec => []TagsAgree
  <1>1. FlowInv => TagsAgree
    BY DEF FlowInv, Sound, TagsAgree
  <1>2. Init => FlowInv
    BY InitFlow
  <1>3. FlowInv /\ [Next]_vars => FlowInv'
    BY NextFlow
  <1>4. QED
    BY <1>1, <1>2, <1>3, PTL DEF Spec
-----------------------------------------------------------------------------
(* Every set belongs to a creator that still stands, and that will find it *)
(* again: by its output tags, or because it knows it.                      *)
Belongs(s, o) ==
    /\ ToSet(chain[o].out) \subseteq reg.own[s]
    /\ chain[o].out = <<>> => s \in ToSet(outs[o])
    /\ phase = "gone" => o >= at

Owned == \A s \in reg.sets : \E o \in creator : Belongs(s, o)

LEMMA NextOwned ==
    ASSUME FlowInv, Owned, [Next]_vars
    PROVE  Owned'
  <1>1. chain' = chain /\ Ops' = Ops /\ Len(chain) \in Nat \ {0}
    BY StepIs, ChainIs DEF FlowInv, Ops
  <1>2. /\ creator \subseteq Ops /\ outs \in [Ops -> Seq(SetId)] /\ reg.sets \subseteq SetId
        /\ Ops \subseteq Nat /\ at \in Nat
    BY RegistryIs DEF FlowInv, Places, Sound, Ops
  <1>3. CASE UNCHANGED <<reg, outs, creator, at, phase>>
    BY <1>1, <1>3 DEF Owned, Belongs
  <1>4. CASE updateSets
    <2>1. /\ at \in Ops /\ Found(reg') /\ outs' = [outs EXCEPT ![at] = FoundOutputs]
          /\ creator' = creator /\ phase' = "node"
      BY <1>4, UpdateFinds DEF updateSets
    <2> SUFFICES ASSUME NEW s \in reg'.sets
                 PROVE  \E o \in creator : Belongs(s, o)'
      BY <2>1 DEF Owned
    <2>2. s \in reg.sets /\ reg.own[s] \subseteq reg'.own[s]
      BY <1>2, <2>1 DEF Found
    <2>3. PICK o \in creator : Belongs(s, o)
      BY <2>2 DEF Owned
    <2>4. chain[o].out = <<>> => outs'[o] = outs[o]
      BY <1>2, <2>1 DEF Found, Op
    <2>5. Belongs(s, o)'
      BY <1>1, <2>1, <2>2, <2>3, <2>4 DEF Belongs
    <2>6. QED
      BY <2>5
  <1>5. CASE Works
    <2>1. CASE UNCHANGED <<reg, outs, creator>>
      BY <1>1, <1>5, <2>1 DEF Works, Owned, Belongs
    <2>2. ASSUME NEW new, Remade(new)
          PROVE  Owned'
      <3> SUFFICES ASSUME NEW s \in reg'.sets
                   PROVE  \E o \in creator' : Belongs(s, o)'
        BY DEF Owned
      <3>1. /\ outs' = [outs EXCEPT ![at] = new] /\ creator' = creator \cup {at}
            /\ reg'.own[s] = IF s \in ToSet(new) THEN ToSet(Op.out) ELSE reg.own[s]
            /\ s \in ToSet(new) \/ s \in reg.sets \ ToSet(outs[at])
            /\ phase' = "update" /\ at \in Ops
        BY <1>5, <2>2 DEF Remade, Works, FlowInv, Places
      <3>2. CASE s \in ToSet(new)
        BY <1>1, <1>2, <3>1, <3>2 DEF Belongs, Op
      <3>3. CASE s \notin ToSet(new)
        <4>1. PICK o \in creator : Belongs(s, o)
          BY <3>1, <3>3 DEF Owned
        <4>2. chain[o].out = <<>> => o # at
          BY <3>1, <3>3, <4>1 DEF Belongs
        <4>3. Belongs(s, o)'
          BY <1>1, <1>2, <3>1, <3>3, <4>1, <4>2 DEF Belongs
        <4>4. QED
          BY <3>1, <4>3
      <3>4. QED
        BY <3>2, <3>3
    <2>3. QED
      BY <1>5, <2>1, <2>2 DEF Works
  <1>6. CASE StartUnload
    <2>1. /\ UNCHANGED <<reg, outs, creator>> /\ at = 1 /\ at' = 1
      BY <1>6 DEF StartUnload
    <2>2. \A o \in Ops : o >= 1
      BY <1>1 DEF Ops
    <2>3. QED
      BY <1>1, <1>2, <2>1, <2>2 DEF Owned, Belongs
  <1>7. CASE Destroy
    <2>1. /\ at \in Ops /\ at' = at + 1 /\ phase = "gone" /\ phase' = "gone"
          /\ creator' = creator
      BY <1>7, DestroyClears
    <2>2. CASE at \notin creator /\ UNCHANGED <<reg, outs>>
      <3> SUFFICES ASSUME NEW s \in reg.sets
                   PROVE  \E o \in creator : Belongs(s, o)'
        BY <2>1, <2>2 DEF Owned
      <3>1. PICK o \in creator : Belongs(s, o)
        BY DEF Owned
      <3>2. o >= at + 1
        <4>1. o \in Nat /\ at \in Nat /\ o # at
          BY <1>2, <2>2, <3>1
        <4>2. o >= at
          BY <2>1, <3>1 DEF Belongs
        <4>3. QED
          BY <4>1, <4>2
      <3>3. QED
        BY <1>1, <2>1, <2>2, <3>1, <3>2 DEF Belongs
    <2>3. CASE /\ Found(TaggedOutputs)
               /\ reg'.sets = reg.sets \ ToSet(FoundOutputs)
               /\ \A s \in reg'.sets : reg.own[s] \subseteq reg'.own[s]
               /\ outs' = [outs EXCEPT ![at] = <<>>]
      <3> SUFFICES ASSUME NEW s \in reg'.sets
                   PROVE  \E o \in creator : Belongs(s, o)'
        BY <2>1 DEF Owned
      <3>1. s \in reg.sets /\ s \notin ToSet(FoundOutputs) /\ reg.own[s] \subseteq reg'.own[s]
        BY <2>3
      <3>2. PICK o \in creator : Belongs(s, o)
        BY <3>1 DEF Owned
      <3>3. o # at
        BY <2>3, <3>1, <3>2 DEF Belongs, Found, Op
      <3>4. o >= at + 1 /\ outs'[o] = outs[o]
        <4>1. o \in Nat /\ at \in Nat
          BY <1>2, <3>2
        <4>2. o >= at
          BY <2>1, <3>2 DEF Belongs
        <4>3. outs'[o] = outs[o]
          BY <1>2, <2>3, <3>2, <3>3
        <4>4. QED
          BY <3>3, <4>1, <4>2, <4>3
      <3>5. QED
        BY <1>1, <2>1, <3>1, <3>2, <3>4 DEF Belongs
    <2>4. QED
      BY <1>7, <2>2, <2>3, DestroyClears
  <1>8. QED
    BY <1>3, <1>4, <1>5, <1>6, <1>7, StepIs

LEMMA OwnedLeaveNothing ==
    ASSUME FlowInv, Owned
    PROVE  NothingLeft
  <1> SUFFICES ASSUME phase = "gone", at \notin Ops
               PROVE  reg = EmptyRegistry
    BY DEF NothingLeft
  <1>1. /\ reg \in Registry /\ reg.sets \subseteq SetId /\ reg.index \in [Tag -> Seq(SetId)]
        /\ reg.own \in [SetId -> SUBSET Tag]
        /\ Len(chain) \in Nat /\ at \in Nat \ {0} /\ creator \subseteq Ops
    BY RegistryIs, ChainIs DEF FlowInv, Places, Sound
  <1>2. \A o \in Ops : ~ (o >= at)
    BY <1>1 DEF Ops
  <1>3. reg.sets = {}
    BY <1>1, <1>2 DEF Owned, Belongs
  <1>4. reg.own = [s \in SetId |-> {}]
    BY <1>1, <1>3 DEF FlowInv, Sound
  <1>5. ASSUME NEW t \in Tag
        PROVE  reg.index[t] = <<>>
    <2>1. reg.index[t] \in Seq(SetId) /\ ToSet(reg.index[t]) = {}
      BY <1>1, <1>3 DEF FlowInv, Sound, Agree
    <2>2. Len(reg.index[t]) = 0
      <3>1. DOMAIN reg.index[t] = 1 .. Len(reg.index[t]) /\ Len(reg.index[t]) \in Nat
        BY <2>1
      <3>2. DOMAIN reg.index[t] = {}
        BY <2>1 DEF ToSet
      <3> DEFINE n == Len(reg.index[t])
      <3>3. n \in Nat /\ 1 .. n = {}
        BY <3>1, <3>2
      <3> HIDE DEF n
      <3>4. n = 0
        BY <3>3
      <3>5. QED
        BY <3>4 DEF n
    <2>3. QED
      BY <2>1, <2>2
  <1>6. reg.index = [t \in Tag |-> <<>>]
    BY <1>1, <1>5
  <1>7. QED
    BY <1>1, <1>3, <1>4, <1>6 DEF Registry, EmptyRegistry

(* Whatever the chain of operators and whenever the flow is deleted, with  *)
(* the last operator every set and every tag is gone (~IOperator looks the *)
(* sets of a creator up by tag, although their owners' caches are stale).  *)
THEOREM FlowLeavesNothing == Spec => []NothingLeft
  <1> DEFINE Inv == FlowInv /\ Owned
  <1>1. Init => Inv
    BY InitFlow DEF Init, Owned, EmptyRegistry
  <1>2. Inv /\ [Next]_vars => Inv'
    BY NextFlow, NextOwned
  <1>3. Inv => NothingLeft
    BY OwnedLeaveNothing
  <1> HIDE DEF Inv
  <1>4. QED
    BY <1>1, <1>2, <1>3, PTL DEF Spec
-----------------------------------------------------------------------------
(* Every set carries the output tags of one of the creators, and beyond    *)
(* them only additional ones; what an operator looked up is exact while it *)
(* works.                                                                  *)
MadeBy(s, o) == Out(chain, o) \subseteq reg.own[s] /\ reg.own[s] \subseteq MayCarry(chain, o)

Labelled == phase # "gone" => \A s \in reg.sets : \E o \in creator : MadeBy(s, o)

Unread == \A o \in Ops : chain[o].in = <<>> => ins[o] = <<>>

Looked ==
    phase = "node"
      => /\ Op.out # <<>> => ToSet(outs[at]) = {s \in reg.sets : Out(chain, at) \subseteq reg.own[s]}
         /\ Op.in # <<>> => ToSet(ins[at]) = {s \in reg.sets : In(chain, at) \subseteq reg.own[s]}

SeenInv == FlowInv /\ Labelled /\ Unread /\ Looked

LEMMA OpsIs ==
    ASSUME FlowInv
    PROVE  /\ Ops = DOMAIN chain /\ Ops \subseteq Nat \ {0} /\ Len(chain) \in Nat \ {0}
           /\ creator \subseteq MakersOf(chain) /\ creator \subseteq Ops
           /\ outs \in [Ops -> Seq(SetId)] /\ ins \in [Ops -> Seq(SetId)]
           /\ reg.sets \subseteq SetId /\ at \in Nat \ {0}
           /\ phase # "gone" => at \in Ops
  <1>1. chain \in Chains /\ Len(chain) \in Nat \ {0}
    BY ChainIs DEF FlowInv, Places
  <1> DEFINE T == [kind : {"init", "evaluate", "rank", "score", "elite", "reduce", "pool",
                           "children", "filtered", "vary", "truncate", "merge"},
                   out : Seq(Tag), add : Seq(Tag), in : Seq(Tag), size : Nat, number : Nat]
  <1>2. chain \in Seq(T)
    BY <1>1, ChainAssumption
  <1>3. Ops = DOMAIN chain
    <2> HIDE DEF T
    <2>1. QED
      BY <1>2 DEF Ops
  <1>4. QED
    BY <1>1, <1>3, RegistryIs DEF FlowInv, Places, Sound, MakersOf, Ops

LEMMA NextLabelled ==
    ASSUME SeenInv, [Next]_vars
    PROVE  Labelled'
  <1>1. chain' = chain /\ FlowInv
    BY StepIs DEF SeenInv
  <1>2. /\ Ops = DOMAIN chain /\ Ops \subseteq Nat \ {0} /\ creator \subseteq Ops
        /\ reg.sets \subseteq SetId /\ (phase # "gone" => at \in Ops)
    BY <1>1, OpsIs
  <1>3. CASE UNCHANGED <<reg, outs, creator, at, phase>>
    BY <1>1, <1>3 DEF SeenInv, Labelled, MadeBy
  <1>4. CASE updateSets
    <2>1. at \in Ops /\ Found(reg') /\ creator' = creator /\ phase = "update"
      BY <1>1, <1>4, UpdateFinds DEF updateSets
    <2> SUFFICES ASSUME NEW s \in reg'.sets
                 PROVE  \E o \in creator : MadeBy(s, o)'
      BY <2>1 DEF Labelled
    <2>2. /\ s \in reg.sets /\ reg.own[s] \subseteq reg'.own[s]
          /\ reg'.own[s] \subseteq reg.own[s] \cup ToSet(Op.add)
      BY <1>2, <2>1 DEF Found
    <2>3. PICK o \in creator : MadeBy(s, o)
      BY <2>1, <2>2 DEF SeenInv, Labelled
    <2>4. ToSet(Op.add) \subseteq MayCarry(chain, o)
      BY <1>2, <2>1 DEF MayCarry, Op
    <2>5. MadeBy(s, o)'
      BY <1>1, <2>2, <2>3, <2>4 DEF MadeBy
    <2>6. QED
      BY <2>5
  <1>5. CASE Works
    <2>1. CASE UNCHANGED <<reg, outs, creator>>
      BY <1>1, <1>5, <2>1 DEF SeenInv, Works, Labelled, MadeBy
    <2>2. ASSUME NEW new, Remade(new)
          PROVE  Labelled'
      <3> SUFFICES ASSUME NEW s \in reg'.sets
                   PROVE  \E o \in creator' : MadeBy(s, o)'
        BY DEF Labelled
      <3>1. /\ creator' = creator \cup {at}
            /\ reg'.own[s] = IF s \in ToSet(new) THEN Out(chain, at) ELSE reg.own[s]
            /\ s \in ToSet(new) \/ s \in reg.sets
            /\ phase = "node"
        BY <1>5, <2>2 DEF Remade, Works, Op, Out
      <3>2. CASE s \in ToSet(new)
        BY <1>1, <3>1, <3>2 DEF MadeBy, MayCarry
      <3>3. CASE s \notin ToSet(new)
        BY <1>1, <3>1, <3>3 DEF MadeBy, SeenInv, Labelled
      <3>4. QED
        BY <3>2, <3>3
    <2>3. QED
      BY <1>5, <2>1, <2>2 DEF Works
  <1>6. CASE StartUnload \/ Destroy
    BY <1>6 DEF StartUnload, Destroy, Labelled
  <1>7. QED
    BY <1>1, <1>3, <1>4, <1>5, <1>6, StepIs

LEMMA NextLooked ==
    ASSUME SeenInv, [Next]_vars
    PROVE  Unread' /\ Looked'
  <1>1. chain' = chain /\ FlowInv
    BY StepIs DEF SeenInv
  <1>2. /\ Ops = DOMAIN chain /\ Ops' = Ops /\ outs \in [Ops -> Seq(SetId)]
        /\ reg.sets \subseteq SetId
    BY <1>1, OpsIs DEF Ops
  <1>3. CASE UNCHANGED <<reg, outs, ins, creator, at, phase>>
    BY <1>1, <1>2, <1>3 DEF SeenInv, Unread, Looked, Op
  <1>4. CASE updateSets
    <2>1. /\ at \in Ops /\ Found(reg') /\ outs' = [outs EXCEPT ![at] = FoundOutputs]
          /\ \A o \in Ops \ {at} : ins'[o] = ins[o]
          /\ Op.in = <<>> => ins'[at] = ins[at]
          /\ Op.in # <<>> => ToSet(ins'[at]) = {s \in reg'.sets : ToSet(Op.in) \subseteq reg'.own[s]}
          /\ at' = at /\ phase' = "node"
      BY <1>1, <1>4, UpdateFinds DEF updateSets
    <2>2. Unread'
      BY <1>1, <1>2, <2>1 DEF SeenInv, Unread, Op
    <2>3. ASSUME Op.out # <<>>
          PROVE  ToSet(outs'[at]) = {s \in reg'.sets : Out(chain, at) \subseteq reg'.own[s]}
      <3>1. outs'[at] = FoundOutputs
        BY <1>2, <2>1
      <3>2. /\ reg'.sets = reg.sets
            /\ \A s \in reg.sets : reg.own[s] \subseteq reg'.own[s]
            /\ \A s \in reg.sets \ ToSet(FoundOutputs) : reg'.own[s] = reg.own[s]
            /\ ToSet(FoundOutputs) = {s \in reg.sets : Out(chain, at) \subseteq reg.own[s]}
        BY <1>2, <2>1, <2>3 DEF Found, Out, Op
      <3>3. QED
        BY <3>1, <3>2
    <2>4. Op' = Op
      BY <1>1, <2>1 DEF Op
    <2>5. Looked'
      BY <1>1, <2>1, <2>3, <2>4 DEF Looked, In, Op
    <2>6. QED
      BY <2>2, <2>5
  <1>5. CASE Works \/ StartUnload \/ Destroy
    <2>1. ins' = ins /\ phase' # "node"
      BY <1>1, <1>5, DestroyClears DEF Works, StartUnload
    <2>2. QED
      BY <1>1, <1>2, <2>1 DEF SeenInv, Unread, Looked
  <1>6. QED
    BY <1>1, <1>3, <1>4, <1>5, StepIs

LEMMA SeenAlways == Spec => []SeenInv
  <1>1. Init => SeenInv
    <2>1. Init => Labelled /\ Looked
      BY DEF Init, Labelled, Looked, EmptyRegistry
    <2>2. Init => Unread
      BY DEF Init, Unread
    <2>3. QED
      BY <2>1, <2>2, InitFlow DEF SeenInv
  <1>2. SeenInv /\ [Next]_vars => SeenInv'
    <2>1. SeenInv /\ [Next]_vars => FlowInv'
      BY NextFlow DEF SeenInv
    <2>2. QED
      BY <2>1, NextLabelled, NextLooked DEF SeenInv
  <1>3. QED
    BY <1>1, <1>2, PTL DEF Spec

LEMMA SeenOutlives ==
    ASSUME SeenInv, KeepsApart(chain)
    PROVE  InputsOutliveClear
  <1> SUFFICES ASSUME phase = "node"
               PROVE  /\ ToSet(ins[at]) \cup ToSet(outs[at]) \subseteq reg.sets
                      /\ Op.kind \in Replacing => ToSet(ins[at]) \cap ToSet(outs[at]) = {}
    BY DEF InputsOutliveClear
  <1>1. at \in DOMAIN chain /\ at \in Ops /\ creator \subseteq MakersOf(chain)
    BY OpsIs DEF SeenInv
  <1>2. ToSet(outs[at]) = {s \in reg.sets : Out(chain, at) \subseteq reg.own[s]}
    BY <1>1 DEF SeenInv, Looked, KeepsApart, Op
  <1>3. CASE Op.in = <<>>
    <2>1. ToSet(ins[at]) = {}
      BY <1>1, <1>3 DEF SeenInv, Unread, Op, ToSet
    <2>2. QED
      BY <1>2, <2>1
  <1>4. CASE Op.in # <<>>
    <2>1. ToSet(ins[at]) = {s \in reg.sets : In(chain, at) \subseteq reg.own[s]}
      BY <1>4 DEF SeenInv, Looked
    <2>2. ASSUME Op.kind \in Replacing, NEW s \in reg.sets,
                 In(chain, at) \subseteq reg.own[s], Out(chain, at) \subseteq reg.own[s]
          PROVE  FALSE
      <3>1. PICK o \in creator : MadeBy(s, o)
        BY DEF SeenInv, Labelled
      <3>2. In(chain, at) \cup Out(chain, at) \subseteq MayCarry(chain, o)
        BY <2>2, <3>1 DEF MadeBy
      <3>3. QED
        BY <1>1, <1>4, <2>2, <3>2 DEF KeepsApart, Op
    <2>3. QED
      BY <1>2, <2>1, <2>2
  <1>5. QED
    BY <1>3, <1>4

(* In every flow that keeps inputs and outputs apart, whatever its length, *)
(* tags and population: no operator of it deletes with its old outputs     *)
(* what it is about to read (clearOutputSets() before appendOutputSet()),  *)
(* and what it works on was not deleted by another.                        *)
THEOREM InputsAlwaysOutliveClear ==
    ASSUME \A c \in Chains : KeepsApart(c)
    PROVE  Spec => []InputsOutliveClear
  <1>1. SeenInv => InputsOutliveClear
    <2>1. SeenInv => KeepsApart(chain)
      BY DEF SeenInv, FlowInv, Places
    <2>2. QED
      BY <2>1, SeenOutlives
  <1>2. QED
    BY <1>1, SeenAlways, PTL
-----------------------------------------------------------------------------
(* What an operator finds ready when its turn comes depends on the one     *)
(* before it in this generation.                                           *)
LEMMA ListedTail ==
    ASSUME NEW q \in Seq(SetId), NEW n \in Seq(SetId), NEW S,
           ToSet(q) \cap S = {}, ToSet(n) \subseteq S
    PROVE  Listed(q \o n, S) = n
  <1> DEFINE z == q \o n
             k == Len(q)
             m == Len(n)
             Rest(i) == Prefix(n, i - k)
  <1>1. /\ z \in Seq(SetId) /\ k \in Nat /\ m \in Nat /\ Len(z) = k + m
        /\ \A i \in 1 .. k + m : z[i] = IF i <= k THEN q[i] ELSE n[i - k]
        /\ m = 0 => n = <<>>
    OBVIOUS
  <1>0. \A j \in 0 .. m : Prefix(n, j) \in Seq(SetId)
    BY DEF Prefix
  <1>2. PICK c : /\ c[0] = <<>>
                 /\ \A i \in 1 .. k + m :
                       c[i] = IF z[i] \in S THEN Append(c[i - 1], z[i]) ELSE c[i - 1]
                 /\ Listed(z, S) = c[k + m]
    <2> HIDE DEF z
    <2>1. PICK c : /\ c[0] = <<>>
                   /\ \A i \in 1 .. Len(z) :
                         c[i] = IF z[i] \in S THEN Append(c[i - 1], z[i]) ELSE c[i - 1]
                   /\ Listed(z, S) = c[Len(z)]
      BY <1>1, ListedRounds
    <2>2. QED
      BY <1>1, <2>1
  <1>3. \A i \in 1 .. k : z[i] \notin S
    BY <1>1 DEF ToSet
  <1>4. \A i \in k + 1 .. k + m : z[i] = n[i - k] /\ z[i] \in S /\ n[i - k] \in SetId
    BY <1>1 DEF ToSet
  <1> HIDE DEF k, m, z
  <1> DEFINE R == {i \in 0 .. k + m : c[i] = IF i <= k THEN <<>> ELSE Rest(i)}
  <1>5. 0 \in R
    BY <1>1, <1>2
  <1>6. ASSUME NEW i \in 1 .. k + m, i - 1 \in R
        PROVE  i \in R
    <2>1. CASE i <= k
      BY <1>1, <1>2, <1>3, <1>6, <2>1
    <2>2. CASE i > k
      <3>1. c[i] = Append(c[i - 1], n[i - k]) /\ i - k \in 1 .. m
        <4>1. i \in k + 1 .. k + m
          BY <1>1, <2>2
        <4>2. z[i] = n[i - k] /\ z[i] \in S
          BY <1>4, <4>1
        <4>3. c[i] = IF z[i] \in S THEN Append(c[i - 1], z[i]) ELSE c[i - 1]
          BY <1>2
        <4>4. c[i] = Append(c[i - 1], n[i - k])
          BY <4>2, <4>3
        <4>5. k \in Nat /\ m \in Nat
          BY <1>1
        <4>6. i - k \in 1 .. m
          BY <4>1, <4>5
        <4>7. QED
          BY <4>4, <4>6
      <3>2. c[i - 1] = <<>> \o Prefix(n, i - k - 1)
        <4>1. CASE i - 1 = k
          <5>1. Prefix(n, i - k - 1) = <<>>
            BY <4>1 DEF Prefix
          <5>2. QED
            BY <1>1, <1>6, <4>1, <5>1
        <4>2. CASE i - 1 # k
          <5>1. c[i - 1] = Rest(i - 1) /\ Rest(i - 1) = Prefix(n, i - k - 1)
            BY <1>1, <1>6, <2>2, <4>2
          <5>2. Prefix(n, i - k - 1) \in Seq(SetId)
            BY <1>0, <1>1, <3>1
          <5>3. QED
            BY <5>1, <5>2
        <4>3. QED
          BY <4>1, <4>2
      <3>3. Append(<<>> \o Prefix(n, i - k - 1), n[i - k]) = <<>> \o Prefix(n, i - k)
        <4> DEFINE e == <<>>
                   j == i - k
        <4>1. e \in Seq(SetId) /\ j \in 1 .. Len(n)
          BY <3>1 DEF m
        <4> HIDE DEF e, j
        <4>2. Append(e \o Prefix(n, j - 1), n[j]) = e \o Prefix(n, j)
          BY ONLY <4>1, n \in Seq(SetId), PrefixesGrow
        <4>3. QED
          BY <4>2 DEF e, j
      <3>4. <<>> \o Prefix(n, i - k) = Prefix(n, i - k)
        <4>1. Prefix(n, i - k) \in Seq(SetId)
          BY <1>0, <1>1, <3>1
        <4>2. QED
          BY <4>1
      <3>5. c[i] = Rest(i)
        BY <3>1, <3>2, <3>3, <3>4
      <3>6. QED
        BY <1>1, <2>2, <3>5
    <2>3. QED
      BY <1>1, <2>1, <2>2
  <1>7. k + m \in R
    <2>1. k + m \in Nat /\ k + m \in 0 .. k + m
      BY <1>1
    <2> DEFINE top == k + m
    <2>2. top \in Nat /\ top \in 0 .. top /\ \A i \in 1 .. top : i - 1 \in R => i \in R
      BY <2>1, <1>6
    <2> HIDE DEF R, top
    <2>3. top \in R
      BY <1>5, <2>2, Upto
    <2>4. QED
      BY <2>3 DEF top
  <1>8. c[k + m] = n
    <2>1. CASE m = 0
      BY <1>1, <1>7, <2>1
    <2>2. CASE m # 0
      <3>1. c[k + m] = Rest(k + m) /\ Rest(k + m) = Prefix(n, m)
        BY <1>1, <1>7, <2>2
      <3>2. QED
        BY <3>1, PrefixesGrow DEF m
    <2>3. QED
      BY <2>1, <2>2
  <1>9. QED
    BY <1>1, <1>2, <1>8 DEF z

LEMMA TagNothing ==
    ASSUME NEW r, Sound(r), NEW o \in Seq(SetId), ToSet(o) \subseteq r.sets
    PROVE  TagAll(r, o, <<>>) = r
  <1> DEFINE add == <<>>
  <1>1. add \in Seq(Tag) /\ Len(add) = 0
    OBVIOUS
  <1> HIDE DEF add
  <1>2. PICK c : /\ c[0] = r
                 /\ \A i \in 1 .. Len(add) : c[i] = TagSets(c[i - 1], o, add[i])
                 /\ TagAll(r, o, add) = c[Len(add)]
    BY <1>1, TagAllRounds
  <1>3. QED
    BY <1>1, <1>2 DEF add

(* An operator that is not the first gets its turn from the one before.    *)
LEMMA CameFrom ==
    ASSUME FlowInv, Works, Next, at' > 1
    PROVE  /\ at' = at + 1 /\ at' - 1 = at
           /\ Op.kind = "init" => Initialise
           /\ Op.kind = "evaluate" => Evaluate
           /\ Op.kind = "rank" => Rank
           /\ Op.kind = "elite" => Elite
           /\ Op.kind = "reduce" => Reduce
           /\ Op.kind = "pool" => Pool
           /\ Op.kind \in Breeding => Children \/ Filtered
           /\ Op.kind = "vary" => Vary
           /\ Op.kind = "truncate" => Truncate
  <1>1. at \in Nat /\ Len(chain) \in Nat /\ phase = "node" /\ phase' = "update"
    BY OpsIs DEF Works
  <1>2. ~ updateSets /\ ~ StartUnload /\ ~ Destroy /\ ~ EvaluateThrows
    BY <1>1 DEF updateSets, StartUnload, Destroy, EvaluateThrows
  <1>3. Node(Op.kind)
    BY <1>2 DEF Next, Node, Initialise, Evaluate, Rank, Score, Elite, Reduce, Pool, Children,
                Filtered, Vary, Truncate, Merge
  <1>4. at' = at + 1
    BY <1>1, <1>3 DEF Node, Advance
  <1>5. /\ Initialise => Op.kind = "init"
        /\ Evaluate => Op.kind = "evaluate"
        /\ Rank => Op.kind = "rank"
        /\ Score => Op.kind = "score"
        /\ Elite => Op.kind = "elite"
        /\ Reduce => Op.kind = "reduce"
        /\ Pool => Op.kind = "pool"
        /\ Children => Op.kind = "children"
        /\ Filtered => Op.kind = "filtered"
        /\ Vary => Op.kind = "vary"
        /\ Truncate => Op.kind = "truncate"
        /\ Merge => Op.kind = "merge"
    BY DEF Node, Initialise, Evaluate, Rank, Score, Elite, Reduce, Pool, Children, Filtered,
           Vary, Truncate, Merge
  <1>6. QED
    BY <1>1, <1>2, <1>4, <1>5 DEF Next, Breeding

(* Reliable makers whose turn is over have made a set, and it still stands. *)
Supply == phase # "gone" => \A p \in Ops : p < at /\ Reliable(chain, p) => \E s \in reg.sets : MadeBy(s, p)

LEMMA ReliableMakes ==
    ASSUME SeenInv, Works, Next, at' > 1, NEW p, p = at, Reliable(chain, p)
    PROVE  \E s \in reg'.sets : MadeBy(s, p)'
  <1>1. /\ chain' = chain /\ FlowInv /\ at \in Ops /\ phase = "node"
        /\ creator \subseteq MakersOf(chain) /\ reg.sets \subseteq SetId
    BY StepIs, OpsIs DEF SeenInv, Works, vars
  <1>2. ASSUME NEW new, Remade(new), Len(new) > 0
        PROVE  \E s \in reg'.sets : MadeBy(s, p)'
    <2>1. /\ new \in Seq(SetId) /\ ToSet(new) \subseteq reg'.sets
          /\ \A s \in ToSet(new) : reg'.own[s] = ToSet(Op.out)
      BY <1>2 DEF Remade
    <2>2. new[1] \in ToSet(new)
      BY <1>2, <2>1 DEF ToSet
    <2>3. MadeBy(new[1], p)'
      BY <1>1, <2>1, <2>2 DEF MadeBy, MayCarry, Out, Op
    <2>4. QED
      BY <2>1, <2>2, <2>3
  <1>3. ASSUME NEW contents, NEW d, Replace(contents, d), Len(contents) > 0
        PROVE  \E s \in reg'.sets : MadeBy(s, p)'
    BY <1>1, <1>2, <1>3, ReplaceMakes
  <1>4. CASE Op.kind = "rank"
    <2>1. Rank
      BY <1>1, <1>4, CameFrom
    <2> DEFINE pop == maps[ins[at][1]]
    <2>2. PICK n \in 1 .. Len(pop) :
            \E rank : Replace(Ranks(pop, rank, n), done)
      BY <2>1 DEF Rank
    <2> HIDE DEF pop
    <2>3. PICK rank : Replace(Ranks(pop, rank, n), done)
      BY <2>2
    <2>4. Len(Ranks(pop, rank, n)) > 0
      BY DEF Ranks
    <2>5. QED
      BY <1>3, <2>3, <2>4
  <1>5. CASE Op.kind = "elite"
    <2>1. PICK e : Replace(<<e>>, done)
      BY <1>1, <1>5, CameFrom DEF Elite
    <2>2. Len(<<e>>) > 0
      OBVIOUS
    <2>3. QED
      BY <1>3, <2>1, <2>2
  <1>6. CASE Op.kind = "init"
    <2>1. Initialise
      BY <1>1, <1>6, CameFrom
    <2>2. CASE outs[at] = <<>>
      <3> DEFINE new == FreshIn(Mapping, Solutions(reg, maps), PopSize)
      <3>1. AppendOutputSets(reg, <<>>, <<new>>, done)
        BY <2>1, <2>2 DEF Initialise
      <3>2. clearOutputSets(reg, outs[at]) = reg
        BY <1>1, <2>2, ClearNothing DEF FlowInv
      <3>3. Replace(<<new>>, done) /\ Len(<<new>>) > 0
        BY <3>1, <3>2 DEF Replace
      <3> HIDE DEF new
      <3>4. QED
        BY <1>3, <3>3
    <2>3. CASE outs[at] # <<>>
      <3>1. reg' = reg
        BY <2>1, <2>3 DEF Initialise
      <3>2. outs[at] \in Seq(SetId)
        BY <1>1, OpsIs
      <3>3. outs[at][1] \in ToSet(outs[at])
        BY <2>3, <3>2 DEF ToSet
      <3>4. PICK s \in reg.sets : Out(chain, at) \subseteq reg.own[s]
        BY <1>1, <3>3 DEF SeenInv, Looked, Reliable, Op
      <3>5. PICK o \in creator : MadeBy(s, o)
        BY <1>1, <3>4 DEF SeenInv, Labelled
      <3>6. Out(chain, at) \subseteq MayCarry(chain, o)
        BY <3>4, <3>5 DEF MadeBy
      <3>7. o = at
        BY <1>1, <3>6 DEF Reliable, ToldApart
      <3>8. QED
        BY <1>1, <3>1, <3>5, <3>7 DEF MadeBy
    <2>4. QED
      BY <2>2, <2>3
  <1>7. QED
    BY <1>4, <1>5, <1>6 DEF Reliable, Op

LEMMA NextSupply ==
    ASSUME SeenInv, Supply, [Next]_vars
    PROVE  Supply'
  <1>1. chain' = chain /\ FlowInv /\ Ops' = Ops
    BY StepIs DEF SeenInv, Ops
  <1>2. /\ Ops = DOMAIN chain /\ Ops \subseteq Nat \ {0} /\ reg.sets \subseteq SetId
        /\ at \in Nat \ {0} /\ (phase # "gone" => at \in Ops)
    BY <1>1, OpsIs
  <1>3. CASE UNCHANGED <<reg, maps, done, outs, ins, creator, at, phase>>
    BY <1>1, <1>3 DEF Supply, MadeBy
  <1>4. CASE updateSets
    <2>1. at \in Ops /\ Found(reg') /\ phase = "update" /\ at' = at
      BY <1>1, <1>4, UpdateFinds DEF updateSets
    <2> SUFFICES ASSUME NEW p \in Ops, p < at, Reliable(chain, p)
                 PROVE  \E s \in reg'.sets : MadeBy(s, p)'
      BY <1>1, <2>1 DEF Supply
    <2>2. PICK s \in reg.sets : MadeBy(s, p)
      BY <2>1 DEF Supply
    <2>3. /\ s \in reg'.sets /\ reg.own[s] \subseteq reg'.own[s]
          /\ reg'.own[s] \subseteq reg.own[s] \cup ToSet(Op.add)
      BY <1>2, <2>1, <2>2 DEF Found
    <2>4. ToSet(Op.add) \subseteq MayCarry(chain, p)
      BY <1>2, <2>1 DEF MayCarry, Op
    <2>5. MadeBy(s, p)'
      BY <1>1, <2>2, <2>3, <2>4 DEF MadeBy
    <2>6. QED
      BY <2>3, <2>5
  <1>5. CASE Works /\ Next
    <2> SUFFICES ASSUME NEW p \in Ops, p < at', Reliable(chain, p)
                 PROVE  \E s \in reg'.sets : MadeBy(s, p)'
      BY <1>1 DEF Supply
    <2>1. phase = "node" /\ at \in Ops /\ at' \in Ops
      BY <1>2, <1>5 DEF Works
    <2>2. at' > 1
      <3>1. p \in Nat /\ p # 0 /\ at' \in Nat
        BY <1>2, <2>1
      <3>2. QED
        BY <3>1
    <2>3. at' = at + 1
      BY <1>1, <1>5, <2>2, CameFrom
    <2>4. CASE p = at
      BY <1>5, <2>2, <2>4, ReliableMakes
    <2>5. CASE p # at
      <3>1. p < at
        <4>1. p \in Nat /\ at \in Nat
          BY <1>2
        <4>2. QED
          BY <2>3, <2>5, <4>1
      <3>2. PICK s \in reg.sets : MadeBy(s, p)
        BY <2>1, <3>1 DEF Supply
      <3>3. CASE UNCHANGED <<reg, outs, creator>>
        BY <1>1, <3>2, <3>3 DEF MadeBy
      <3>4. ASSUME NEW new, Remade(new), Op.kind \in Making
            PROVE  \E z \in reg'.sets : MadeBy(z, p)'
        <4>1. at \in MakersOf(chain) \ {p}
          BY <1>2, <2>1, <2>5, <3>4 DEF MakersOf, Op
        <4>2. ~ (Out(chain, at) \subseteq MayCarry(chain, p))
          BY <4>1 DEF Reliable, ToldApart
        <4>3. Op.out # <<>>
          BY <4>2 DEF Out, Op, ToSet
        <4>4. ToSet(outs[at]) = {x \in reg.sets : Out(chain, at) \subseteq reg.own[x]}
          BY <2>1, <4>3 DEF SeenInv, Looked
        <4>5. s \notin ToSet(outs[at])
          BY <3>2, <4>2, <4>4 DEF MadeBy
        <4>6. s \in reg'.sets /\ s \notin ToSet(new)
          BY <3>2, <3>4, <4>5 DEF Remade
        <4>7. reg'.own[s] = reg.own[s]
          BY <3>4, <4>6 DEF Remade
        <4>8. QED
          BY <1>1, <3>2, <4>6, <4>7 DEF MadeBy
      <3>5. QED
        BY <1>5, <3>3, <3>4 DEF Works
    <2>6. QED
      BY <2>4, <2>5
  <1>6. CASE StartUnload \/ Destroy
    BY <1>6 DEF StartUnload, Destroy, Supply
  <1>7. QED
    BY <1>1, <1>3, <1>4, <1>5, <1>6, StepIs

LEMMA SupplyAlways == Spec => [](SeenInv /\ Supply)
  <1>1. Init => Supply
    <2> SUFFICES ASSUME Init
                 PROVE  Supply
      OBVIOUS
    <2>1. FlowInv /\ at = 1
      BY InitFlow DEF Init
    <2>2. \A p \in Ops : ~ (p < at)
      BY <2>1, OpsIs DEF Ops
    <2>3. QED
      BY <2>2 DEF Supply
  <1>2. SeenInv /\ Supply /\ [Next]_vars => Supply'
    BY NextSupply
  <1>3. QED
    BY <1>1, <1>2, SeenAlways, PTL DEF Spec

LEMMA SuppliedReads ==
    ASSUME SeenInv, Supply, phase = "node", Supplied(chain, at)
    PROVE  ins[at] \in Seq(SetId) /\ Len(ins[at]) > 0
  <1>1. at \in Ops /\ ins[at] \in Seq(SetId) /\ Ops \subseteq Nat /\ FlowInv
    BY OpsIs DEF SeenInv
  <1>2. PICK p \in 1 .. at - 1 : Reliable(chain, p) /\ In(chain, at) \subseteq Out(chain, p)
    BY DEF Supplied
  <1>3. p \in Ops /\ p < at
    BY <1>1, OpsIs DEF Ops
  <1>4. PICK s \in reg.sets : MadeBy(s, p)
    BY <1>2, <1>3 DEF Supply
  <1>5. In(chain, at) \subseteq reg.own[s]
    BY <1>2, <1>4 DEF MadeBy
  <1>6. s \in ToSet(ins[at])
    BY <1>5 DEF SeenInv, Looked, Supplied, Op
  <1>7. QED
    BY <1>1, <1>6 DEF ToSet
-----------------------------------------------------------------------------
(* The evaluator leaves the sets it found evaluated to the next operator.  *)
Evaluated ==
    phase = "update" /\ at > 1
      => LET e == chain[at - 1] IN
         e.kind = "evaluate" /\ e.out # <<>>
           => \A s \in reg.sets : Out(chain, at - 1) \subseteq reg.own[s] => ToSet(maps[s]) \subseteq done

RanksEvaluatedSets ==
    phase = "node" /\ Op.kind = "rank" => \A s \in ToSet(ins[at]) : ToSet(maps[s]) \subseteq done

LEMMA NextEvaluated ==
    ASSUME SeenInv, Evaluated, RanksEvaluated(chain), [Next]_vars
    PROVE  Evaluated' /\ (RanksEvaluatedSets => RanksEvaluatedSets')
  <1>1. chain' = chain /\ FlowInv
    BY StepIs DEF SeenInv
  <1>2. /\ Ops = DOMAIN chain /\ Ops \subseteq Nat \ {0} /\ reg.sets \subseteq SetId
        /\ at \in Nat \ {0} /\ (phase # "gone" => at \in Ops)
        /\ creator \subseteq MakersOf(chain)
    BY <1>1, OpsIs
  <1>3. CASE UNCHANGED <<reg, maps, done, outs, ins, creator, at, phase>>
    BY <1>1, <1>3 DEF Evaluated, RanksEvaluatedSets, Op
  <1>4. CASE updateSets
    <2>1. /\ at \in Ops /\ Found(reg') /\ phase = "update" /\ phase' = "node" /\ at' = at
          /\ maps' = maps /\ done' = done
          /\ Op.in # <<>> => ToSet(ins'[at]) = {s \in reg'.sets : ToSet(Op.in) \subseteq reg'.own[s]}
      BY <1>1, <1>4, UpdateFinds DEF updateSets
    <2>2. Evaluated'
      BY <2>1 DEF Evaluated
    <2>3. ASSUME Op.kind = "rank", NEW s \in ToSet(ins'[at])
          PROVE  ToSet(maps[s]) \subseteq done
      <3>1. /\ at > 1 /\ chain[at - 1].kind = "evaluate" /\ chain[at - 1].out # <<>>
            /\ Supplied(chain, at)
            /\ \A p \in MakersOf(chain) :
                  In(chain, at) \subseteq MayCarry(chain, p) => Out(chain, at - 1) \subseteq Out(chain, p)
        BY <1>2, <2>1, <2>3 DEF RanksEvaluated, Op
      <3>2. s \in reg'.sets /\ In(chain, at) \subseteq reg'.own[s]
        BY <2>1, <2>3, <3>1 DEF Supplied, In, Op
      <3>3. s \in reg.sets /\ s \in SetId /\ reg'.own[s] \subseteq reg.own[s] \cup ToSet(Op.add)
        BY <1>2, <2>1, <3>2 DEF Found
      <3>4. PICK o \in creator : MadeBy(s, o)
        BY <2>1, <3>3 DEF SeenInv, Labelled
      <3>5. ToSet(Op.add) \subseteq MayCarry(chain, o)
        BY <1>2, <2>1 DEF MayCarry, Op
      <3>6. In(chain, at) \subseteq MayCarry(chain, o)
        BY <3>2, <3>3, <3>4, <3>5 DEF MadeBy
      <3>7. Out(chain, at - 1) \subseteq reg.own[s]
        BY <1>2, <3>1, <3>4, <3>6 DEF MadeBy
      <3>8. QED
        BY <2>1, <3>1, <3>3, <3>7 DEF Evaluated
    <2>4. RanksEvaluatedSets'
      BY <1>1, <2>1, <2>3 DEF RanksEvaluatedSets, Op
    <2>5. QED
      BY <2>2, <2>4
  <1>5. CASE Works /\ Next
    <2>1. RanksEvaluatedSets'
      BY <1>5 DEF Works, RanksEvaluatedSets
    <2> SUFFICES ASSUME at' > 1, chain[at' - 1].kind = "evaluate", chain[at' - 1].out # <<>>,
                        NEW s \in reg'.sets, Out(chain, at' - 1) \subseteq reg'.own[s]
                 PROVE  ToSet(maps'[s]) \subseteq done'
      BY <1>1, <2>1 DEF Evaluated
    <2>2. at' - 1 = at
      BY <1>1, <1>5, CameFrom
    <2>3. Evaluate /\ Op.out # <<>>
      BY <1>1, <1>5, <2>2, CameFrom DEF Op
    <2>4. /\ UNCHANGED <<reg, maps>> /\ done' = done \cup OutputSolutions /\ phase = "node"
      BY <2>3 DEF Evaluate, Node
    <2>5. s \in ToSet(outs[at])
      BY <2>2, <2>3, <2>4 DEF SeenInv, Looked
    <2>6. ToSet(maps[s]) \subseteq OutputSolutions
      BY <2>5 DEF OutputSolutions
    <2>7. QED
      BY <2>4, <2>6
  <1>6. CASE StartUnload \/ Destroy
    BY <1>6 DEF StartUnload, Destroy, Evaluated, RanksEvaluatedSets
  <1>7. QED
    BY <1>1, <1>3, <1>4, <1>5, <1>6, StepIs

(* In every flow that evaluates what it ranks just before, whatever fails: *)
(* the ranking only ever sees solutions whose functions were all evaluated *)
(* since their variables last changed, and there is something to rank.     *)
THEOREM RankingSeesEvaluated ==
    ASSUME \A c \in Chains : RanksEvaluated(c)
    PROVE  Spec => []RankedAreEvaluated
  <1> DEFINE Inv == SeenInv /\ Supply
  <1>1. Inv => RanksEvaluated(chain)
    BY DEF SeenInv, FlowInv, Places
  <1>2. Init => Evaluated /\ RanksEvaluatedSets
    BY DEF Init, Evaluated, RanksEvaluatedSets
  <1>3. Inv /\ Evaluated /\ RanksEvaluatedSets /\ [Next]_vars => Evaluated' /\ RanksEvaluatedSets'
    BY <1>1, NextEvaluated
  <1>4. Inv /\ RanksEvaluatedSets => RankedAreEvaluated
    <2> SUFFICES ASSUME Inv, RanksEvaluatedSets, phase = "node", Op.kind = "rank"
                 PROVE  ToSet(maps[ins[at][1]]) \subseteq done
      BY DEF RankedAreEvaluated
    <2>1. Supplied(chain, at)
      BY <1>1, OpsIs DEF RanksEvaluated, SeenInv, Op
    <2>2. ins[at] \in Seq(SetId) /\ Len(ins[at]) > 0
      BY <2>1, SuppliedReads
    <2>3. ins[at][1] \in ToSet(ins[at])
      BY <2>2 DEF ToSet
    <2>4. QED
      BY <2>3 DEF RanksEvaluatedSets
  <1> HIDE DEF Inv
  <1>5. Spec => []Inv
    BY SupplyAlways DEF Inv
  <1>6. QED
    BY <1>2, <1>3, <1>4, <1>5, PTL DEF Spec
-----------------------------------------------------------------------------
(* The selection leaves its sets, in their order, to the next operator.    *)
Chosen ==
    phase = "update" /\ at > 1 /\ chain[at - 1].kind \in Selecting /\ Op.kind \in Breeding
      => outs[at - 1] # <<>> /\ setsWithTags(reg, Op.in) = outs[at - 1]

LEMMA RemadeChosen ==
    ASSUME SeenInv, BreedsSelected(chain), Works, at' = at + 1, Op.kind \in Selecting,
           chain[at'].kind \in Breeding, NEW new, Remade(new)
    PROVE  outs'[at] = new /\ setsWithTags(reg', chain[at'].in) = new
  <1>1. /\ FlowInv /\ phase = "node" /\ at \in Ops /\ at' \in Ops /\ Ops = DOMAIN chain
        /\ Ops \subseteq Nat \ {0} /\ outs \in [Ops -> Seq(SetId)] /\ at' - 1 = at
        /\ reg.sets \subseteq SetId /\ creator \subseteq MakersOf(chain)
    <2>1. FlowInv
      BY DEF SeenInv
    <2>2. at \in Nat
      BY <2>1, OpsIs
    <2>3. QED
      BY <2>1, <2>2, OpsIs DEF Works
  <1>2. /\ chain[at'].in # <<>> /\ In(chain, at') \subseteq Out(chain, at)
        /\ \A p \in MakersOf(chain) \ {at} : ~ (In(chain, at') \subseteq MayCarry(chain, p))
    BY <1>1 DEF BreedsSelected
  <1> DEFINE tags == chain[at'].in
             S == {s \in SetId : \A t \in ToSet(tags) : s \in ToSet(reg'.index[t])}
  <1>3. tags \in Seq(Tag) /\ Head(tags) \in In(chain, at') /\ ToSet(tags) = In(chain, at')
        /\ ToSet(tags) \subseteq Tag
    <2>1. tags \in Seq(Tag)
      BY <1>1, ChainIs DEF FlowInv
    <2>2. QED
      BY <1>2, <2>1 DEF In, ToSet
  <1>4. /\ new \in Seq(SetId) /\ Sound(reg') /\ outs'[at] = new
        /\ reg'.sets = (reg.sets \ ToSet(outs[at])) \cup ToSet(new)
        /\ \A s \in reg'.sets : reg'.own[s] = IF s \in ToSet(new) THEN Out(chain, at) ELSE reg.own[s]
    BY <1>1 DEF Remade, Out, Op
  <1>5. PICK q \in Seq(SetId) : ToSet(q) \cap ToSet(new) = {} /\ reg'.index[Head(tags)] = q \o new
    BY <1>2, <1>3 DEF Remade, Out, Op
  <1>6. S = ToSet(new)
    <2>1. \A t \in Tag : ToSet(reg'.index[t]) = {s \in reg'.sets : t \in reg'.own[s]}
      BY <1>4 DEF Sound, Agree
    <2>2. ASSUME NEW s \in S
          PROVE  s \in ToSet(new)
      <3>1. s \in reg'.sets /\ In(chain, at') \subseteq reg'.own[s]
        BY <1>3, <2>1
      <3>2. SUFFICES ASSUME s \notin ToSet(new)
                     PROVE  FALSE
        OBVIOUS
      <3>3. s \in reg.sets /\ s \notin ToSet(outs[at]) /\ In(chain, at') \subseteq reg.own[s]
        BY <1>4, <3>1, <3>2
      <3>4. PICK o \in creator : MadeBy(s, o)
        BY <1>1, <3>3 DEF SeenInv, Labelled
      <3>5. In(chain, at') \subseteq MayCarry(chain, o)
        BY <3>3, <3>4 DEF MadeBy
      <3>6. o = at
        BY <1>1, <1>2, <3>5
      <3>7. Op.out # <<>>
        BY <1>2, <1>3 DEF Out, Op, ToSet
      <3>8. QED
        BY <1>1, <3>3, <3>4, <3>6, <3>7 DEF SeenInv, Looked, MadeBy
    <2>3. ASSUME NEW s \in ToSet(new)
          PROVE  s \in S
      <3>1. s \in reg'.sets /\ In(chain, at') \subseteq reg'.own[s] /\ s \in SetId
        BY <1>2, <1>4, <2>3, RegistryIs DEF Sound
      <3>2. QED
        BY <1>3, <2>1, <3>1
    <2>4. QED
      BY <2>2, <2>3
  <1>7. setsWithTags(reg', tags) = Listed(q \o new, S)
    BY <1>2, <1>5 DEF setsWithTags
  <1>8. Listed(q \o new, S) = new
    <2> HIDE DEF S
    <2>1. QED
      BY <1>4, <1>5, <1>6, ListedTail
  <1>9. QED
    BY <1>4, <1>7, <1>8

LEMMA SelectionRemakes ==
    ASSUME SeenInv, Supply, BreedsSelected(chain), Works, Next, at' = at + 1,
           Op.kind \in Selecting, chain[at'].kind \in Breeding
    PROVE  \E new : Remade(new) /\ new # <<>>
  <1>1. /\ FlowInv /\ phase = "node" /\ at \in Ops /\ at' \in Ops /\ Ops = DOMAIN chain
        /\ at \in Nat \ {0}
    BY OpsIs DEF SeenInv, Works
  <1>2. at' > 1 /\ at' - 1 = at
    BY <1>1
  <1>3. ASSUME NEW contents, NEW d, Replace(contents, d), Len(contents) > 0
        PROVE  \E new : Remade(new) /\ new # <<>>
    <2>1. PICK new : Remade(new) /\ Len(new) = Len(contents)
      BY <1>1, <1>3, ReplaceMakes
    <2>2. new # <<>>
      BY <1>3, <2>1
    <2>3. QED
      BY <2>1, <2>2
  <1>4. Op.kind \in {"reduce", "pool"} => ins[at] \in Seq(SetId) /\ Len(ins[at]) > 0
    <2>1. Op.kind \in {"reduce", "pool"} => Supplied(chain, at)
      BY <1>1, <1>2 DEF BreedsSelected, Op
    <2>2. QED
      BY <1>1, <2>1, SuppliedReads
  <1>5. CASE Op.kind = "elite"
    <2>1. PICK e : Replace(<<e>>, done)
      BY <1>1, <1>2, <1>5, CameFrom DEF Elite
    <2>2. Len(<<e>>) > 0
      OBVIOUS
    <2>3. QED
      BY <1>3, <2>1, <2>2
  <1>6. CASE Op.kind = "reduce"
    <2>1. Reduce /\ ins[at] # <<>>
      BY <1>1, <1>2, <1>4, <1>6, CameFrom
    <2>2. PICK e : Replace(<<e>>, done)
      BY <2>1 DEF Reduce
    <2>3. Len(<<e>>) > 0
      OBVIOUS
    <2>4. QED
      BY <1>3, <2>2, <2>3
  <1>7. CASE Op.kind = "pool"
    <2>1. Pool /\ ins[at] \in Seq(SetId) /\ Len(ins[at]) > 0
      BY <1>1, <1>2, <1>4, <1>7, CameFrom
    <2>2. PICK pick : Replace([i \in DOMAIN ins[at] |->
                                 [k \in DOMAIN Inputs[i] |-> Inputs[i][pick[i][k]]]], done)
      BY <2>1 DEF Pool
    <2>3. Len([i \in DOMAIN ins[at] |-> [k \in DOMAIN Inputs[i] |-> Inputs[i][pick[i][k]]]]) > 0
      BY <2>1
    <2>4. QED
      BY <1>3, <2>2, <2>3
  <1>8. QED
    BY <1>5, <1>6, <1>7 DEF Selecting

LEMMA NextChosen ==
    ASSUME SeenInv, Supply, Chosen, BreedsSelected(chain), [Next]_vars
    PROVE  Chosen' /\ (ParentsAreSelected => ParentsAreSelected')
  <1>1. chain' = chain /\ FlowInv /\ Ops' = Ops
    BY StepIs DEF SeenInv, Ops
  <1>2. /\ Ops = DOMAIN chain /\ Ops \subseteq Nat \ {0} /\ outs \in [Ops -> Seq(SetId)]
        /\ ins \in [Ops -> Seq(SetId)]
        /\ at \in Nat \ {0} /\ (phase # "gone" => at \in Ops)
    BY <1>1, OpsIs
  <1>3. CASE UNCHANGED <<reg, maps, done, outs, ins, creator, at, phase>>
    BY <1>1, <1>3 DEF Chosen, ParentsAreSelected, Op, Selectors
  <1>4. CASE updateSets
    <2>1. at \in Ops /\ phase = "update" /\ phase' = "node" /\ at' = at /\ reg' = TaggedOutputs
      BY <1>2, <1>4 DEF updateSets
    <2>2. Chosen'
      BY <2>1 DEF Chosen
    <2>3. ASSUME Op.kind \in Breeding
          PROVE  \E o \in Selectors : o < at /\ ins'[at] = outs'[o] /\ ins'[at] # <<>>
      <3>1. /\ at > 1 /\ chain[at - 1].kind \in Selecting
            /\ Op.in # <<>> /\ Op.add = <<>>
        BY <1>2, <2>1, <2>3 DEF BreedsSelected, Op
      <3>2. at - 1 \in Ops /\ at - 1 < at /\ at - 1 # at
        BY <1>1, <2>1, <3>1, ChainIs DEF FlowInv, Ops
      <3>3. reg' = reg
        <4>1. CASE Op.out = <<>>
          BY <2>1, <4>1 DEF TaggedOutputs
        <4>2. CASE Op.out # <<>>
          <5>1. Found(TaggedOutputs) /\ Sound(reg)
            BY <1>1, <2>1, TaggedOutputsFound DEF FlowInv
          <5>2. FoundOutputs \in Seq(SetId) /\ ToSet(FoundOutputs) \subseteq reg.sets
            BY <4>2, <5>1 DEF Found
          <5>3. TagAll(reg, FoundOutputs, <<>>) = reg
            BY <5>1, <5>2, TagNothing
          <5>4. QED
            BY <2>1, <3>1, <4>2, <5>3 DEF TaggedOutputs
        <4>3. QED
          BY <4>1, <4>2
      <3>4. ins'[at] = setsWithTags(reg, Op.in)
        BY <1>2, <1>4, <2>1, <3>1, <3>3 DEF updateSets
      <3>5. outs'[at - 1] = outs[at - 1]
        BY <1>2, <1>4, <3>2 DEF updateSets
      <3>6. outs[at - 1] # <<>> /\ setsWithTags(reg, Op.in) = outs[at - 1]
        BY <2>1, <2>3, <3>1 DEF Chosen, Op
      <3>7. at - 1 \in Selectors
        BY <3>1, <3>2 DEF Selectors
      <3>8. QED
        BY <3>2, <3>4, <3>5, <3>6, <3>7
    <2>4. ParentsAreSelected'
      BY <1>1, <2>1, <2>3 DEF ParentsAreSelected, Op, Selectors
    <2>5. QED
      BY <2>2, <2>4
  <1>5. CASE Works /\ Next
    <2>1. ParentsAreSelected'
      BY <1>5 DEF Works, ParentsAreSelected
    <2> SUFFICES ASSUME at' > 1, chain[at' - 1].kind \in Selecting, chain[at'].kind \in Breeding
                 PROVE  outs'[at' - 1] # <<>> /\ setsWithTags(reg', chain[at'].in) = outs'[at' - 1]
      BY <1>1, <2>1 DEF Chosen, Op
    <2>2. at' = at + 1 /\ at' - 1 = at /\ Op.kind \in Selecting
      BY <1>1, <1>5, CameFrom DEF Op
    <2>3. PICK new : Remade(new) /\ new # <<>>
      BY <1>5, <2>2, SelectionRemakes
    <2>4. outs'[at] = new /\ setsWithTags(reg', chain[at'].in) = new
      BY <1>5, <2>2, <2>3, RemadeChosen
    <2>5. QED
      BY <2>2, <2>3, <2>4
  <1>6. CASE StartUnload \/ Destroy
    BY <1>6 DEF StartUnload, Destroy, Chosen, ParentsAreSelected
  <1>7. QED
    BY <1>1, <1>3, <1>4, <1>5, <1>6, StepIs

(* In every flow whose breeders follow a selection whose tags they look    *)
(* for: parents are taken from the sets that this generation's selection   *)
(* made, all of them in their order, and from nothing else.                *)
THEOREM ParentsAlwaysSelected ==
    ASSUME \A c \in Chains : BreedsSelected(c)
    PROVE  Spec => []ParentsAreSelected
  <1> DEFINE Inv == SeenInv /\ Supply
  <1>1. Inv => BreedsSelected(chain)
    BY DEF SeenInv, FlowInv, Places
  <1>2. Init => Chosen /\ ParentsAreSelected
    BY DEF Init, Chosen, ParentsAreSelected
  <1>3. Inv /\ Chosen /\ ParentsAreSelected /\ [Next]_vars => Chosen' /\ ParentsAreSelected'
    BY <1>1, NextChosen
  <1> HIDE DEF Inv
  <1>4. Spec => []Inv
    BY SupplyAlways DEF Inv
  <1>5. QED
    BY <1>2, <1>3, <1>4, PTL DEF Spec
-----------------------------------------------------------------------------
(* What selection made stays what it was until the next selection.         *)
LEMMA SubSeqIn ==
    ASSUME NEW S, NEW q \in Seq(S), NEW a \in Nat \ {0}, NEW b \in Nat, b <= Len(q)
    PROVE  SubSeq(q, a, b) \in Seq(S) /\ ToSet(SubSeq(q, a, b)) \subseteq ToSet(q)
  <1> DEFINE z == SubSeq(q, a, b)
             n == IF a <= b THEN b - a + 1 ELSE 0
  <1>1. n \in Nat /\ \A i \in 1 .. n : i + a - 1 \in 1 .. Len(q)
    OBVIOUS
  <1>2. z \in Seq(S) /\ Len(z) = n /\ \A i \in 1 .. n : z[i] = q[i + a - 1]
    OBVIOUS
  <1> HIDE DEF z, n
  <1>3. ASSUME NEW x \in ToSet(z)
        PROVE  x \in ToSet(q)
    <2>1. PICK i \in 1 .. n : x = z[i]
      BY <1>2 DEF ToSet
    <2>2. x = q[i + a - 1] /\ i + a - 1 \in DOMAIN q
      BY <1>1, <1>2, <2>1
    <2>3. QED
      BY <2>2 DEF ToSet
  <1>4. QED
    BY <1>2, <1>3 DEF z

LEMMA ChunksIn ==
    ASSUME NEW S, NEW q \in Seq(S), NEW n \in Nat \ {0}
    PROVE  /\ Len(Chunks(q, n)) \in Nat
           /\ \A i \in 1 .. Len(Chunks(q, n)) :
                 Chunks(q, n)[i] \in Seq(S) /\ ToSet(Chunks(q, n)[i]) \subseteq ToSet(q)
  <1> DEFINE k == (Len(q) + n - 1) \div n
             z == Chunks(q, n)
  <1>1. k \in Nat
    <2> DEFINE m == Len(q) + n - 1
    <2>1. m \in Nat
      OBVIOUS
    <2> HIDE DEF m
    <2>2. m \div n \in Nat
      BY <2>1
    <2>3. QED
      BY <2>2 DEF m
  <1> HIDE DEF k
  <1>2. z = [i \in 1 .. k |-> SubSeq(q, (i - 1) * n + 1, IF i * n < Len(q) THEN i * n ELSE Len(q))]
    BY DEF Chunks, k
  <1>3. ASSUME NEW i \in 1 .. k
        PROVE  z[i] \in Seq(S) /\ ToSet(z[i]) \subseteq ToSet(q)
    <2> DEFINE a == (i - 1) * n + 1
               b == IF i * n < Len(q) THEN i * n ELSE Len(q)
    <2>1. \A x, y \in Nat : x * y \in Nat
      OBVIOUS
    <2>2. i - 1 \in Nat /\ i \in Nat /\ n \in Nat /\ Len(q) \in Nat
      BY <1>1
    <2>3. (i - 1) * n \in Nat /\ i * n \in Nat
      BY <2>1, <2>2
    <2>4. a \in Nat \ {0} /\ b \in Nat /\ b <= Len(q)
      BY <2>2, <2>3
    <2>5. z[i] = SubSeq(q, a, b)
      BY <1>2
    <2> HIDE DEF a, b, z
    <2>6. QED
      BY <2>4, <2>5, SubSeqIn
  <1> HIDE DEF z
  <1>4. Len(z) = k
    BY <1>1, <1>2
  <1>5. QED
    BY <1>1, <1>3, <1>4 DEF z

(* Breeding puts clones of nobody else into sets of its own.               *)
LEMMA BreedsFresh ==
    ASSUME FlowInv, at \in Ops, NEW parents, NEW size \in Nat \ {0}, Breed(parents, size)
    PROVE  \E new : /\ Remade(new)
                    /\ \A s \in ToSet(new) :
                         /\ maps'[s] \in Seq(Mapping)
                         /\ \A z \in reg.sets \ ToSet(outs[at]) : ToSet(maps'[s]) \cap ToSet(maps[z]) = {}
                    /\ \A s \in reg'.sets \ ToSet(new) : maps'[s] = maps[s]
                    /\ \A x \in done \cap Solutions(reg', maps') :
                         (\E z \in reg.sets \ ToSet(outs[at]) : x \in ToSet(maps[z])) => x \in done'
  <1> DEFINE r == clearOutputSets(reg, outs[at])
             fresh == FreshIn(Mapping, Solutions(r, maps), Len(parents))
             d == (done \cap Solutions(r, maps))
                    \cup {fresh[i] : i \in {j \in DOMAIN fresh : parents[j] \in done}}
             contents == Chunks(fresh, size)
  <1>1. Room(Mapping, Solutions(r, maps), Len(parents)) /\ Replace(contents, d)
    BY DEF Breed
  <1>2. r.sets = reg.sets \ ToSet(outs[at])
    BY ClearSound, OpsIs DEF FlowInv
  <1>3. fresh \in Seq(Mapping) /\ ToSet(fresh) \cap Solutions(r, maps) = {}
    <2> HIDE DEF r
    <2>1. QED
      BY <1>1, FreshIs, ChainAssumption
  <1>4. done \cap Solutions(r, maps) \subseteq d
    OBVIOUS
  <1> HIDE DEF fresh, d, r
  <1>5. /\ Len(contents) \in Nat
        /\ \A i \in 1 .. Len(contents) :
              contents[i] \in Seq(Mapping) /\ ToSet(contents[i]) \subseteq ToSet(fresh)
    BY <1>3, ChunksIn
  <1> HIDE DEF contents
  <1>6. PICK new : /\ Remade(new) /\ Len(new) = Len(contents)
                   /\ \A s \in reg'.sets :
                         maps'[s] = IF s \in ToSet(new)
                                    THEN contents[CHOOSE i \in DOMAIN new : new[i] = s]
                                    ELSE maps[s]
                   /\ done' = d \cap Solutions(reg', maps')
    BY <1>1, ReplaceMakes
  <1>7. new \in Seq(SetId) /\ ToSet(new) \subseteq reg'.sets
    BY <1>6 DEF Remade
  <1>8. ASSUME NEW s \in ToSet(new)
        PROVE  maps'[s] \in Seq(Mapping) /\ ToSet(maps'[s]) \subseteq ToSet(fresh)
    <2> DEFINE i == CHOOSE i \in DOMAIN new : new[i] = s
    <2>1. i \in DOMAIN new
      BY <1>8 DEF ToSet
    <2>2. maps'[s] = contents[i]
      BY <1>6, <1>7, <1>8
    <2> HIDE DEF i
    <2>3. i \in 1 .. Len(contents)
      BY <1>6, <1>7, <2>1
    <2>4. QED
      BY <1>5, <2>2, <2>3
  <1>9. \A z \in reg.sets \ ToSet(outs[at]) : ToSet(maps[z]) \subseteq Solutions(r, maps)
    BY <1>2 DEF Solutions
  <1>10. \A s \in ToSet(new), z \in reg.sets \ ToSet(outs[at]) :
            ToSet(maps'[s]) \cap ToSet(maps[z]) = {}
    <2> SUFFICES ASSUME NEW s \in ToSet(new), NEW z \in reg.sets \ ToSet(outs[at])
                 PROVE  ToSet(maps'[s]) \cap ToSet(maps[z]) = {}
      OBVIOUS
    <2>1. ToSet(maps'[s]) \subseteq ToSet(fresh) /\ ToSet(maps[z]) \subseteq Solutions(r, maps)
      BY <1>8, <1>9
    <2>2. QED
      BY <1>3, <2>1
  <1>11. \A x \in done \cap Solutions(reg', maps') :
            (\E z \in reg.sets \ ToSet(outs[at]) : x \in ToSet(maps[z])) => x \in done'
    BY <1>4, <1>6, <1>9
  <1>12. \A s \in reg'.sets \ ToSet(new) : maps'[s] = maps[s]
    BY <1>6
  <1>13. QED
    BY <1>6, <1>8, <1>10, <1>11, <1>12

(* The sets that a selection knows are its own, and still stand.           *)
OwnOuts ==
    phase # "gone"
      => \A o \in Selectors : \A s \in ToSet(outs[o]) : s \in reg.sets /\ MadeBy(s, o)

LEMMA SelectorsIs ==
    ASSUME FlowInv
    PROVE  Selectors \subseteq MakersOf(chain) /\ Selectors \subseteq Ops
  <1>1. Selectors \subseteq Ops /\ Ops = DOMAIN chain
    BY OpsIs DEF Selectors
  <1>2. Selecting \subseteq Making
    BY DEF Making, Replacing
  <1>3. QED
    BY <1>1, <1>2 DEF Selectors, MakersOf

LEMMA SelectsApart ==
    ASSUME SeenInv, OwnOuts, VariesBred(chain), phase = "node", Op.kind \in Making,
           NEW o \in Selectors, o # at, NEW s \in ToSet(outs[o])
    PROVE  s \notin ToSet(outs[at])
  <1>1. FlowInv /\ at \in Ops /\ Ops = DOMAIN chain /\ o \in Ops /\ o \in MakersOf(chain)
    BY OpsIs, SelectorsIs DEF SeenInv
  <1>2. at \in MakersOf(chain) \ {o} /\ ToldApart(chain, o)
    BY <1>1 DEF MakersOf, VariesBred, Selectors, Op
  <1>3. ~ (Out(chain, at) \subseteq MayCarry(chain, o))
    BY <1>2 DEF ToldApart
  <1>4. Op.out # <<>>
    BY <1>3 DEF Out, Op, ToSet
  <1>5. ToSet(outs[at]) = {z \in reg.sets : Out(chain, at) \subseteq reg.own[z]}
    BY <1>4 DEF SeenInv, Looked
  <1>6. MadeBy(s, o)
    BY DEF OwnOuts
  <1>7. QED
    BY <1>3, <1>5, <1>6 DEF MadeBy

LEMMA NextOwnOuts ==
    ASSUME SeenInv, OwnOuts, VariesBred(chain), [Next]_vars
    PROVE  OwnOuts'
  <1>1. chain' = chain /\ FlowInv /\ Selectors' = Selectors
    BY StepIs DEF SeenInv, Selectors, Ops
  <1>2. /\ Ops = DOMAIN chain /\ Selectors \subseteq Ops /\ Selectors \subseteq MakersOf(chain)
        /\ creator \subseteq MakersOf(chain) /\ outs \in [Ops -> Seq(SetId)]
        /\ reg.sets \subseteq SetId /\ (phase # "gone" => at \in Ops)
    BY <1>1, OpsIs, SelectorsIs
  <1>3. CASE UNCHANGED <<reg, maps, done, outs, ins, creator, at, phase>>
    BY <1>1, <1>3 DEF OwnOuts, MadeBy
  <1>4. CASE updateSets
    <2>1. /\ at \in Ops /\ Found(reg') /\ phase = "update"
          /\ outs' = [outs EXCEPT ![at] = FoundOutputs]
      BY <1>1, <1>4, UpdateFinds DEF updateSets
    <2>2. ASSUME NEW s \in reg.sets, NEW o, MadeBy(s, o)
          PROVE  s \in reg'.sets /\ MadeBy(s, o)'
      <3>1. /\ s \in reg'.sets /\ reg.own[s] \subseteq reg'.own[s]
            /\ reg'.own[s] \subseteq reg.own[s] \cup ToSet(Op.add)
        BY <1>2, <2>1 DEF Found
      <3>2. ToSet(Op.add) \subseteq MayCarry(chain, o)
        BY <1>2, <2>1 DEF MayCarry, Op
      <3>3. QED
        BY <1>1, <2>2, <3>1, <3>2 DEF MadeBy
    <2> SUFFICES ASSUME NEW o \in Selectors, NEW s \in ToSet(outs'[o])
                 PROVE  s \in reg'.sets /\ MadeBy(s, o)'
      BY <1>1 DEF OwnOuts
    <2>3. CASE o # at \/ Op.out = <<>>
      <3>1. outs'[o] = outs[o]
        BY <1>2, <2>1, <2>3 DEF Found
      <3>2. QED
        BY <2>1, <2>2, <3>1 DEF OwnOuts
    <2>4. CASE o = at /\ Op.out # <<>>
      <3>1. s \in reg.sets /\ Out(chain, at) \subseteq reg.own[s]
        BY <1>2, <2>1, <2>4 DEF Found, Out, Op
      <3>2. PICK p \in creator : MadeBy(s, p)
        BY <2>1, <3>1 DEF SeenInv, Labelled
      <3>3. ToldApart(chain, o)
        BY <1>2 DEF VariesBred, Selectors
      <3>4. p = o
        BY <1>2, <2>4, <3>1, <3>2, <3>3 DEF ToldApart, MadeBy
      <3>5. QED
        BY <2>2, <3>1, <3>2, <3>4
    <2>5. QED
      BY <2>3, <2>4
  <1>5. CASE Works
    <2>1. CASE UNCHANGED <<reg, outs, creator>>
      BY <1>1, <1>5, <2>1 DEF Works, OwnOuts, MadeBy
    <2>2. ASSUME NEW new, Remade(new), Op.kind \in Making
          PROVE  OwnOuts'
      <3> SUFFICES ASSUME NEW o \in Selectors, NEW s \in ToSet(outs'[o])
                   PROVE  s \in reg'.sets /\ MadeBy(s, o)'
        BY <1>1 DEF OwnOuts
      <3>1. phase = "node" /\ at \in Ops
        BY <1>2, <1>5 DEF Works
      <3>2. /\ outs' = [outs EXCEPT ![at] = new]
            /\ ToSet(new) \cap (reg.sets \ ToSet(outs[at])) = {}
            /\ reg'.sets = (reg.sets \ ToSet(outs[at])) \cup ToSet(new)
            /\ \A z \in reg'.sets : reg'.own[z] = IF z \in ToSet(new) THEN Out(chain, at) ELSE reg.own[z]
        BY <2>2 DEF Remade, Out, Op
      <3>3. CASE o = at
        <4>1. s \in ToSet(new) /\ s \in reg'.sets
          BY <1>2, <3>1, <3>2, <3>3
        <4>2. reg'.own[s] = Out(chain, o)
          BY <3>2, <3>3, <4>1
        <4>3. QED
          BY <1>1, <4>1, <4>2 DEF MadeBy, MayCarry
      <3>4. CASE o # at
        <4>1. s \in ToSet(outs[o]) /\ s \in reg.sets /\ MadeBy(s, o)
          BY <1>2, <3>1, <3>2, <3>4 DEF OwnOuts
        <4>2. s \notin ToSet(outs[at])
          BY <2>2, <3>1, <3>4, <4>1, SelectsApart
        <4>3. s \in reg'.sets /\ reg'.own[s] = reg.own[s]
          BY <3>2, <4>1, <4>2
        <4>4. QED
          BY <1>1, <4>1, <4>3 DEF MadeBy
      <3>5. QED
        BY <3>3, <3>4
    <2>3. QED
      BY <1>5, <2>1, <2>2 DEF Works
  <1>6. CASE StartUnload \/ Destroy
    BY <1>6 DEF StartUnload, Destroy, OwnOuts
  <1>7. QED
    BY <1>1, <1>3, <1>4, <1>5, <1>6, StepIs

(* Until the flow goes on to something else than variation, what was bred  *)
(* is no solution of a selection.                                          *)
Trailing(b, last) ==
    chain[b].kind \in Breeding
      /\ \A k \in b + 1 .. last : chain[k].kind \in {"vary", "truncate"} /\ OnlyBy(chain, k, b)

Bred(b) == b < at /\ Trailing(b, IF phase = "node" THEN at ELSE at - 1)

OfOnly(s, b) == MadeBy(s, b) /\ \A q \in creator \ {b} : ~ MadeBy(s, q)

Cloned ==
    phase # "gone"
      => \A b \in Ops : Bred(b)
           => \A s \in reg.sets : OfOnly(s, b)
                => /\ maps[s] \in Seq(Mapping)
                   /\ \A o \in Selectors : \A z \in ToSet(outs[o]) :
                         ToSet(maps[s]) \cap ToSet(maps[z]) = {}

LEMMA BreedingClones ==
    ASSUME SeenInv, OwnOuts, VariesBred(chain), KeepsApart(chain), phase = "node",
           Op.kind \in Breeding, NEW parents, Breed(parents, Op.size),
           NEW s \in reg'.sets, Out(chain, at) \subseteq reg'.own[s]
    PROVE  /\ maps'[s] \in Seq(Mapping)
           /\ \A o \in Selectors : \A z \in ToSet(outs'[o]) :
                 ToSet(maps'[s]) \cap ToSet(maps'[z]) = {}
  <1>1. /\ FlowInv /\ at \in Ops /\ Ops = DOMAIN chain /\ outs \in [Ops -> Seq(SetId)]
        /\ Selectors \subseteq Ops /\ Op.kind \in Making /\ Op.out # <<>>
        /\ Op.size \in Nat \ {0}
    <2>1. FlowInv /\ at \in Ops /\ Ops = DOMAIN chain
      BY OpsIs DEF SeenInv
    <2>2. Op.size \in Nat /\ Op.size > 0
      BY <2>1, SizeIs DEF VariesBred, Op, FlowInv
    <2>3. QED
      BY <2>1, <2>2, OpsIs, SelectorsIs DEF KeepsApart, Op, Making, Replacing
  <1>2. PICK new : /\ Remade(new)
                   /\ \A x \in ToSet(new) :
                        /\ maps'[x] \in Seq(Mapping)
                        /\ \A z \in reg.sets \ ToSet(outs[at]) :
                              ToSet(maps'[x]) \cap ToSet(maps[z]) = {}
                   /\ \A x \in reg'.sets \ ToSet(new) : maps'[x] = maps[x]
    BY <1>1, BreedsFresh
  <1>3. /\ outs' = [outs EXCEPT ![at] = new]
        /\ ToSet(new) \cap (reg.sets \ ToSet(outs[at])) = {}
        /\ reg'.sets = (reg.sets \ ToSet(outs[at])) \cup ToSet(new)
        /\ \A z \in reg'.sets : reg'.own[z] = IF z \in ToSet(new) THEN Out(chain, at) ELSE reg.own[z]
    BY <1>2 DEF Remade, Out, Op
  <1>4. s \in ToSet(new)
    <2> SUFFICES ASSUME s \notin ToSet(new)
                 PROVE  FALSE
      OBVIOUS
    <2>1. s \in reg.sets /\ s \notin ToSet(outs[at]) /\ reg'.own[s] = reg.own[s]
      BY <1>3
    <2>2. Out(chain, at) \subseteq reg.own[s]
      BY <2>1
    <2>3. QED
      BY <1>1, <2>1, <2>2 DEF SeenInv, Looked
  <1>5. ASSUME NEW o \in Selectors, NEW z \in ToSet(outs'[o])
        PROVE  ToSet(maps'[s]) \cap ToSet(maps'[z]) = {}
    <2>1. o # at
      BY DEF Selectors, Op, Selecting, Breeding
    <2>2. z \in ToSet(outs[o])
      BY <1>1, <1>3, <2>1
    <2>3. z \in reg.sets /\ z \notin ToSet(outs[at])
      BY <1>1, <2>1, <2>2, SelectsApart DEF OwnOuts
    <2>4. maps'[z] = maps[z]
      BY <1>2, <1>3, <2>3
    <2>5. QED
      BY <1>2, <1>4, <2>3, <2>4
  <1>6. QED
    BY <1>2, <1>4, <1>5

LEMMA VaryingKeeps ==
    ASSUME SeenInv, OwnOuts, Cloned, VariesBred(chain), KeepsApart(chain), phase = "node",
           Vary \/ Truncate, NEW b \in Ops, Bred(b), NEW s \in reg.sets, OfOnly(s, b)
    PROVE  /\ maps'[s] \in Seq(Mapping)
           /\ \A o \in Selectors : \A z \in ToSet(outs'[o]) :
                 ToSet(maps'[s]) \cap ToSet(maps'[z]) = {}
  <1>1. /\ FlowInv /\ at \in Ops /\ Ops = DOMAIN chain /\ reg.sets \subseteq SetId
        /\ b \in Nat /\ at \in Nat /\ Op.out # <<>> /\ Op.size \in Nat
        /\ outs[at] \in Seq(SetId)
    BY OpsIs, SizeIs DEF SeenInv, FlowInv, KeepsApart, Op
  <1>2. /\ maps[s] \in Seq(Mapping)
        /\ \A o \in Selectors : \A z \in ToSet(outs[o]) : ToSet(maps[s]) \cap ToSet(maps[z]) = {}
    BY DEF Cloned
  <1>3. CASE Vary
    BY <1>2, <1>3 DEF Vary
  <1>4. CASE Truncate
    <2> DEFINE Cut(x) == Contains(outs[at], x) /\ Len(maps[x]) > Op.size
    <2>1. /\ outs' = outs
          /\ \A x \in reg.sets : maps'[x] = IF Cut(x) THEN SubSeq(maps[x], 1, Op.size) ELSE maps[x]
      BY <1>1, <1>4 DEF Truncate, Become
    <2>2. maps'[s] \in Seq(Mapping) /\ ToSet(maps'[s]) \subseteq ToSet(maps[s])
      <3>1. CASE ~ Cut(s)
        BY <1>2, <2>1, <3>1
      <3>2. CASE Cut(s)
        <4>1. maps'[s] = SubSeq(maps[s], 1, Op.size)
          BY <2>1, <3>2
        <4>2. Len(maps[s]) \in Nat /\ Op.size <= Len(maps[s])
          BY <1>1, <1>2, <3>2
        <4> DEFINE q == maps[s]
                   n == Op.size
        <4>3. q \in Seq(Mapping) /\ n \in Nat /\ n <= Len(q) /\ 1 \in Nat \ {0}
          BY <1>1, <1>2, <4>2
        <4> HIDE DEF q, n
        <4>4. SubSeq(q, 1, n) \in Seq(Mapping) /\ ToSet(SubSeq(q, 1, n)) \subseteq ToSet(q)
          BY <4>3, SubSeqIn
        <4>5. QED
          BY <4>1, <4>4 DEF q, n
      <3>3. QED
        BY <3>1, <3>2
    <2>3. ASSUME NEW o \in Selectors, NEW z \in ToSet(outs[o])
          PROVE  maps'[z] = maps[z]
      <3>1. z \in reg.sets /\ MadeBy(z, o)
        BY DEF OwnOuts
      <3>2. Trailing(b, at) /\ at \in b + 1 .. at
        BY <1>1 DEF Bred
      <3>3. OnlyBy(chain, at, b) /\ chain[b].kind \in Breeding
        BY <3>2 DEF Trailing
      <3>4. o \in MakersOf(chain) \ {b}
        BY <1>1, <3>3, SelectorsIs DEF Selectors, Selecting, Breeding
      <3>5. ~ (Out(chain, at) \subseteq reg.own[z])
        BY <3>1, <3>3, <3>4 DEF OnlyBy, MadeBy
      <3>6. z \notin ToSet(outs[at])
        BY <1>1, <3>5 DEF SeenInv, Looked
      <3>7. ~ Cut(z)
        BY <1>1, <3>6 DEF Contains, ToSet
      <3>8. QED
        BY <2>1, <3>1, <3>7
    <2> HIDE DEF Cut
    <2>4. QED
      BY <1>2, <2>1, <2>2, <2>3
  <1>5. QED
    BY <1>3, <1>4

LEMMA NextCloned ==
    ASSUME SeenInv, OwnOuts, Cloned, VariesBred(chain), KeepsApart(chain), [Next]_vars
    PROVE  Cloned'
  <1>1. chain' = chain /\ FlowInv /\ Ops' = Ops /\ Selectors' = Selectors
    BY StepIs DEF SeenInv, Selectors, Ops
  <1>2. /\ Ops = DOMAIN chain /\ Ops \subseteq Nat \ {0} /\ reg.sets \subseteq SetId
        /\ Selectors \subseteq Ops /\ outs \in [Ops -> Seq(SetId)]
        /\ at \in Nat \ {0} /\ (phase # "gone" => at \in Ops)
    BY <1>1, OpsIs, SelectorsIs
  <1>3. CASE UNCHANGED <<reg, maps, done, outs, ins, creator, at, phase>>
    <2> SUFFICES ASSUME phase # "gone", NEW b \in Ops, Bred(b)', NEW s \in reg.sets, OfOnly(s, b)'
                 PROVE  /\ maps[s] \in Seq(Mapping)
                        /\ \A o \in Selectors : \A z \in ToSet(outs[o]) :
                              ToSet(maps[s]) \cap ToSet(maps[z]) = {}
      BY <1>1, <1>3 DEF Cloned
    <2>1. Bred(b)
      BY <1>1, <1>3 DEF Bred, Trailing, OnlyBy
    <2>2. OfOnly(s, b)
      BY <1>1, <1>3 DEF OfOnly, MadeBy
    <2>3. QED
      BY <2>1, <2>2 DEF Cloned
  <1>4. CASE updateSets
    <2>1. /\ at \in Ops /\ Found(reg') /\ phase = "update" /\ phase' = "node" /\ at' = at
          /\ outs' = [outs EXCEPT ![at] = FoundOutputs]
          /\ creator' = creator /\ maps' = maps
      BY <1>1, <1>4, UpdateFinds DEF updateSets
    <2>2. ASSUME NEW s \in reg.sets, NEW q, MadeBy(s, q)
          PROVE  MadeBy(s, q)'
      <3>1. /\ reg.own[s] \subseteq reg'.own[s]
            /\ reg'.own[s] \subseteq reg.own[s] \cup ToSet(Op.add)
        BY <1>2, <2>1 DEF Found
      <3>2. ToSet(Op.add) \subseteq MayCarry(chain, q)
        BY <1>2, <2>1 DEF MayCarry, Op
      <3>3. QED
        BY <1>1, <2>2, <3>1, <3>2 DEF MadeBy
    <2> SUFFICES ASSUME NEW b \in Ops, Bred(b)', NEW s \in reg'.sets, OfOnly(s, b)'
                 PROVE  /\ maps[s] \in Seq(Mapping)
                        /\ \A o \in Selectors : \A z \in ToSet(outs'[o]) :
                              ToSet(maps[s]) \cap ToSet(maps[z]) = {}
      BY <1>1, <2>1 DEF Cloned
    <2>3. b < at /\ Trailing(b, at)
      BY <1>1, <2>1 DEF Bred, Trailing, OnlyBy
    <2>4. Bred(b)
      <3>1. b \in Nat /\ at \in Nat
        BY <1>2
      <3>2. b + 1 .. at - 1 \subseteq b + 1 .. at
        BY <3>1
      <3>3. QED
        BY <2>1, <2>3, <3>2 DEF Bred, Trailing
    <2>5. at \notin Selectors
      <3>1. at \in b + 1 .. at
        BY <1>2, <2>3
      <3>2. QED
        BY <2>3, <3>1 DEF Trailing, Selectors, Selecting
    <2>6. s \in reg.sets /\ \A o \in Selectors : outs'[o] = outs[o]
      BY <1>2, <2>1, <2>5 DEF Found
    <2>7. OfOnly(s, b)
      <3>1. PICK q \in creator : MadeBy(s, q)
        BY <2>1, <2>6 DEF SeenInv, Labelled
      <3>2. \A p \in creator \ {b} : ~ MadeBy(s, p)
        BY <2>1, <2>2, <2>6 DEF OfOnly
      <3>3. QED
        BY <3>1, <3>2 DEF OfOnly
    <2>8. QED
      BY <2>1, <2>4, <2>6, <2>7 DEF Cloned
  <1>5. CASE Works /\ Next
    <2> SUFFICES ASSUME NEW b \in Ops, Bred(b)', NEW s \in reg'.sets, OfOnly(s, b)'
                 PROVE  /\ maps'[s] \in Seq(Mapping)
                        /\ \A o \in Selectors : \A z \in ToSet(outs'[o]) :
                              ToSet(maps'[s]) \cap ToSet(maps'[z]) = {}
      BY <1>1 DEF Cloned
    <2>1. phase = "node" /\ phase' = "update" /\ at \in Ops /\ at' \in Ops
      BY <1>2, <1>5 DEF Works
    <2>2. b < at' /\ Trailing(b, at' - 1)
      BY <1>1, <2>1 DEF Bred, Trailing, OnlyBy
    <2>3. at' > 1
      <3>1. b \in Nat \ {0} /\ at' \in Nat
        BY <1>2, <2>1
      <3>2. QED
        BY <2>2, <3>1
    <2>4. at' = at + 1 /\ at' - 1 = at
      BY <1>1, <1>5, <2>3, CameFrom
    <2>5. CASE b = at
      <3>1. Op.kind \in Breeding /\ Out(chain, at) \subseteq reg'.own[s]
        BY <1>1, <2>2, <2>5 DEF Trailing, OfOnly, MadeBy, Op
      <3>2. Children \/ Filtered
        BY <1>1, <1>5, <2>3, <3>1, CameFrom
      <3>3. PICK parents : Breed(parents, Op.size)
        BY <3>2 DEF Children, Filtered
      <3>4. QED
        BY <2>1, <3>1, <3>3, BreedingClones
    <2>6. CASE b # at
      <3>1. b < at /\ Trailing(b, at)
        <4>1. b \in Nat /\ at \in Nat
          BY <1>2
        <4>2. QED
          BY <2>2, <2>4, <2>6, <4>1
      <3>2. Bred(b)
        BY <2>1, <3>1 DEF Bred
      <3>3. at \in b + 1 .. at
        BY <1>2, <3>1
      <3>4. Op.kind \in {"vary", "truncate"}
        BY <3>1, <3>3 DEF Trailing, Op
      <3>5. Vary \/ Truncate
        BY <1>1, <1>5, <2>3, <3>4, CameFrom
      <3>6. UNCHANGED <<reg, outs, creator>>
        BY <3>5 DEF Vary, Truncate, Become
      <3>7. s \in reg.sets /\ OfOnly(s, b)
        BY <1>1, <3>6 DEF OfOnly, MadeBy
      <3>8. QED
        BY <2>1, <3>2, <3>5, <3>7, VaryingKeeps
    <2>7. QED
      BY <2>5, <2>6
  <1>6. CASE StartUnload \/ Destroy
    BY <1>6 DEF StartUnload, Destroy, Cloned
  <1>7. QED
    BY <1>1, <1>3, <1>4, <1>5, <1>6, StepIs

(* Of a selected solution no step but a variation takes the evaluation     *)
(* away, and variation finds none.                                         *)
Untouched == \A x \in Selected \cap done : x \in Solutions(reg', maps') => x \in done'

LEMMA VaryUntouched ==
    ASSUME SeenInv, OwnOuts, Cloned, VariesBred(chain), KeepsApart(chain), Vary
    PROVE  Untouched
  <1>1. /\ phase = "node" /\ Op.kind = "vary"
        /\ \E changed \in SUBSET OutputSolutions : done' = done \ changed
    BY DEF Vary, Node
  <1>2. /\ FlowInv /\ at \in Ops /\ Ops = DOMAIN chain /\ Ops = 1 .. Len(chain)
        /\ Len(chain) \in Nat /\ at \in Nat
        /\ creator \subseteq MakersOf(chain) /\ Op.out # <<>>
    BY <1>1, OpsIs DEF SeenInv, KeepsApart, Op, Ops
  <1>3. PICK b \in 1 .. at - 1 : Trailing(b, at)
    BY <1>1, <1>2 DEF VariesBred, Trailing, Op
  <1>4. b \in Ops /\ Bred(b) /\ OnlyBy(chain, at, b)
    <2>1. b \in Ops /\ b < at /\ at \in b + 1 .. at
      BY <1>2
    <2>2. QED
      BY <1>1, <1>3, <2>1 DEF Bred, Trailing
  <1>5. ASSUME NEW s \in ToSet(outs[at]), NEW o \in Selectors, NEW z \in ToSet(outs[o])
        PROVE  ToSet(maps[s]) \cap ToSet(maps[z]) = {}
    <2>1. s \in reg.sets /\ Out(chain, at) \subseteq reg.own[s]
      BY <1>1, <1>2 DEF SeenInv, Looked
    <2>2. \A q \in creator \ {b} : ~ MadeBy(s, q)
      BY <1>2, <1>4, <2>1 DEF OnlyBy, MadeBy
    <2>3. PICK q \in creator : MadeBy(s, q)
      BY <1>1, <2>1 DEF SeenInv, Labelled
    <2>4. OfOnly(s, b)
      BY <2>2, <2>3 DEF OfOnly
    <2>5. QED
      BY <1>1, <1>4, <2>1, <2>4 DEF Cloned
  <1>6. Selected \cap OutputSolutions = {}
    BY <1>5 DEF Selected, OutputSolutions
  <1>7. QED
    BY <1>1, <1>6 DEF Untouched

LEMMA BreedUntouched ==
    ASSUME SeenInv, OwnOuts, VariesBred(chain), Children \/ Filtered
    PROVE  Untouched
  <1>1. phase = "node" /\ Op.kind \in Breeding /\ \E parents : Breed(parents, Op.size)
    BY DEF Children, Filtered, Node, Breeding
  <1>2. FlowInv /\ at \in Ops /\ Ops = DOMAIN chain /\ Op.size \in Nat \ {0} /\ Op.kind \in Making
    <2>1. FlowInv /\ at \in Ops /\ Ops = DOMAIN chain
      BY <1>1, OpsIs DEF SeenInv
    <2>2. Op.size \in Nat /\ Op.size > 0
      BY <1>1, <2>1, SizeIs DEF VariesBred, Op, FlowInv
    <2>3. QED
      BY <1>1, <2>1, <2>2 DEF Making, Replacing
  <1>3. \A x \in done \cap Solutions(reg', maps') :
           (\E z \in reg.sets \ ToSet(outs[at]) : x \in ToSet(maps[z])) => x \in done'
    BY <1>1, <1>2, BreedsFresh
  <1>4. ASSUME NEW x \in Selected
        PROVE  \E z \in reg.sets \ ToSet(outs[at]) : x \in ToSet(maps[z])
    <2>0. PICK o \in Selectors :
            \E z \in ToSet(outs[o]) : z \in reg.sets /\ x \in ToSet(maps[z])
      BY DEF Selected
    <2>1. PICK z \in ToSet(outs[o]) : z \in reg.sets /\ x \in ToSet(maps[z])
      BY <2>0
    <2>2. o # at
      BY <1>1 DEF Selectors, Op, Selecting, Breeding
    <2>3. z \notin ToSet(outs[at])
      BY <1>1, <1>2, <2>1, <2>2, SelectsApart
    <2>4. QED
      BY <2>1, <2>3
  <1>5. QED
    BY <1>3, <1>4 DEF Untouched

LEMMA StepUntouched ==
    ASSUME SeenInv, OwnOuts, Cloned, VariesBred(chain), KeepsApart(chain), [Next]_vars
    PROVE  Untouched
  <1>1. CASE done \subseteq done'
    BY <1>1 DEF Untouched
  <1>2. ASSUME NEW r, NEW m, Become(r, m, done)
        PROVE  Untouched
    BY <1>2 DEF Become, Untouched
  <1>3. ASSUME NEW r, NEW kept, NEW contents, AppendOutputSets(r, kept, contents, done)
        PROVE  Untouched
    BY <1>2, <1>3 DEF AppendOutputSets
  <1>4. ASSUME NEW contents, Replace(contents, done)
        PROVE  Untouched
    BY <1>3, <1>4 DEF Replace
  <1>5. CASE updateSets \/ Evaluate \/ EvaluateThrows \/ Score \/ StartUnload \/ UNCHANGED vars
    BY <1>1, <1>5 DEF updateSets, Evaluate, EvaluateThrows, Score, StartUnload, vars
  <1>6. CASE Initialise
    BY <1>1, <1>3, <1>6 DEF Initialise
  <1>7. CASE Rank \/ Elite \/ Pool
    BY <1>4, <1>7 DEF Rank, Elite, Pool
  <1>8. CASE Reduce
    BY <1>1, <1>4, <1>8 DEF Reduce
  <1>9. CASE Truncate \/ Merge
    BY <1>2, <1>9 DEF Truncate, Merge
  <1>10. CASE Destroy
    BY <1>1, <1>2, <1>10 DEF Destroy
  <1>11. QED
    BY <1>5, <1>6, <1>7, <1>8, <1>9, <1>10, VaryUntouched, BreedUntouched DEF Next

(* In every flow that varies, right after breeding, nothing but what was   *)
(* bred, and tells its selections apart, whatever fails: no step takes a   *)
(* selected solution's evaluation away, by which the next generation's     *)
(* elites are judged.                                                      *)
THEOREM SelectedAlwaysUntouched ==
    ASSUME \A c \in Chains : KeepsApart(c) /\ VariesBred(c)
    PROVE  Spec => SelectedUntouched
  <1> DEFINE Wired == KeepsApart(chain) /\ VariesBred(chain)
             Apart == OwnOuts /\ Cloned
  <1>1. SeenInv => Wired
    BY DEF SeenInv, FlowInv, Places
  <1>2. Init => Apart
    <2> SUFFICES ASSUME Init
                 PROVE  OwnOuts /\ Cloned
      OBVIOUS
    <2>1. \A o \in Selectors : ToSet(outs[o]) = {}
      BY DEF Init, Selectors, ToSet
    <2>2. reg.sets = {}
      BY DEF Init, EmptyRegistry
    <2>3. QED
      BY <2>1, <2>2 DEF OwnOuts, Cloned
  <1>3. SeenInv /\ Wired /\ Apart /\ [Next]_vars => Apart'
    BY NextOwnOuts, NextCloned
  <1>4. SeenInv /\ Wired /\ Apart /\ [Next]_vars
          => [\A x \in Selected \cap done : x \in Solutions(reg', maps') => x \in done']_vars
    BY StepUntouched DEF Untouched
  <1> HIDE DEF Wired, Apart
  <1>5. QED
    BY <1>1, <1>2, <1>3, <1>4, SeenAlways, PTL DEF Spec, SelectedUntouched
-----------------------------------------------------------------------------
(* Lists put together: what they hold, and when they hold nothing twice.   *)
LEMMA ConcatIs ==
    ASSUME NEW E, NEW x \in Seq(E), NEW y \in Seq(E)
    PROVE  /\ x \o y \in Seq(E)
           /\ Len(x \o y) = Len(x) + Len(y)
           /\ ToSet(x \o y) = ToSet(x) \cup ToSet(y)
           /\ \A i \in 1 .. Len(x) : (x \o y)[i] = x[i]
           /\ IsInjective(x) /\ IsInjective(y) /\ ToSet(x) \cap ToSet(y) = {}
                => IsInjective(x \o y)
  <1> DEFINE z == x \o y
             k == Len(x)
             m == Len(y)
  <1>1. /\ z \in Seq(E) /\ Len(z) = k + m /\ k \in Nat /\ m \in Nat
        /\ DOMAIN x = 1 .. k /\ DOMAIN y = 1 .. m /\ DOMAIN z = 1 .. k + m
        /\ \A i \in 1 .. k + m : z[i] = IF i <= k THEN x[i] ELSE y[i - k]
    OBVIOUS
  <1> HIDE DEF z, k, m
  <1>2. /\ \A i \in 1 .. k : i \in DOMAIN z /\ z[i] = x[i]
        /\ \A i \in 1 .. m : k + i \in DOMAIN z /\ z[k + i] = y[i]
    <2>1. ASSUME NEW i \in 1 .. k
          PROVE  i \in DOMAIN z /\ z[i] = x[i]
      BY <1>1
    <2>2. ASSUME NEW i \in 1 .. m
          PROVE  k + i \in DOMAIN z /\ z[k + i] = y[i]
      <3>1. k + i \in 1 .. k + m /\ ~ (k + i <= k) /\ (k + i) - k = i
        BY <1>1
      <3>2. QED
        BY <1>1, <3>1
    <2>3. QED
      BY <2>1, <2>2
  <1>3. \A j \in DOMAIN z : (j \in 1 .. k /\ z[j] = x[j]) \/ (j - k \in 1 .. m /\ z[j] = y[j - k] /\ j > k)
    BY <1>1
  <1>4. ToSet(z) = ToSet(x) \cup ToSet(y)
    <2>1. ASSUME NEW j \in DOMAIN z
          PROVE  z[j] \in ToSet(x) \cup ToSet(y)
      BY <1>1, <1>3 DEF ToSet
    <2>2. ToSet(x) \subseteq ToSet(z)
      BY <1>1, <1>2 DEF ToSet
    <2>3. ASSUME NEW i \in DOMAIN y
          PROVE  y[i] \in ToSet(z)
      <3>1. k + i \in DOMAIN z /\ z[k + i] = y[i]
        BY <1>1, <1>2
      <3>2. QED
        BY <3>1 DEF ToSet
    <2>4. ToSet(z) \subseteq ToSet(x) \cup ToSet(y)
      BY <2>1 DEF ToSet
    <2>5. ToSet(y) \subseteq ToSet(z)
      BY <2>3 DEF ToSet
    <2>6. QED
      BY <2>2, <2>4, <2>5
  <1>5. ASSUME IsInjective(x), IsInjective(y), ToSet(x) \cap ToSet(y) = {}
        PROVE  IsInjective(z)
    <2> SUFFICES ASSUME NEW i \in DOMAIN z, NEW j \in DOMAIN z, z[i] = z[j]
                 PROVE  i = j
      BY DEF IsInjective
    <2>1. \A a \in 1 .. k, b \in 1 .. m : x[a] # y[b]
      BY <1>1, <1>5 DEF ToSet
    <2>2. CASE i \in 1 .. k /\ j \in 1 .. k
      BY <1>1, <1>2, <1>5, <2>2 DEF IsInjective
    <2>3. CASE i - k \in 1 .. m /\ j - k \in 1 .. m /\ i > k /\ j > k
      <3>1. z[i] = y[i - k] /\ z[j] = y[j - k]
        BY <1>1, <2>3
      <3>2. i - k = j - k
        BY <1>1, <1>5, <2>3, <3>1 DEF IsInjective
      <3>3. QED
        BY <1>1, <3>2
    <2>4. CASE i \in 1 .. k /\ j - k \in 1 .. m /\ z[j] = y[j - k]
      BY <1>2, <2>1, <2>4
    <2>5. CASE j \in 1 .. k /\ i - k \in 1 .. m /\ z[i] = y[i - k]
      BY <1>2, <2>1, <2>5
    <2>6. QED
      BY <1>3, <2>2, <2>3, <2>4, <2>5
  <1>6. QED
    BY <1>1, <1>2, <1>4, <1>5 DEF z, k, m

LEMMA FlattenRounds ==
    ASSUME NEW E, NEW q \in Seq(Seq(E))
    PROVE  \E c : /\ c[0] = <<>>
                  /\ \A i \in 1 .. Len(q) : c[i] = c[i - 1] \o q[i]
                  /\ FlattenSeq(q) = c[Len(q)]
  <1> DEFINE n == Len(q)
             T == Seq(E)
             e == <<>>
             Step(x, y) == x \o y
             h == [i \in 1 .. n |-> [x \in T |-> Step(x, q[i])]]
             Loop(f) == f = [i \in 1 .. n |-> IF i = 1 THEN q[i] ELSE Step(f[i - 1], q[i])]
             g == CHOOSE f : Loop(f)
             c == [i \in 0 .. n |-> IF i = 0 THEN e ELSE g[i]]
  <1>1. /\ n \in Nat /\ e \in T /\ \A i \in 1 .. n : q[i] \in T
        /\ \A x, y \in T : Step(x, y) \in T
        /\ \A x \in T : Step(e, x) = x
        /\ \A x, y : Step(x, y) = x \o y
    OBVIOUS
  <1>4. n # 0 => FlattenSeq(q) = g[n]
    BY DEF FlattenSeq
  <1> HIDE DEF Step
  <1>2. CASE n = 0
    <2>1. FlattenSeq(q) = e
      BY <1>2 DEF FlattenSeq
    <2> DEFINE d == [i \in 0 .. 0 |-> e]
    <2>2. d[0] = e /\ FlattenSeq(q) = d[n] /\ \A i \in 1 .. n : d[i] = d[i - 1] \o q[i]
      BY <1>2, <2>1
    <2> HIDE DEF d
    <2>3. QED
      BY <2>2
  <1>3. CASE n # 0
    <2>1. FlattenSeq(q) = g[n]
      BY <1>3, <1>4
    <2>2. h \in Bodies(n, T)
      BY <1>1 DEF Bodies
    <2>3. PICK f \in Runs(n, T, e, h) : TRUE
      <3> HIDE DEF h, n, T, e
      <3>1. QED
        BY <1>1, <2>2, Rounds
    <2>4. f[0] = e /\ \A i \in 1 .. n : f[i] = Step(f[i - 1], q[i]) /\ f[i - 1] \in T
      <3>1. f[0] = e
        BY <2>3 DEF Runs
      <3>2. ASSUME NEW i \in 1 .. n
            PROVE  f[i] = Step(f[i - 1], q[i]) /\ f[i - 1] \in T
        <4>1. f[i - 1] \in T
          <5>1. i - 1 \in 0 .. n
            BY <1>1
          <5>2. QED
            BY <2>3, <5>1 DEF Runs
        <4>2. QED
          BY <2>3, <4>1 DEF Runs
      <3>3. QED
        BY <3>1, <3>2
    <2>5. Loop([i \in 1 .. n |-> f[i]])
      <3> DEFINE w == [i \in 1 .. n |-> f[i]]
      <3>2. ASSUME NEW i \in 1 .. n
            PROVE  w[i] = IF i = 1 THEN q[i] ELSE Step(w[i - 1], q[i])
        <4>1. CASE i = 1
          <5>1. f[i] = Step(f[i - 1], q[i]) /\ f[i - 1] = e
            BY <2>4, <4>1
          <5>2. QED
            BY <1>1, <4>1, <5>1
        <4>2. CASE i # 1
          <5>1. i - 1 \in 1 .. n
            BY <4>2
          <5>2. QED
            BY <2>4, <4>2, <5>1
        <4>3. QED
          BY <4>1, <4>2
      <3>3. QED
        BY <3>2
    <2>6. Loop(g)
      <3> HIDE DEF Loop
      <3>1. QED
        BY <2>5
    <2> HIDE DEF g
    <2>7. c[0] = e /\ FlattenSeq(q) = c[n]
      BY <1>1, <1>3, <2>1
    <2>8. ASSUME NEW i \in 1 .. n
          PROVE  c[i] = Step(c[i - 1], q[i])
      <3>1. c[i] = g[i] /\ g[i] = IF i = 1 THEN q[i] ELSE Step(g[i - 1], q[i])
        <4>1. i \in 0 .. n /\ i # 0
          BY <1>1
        <4>2. c[i] = g[i]
          BY <4>1
        <4>3. g[i] = IF i = 1 THEN q[i] ELSE Step(g[i - 1], q[i])
          BY <2>6
        <4>4. QED
          BY <4>2, <4>3
      <3>2. CASE i = 1
        <4>1. Step(e, q[i]) = q[i] /\ c[i - 1] = e
          BY <1>1, <3>2
        <4>2. QED
          BY <3>1, <3>2, <4>1
      <3>3. CASE i # 1
        <4>1. c[i - 1] = g[i - 1]
          BY <1>1, <3>3
        <4>2. QED
          BY <3>1, <3>3, <4>1
      <3>4. QED
        BY <3>2, <3>3
    <2> HIDE DEF c
    <2>9. QED
      BY <1>1, <2>7, <2>8
  <1>5. QED
    BY <1>2, <1>3

(* Lists that share nothing and hold nothing twice.                        *)
Apart(q) ==
    \A i \in DOMAIN q : /\ IsInjective(q[i])
                        /\ \A j \in DOMAIN q \ {i} : ToSet(q[i]) \cap ToSet(q[j]) = {}

(* Everything is in the flat list, what was first is first in it.          *)
LEMMA FlattenIs ==
    ASSUME NEW E, NEW q \in Seq(Seq(E))
    PROVE  /\ FlattenSeq(q) \in Seq(E)
           /\ ToSet(FlattenSeq(q)) = UNION {ToSet(q[i]) : i \in DOMAIN q}
           /\ Apart(q) => IsInjective(FlattenSeq(q))
           /\ q # <<>> => /\ Len(q[1]) <= Len(FlattenSeq(q))
                          /\ \A i \in 1 .. Len(q[1]) : FlattenSeq(q)[i] = q[1][i]
  <1>1. PICK c : /\ c[0] = <<>>
                 /\ \A i \in 1 .. Len(q) : c[i] = c[i - 1] \o q[i]
                 /\ FlattenSeq(q) = c[Len(q)]
    BY FlattenRounds
  <1> DEFINE n == Len(q)
             Held(i) == UNION {ToSet(q[j]) : j \in 1 .. i}
             Starts(i) == i > 0 => /\ Len(q[1]) <= Len(c[i])
                                   /\ \A k \in 1 .. Len(q[1]) : c[i][k] = q[1][k]
             Good(i) == /\ c[i] \in Seq(E) /\ ToSet(c[i]) = Held(i)
                        /\ Apart(q) => IsInjective(c[i])
                        /\ Starts(i)
             R == {i \in 0 .. n : Good(i)}
  <1>2. /\ n \in Nat /\ DOMAIN q = 1 .. n /\ \A i \in 1 .. n : q[i] \in Seq(E)
        /\ (q # <<>> => n > 0)
    OBVIOUS
  <1>3. 0 \in R
    <2>1. c[0] = <<>> /\ <<>> \in Seq(E) /\ DOMAIN <<>> = {}
      BY <1>1
    <2>2. Held(0) = {} /\ Starts(0)
      OBVIOUS
    <2>3. ToSet(c[0]) = {} /\ IsInjective(c[0])
      BY <2>1 DEF ToSet, IsInjective
    <2> HIDE DEF Held, Starts
    <2>4. Good(0)
      BY <2>1, <2>2, <2>3
    <2> HIDE DEF Good
    <2>5. QED
      BY <1>2, <2>4
  <1>4. ASSUME NEW i \in 1 .. n, i - 1 \in R
        PROVE  i \in R
    <2>1. Good(i - 1) /\ i - 1 \in Nat
      BY <1>2, <1>4
    <2>2. c[i] = c[i - 1] \o q[i] /\ c[i - 1] \in Seq(E) /\ q[i] \in Seq(E)
      <3> HIDE DEF Held, Starts
      <3>1. QED
        BY <1>1, <1>2, <2>1
    <2>3. /\ c[i] \in Seq(E)
          /\ Len(c[i]) = Len(c[i - 1]) + Len(q[i])
          /\ ToSet(c[i]) = ToSet(c[i - 1]) \cup ToSet(q[i])
          /\ \A k \in 1 .. Len(c[i - 1]) : c[i][k] = c[i - 1][k]
          /\ IsInjective(c[i - 1]) /\ IsInjective(q[i]) /\ ToSet(c[i - 1]) \cap ToSet(q[i]) = {}
               => IsInjective(c[i])
      <3> DEFINE x == c[i - 1]
                 y == q[i]
                 z == c[i]
      <3>1. z = x \o y /\ x \in Seq(E) /\ y \in Seq(E)
        BY <2>2
      <3> HIDE DEF x, y, z
      <3>2. /\ x \o y \in Seq(E)
            /\ Len(x \o y) = Len(x) + Len(y)
            /\ ToSet(x \o y) = ToSet(x) \cup ToSet(y)
            /\ \A k \in 1 .. Len(x) : (x \o y)[k] = x[k]
            /\ IsInjective(x) /\ IsInjective(y) /\ ToSet(x) \cap ToSet(y) = {}
                 => IsInjective(x \o y)
        BY <3>1, ConcatIs
      <3>3. QED
        BY <3>1, <3>2 DEF x, y, z
    <2>4. ToSet(c[i]) = Held(i)
      <3>1. 1 .. i = (1 .. (i - 1)) \cup {i}
        OBVIOUS
      <3>2. Held(i) = Held(i - 1) \cup ToSet(q[i])
        BY <3>1
      <3> HIDE DEF Held
      <3>3. QED
        BY <2>1, <2>3, <3>2
    <2>5. ASSUME Apart(q)
          PROVE  IsInjective(c[i])
      <3>1. IsInjective(q[i]) /\ IsInjective(c[i - 1])
        BY <1>2, <2>1, <2>5 DEF Apart
      <3>2. \A j \in 1 .. (i - 1) : ToSet(q[j]) \cap ToSet(q[i]) = {}
        <4>1. \A j \in 1 .. (i - 1) : j \in DOMAIN q \ {i} /\ i \in DOMAIN q
          BY <1>2
        <4>2. QED
          BY <2>5, <4>1 DEF Apart
      <3>3. Held(i - 1) \cap ToSet(q[i]) = {}
        BY <3>2
      <3> HIDE DEF Held
      <3>4. QED
        BY <2>1, <2>3, <3>1, <3>3
    <2>6. Starts(i)
      <3>1. CASE i = 1
        <4>1. c[i] = q[1]
          <5>1. c[0] = <<>> /\ c[1] = c[0] \o q[1] /\ q[1] \in Seq(E)
            <6>1. i - 1 = 0
              BY <3>1
            <6>2. c[i] = c[0] \o q[i] /\ c[0] = <<>> /\ q[i] \in Seq(E)
              BY <1>1, <2>2, <6>1
            <6>3. QED
              BY <3>1, <6>2
          <5> DEFINE y == q[1]
          <5>2. c[1] = <<>> \o y /\ y \in Seq(E)
            BY <5>1
          <5> HIDE DEF y
          <5>3. <<>> \o y = y
            BY <5>2
          <5>4. QED
            BY <3>1, <5>2, <5>3 DEF y
        <4>2. Len(q[1]) \in Nat
          BY <2>2, <3>1
        <4>3. QED
          BY <4>1, <4>2
      <3>2. CASE i # 1
        <4>1. i - 1 > 0 /\ Starts(i - 1)
          BY <2>1, <3>2
        <4>2. Len(q[1]) \in Nat /\ Len(c[i - 1]) \in Nat /\ Len(q[i]) \in Nat
          BY <1>2, <2>2
        <4>3. Len(q[1]) <= Len(c[i])
          <5>1. \A x, y, z \in Nat : x <= y => x <= y + z
            OBVIOUS
          <5>2. QED
            BY <2>3, <4>1, <4>2, <5>1
        <4>4. \A k \in 1 .. Len(q[1]) : k \in 1 .. Len(c[i - 1]) /\ c[i - 1][k] = q[1][k]
          BY <4>1, <4>2
        <4>5. QED
          BY <2>3, <4>3, <4>4
      <3>3. QED
        BY <3>1, <3>2
    <2> HIDE DEF Held, Starts
    <2>7. Good(i)
      BY <2>3, <2>4, <2>5, <2>6
    <2> HIDE DEF Good
    <2>8. QED
      BY <1>2, <2>7
  <1>5. Good(n)
    <2>1. n \in 0 .. n
      BY <1>2
    <2>2. n \in R
      <3> HIDE DEF R, n
      <3>1. QED
        BY <1>2, <1>3, <1>4, <2>1, Upto
    <2> HIDE DEF Good
    <2>3. QED
      BY <2>2
  <1>6. Held(n) = UNION {ToSet(q[i]) : i \in DOMAIN q}
    BY <1>2
  <1> HIDE DEF Held
  <1>7. QED
    BY <1>1, <1>2, <1>5, <1>6

(* A list without repetitions is as long as what it holds.                 *)
LEMMA CountIs ==
    ASSUME NEW E, NEW q \in Seq(E), IsInjective(q)
    PROVE  IsFiniteSet(ToSet(q)) /\ Cardinality(ToSet(q)) = Len(q)
  <1> DEFINE n == Len(q)
             S == ToSet(q)
  <1>1. n \in Nat /\ DOMAIN q = 1 .. n /\ q \in [1 .. n -> S]
    BY DEF ToSet
  <1>2. q \in Bijection(1 .. n, S)
    BY <1>1 DEF Bijection, Injection, Surjection, IsInjective, ToSet
  <1>3. IsFiniteSet(1 .. n) /\ Cardinality(1 .. n) = n
    BY <1>1, FS_Interval
  <1>4. QED
    BY <1>2, <1>3, FS_Bijection DEF ExistsBijection

(* A set as a list.                                                        *)
LEMMA SeqSetIs ==
    ASSUME NEW S, IsFiniteSet(S)
    PROVE  /\ SetToSeq(S) \in Seq(S) /\ Len(SetToSeq(S)) = Cardinality(S)
           /\ IsInjective(SetToSeq(S))
  <1> DEFINE n == Cardinality(S)
             q == SetToSeq(S)
  <1>1. n \in Nat /\ ExistsBijection(1 .. n, S)
    BY FS_CardinalityType
  <1>2. PICK g \in Bijection(1 .. n, S) : TRUE
    BY <1>1 DEF ExistsBijection
  <1>3. g \in [1 .. n -> S] /\ IsInjective(g)
    BY <1>2 DEF Bijection, Injection, IsInjective
  <1>4. q \in [1 .. n -> S] /\ IsInjective(q)
    BY <1>3 DEF SetToSeq
  <1> HIDE DEF q
  <1>5. q \in Seq(S) /\ Len(q) = n
    BY <1>1, <1>4
  <1>6. QED
    BY <1>4, <1>5 DEF q

(* The solutions of a list, every one once.                                *)
OnceEach(q) == ForEach(LAMBDA u, x : IF x \in ToSet(u) THEN u ELSE Append(u, x), <<>>, q)

LEMMA OnceRounds ==
    ASSUME NEW E, NEW q \in Seq(E)
    PROVE  \E c : /\ c[0] = <<>>
                  /\ \A i \in 1 .. Len(q) :
                        c[i] = IF q[i] \in ToSet(c[i - 1]) THEN c[i - 1] ELSE Append(c[i - 1], q[i])
                  /\ OnceEach(q) = c[Len(q)]
  <1> DEFINE n == Len(q)
             T == Seq(E)
             e == <<>>
             Step(k, s) == IF s \in ToSet(k) THEN k ELSE Append(k, s)
             h == [i \in 1 .. n |-> [x \in T |-> Step(x, q[i])]]
             Loop(f) == f = [i \in 0 .. n |-> IF i = 0 THEN e ELSE Step(f[i - 1], q[i])]
             c == CHOOSE f : Loop(f)
  <1>1. n \in Nat
    OBVIOUS
  <1>2. \A x \in T, i \in 1 .. n : Step(x, q[i]) \in T
    OBVIOUS
  <1>3. OnceEach(q) = c[n]
    BY DEF OnceEach, ForEach
  <1>4. \A k, s : Step(k, s) = IF s \in ToSet(k) THEN k ELSE Append(k, s)
    OBVIOUS
  <1> HIDE DEF Step
  <1>5. h \in Bodies(n, T)
    BY <1>2 DEF Bodies
  <1>6. PICK f \in Runs(n, T, e, h) : TRUE
    <2>1. e \in T
      OBVIOUS
    <2> HIDE DEF h, n, T, e
    <2>2. QED
      BY <1>1, <1>5, <2>1, Rounds
  <1>7. ASSUME NEW i \in 1 .. n
        PROVE  f[i] = Step(f[i - 1], q[i])
    <2>1. f[i - 1] \in T
      BY <1>1, <1>6 DEF Runs
    <2>2. QED
      BY <1>6, <2>1 DEF Runs
  <1>8. Loop(f)
    BY <1>6, <1>7 DEF Runs
  <1>9. Loop(c)
    <2> HIDE DEF Loop
    <2>1. QED
      BY <1>8
  <1> HIDE DEF c
  <1>10. c[0] = <<>> /\ \A i \in 1 .. n : c[i] = Step(c[i - 1], q[i])
    BY <1>1, <1>9
  <1>11. QED
    BY <1>3, <1>4, <1>10

LEMMA OnceIs ==
    ASSUME NEW E, NEW q \in Seq(E)
    PROVE  /\ OnceEach(q) \in Seq(E) /\ ToSet(OnceEach(q)) = ToSet(q)
           /\ IsInjective(OnceEach(q))
  <1>1. PICK c : /\ c[0] = <<>>
                 /\ \A i \in 1 .. Len(q) :
                       c[i] = IF q[i] \in ToSet(c[i - 1]) THEN c[i - 1] ELSE Append(c[i - 1], q[i])
                 /\ OnceEach(q) = c[Len(q)]
    BY OnceRounds
  <1> DEFINE n == Len(q)
             Good(i) == c[i] \in Seq(E) /\ ToSet(c[i]) = FirstOf(q, i) /\ IsInjective(c[i])
             R == {i \in 0 .. n : Good(i)}
  <1>2. n \in Nat
    OBVIOUS
  <1>3. 0 \in R
    <2>1. c[0] = <<>> /\ <<>> \in Seq(E) /\ DOMAIN <<>> = {}
      BY <1>1
    <2>2. ToSet(c[0]) = {} /\ IsInjective(c[0])
      BY <2>1 DEF ToSet, IsInjective
    <2>3. Good(0)
      BY <2>1, <2>2, FirstsGrow
    <2> HIDE DEF Good
    <2>4. QED
      BY <1>2, <2>3
  <1>4. ASSUME NEW i \in 1 .. n, i - 1 \in R
        PROVE  i \in R
    <2>1. Good(i - 1) /\ q[i] \in E
      BY <1>4
    <2>2. FirstOf(q, i) = FirstOf(q, i - 1) \cup {q[i]}
      BY FirstsGrow
    <2>3. CASE q[i] \in ToSet(c[i - 1])
      <3>1. c[i] = c[i - 1]
        BY <1>1, <2>3
      <3>2. QED
        BY <2>1, <2>2, <2>3, <3>1
    <2>4. CASE q[i] \notin ToSet(c[i - 1])
      <3>1. c[i] = Append(c[i - 1], q[i])
        BY <1>1, <2>4
      <3>2. c[i] \in Seq(E) /\ ToSet(c[i]) = ToSet(c[i - 1]) \cup {q[i]} /\ IsInjective(c[i])
        BY <2>1, <2>4, <3>1, AppendOne
      <3>3. Good(i)
        BY <2>1, <2>2, <3>2
      <3> HIDE DEF Good
      <3>4. QED
        BY <3>3
    <2>5. QED
      BY <2>3, <2>4
  <1>5. Good(n)
    <2>1. n \in 0 .. n
      BY <1>2
    <2>2. n \in R
      <3> HIDE DEF R, n
      <3>1. QED
        BY <1>2, <1>3, <1>4, <2>1, Upto
    <2> HIDE DEF Good
    <2>3. QED
      BY <2>2
  <1>6. FirstOf(q, n) = ToSet(q)
    BY FirstsGrow
  <1>7. QED
    BY <1>1, <1>5, <1>6

LEMMA UnionIs ==
    ASSUME NEW E, NEW q \in Seq(Seq(E))
    PROVE  /\ Union(q) \in Seq(E) /\ ToSet(Union(q)) = ToSet(FlattenSeq(q))
           /\ IsInjective(Union(q))
  <1>1. FlattenSeq(q) \in Seq(E)
    BY FlattenIs
  <1>2. Union(q) = OnceEach(FlattenSeq(q))
    BY DEF Union, OnceEach
  <1>3. QED
    BY <1>1, <1>2, OnceIs

(* What is listed first comes from the front of the list.                  *)
LEMMA ListedFirst ==
    ASSUME NEW E, NEW q \in Seq(E), NEW n \in Seq(E), NEW S, ToSet(q) \cap S # {}
    PROVE  Listed(q \o n, S) # <<>> /\ Listed(q \o n, S)[1] \in ToSet(q)
  <1> DEFINE z == q \o n
             l == Len(z)
  <1>1. /\ z \in Seq(E) /\ l \in Nat /\ Len(q) \in Nat /\ Len(q) <= l
        /\ \A i \in 1 .. Len(q) : z[i] = q[i]
    <2>1. Len(z) = Len(q) + Len(n) /\ Len(q) \in Nat /\ Len(n) \in Nat
      OBVIOUS
    <2>2. QED
      BY <2>1
  <1>2. PICK k \in 1 .. Len(q) : q[k] \in S
    BY DEF ToSet
  <1> HIDE DEF z
  <1>3. PICK c : /\ c[0] = <<>>
                 /\ \A i \in 1 .. l : c[i] = IF z[i] \in S THEN Append(c[i - 1], z[i]) ELSE c[i - 1]
                 /\ Listed(z, S) = c[l]
    BY <1>1, ListedRounds
  <1> DEFINE Good(i) == /\ c[i] \in Seq(E)
                        /\ c[i] # <<>> => c[i][1] \in ToSet(q)
                        /\ i >= k => c[i] # <<>>
             R == {i \in 0 .. l : Good(i)}
  <1>4. 0 \in R
    <2>1. c[0] = <<>> /\ <<>> \in Seq(E) /\ ~ (0 >= k)
      BY <1>2, <1>3
    <2>2. 0 \in 0 .. l
      BY <1>1
    <2>3. QED
      BY <2>1, <2>2
  <1>5. ASSUME NEW i \in 1 .. l, i - 1 \in R
        PROVE  i \in R
    <2>1. Good(i - 1) /\ z[i] \in E /\ i \in 0 .. l
      BY <1>1, <1>5
    <2>2. CASE z[i] \notin S
      <3>1. c[i] = c[i - 1] /\ i # k
        BY <1>1, <1>2, <1>3, <2>2
      <3>2. i >= k => i - 1 >= k
        BY <1>2, <3>1
      <3>3. QED
        BY <2>1, <3>1, <3>2
    <2>3. CASE z[i] \in S
      <3>1. c[i] = Append(c[i - 1], z[i]) /\ c[i - 1] \in Seq(E)
        BY <1>3, <2>1, <2>3
      <3>2. c[i] \in Seq(E) /\ c[i] # <<>>
        BY <2>1, <3>1
      <3>3. c[i][1] \in ToSet(q)
        <4>1. CASE c[i - 1] = <<>>
          <5>1. c[i][1] = z[i]
            BY <3>1, <4>1
          <5>2. i \in 1 .. Len(q)
            BY <1>1, <1>2, <2>1, <4>1
          <5>3. QED
            BY <1>1, <5>1, <5>2 DEF ToSet
        <4>2. CASE c[i - 1] # <<>>
          <5>1. c[i][1] = c[i - 1][1]
            BY <3>1, <4>2
          <5>2. QED
            BY <2>1, <4>2, <5>1
        <4>3. QED
          BY <4>1, <4>2
      <3>4. QED
        BY <2>1, <3>2, <3>3
    <2>4. QED
      BY <2>2, <2>3
  <1>6. Good(l) /\ l >= k
    <2>1. l \in 0 .. l
      BY <1>1
    <2>2. l \in R
      <3> HIDE DEF R, l
      <3>1. QED
        BY <1>1, <1>4, <1>5, <2>1, Upto
    <2>3. l >= k
      BY <1>1, <1>2
    <2> HIDE DEF Good
    <2>4. QED
      BY <2>2, <2>3
  <1>7. QED
    BY <1>3, <1>6 DEF z

(* Half of the ranked solutions, and none of them twice.                   *)
LEMMA ElitesIs ==
    ASSUME NEW E, IsFiniteSet(E), NEW q \in Seq(Seq(E)), NEW e \in Elites(q)
    PROVE  /\ e \in Seq(E) /\ Len(e) = (Len(FlattenSeq(q)) + 1) \div 2
           /\ Apart(q) => IsInjective(e)
  <1> DEFINE n == Len(q)
             total == Len(FlattenSeq(q))
             size == (total + 1) \div 2
             Whole(j) == FlattenSeq(SubSeq(q, 1, j))
             Fits(j) == Len(Whole(j)) <= size /\ (j = n \/ Len(Whole(j + 1)) > size)
             w == CHOOSE j \in 0 .. n : Fits(j)
             missing == size - Len(Whole(w))
             Parts(j) == UNION {ToSet(q[i]) : i \in 1 .. j}
  <1>1. e \in IF missing = 0 THEN {Whole(w)}
              ELSE {Whole(w) \o SetToSeq(C) : C \in {D \in SUBSET ToSet(q[w + 1]) : Cardinality(D) = missing}}
    BY DEF Elites
  <1>2. n \in Nat /\ FlattenSeq(q) \in Seq(E) /\ total \in Nat /\ size \in Nat
    <2>1. FlattenSeq(q) \in Seq(E) /\ total \in Nat
      BY FlattenIs
    <2> HIDE DEF total
    <2>2. size \in Nat
      BY <2>1
    <2>3. QED
      BY <2>1, <2>2
  <1>3. ASSUME NEW j \in 0 .. n
        PROVE  /\ Whole(j) \in Seq(E) /\ ToSet(Whole(j)) = Parts(j) /\ Len(Whole(j)) \in Nat
               /\ Apart(q) => IsInjective(Whole(j))
    <2> DEFINE z == SubSeq(q, 1, j)
    <2>1. z \in Seq(Seq(E)) /\ DOMAIN z = 1 .. j /\ \A i \in 1 .. j : z[i] = q[i] /\ i \in DOMAIN q
      <3>1. j \in Nat /\ j <= Len(q)
        BY <1>2
      <3>2. QED
        BY <3>1
    <2> HIDE DEF z
    <2>2. Apart(q) => Apart(z)
      BY <2>1 DEF Apart
    <2>3. UNION {ToSet(z[i]) : i \in DOMAIN z} = Parts(j)
      BY <2>1
    <2>4. /\ FlattenSeq(z) \in Seq(E) /\ ToSet(FlattenSeq(z)) = Parts(j)
          /\ Apart(z) => IsInjective(FlattenSeq(z))
      <3> HIDE DEF Parts
      <3>1. QED
        BY <2>1, <2>3, FlattenIs
    <2>5. Len(FlattenSeq(z)) \in Nat
      BY <2>4
    <2> HIDE DEF Parts
    <2>6. QED
      BY <2>2, <2>4, <2>5 DEF z
  <1>4. Whole(n) = FlattenSeq(q)
    <2>1. SubSeq(q, 1, n) = q
      OBVIOUS
    <2>2. QED
      BY <2>1
  <1>5. Len(Whole(0)) = 0
    <2>1. ToSet(Whole(0)) = {} /\ Whole(0) \in Seq(E)
      <3>1. Parts(0) = {} /\ 0 \in 0 .. n
        BY <1>2
      <3> HIDE DEF Whole, Parts
      <3>2. QED
        BY <1>3, <3>1
    <2> DEFINE x == Whole(0)
    <2> HIDE DEF Whole
    <2>2. x \in Seq(E) /\ \A i \in DOMAIN x : FALSE
      BY <2>1 DEF ToSet
    <2> HIDE DEF x
    <2>3. Len(x) = 0
      <3>1. Len(x) \in Nat /\ DOMAIN x = 1 .. Len(x)
        BY <2>2
      <3>2. 1 \notin 1 .. Len(x)
        BY <2>2, <3>1
      <3>3. QED
        BY <3>1, <3>2
    <2>4. QED
      BY <2>3 DEF x
  <1> HIDE DEF Whole, size, Parts
  <1>6. \E j \in 0 .. n : Fits(j)
    <2> SUFFICES ASSUME \A j \in 0 .. n : ~ Fits(j)
                 PROVE  FALSE
      OBVIOUS
    <2> DEFINE R == {j \in 0 .. n : Len(Whole(j)) <= size}
    <2>1. 0 \in R
      BY <1>2, <1>5
    <2>2. ASSUME NEW i \in 1 .. n, i - 1 \in R
          PROVE  i \in R
      <3>1. i - 1 \in 0 .. n /\ i - 1 # n /\ (i - 1) + 1 = i /\ i \in 0 .. n
        BY <1>2
      <3>2. Len(Whole(i - 1)) <= size /\ ~ Fits(i - 1)
        BY <2>2
      <3>3. ~ (Len(Whole(i)) > size)
        BY <3>1, <3>2
      <3>4. Len(Whole(i)) \in Nat
        BY <1>3, <3>1
      <3>5. QED
        BY <1>2, <3>1, <3>3, <3>4
    <2>3. n \in R /\ n \in 0 .. n
      <3>1. n \in 0 .. n
        BY <1>2
      <3> HIDE DEF R, n
      <3>2. QED
        BY <1>2, <2>1, <2>2, <3>1, Upto
    <2>4. QED
      BY <2>3
  <1>7. w \in 0 .. n /\ Fits(w)
    <2> HIDE DEF Fits
    <2>1. QED
      BY <1>6
  <1> HIDE DEF w
  <1>8. Whole(w) \in Seq(E) /\ Len(Whole(w)) \in Nat /\ (Apart(q) => IsInjective(Whole(w)))
        /\ ToSet(Whole(w)) = Parts(w)
    BY <1>3, <1>7
  <1>9. CASE missing = 0
    BY <1>1, <1>2, <1>8, <1>9 DEF size
  <1>10. CASE missing # 0
    <2>1. PICK C \in SUBSET ToSet(q[w + 1]) : Cardinality(C) = missing /\ e = Whole(w) \o SetToSeq(C)
      BY <1>1, <1>10
    <2>2. w + 1 \in 1 .. n
      <3>1. ASSUME w = n
            PROVE  FALSE
        <4>1. total <= size /\ total # size
          BY <1>2, <1>4, <1>7, <1>10, <3>1
        <4>2. \A a \in Nat : a <= (a + 1) \div 2 => a = (a + 1) \div 2
          OBVIOUS
        <4> HIDE DEF total
        <4>3. QED
          BY <1>2, <4>1, <4>2 DEF size
      <3>2. QED
        BY <1>2, <1>7, <3>1
    <2>3. q[w + 1] \in Seq(E) /\ w + 1 \in DOMAIN q
      BY <2>2
    <2>4. C \subseteq E
      BY <2>1, <2>3 DEF ToSet
    <2>5. IsFiniteSet(C)
      BY <2>4, FS_Subset
    <2> DEFINE y == SetToSeq(C)
    <2>6. y \in Seq(C) /\ Len(y) = missing /\ IsInjective(y)
      BY <2>1, <2>5, SeqSetIs
    <2> HIDE DEF y
    <2>7. y \in Seq(E) /\ ToSet(y) \subseteq C
      BY <2>4, <2>6 DEF ToSet
    <2> DEFINE x == Whole(w)
    <2>8. e = x \o y /\ x \in Seq(E) /\ Len(x) \in Nat
      BY <1>8, <2>1 DEF y
    <2> HIDE DEF x
    <2>9. /\ e \in Seq(E) /\ Len(e) = Len(x) + Len(y)
          /\ IsInjective(x) /\ IsInjective(y) /\ ToSet(x) \cap ToSet(y) = {} => IsInjective(e)
      BY <2>7, <2>8, ConcatIs
    <2>10. Len(e) = size
      BY <1>2, <2>6, <2>8, <2>9 DEF x
    <2>11. ASSUME Apart(q)
           PROVE  IsInjective(e)
      <3>1. \A i \in 1 .. w : ToSet(q[i]) \cap ToSet(q[w + 1]) = {}
        <4>1. \A i \in 1 .. w : i \in DOMAIN q \ {w + 1}
          BY <1>2, <1>7, <2>2
        <4>2. QED
          BY <2>3, <2>11, <4>1 DEF Apart
      <3>2. Parts(w) \cap C = {}
        BY <2>1, <3>1 DEF Parts
      <3>3. ToSet(x) \cap ToSet(y) = {}
        BY <1>8, <2>7, <3>2 DEF x
      <3>4. QED
        BY <1>8, <2>6, <2>9, <2>11, <3>3 DEF x
    <2>12. QED
      BY <2>9, <2>10, <2>11 DEF size
  <1>11. QED
    BY <1>9, <1>10

(* Every solution of the population is in the list of its rank.            *)
LEMMA RanksIs ==
    ASSUME NEW E, NEW pop \in Seq(E), NEW n \in Nat, NEW rank \in [ToSet(pop) -> 1 .. n]
    PROVE  LET q == Ranks(pop, rank, n) IN
           /\ q \in Seq(Seq(E)) /\ UNION {ToSet(q[i]) : i \in DOMAIN q} = ToSet(pop)
           /\ IsInjective(pop) => Apart(q)
  <1> DEFINE q == Ranks(pop, rank, n)
             In_(k) == {x \in ToSet(pop) : rank[x] = k}
  <1>1. q = [k \in 1 .. n |-> Listed(pop, In_(k))]
    BY DEF Ranks
  <1>2. ASSUME NEW k \in 1 .. n
        PROVE  /\ q[k] \in Seq(E) /\ ToSet(q[k]) = In_(k)
               /\ IsInjective(pop) => IsInjective(q[k])
    <2>1. q[k] = Listed(pop, In_(k)) /\ ToSet(pop) \cap In_(k) = In_(k)
      BY <1>1
    <2> DEFINE S == In_(k)
               y == Listed(pop, S)
    <2>2. q[k] = y /\ ToSet(pop) \cap S = S
      BY <2>1
    <2> HIDE DEF q, In_, S
    <2>3. /\ y \in Seq(E) /\ ToSet(y) = ToSet(pop) \cap S
          /\ IsInjective(pop) => IsInjective(y)
      BY ListedIs
    <2> HIDE DEF y
    <2>4. QED
      BY <2>2, <2>3 DEF S
  <1>3. q \in Seq(Seq(E)) /\ DOMAIN q = 1 .. n
    <2> HIDE DEF In_
    <2>1. \A k \in 1 .. n : Listed(pop, In_(k)) \in Seq(E)
      BY <1>1, <1>2
    <2> HIDE DEF q
    <2>2. QED
      BY <1>1, <2>1
  <1> HIDE DEF q
  <1>4. UNION {ToSet(q[i]) : i \in DOMAIN q} = ToSet(pop)
    <2>1. \A x \in ToSet(pop) : rank[x] \in 1 .. n /\ x \in In_(rank[x])
      OBVIOUS
    <2>2. \A x \in ToSet(pop) : rank[x] \in DOMAIN q /\ x \in ToSet(q[rank[x]])
      BY <1>2, <1>3, <2>1
    <2>3. \A i \in DOMAIN q : ToSet(q[i]) \subseteq ToSet(pop)
      BY <1>2, <1>3
    <2>4. QED
      BY <2>2, <2>3
  <1>5. ASSUME IsInjective(pop)
        PROVE  Apart(q)
    <2>1. \A i, j \in 1 .. n : i # j => In_(i) \cap In_(j) = {}
      OBVIOUS
    <2> HIDE DEF In_
    <2>2. QED
      BY <1>2, <1>3, <1>5, <2>1 DEF Apart
  <1>6. QED
    BY <1>3, <1>4, <1>5 DEF q

LEMMA DivIs ==
    ASSUME NEW n \in Nat \ {0}, NEW x \in Nat
    PROVE  (x \div n) \in Nat /\ (x \div n) * n <= x /\ x < (x \div n) * n + n
  OBVIOUS

LEMMA DivGrows ==
    ASSUME NEW n \in Nat \ {0}, NEW x \in Nat, NEW y \in Nat, x <= y
    PROVE  (x \div n) <= (y \div n)
  OBVIOUS

LEMMA TimesGrows ==
    ASSUME NEW n \in Nat, NEW i \in Nat, NEW j \in Nat
    PROVE  /\ i * n \in Nat /\ j * n \in Nat
           /\ i < j => i * n + n <= j * n
  OBVIOUS

(* A list cut into pieces is all there, and the pieces share nothing.      *)
LEMMA ChunksCover ==
    ASSUME NEW E, NEW q \in Seq(E), IsInjective(q), NEW n \in Nat \ {0}
    PROVE  LET z == Chunks(q, n) IN
           /\ z \in Seq(Seq(E)) /\ Apart(z)
           /\ UNION {ToSet(z[i]) : i \in DOMAIN z} = ToSet(q)
  <1> DEFINE l == Len(q)
             k == (l + n - 1) \div n
             z == Chunks(q, n)
             Lo(i) == (i - 1) * n
             Hi(i) == IF i * n < l THEN i * n ELSE l
  <1>1. l \in Nat /\ DOMAIN q = 1 .. l /\ l + n - 1 \in Nat
    OBVIOUS
  <1>2. z = [i \in 1 .. k |-> SubSeq(q, Lo(i) + 1, Hi(i))]
    BY DEF Chunks
  <1> HIDE DEF l, z
  <1>3. k \in Nat /\ k * n <= l + n - 1
    BY <1>1, DivIs
  <1>4. \A i \in 1 .. k : /\ Lo(i) \in Nat /\ Hi(i) \in Nat /\ Hi(i) <= l /\ Lo(i) < l
                          /\ \A j \in 1 .. k : i < j => Hi(i) <= Lo(j)
                          /\ \A p \in 1 .. l : Lo(i) < p /\ p <= Lo(i) + n => p <= Hi(i)
    <2> SUFFICES ASSUME NEW i \in 1 .. k
                 PROVE  /\ Lo(i) \in Nat /\ Hi(i) \in Nat /\ Hi(i) <= l /\ Lo(i) < l
                        /\ \A j \in 1 .. k : i < j => Hi(i) <= Lo(j)
                        /\ \A p \in 1 .. l : Lo(i) < p /\ p <= Lo(i) + n => p <= Hi(i)
      OBVIOUS
    <2>1. i \in Nat /\ i - 1 \in Nat /\ i - 1 < i /\ k \in Nat /\ (i - 1) < k
      BY <1>3
    <2> DEFINE a == (i - 1) * n
               b == i * n
    <2>2. a \in Nat /\ b \in Nat /\ a + n <= b /\ a + n <= k * n /\ k * n \in Nat
      BY <2>1, TimesGrows
    <2>3. b = a + n
      BY <2>1
    <2>4. a < l
      <3> HIDE DEF a
      <3>1. QED
        BY <1>1, <1>3, <2>2
    <2>5. \A j \in 1 .. k : i < j => b <= Lo(j)
      <3> SUFFICES ASSUME NEW j \in 1 .. k, i < j
                   PROVE  b <= Lo(j)
        OBVIOUS
      <3>1. j - 1 \in Nat /\ (i < j - 1 \/ i = j - 1)
        BY <1>3
      <3>2. i < j - 1 => b + n <= Lo(j) /\ b \in Nat /\ Lo(j) \in Nat
        BY <2>1, <3>1, TimesGrows
      <3> HIDE DEF b
      <3>3. CASE i < j - 1
        <4> HIDE DEF Lo
        <4>1. QED
          BY <3>2, <3>3
      <3>4. CASE i = j - 1
        BY <2>2, <3>4 DEF b
      <3>5. QED
        BY <3>1, <3>3, <3>4
    <2>6. /\ Lo(i) = a
          /\ Hi(i) = IF b < l THEN b ELSE l
      OBVIOUS
    <2> HIDE DEF a, b, Lo, Hi
    <2>7. Lo(i) \in Nat /\ Hi(i) \in Nat /\ Hi(i) <= l /\ Lo(i) < l /\ Hi(i) <= b
      BY <1>1, <2>2, <2>4, <2>6
    <2>8. \A j \in 1 .. k : i < j => Hi(i) <= Lo(j)
      <3> SUFFICES ASSUME NEW j \in 1 .. k, i < j
                   PROVE  Hi(i) <= Lo(j)
        OBVIOUS
      <3>1. b <= Lo(j) /\ Lo(j) \in Nat
        <4>1. j - 1 \in Nat
          BY <1>3
        <4>2. QED
          BY <2>5, <4>1, TimesGrows DEF Lo
      <3>2. QED
        BY <2>2, <2>7, <3>1
    <2>9. \A p \in 1 .. l : Lo(i) < p /\ p <= Lo(i) + n => p <= Hi(i)
      BY <1>1, <2>2, <2>3, <2>6
    <2>10. QED
      BY <2>7, <2>8, <2>9
  <1>5. ASSUME NEW p \in 1 .. l
        PROVE  \E i \in 1 .. k : Lo(i) < p /\ p <= Lo(i) + n
    <2> DEFINE x == p + n - 1
               i == x \div n
    <2>1. x \in Nat /\ x <= l + n - 1 /\ x >= n /\ p \in Nat
      BY <1>1
    <2> HIDE DEF x
    <2>2. i \in Nat /\ i * n <= x /\ x < i * n + n
      BY <2>1, DivIs
    <2>3. i <= k
      BY <1>1, <2>1, DivGrows
    <2> HIDE DEF i, k
    <2>4. i # 0
      BY <2>1, <2>2
    <2>5. i \in 1 .. k
      BY <1>3, <2>2, <2>3, <2>4
    <2>6. i * n = Lo(i) + n /\ Lo(i) \in Nat
      <3>1. i - 1 \in Nat
        BY <2>2, <2>4
      <3>2. QED
        BY <2>2, <2>4, <3>1, TimesGrows
    <2> HIDE DEF Lo
    <2>7. Lo(i) < p /\ p <= Lo(i) + n
      BY <2>1, <2>2, <2>6 DEF x
    <2>8. QED
      BY <2>5, <2>7
  <1> HIDE DEF k, Lo, Hi
  <1>6. ASSUME NEW i \in 1 .. k
        PROVE  /\ z[i] \in Seq(E) /\ DOMAIN z[i] = 1 .. (IF Hi(i) > Lo(i) THEN Hi(i) - Lo(i) ELSE 0)
               /\ \A j \in DOMAIN z[i] : z[i][j] = q[Lo(i) + j] /\ Lo(i) + j \in 1 .. Hi(i)
    <2>1. Lo(i) \in Nat /\ Hi(i) \in Nat /\ Hi(i) <= l
      BY <1>4
    <2>2. z[i] = SubSeq(q, Lo(i) + 1, Hi(i))
      BY <1>2
    <2> DEFINE a == Lo(i)
               b == Hi(i)
    <2>3. a \in Nat /\ b \in Nat /\ b <= Len(q)
      BY <2>1 DEF l
    <2> HIDE DEF a, b, z
    <2>4. LET y == SubSeq(q, a + 1, b) IN
          /\ y \in Seq(E) /\ DOMAIN y = 1 .. (IF b > a THEN b - a ELSE 0)
          /\ \A j \in DOMAIN y : y[j] = q[a + j] /\ a + j \in 1 .. b
      BY <2>3
    <2>5. QED
      BY <2>2, <2>4 DEF a, b
  <1>7. z \in Seq(Seq(E)) /\ DOMAIN z = 1 .. k
    <2> DEFINE F(i) == SubSeq(q, Lo(i) + 1, Hi(i))
               T == Seq(E)
    <2>1. z = [i \in 1 .. k |-> F(i)] /\ \A i \in 1 .. k : F(i) \in T
      BY <1>2, <1>6
    <2> HIDE DEF F, T
    <2>2. z \in Seq(T) /\ DOMAIN z = 1 .. k
      BY <1>3, <2>1
    <2>3. QED
      BY <2>2 DEF T
  <1>8. Apart(z)
    <2>1. ASSUME NEW i \in 1 .. k
          PROVE  IsInjective(z[i])
      <3> SUFFICES ASSUME NEW a \in DOMAIN z[i], NEW b \in DOMAIN z[i], z[i][a] = z[i][b]
                   PROVE  a = b
        BY DEF IsInjective
      <3>1. /\ Lo(i) + a \in 1 .. l /\ Lo(i) + b \in 1 .. l /\ Lo(i) \in Nat /\ a \in Nat /\ b \in Nat
            /\ q[Lo(i) + a] = q[Lo(i) + b]
        BY <1>1, <1>4, <1>6
      <3>2. Lo(i) + a = Lo(i) + b
        BY <1>1, <3>1 DEF IsInjective
      <3>3. QED
        BY <3>1, <3>2
    <2>2. ASSUME NEW i \in 1 .. k, NEW j \in 1 .. k, i < j
          PROVE  ToSet(z[i]) \cap ToSet(z[j]) = {}
      <3> SUFFICES ASSUME NEW a \in DOMAIN z[i], NEW b \in DOMAIN z[j], z[i][a] = z[j][b]
                   PROVE  FALSE
        BY DEF ToSet
      <3>1. /\ Lo(i) + a \in 1 .. Hi(i) /\ Hi(i) <= l /\ Hi(i) \in Nat
            /\ Lo(j) + b \in 1 .. Hi(j) /\ Hi(j) <= l /\ Hi(j) \in Nat
            /\ Hi(i) <= Lo(j) /\ Lo(j) \in Nat /\ b \in 1 .. (IF Hi(j) > Lo(j) THEN Hi(j) - Lo(j) ELSE 0)
            /\ q[Lo(i) + a] = q[Lo(j) + b]
        BY <1>4, <1>6, <2>2
      <3>2. Lo(i) + a \in 1 .. l /\ Lo(j) + b \in 1 .. l
        BY <1>1, <3>1
      <3>3. Lo(i) + a = Lo(j) + b
        BY <1>1, <3>1, <3>2 DEF IsInjective
      <3>4. b \in Nat /\ b > 0
        BY <3>1
      <3>5. QED
        BY <3>1, <3>3, <3>4
    <2>3. ASSUME NEW i \in 1 .. k, NEW j \in 1 .. k, i # j
          PROVE  ToSet(z[i]) \cap ToSet(z[j]) = {}
      <3>1. i < j \/ j < i
        BY <1>3, <2>3
      <3>2. QED
        BY <2>2, <3>1
    <2>4. QED
      BY <1>7, <2>1, <2>3 DEF Apart
  <1>9. UNION {ToSet(z[i]) : i \in DOMAIN z} = ToSet(q)
    <2>1. ASSUME NEW i \in DOMAIN z, NEW a \in DOMAIN z[i]
          PROVE  z[i][a] \in ToSet(q)
      <3>1. Lo(i) + a \in DOMAIN q /\ z[i][a] = q[Lo(i) + a]
        <4>1. i \in 1 .. k
          BY <1>7
        <4>2. Lo(i) + a \in 1 .. Hi(i) /\ Hi(i) \in Nat /\ Hi(i) <= l
          BY <1>4, <1>6, <4>1
        <4>3. QED
          BY <1>1, <1>6, <4>1, <4>2
      <3>2. QED
        BY <3>1 DEF ToSet
    <2>2. ASSUME NEW p \in DOMAIN q
          PROVE  \E i \in DOMAIN z : q[p] \in ToSet(z[i])
      <3>1. PICK i \in 1 .. k : Lo(i) < p /\ p <= Lo(i) + n
        BY <1>1, <1>5
      <3>2. p <= Hi(i) /\ Lo(i) \in Nat /\ Hi(i) \in Nat /\ p \in Nat
        BY <1>1, <1>4, <3>1
      <3>3. p - Lo(i) \in 1 .. (IF Hi(i) > Lo(i) THEN Hi(i) - Lo(i) ELSE 0) /\ Lo(i) + (p - Lo(i)) = p
        BY <3>1, <3>2
      <3>4. p - Lo(i) \in DOMAIN z[i] /\ z[i][p - Lo(i)] = q[p]
        BY <1>6, <3>3
      <3>5. q[p] \in ToSet(z[i])
        BY <3>4 DEF ToSet
      <3>6. QED
        BY <1>7, <3>5
    <2>3. \A i \in DOMAIN z : ToSet(z[i]) \subseteq ToSet(q)
      BY <2>1 DEF ToSet
    <2>4. ToSet(q) \subseteq UNION {ToSet(z[i]) : i \in DOMAIN z}
      BY <2>2 DEF ToSet
    <2>5. QED
      BY <2>3, <2>4
  <1>10. QED
    BY <1>7, <1>8, <1>9 DEF z
-----------------------------------------------------------------------------
(* A generation. Whose turn it is tells the kind of operator, and the tags *)
(* of a set tell who made it.                                              *)
LEMMA PartsIs ==
    ASSUME FlowInv, NEW e \in Ops, Generation(chain, e)
    PROVE  /\ Len(chain) \in Nat /\ e \in Nat /\ 1 < e /\ e + 1 < Len(chain)
           /\ Ops = 1 .. Len(chain) /\ Ops = DOMAIN chain /\ e + 1 \in Ops /\ 1 \in Ops
           /\ chain[1].kind = "init"
           /\ chain[e].kind \in Selecting
           /\ chain[e + 1].kind \in Breeding
           /\ chain[Len(chain)].kind = "merge"
           /\ \A o \in Ops : /\ 1 < o /\ o < e => chain[o].kind \in {"evaluate", "rank", "score"}
                             /\ e + 1 < o /\ o < Len(chain) => chain[o].kind \in {"vary", "truncate"}
           /\ {1, e, e + 1} \subseteq MakersOf(chain)
           /\ \A p \in MakersOf(chain) :
                 p \in Ops /\ p \in Nat /\ p <= e + 1 /\ chain[p].out # <<>> /\ ToldApart(chain, p)
  <1>1. /\ Ops = DOMAIN chain /\ Ops \subseteq Nat \ {0} /\ Len(chain) \in Nat \ {0}
        /\ Ops = 1 .. Len(chain)
    BY OpsIs DEF Ops
  <1> DEFINE m == Len(chain)
  <1>2. /\ m \in Nat /\ e \in Nat /\ 1 < e /\ e + 1 < m /\ e + 1 \in Ops /\ 1 \in Ops
        /\ chain[1].kind = "init" /\ chain[e].kind \in Selecting
        /\ chain[e + 1].kind \in Breeding /\ chain[m].kind = "merge"
    BY <1>1 DEF Generation
  <1>3. ASSUME NEW o \in Ops
        PROVE  /\ 1 < o /\ o < e => chain[o].kind \in {"evaluate", "rank", "score"}
               /\ e + 1 < o /\ o < m => chain[o].kind \in {"vary", "truncate"}
    <2>1. 1 < o /\ o < e => o \in 2 .. e - 1
      BY <1>1, <1>2
    <2>2. e + 1 < o /\ o < m => o \in (e + 1) + 1 .. m - 1
      BY <1>1, <1>2
    <2> HIDE DEF m
    <2>3. QED
      BY <2>1, <2>2 DEF Generation, m
  <1>4. {1, e, e + 1} \subseteq MakersOf(chain)
    BY <1>1, <1>2 DEF MakersOf, Making, Replacing
  <1>5. ASSUME NEW p \in MakersOf(chain)
        PROVE  p \in Ops /\ p \in Nat /\ p <= e + 1 /\ chain[p].out # <<>> /\ ToldApart(chain, p)
    <2>1. p \in Ops /\ p \in Nat /\ chain[p].kind \in Making
      BY <1>1 DEF MakersOf
    <2>2. chain[p].out # <<>> /\ ToldApart(chain, p)
      BY <1>1, <2>1 DEF Generation
    <2>3. chain[p].kind \notin {"vary", "truncate", "merge"}
      BY <2>1 DEF Making, Replacing, Selecting, Breeding
    <2>4. ~ (e + 1 < p /\ p < m) /\ p # m /\ p <= m
      BY <1>1, <1>2, <1>3, <2>1, <2>3
    <2>5. QED
      BY <1>2, <2>1, <2>2, <2>4
  <1>6. QED
    BY <1>1, <1>2, <1>3, <1>4, <1>5

(* Such a flow is wired the way the theorems above ask for.                *)
LEMMA GenerationWires ==
    ASSUME FlowInv, NEW e \in Ops, Generation(chain, e)
    PROVE  /\ KeepsApart(chain) /\ BreedsSelected(chain) /\ VariesBred(chain)
           /\ Reliable(chain, 1)
           /\ \A o \in Ops : chain[o].kind = "rank" => Supplied(chain, o)
           /\ Supplied(chain, e)
           /\ chain[e].kind # "pool" =>
                \E r \in 2 .. e - 1 : Splits(chain, e, r) /\ Reliable(chain, r)
  <1> DEFINE m == Len(chain)
             b == e + 1
  <1>1. /\ m \in Nat /\ e \in Nat /\ 1 < e /\ b < m /\ Ops = 1 .. m /\ Ops = DOMAIN chain
        /\ b \in Ops /\ 1 \in Ops /\ b \in Nat
        /\ chain[1].kind = "init" /\ chain[e].kind \in Selecting
        /\ chain[b].kind \in Breeding /\ chain[m].kind = "merge"
        /\ \A o \in Ops : /\ 1 < o /\ o < e => chain[o].kind \in {"evaluate", "rank", "score"}
                          /\ b < o /\ o < m => chain[o].kind \in {"vary", "truncate"}
        /\ {1, e, b} \subseteq MakersOf(chain)
        /\ \A p \in MakersOf(chain) :
              p \in Ops /\ p \in Nat /\ p <= b /\ chain[p].out # <<>> /\ ToldApart(chain, p)
    BY PartsIs
  <1>2. /\ Reads(chain, b, e) /\ chain[b].size > 0 /\ chain[b].add = <<>>
        /\ \A o \in 2 .. e - 1 : chain[o].kind = "rank" => Reads(chain, o, 1)
        /\ IF chain[e].kind = "pool" THEN Reads(chain, e, 1) ELSE \E r \in 2 .. e - 1 : Splits(chain, e, r)
        /\ \A o \in b + 1 .. m - 1 : chain[o].kind \in {"vary", "truncate"} /\ Names(chain, Out(chain, o), {b})
        /\ \A p \in DOMAIN chain : chain[p].out # <<>>
    <2>1. b \in b .. m
      BY <1>1
    <2> HIDE DEF m
    <2>2. chain[b].add = <<>>
      BY <1>1, <2>1 DEF Generation, m
    <2>3. QED
      BY <1>1, <2>2 DEF Generation, m
  <1>3. \A o \in Ops : \/ o = 1 \/ (1 < o /\ o < e) \/ o = e \/ o = b \/ (b < o /\ o < m) \/ o = m
    BY <1>1
  <1>4. \A o \in Ops : chain[o].kind = "rank" => o \in 2 .. e - 1
    <2> SUFFICES ASSUME NEW o \in Ops, chain[o].kind = "rank"
                 PROVE  o \in 2 .. e - 1
      OBVIOUS
    <2>1. 1 < o /\ o < e
      BY <1>1, <1>3 DEF Selecting, Breeding
    <2>2. QED
      BY <1>1, <2>1
  <1>5. \A o \in Ops : chain[o].kind \in Selecting => o = e
    BY <1>1, <1>3 DEF Selecting, Breeding
  <1>6. \A o \in Ops : chain[o].kind \in Breeding => o = b
    BY <1>1, <1>3 DEF Selecting, Breeding
  <1>7. Reliable(chain, 1)
    BY <1>1 DEF Reliable
  <1>8. \A r \in 2 .. e - 1 : Splits(chain, e, r) => Reliable(chain, r)
    <2> SUFFICES ASSUME NEW r \in 2 .. e - 1, Splits(chain, e, r)
                 PROVE  Reliable(chain, r)
      OBVIOUS
    <2>1. chain[r].kind = "rank" /\ r \in Ops
      BY <1>1 DEF Splits
    <2>2. r \in MakersOf(chain)
      BY <1>1, <2>1 DEF MakersOf, Making, Replacing
    <2>3. QED
      BY <1>1, <2>1, <2>2 DEF Reliable
  <1>9. \A o \in Ops, p \in Ops : Reads(chain, o, p) => chain[o].in # <<>> /\ In(chain, o) \subseteq Out(chain, p)
    BY DEF Reads, Names
  <1>10. \A o \in Ops : chain[o].kind = "rank" => Supplied(chain, o)
    <2> SUFFICES ASSUME NEW o \in Ops, chain[o].kind = "rank"
                 PROVE  Supplied(chain, o)
      OBVIOUS
    <2>1. Reads(chain, o, 1) /\ 1 \in 1 .. o - 1
      BY <1>1, <1>2, <1>4
    <2>2. QED
      BY <1>1, <1>7, <1>9, <2>1 DEF Supplied
  <1>11. Supplied(chain, e)
    <2>1. CASE chain[e].kind = "pool"
      <3>1. Reads(chain, e, 1) /\ 1 \in 1 .. e - 1
        BY <1>1, <1>2, <2>1
      <3>2. QED
        BY <1>1, <1>7, <1>9, <3>1 DEF Supplied
    <2>2. CASE chain[e].kind # "pool"
      <3>1. PICK r \in 2 .. e - 1 : Splits(chain, e, r)
        BY <1>2, <2>2
      <3>2. Reads(chain, e, r) /\ r \in 1 .. e - 1 /\ r \in Ops /\ Reliable(chain, r)
        BY <1>1, <1>8, <3>1 DEF Splits
      <3>3. QED
        BY <1>9, <3>2 DEF Supplied
    <2>3. QED
      BY <2>1, <2>2
  <1>12. \A o \in Ops : chain[o].kind \in Replacing => \E p \in MakersOf(chain) \ {o} : Reads(chain, o, p)
    <2> SUFFICES ASSUME NEW o \in Ops, chain[o].kind \in Replacing
                 PROVE  \E p \in MakersOf(chain) \ {o} : Reads(chain, o, p)
      OBVIOUS
    <2>1. CASE chain[o].kind = "rank"
      <3>1. Reads(chain, o, 1) /\ o # 1
        BY <1>1, <1>2, <1>4, <2>1
      <3>2. QED
        BY <1>1, <3>1
    <2>2. CASE chain[o].kind \in Selecting
      <3>1. o = e
        BY <1>5, <2>2
      <3>2. CASE chain[e].kind = "pool"
        BY <1>1, <1>2, <3>1, <3>2
      <3>3. CASE chain[e].kind # "pool"
        <4>1. PICK r \in 2 .. e - 1 : Splits(chain, e, r)
          BY <1>2, <3>3
        <4>2. r \in MakersOf(chain) /\ r # e
          BY <1>1, <4>1 DEF MakersOf, Making, Replacing, Splits
        <4>3. QED
          BY <3>1, <4>1, <4>2 DEF Splits
      <3>4. QED
        BY <3>2, <3>3
    <2>3. CASE chain[o].kind \in Breeding
      BY <1>1, <1>2, <1>6, <2>3
    <2>4. QED
      BY <2>1, <2>2, <2>3 DEF Replacing
  <1>13. KeepsApart(chain)
    <2> SUFFICES ASSUME NEW o \in Ops, chain[o].kind \in Replacing, NEW p \in MakersOf(chain),
                        In(chain, o) \cup Out(chain, o) \subseteq MayCarry(chain, p)
                 PROVE  FALSE
      BY <1>1, <1>2 DEF KeepsApart
    <2>1. o \in MakersOf(chain)
      BY <1>1 DEF MakersOf, Making
    <2>2. PICK q \in MakersOf(chain) \ {o} : Reads(chain, o, q)
      BY <1>12
    <2>3. p = q
      BY <2>2 DEF Reads, Names
    <2>4. p \in MakersOf(chain) \ {o} /\ Out(chain, o) \subseteq MayCarry(chain, p) /\ ToldApart(chain, o)
      BY <1>1, <2>1, <2>2, <2>3
    <2>5. QED
      BY <2>4 DEF ToldApart
  <1>14. BreedsSelected(chain)
    <2> SUFFICES ASSUME NEW o \in Ops, chain[o].kind \in Breeding
                 PROVE  /\ o > 1 /\ chain[o - 1].kind \in Selecting
                        /\ Supplied(chain, o - 1)
                        /\ chain[o].in # <<>> /\ In(chain, o) \subseteq Out(chain, o - 1)
                        /\ chain[o].add = <<>>
                        /\ \A p \in MakersOf(chain) \ {o - 1} : ~ (In(chain, o) \subseteq MayCarry(chain, p))
      BY <1>1 DEF BreedsSelected
    <2>1. o = b /\ o - 1 = e /\ o > 1
      BY <1>1, <1>6
    <2>2. QED
      BY <1>1, <1>2, <1>11, <2>1 DEF Reads, Names
  <1>15. VariesBred(chain)
    <2>1. \A o \in Ops : chain[o].kind \in Selecting => ToldApart(chain, o)
      BY <1>1, <1>5
    <2>2. \A o \in Ops : chain[o].kind \in Breeding => chain[o].size > 0
      BY <1>2, <1>6
    <2>3. ASSUME NEW v \in Ops, chain[v].kind = "vary"
          PROVE  /\ b \in 1 .. v - 1
                 /\ \A k \in b + 1 .. v : chain[k].kind \in {"vary", "truncate"} /\ OnlyBy(chain, k, b)
      <3>1. b < v /\ v < m
        BY <1>1, <1>3, <2>3 DEF Selecting, Breeding
      <3>2. b \in 1 .. v - 1 /\ \A k \in b + 1 .. v : k \in b + 1 .. m - 1
        BY <1>1, <3>1
      <3>3. QED
        BY <1>2, <3>2 DEF Names, OnlyBy
    <2>4. QED
      BY <1>1, <2>1, <2>2, <2>3 DEF VariesBred
  <1>16. QED
    BY <1>2, <1>7, <1>8, <1>10, <1>11, <1>13, <1>14, <1>15

(* The sets that p made.                                                   *)
Of(p) == {s \in reg.sets : Out(chain, p) \subseteq reg.own[s]}

LEMMA MakerIs ==
    ASSUME SeenInv, phase # "gone", NEW e \in Ops, Generation(chain, e), NEW s \in reg.sets
    PROVE  \E o \in MakersOf(chain) :
             MadeBy(s, o) /\ \A p \in MakersOf(chain) : s \in Of(p) <=> p = o
  <1>1. FlowInv /\ creator \subseteq MakersOf(chain)
    BY OpsIs DEF SeenInv
  <1>2. PICK o \in creator : MadeBy(s, o)
    BY DEF SeenInv, Labelled
  <1>3. ASSUME NEW p \in MakersOf(chain), s \in Of(p)
        PROVE  p = o
    <2>1. Out(chain, p) \subseteq MayCarry(chain, o)
      BY <1>2, <1>3 DEF Of, MadeBy
    <2>2. ToldApart(chain, o)
      BY <1>1, PartsIs
    <2>3. QED
      BY <1>3, <2>1, <2>2 DEF ToldApart
  <1>4. s \in Of(o)
    BY <1>2 DEF Of, MadeBy
  <1>5. QED
    BY <1>1, <1>2, <1>3, <1>4

LEMMA NamedIs ==
    ASSUME SeenInv, phase # "gone", NEW e \in Ops, Generation(chain, e),
           NEW T, NEW P \in SUBSET MakersOf(chain), Names(chain, T, P)
    PROVE  {s \in reg.sets : T \subseteq reg.own[s]} = UNION {Of(p) : p \in P}
  <1>1. ASSUME NEW s \in reg.sets, T \subseteq reg.own[s]
        PROVE  \E p \in P : s \in Of(p)
    <2>1. PICK o \in MakersOf(chain) :
            MadeBy(s, o) /\ \A p \in MakersOf(chain) : s \in Of(p) <=> p = o
      BY MakerIs
    <2>2. T \subseteq MayCarry(chain, o)
      BY <1>1, <2>1 DEF MadeBy
    <2>3. o \in P
      BY <2>2 DEF Names
    <2>4. QED
      BY <2>1, <2>3
  <1>2. ASSUME NEW p \in P, NEW s \in Of(p)
        PROVE  s \in reg.sets /\ T \subseteq reg.own[s]
    BY DEF Names, Of
  <1>3. QED
    BY <1>1, <1>2

LEMMA MainIs ==
    ASSUME SeenInv, phase # "gone", NEW e \in Ops, Generation(chain, e)
    PROVE  MainSets = Of(1)
  <1>1. Names(chain, {Main}, {1}) /\ 1 \in MakersOf(chain)
    BY PartsIs DEF Generation, SeenInv
  <1>2. {s \in reg.sets : {Main} \subseteq reg.own[s]} = UNION {Of(p) : p \in {1}}
    BY <1>1, NamedIs
  <1>3. QED
    BY <1>2 DEF MainSets

(* What an operator found.                                                 *)
LEMMA FoundOf ==
    ASSUME SeenInv, phase = "node", NEW e \in Ops, Generation(chain, e)
    PROVE  /\ at \in MakersOf(chain) => ToSet(outs[at]) = Of(at)
           /\ \A P \in SUBSET MakersOf(chain) :
                /\ Names(chain, Out(chain, at), P) => ToSet(outs[at]) = UNION {Of(p) : p \in P}
                /\ Op.in # <<>> /\ Names(chain, In(chain, at), P)
                     => ToSet(ins[at]) = UNION {Of(p) : p \in P}
  <1>1. at \in Ops /\ Ops = DOMAIN chain /\ FlowInv
    BY OpsIs DEF SeenInv
  <1>2. Op.out # <<>>
    BY <1>1 DEF Generation, Op
  <1>3. /\ ToSet(outs[at]) = {s \in reg.sets : Out(chain, at) \subseteq reg.own[s]}
        /\ Op.in # <<>> => ToSet(ins[at]) = {s \in reg.sets : In(chain, at) \subseteq reg.own[s]}
    BY <1>2 DEF SeenInv, Looked
  <1>4. ASSUME NEW P \in SUBSET MakersOf(chain)
        PROVE  /\ Names(chain, Out(chain, at), P) => ToSet(outs[at]) = UNION {Of(p) : p \in P}
               /\ Op.in # <<>> /\ Names(chain, In(chain, at), P)
                    => ToSet(ins[at]) = UNION {Of(p) : p \in P}
    BY <1>3, NamedIs
  <1>5. QED
    BY <1>3, <1>4 DEF Of

(* Looking sets up changes nobody's sets, making sets only one's own.      *)
LEMMA UpdateKeepsOf ==
    ASSUME SeenInv, updateSets, NEW e \in Ops, Generation(chain, e), chain' = chain
    PROVE  /\ at \in Ops /\ phase = "update" /\ phase' = "node" /\ at' = at /\ maps' = maps
           /\ reg'.sets = reg.sets
           /\ \A p \in MakersOf(chain) : Of(p)' = Of(p)
  <1>1. /\ at \in Ops /\ Found(reg') /\ FlowInv
        /\ phase = "update" /\ phase' = "node" /\ at' = at /\ maps' = maps /\ creator' = creator
    BY UpdateFinds DEF SeenInv, updateSets
  <1>2. creator \subseteq MakersOf(chain) /\ reg.sets \subseteq SetId /\ Ops = DOMAIN chain
    BY <1>1, OpsIs
  <1>3. /\ reg'.sets = reg.sets
        /\ \A s \in reg.sets : /\ reg.own[s] \subseteq reg'.own[s]
                               /\ reg'.own[s] \subseteq reg.own[s] \cup ToSet(Op.add)
    BY <1>1, <1>2 DEF Found
  <1>4. ASSUME NEW p \in MakersOf(chain), NEW s \in reg.sets, Out(chain, p) \subseteq reg'.own[s]
        PROVE  Out(chain, p) \subseteq reg.own[s]
    <2>1. PICK o \in MakersOf(chain) :
            MadeBy(s, o) /\ \A q \in MakersOf(chain) : s \in Of(q) <=> q = o
      BY <1>1, MakerIs
    <2>2. ToSet(Op.add) \subseteq MayCarry(chain, o)
      BY <1>1, <1>2 DEF MayCarry, Op
    <2>3. Out(chain, p) \subseteq MayCarry(chain, o)
      BY <1>3, <1>4, <2>1, <2>2 DEF MadeBy
    <2>4. ToldApart(chain, o)
      BY <1>1, PartsIs
    <2>5. p = o
      BY <2>3, <2>4 DEF ToldApart
    <2>6. QED
      BY <2>1, <2>5 DEF MadeBy
  <1>5. \A p \in MakersOf(chain) : Of(p)' = Of(p)
    BY <1>3, <1>4 DEF Of
  <1>6. QED
    BY <1>1, <1>3, <1>5

LEMMA RemadeOf ==
    ASSUME SeenInv, phase = "node", NEW e \in Ops, Generation(chain, e), chain' = chain,
           NEW a \in MakersOf(chain), a = at, NEW new, Remade(new)
    PROVE  /\ Of(a)' = ToSet(new)
           /\ \A p \in MakersOf(chain) \ {a} : Of(p)' = Of(p) /\ Of(p) \cap ToSet(new) = {}
           /\ ToSet(new) \cap (reg.sets \ Of(a)) = {}
           /\ reg'.sets = (reg.sets \ Of(a)) \cup ToSet(new)
  <1>1. FlowInv /\ ToSet(outs[at]) = Of(a) /\ Op.out # <<>>
    BY FoundOf, PartsIs DEF SeenInv, Op
  <1>2. /\ ToSet(new) \cap (reg.sets \ Of(a)) = {}
        /\ reg'.sets = (reg.sets \ Of(a)) \cup ToSet(new)
        /\ \A s \in reg'.sets : reg'.own[s] = IF s \in ToSet(new) THEN Out(chain, a) ELSE reg.own[s]
    BY <1>1 DEF Remade, Out, Op
  <1>3. ASSUME NEW p \in MakersOf(chain) \ {a}
        PROVE  ~ (Out(chain, p) \subseteq Out(chain, a))
    <2>1. ~ (Out(chain, p) \subseteq MayCarry(chain, a))
      BY <1>1, PartsIs DEF ToldApart
    <2>2. QED
      BY <2>1 DEF MayCarry
  <1>4. Of(a) \cap reg'.sets \subseteq ToSet(new)
    BY <1>2
  <1>5. Of(a)' = ToSet(new)
    <2>1. \A s \in reg'.sets : s \notin ToSet(new) => s \in reg.sets /\ s \notin Of(a) /\ reg'.own[s] = reg.own[s]
      BY <1>2
    <2>2. \A s \in reg'.sets : Out(chain, a) \subseteq reg'.own[s] => s \in ToSet(new)
      BY <2>1 DEF Of
    <2>3. \A s \in ToSet(new) : s \in reg'.sets /\ Out(chain, a) \subseteq reg'.own[s]
      BY <1>2
    <2>4. Of(a)' = {s \in reg'.sets : Out(chain, a) \subseteq reg'.own[s]}
      BY DEF Of
    <2>5. QED
      BY <2>2, <2>3, <2>4
  <1>6. ASSUME NEW p \in MakersOf(chain) \ {a}
        PROVE  Of(p)' = Of(p) /\ Of(p) \cap ToSet(new) = {}
    <2>1. \A s \in Of(p) : s \in reg.sets /\ s \notin Of(a)
      <3> SUFFICES ASSUME NEW s \in Of(p)
                   PROVE  s \in reg.sets /\ s \notin Of(a)
        OBVIOUS
      <3>1. s \in reg.sets
        BY DEF Of
      <3>2. PICK o \in MakersOf(chain) : \A q \in MakersOf(chain) : s \in Of(q) <=> q = o
        BY <3>1, MakerIs
      <3>3. QED
        BY <3>1, <3>2
    <2>2. Of(p) \cap ToSet(new) = {}
      BY <1>2, <2>1
    <2>3. \A s \in Of(p) : s \in reg'.sets /\ reg'.own[s] = reg.own[s]
      BY <1>2, <2>1, <2>2
    <2>4. \A s \in reg'.sets : Out(chain, p) \subseteq reg'.own[s] => s \in Of(p)
      BY <1>2, <1>3 DEF Of
    <2>5. Of(p)' = {s \in reg'.sets : Out(chain, p) \subseteq reg'.own[s]}
      BY DEF Of
    <2>6. \A s \in Of(p) : Out(chain, p) \subseteq reg'.own[s]
      BY <2>3 DEF Of
    <2>7. QED
      BY <2>2, <2>3, <2>4, <2>5, <2>6
  <1>7. QED
    BY <1>2, <1>5, <1>6
-----------------------------------------------------------------------------
(* What an operator puts into the sets it makes.                           *)
Listing == maps \in [SetId -> Seq(Mapping)]
Fits    == Listing' /\ done' \subseteq Solutions(reg', maps')

Fills(new, contents) ==
    /\ Remade(new) /\ Len(new) = Len(contents)
    /\ \A i \in DOMAIN new : maps'[new[i]] = contents[i]
    /\ \A s \in reg'.sets \ ToSet(new) : maps'[s] = maps[s]

LEMMA BecomeFits ==
    ASSUME NEW r, NEW m, NEW d, r.sets \subseteq SetId, \A s \in r.sets : m[s] \in Seq(Mapping),
           Become(r, m, d)
    PROVE  Fits
  <1>1. /\ maps' = [s \in SetId |-> IF s \in r.sets THEN m[s] ELSE <<>>]
        /\ reg' = r /\ done' = d \cap Solutions(r, maps')
    BY DEF Become
  <1>2. maps' \in [SetId -> Seq(Mapping)]
    <2> DEFINE T == Seq(Mapping)
    <2>1. <<>> \in T /\ \A s \in r.sets : m[s] \in T
      OBVIOUS
    <2> HIDE DEF T
    <2>2. maps' \in [SetId -> T]
      BY <1>1, <2>1
    <2>3. QED
      BY <2>2 DEF T
  <1>3. QED
    BY <1>1, <1>2 DEF Fits, Listing

LEMMA ReplaceFills ==
    ASSUME FlowInv, at \in Ops, Listing, NEW contents \in Seq(Seq(Mapping)), NEW d,
           Replace(contents, d)
    PROVE  Fits /\ \E new : Fills(new, contents)
  <1>1. PICK new : /\ Remade(new) /\ Len(new) = Len(contents)
                   /\ \A s \in reg'.sets :
                         maps'[s] = IF s \in ToSet(new)
                                    THEN contents[CHOOSE i \in DOMAIN new : new[i] = s]
                                    ELSE maps[s]
                   /\ done' = d \cap Solutions(reg', maps')
    BY ReplaceMakes
  <1>2. new \in Seq(SetId) /\ IsInjective(new) /\ ToSet(new) \subseteq reg'.sets
        /\ Sound(reg') /\ reg'.sets \subseteq SetId
    BY <1>1, RegistryIs DEF Remade, Sound
  <1>3. \A i \in DOMAIN new : maps'[new[i]] = contents[i]
    <2> SUFFICES ASSUME NEW i \in DOMAIN new
                 PROVE  maps'[new[i]] = contents[i]
      OBVIOUS
    <2> DEFINE j == CHOOSE j \in DOMAIN new : new[j] = new[i]
    <2>1. j \in DOMAIN new /\ new[j] = new[i]
      OBVIOUS
    <2>2. j = i
      <3> HIDE DEF j
      <3>1. QED
        BY <1>2, <2>1 DEF IsInjective
    <2>3. new[i] \in ToSet(new) /\ new[i] \in reg'.sets
      BY <1>2 DEF ToSet
    <2>4. maps'[new[i]] = contents[j]
      BY <1>1, <2>3
    <2> HIDE DEF j
    <2>5. QED
      BY <2>2, <2>4
  <1>4. \A s \in reg'.sets \ ToSet(new) : maps'[s] = maps[s]
    BY <1>1
  <1>5. Fills(new, contents)
    BY <1>1, <1>3, <1>4 DEF Fills
  <1>6. \A s \in reg'.sets : maps'[s] \in Seq(Mapping)
    <2>1. DOMAIN new = DOMAIN contents /\ \A i \in DOMAIN contents : contents[i] \in Seq(Mapping)
      BY <1>1, <1>2
    <2>2. \A s \in ToSet(new) : \E i \in DOMAIN new : s = new[i]
      BY DEF ToSet
    <2>3. \A s \in ToSet(new) : maps'[s] \in Seq(Mapping)
      BY <1>3, <2>1, <2>2
    <2>4. \A s \in reg'.sets \ ToSet(new) : maps'[s] \in Seq(Mapping)
      BY <1>2, <1>4 DEF Listing
    <2>5. QED
      BY <2>3, <2>4
  <1>7. maps' \in [SetId -> Seq(Mapping)]
    <2> DEFINE r == clearOutputSets(reg, outs[at])
               fresh == FreshIn(SetId, r.sets, Len(contents))
               m == [s \in SetId |-> IF s \in ToSet(fresh)
                                     THEN contents[CHOOSE i \in DOMAIN fresh : fresh[i] = s]
                                     ELSE maps[s]]
    <2>1. Become(Appended(r, fresh, ToSet(Op.out)), m, d)
      BY Zenon DEF Replace, AppendOutputSets, Appended
    <2>2. maps' = [s \in SetId |-> IF s \in reg'.sets THEN m[s] ELSE <<>>]
      BY <2>1 DEF Become
    <2> DEFINE T == Seq(Mapping)
    <2>3. <<>> \in T /\ \A s \in reg'.sets : maps'[s] \in T
      BY <1>6
    <2> HIDE DEF T, m
    <2>4. maps' \in [SetId -> T]
      <3>1. \A s \in SetId : maps'[s] = IF s \in reg'.sets THEN m[s] ELSE <<>>
        BY <2>2
      <3>2. \A s \in SetId : maps'[s] \in T
        BY <2>3, <3>1
      <3>3. maps' = [s \in SetId |-> maps'[s]]
        BY <2>2
      <3>4. QED
        BY <3>2, <3>3
    <2>5. QED
      BY <2>4 DEF T
  <1>8. QED
    BY <1>1, <1>5, <1>7 DEF Fits, Listing

LEMMA InputsIs ==
    ASSUME FlowInv, at \in Ops, Listing
    PROVE  /\ ins[at] \in Seq(SetId)
           /\ Inputs \in Seq(Seq(Mapping)) /\ DOMAIN Inputs = DOMAIN ins[at] /\ Len(Inputs) = Len(ins[at])
           /\ \A i \in DOMAIN ins[at] : Inputs[i] = maps[ins[at][i]] /\ ins[at][i] \in ToSet(ins[at])
  <1>1. ins[at] \in Seq(SetId)
    BY OpsIs
  <1> DEFINE q == ins[at]
             T == Seq(Mapping)
  <1>2. q \in Seq(SetId) /\ maps \in [SetId -> T] /\ Inputs = [i \in DOMAIN q |-> maps[q[i]]]
    BY <1>1 DEF Inputs, Listing
  <1>3. Len(q) \in Nat /\ DOMAIN q = 1 .. Len(q) /\ \A i \in DOMAIN q : q[i] \in SetId /\ q[i] \in ToSet(q)
    BY <1>1 DEF ToSet
  <1> HIDE DEF q, T
  <1>4. Inputs \in Seq(T) /\ DOMAIN Inputs = DOMAIN q /\ Len(Inputs) = Len(q)
    BY <1>2, <1>3
  <1>5. QED
    BY <1>2, <1>3, <1>4 DEF q, T

LEMMA OneList ==
    ASSUME NEW E, NEW c \in Seq(E)
    PROVE  <<c>> \in Seq(Seq(E)) /\ Len(<<c>>) = 1 /\ <<c>>[1] = c
  OBVIOUS

LEMMA InitialiseMakes ==
    ASSUME FlowInv, at \in Ops, Listing, done \subseteq Solutions(reg, maps), Initialise
    PROVE  /\ Fits
           /\ \/ UNCHANGED <<reg, maps, outs>>
              \/ /\ outs[at] = <<>>
                 /\ \E new, c : /\ c \in Seq(Mapping) /\ IsInjective(c) /\ Len(c) = PopSize
                                /\ Fills(new, <<c>>)
  <1>1. CASE outs[at] # <<>>
    BY <1>1 DEF Initialise, Fits, Listing, Solutions
  <1>2. CASE outs[at] = <<>>
    <2> DEFINE c == FreshIn(Mapping, Solutions(reg, maps), PopSize)
    <2>1. Room(Mapping, Solutions(reg, maps), PopSize) /\ AppendOutputSets(reg, <<>>, <<c>>, done)
      BY <1>2 DEF Initialise
    <2>2. clearOutputSets(reg, outs[at]) = reg
      BY <1>2, ClearNothing DEF FlowInv
    <2>3. Replace(<<c>>, done)
      BY <2>1, <2>2 DEF Replace
    <2>4. c \in Seq(Mapping) /\ IsInjective(c) /\ Len(c) = PopSize
      BY <2>1, FreshIs, ChainAssumption
    <2> HIDE DEF c
    <2>5. <<c>> \in Seq(Seq(Mapping))
      BY <2>4
    <2>6. QED
      BY <1>2, <2>3, <2>4, <2>5, ReplaceFills
  <1>3. QED
    BY <1>1, <1>2

LEMMA RankMakes ==
    ASSUME FlowInv, at \in Ops, Listing, ins[at] # <<>>, Rank
    PROVE  /\ Fits
           /\ \E new, q : /\ q \in Seq(Seq(Mapping))
                          /\ UNION {ToSet(q[i]) : i \in DOMAIN q} = ToSet(maps[ins[at][1]])
                          /\ IsInjective(maps[ins[at][1]]) => Apart(q)
                          /\ Fills(new, q)
  <1> DEFINE pop == maps[ins[at][1]]
  <1>1. pop \in Seq(Mapping)
    <2>1. ins[at] \in Seq(SetId)
      BY OpsIs
    <2>2. ins[at][1] \in SetId
      BY <2>1
    <2>3. QED
      BY <2>2 DEF Listing
  <1>2. PICK n \in 1 .. Len(pop) :
          \E rank \in {f \in [ToSet(pop) -> 1 .. n] : \A k \in 1 .. n : \E x \in ToSet(pop) : f[x] = k} :
            Replace(Ranks(pop, rank, n), done)
    BY DEF Rank
  <1> HIDE DEF pop
  <1>3. PICK rank \in [ToSet(pop) -> 1 .. n] : Replace(Ranks(pop, rank, n), done)
    BY <1>2
  <1> DEFINE q == Ranks(pop, rank, n)
  <1>4. /\ q \in Seq(Seq(Mapping)) /\ UNION {ToSet(q[i]) : i \in DOMAIN q} = ToSet(pop)
        /\ IsInjective(pop) => Apart(q)
    <2>1. n \in Nat
      OBVIOUS
    <2>2. QED
      BY <1>1, <2>1, RanksIs
  <1>5. Replace(q, done)
    BY <1>3
  <1> HIDE DEF q
  <1>6. Fits /\ \E new : Fills(new, q)
    BY <1>4, <1>5, ReplaceFills
  <1>7. QED
    BY <1>4, <1>6 DEF pop

LEMMA EliteMakes ==
    ASSUME FlowInv, at \in Ops, Listing, Elite
    PROVE  /\ Fits
           /\ \E new, c : /\ c \in Seq(Mapping) /\ Len(c) = (Len(FlattenSeq(Inputs)) + 1) \div 2
                          /\ Apart(Inputs) => IsInjective(c)
                          /\ Fills(new, <<c>>)
  <1>1. Inputs \in Seq(Seq(Mapping)) /\ IsFiniteSet(Mapping)
    BY InputsIs, ChainAssumption
  <1>2. PICK c \in Elites(Inputs) : Replace(<<c>>, done)
    BY DEF Elite
  <1>3. /\ c \in Seq(Mapping) /\ Len(c) = (Len(FlattenSeq(Inputs)) + 1) \div 2
        /\ Apart(Inputs) => IsInjective(c)
    BY <1>1, ElitesIs
  <1>4. <<c>> \in Seq(Seq(Mapping))
    BY <1>3
  <1>5. Fits /\ \E new : Fills(new, <<c>>)
    BY <1>2, <1>4, ReplaceFills
  <1>6. QED
    BY <1>3, <1>5

LEMMA ReduceMakes ==
    ASSUME FlowInv, at \in Ops, Listing, ins[at] # <<>>, Reduce
    PROVE  /\ Fits
           /\ \E new, c : /\ c \in Seq(Mapping)
                          /\ Apart(Inputs) => IsInjective(c)
                          /\ \E x : ToSet(FlattenSeq(Inputs)) \ {x} \subseteq ToSet(c)
                          /\ Fills(new, <<c>>)
  <1> DEFINE f == FlattenSeq(Inputs)
  <1>1. /\ Inputs \in Seq(Seq(Mapping)) /\ f \in Seq(Mapping)
        /\ Apart(Inputs) => IsInjective(f)
    BY InputsIs, FlattenIs
  <1>2. \E c : /\ c \in Seq(Mapping) /\ (Apart(Inputs) => IsInjective(c))
               /\ \E x : ToSet(f) \ {x} \subseteq ToSet(c)
               /\ Replace(<<c>>, done)
    <2>1. CASE later
      <3>1. PICK worst : Replace(<<Listed(f, Mapping \ {worst})>>, done)
        BY <2>1 DEF Reduce
      <3> DEFINE c == Listed(f, Mapping \ {worst})
      <3> HIDE DEF f
      <3>2. /\ c \in Seq(Mapping) /\ ToSet(c) = ToSet(f) \cap (Mapping \ {worst})
            /\ IsInjective(f) => IsInjective(c)
        BY <1>1, ListedIs
      <3>3. ToSet(f) \subseteq Mapping
        BY <1>1 DEF ToSet
      <3>4. ToSet(f) \ {worst} \subseteq ToSet(c)
        BY <3>2, <3>3
      <3>5. Replace(<<c>>, done)
        BY <3>1
      <3> HIDE DEF c
      <3>6. QED
        BY <1>1, <3>2, <3>4, <3>5
    <2>2. CASE ~ later
      <3>1. Replace(<<Union(Inputs)>>, done)
        BY <2>2 DEF Reduce
      <3>2. Union(Inputs) \in Seq(Mapping) /\ ToSet(Union(Inputs)) = ToSet(f) /\ IsInjective(Union(Inputs))
        BY <1>1, UnionIs
      <3>3. ToSet(f) \ {0} \subseteq ToSet(Union(Inputs))
        BY <3>2
      <3>4. QED
        BY <3>1, <3>2, <3>3
    <2>3. QED
      BY <2>1, <2>2
  <1>3. PICK c : /\ c \in Seq(Mapping) /\ (Apart(Inputs) => IsInjective(c))
                 /\ \E x : ToSet(f) \ {x} \subseteq ToSet(c)
                 /\ Replace(<<c>>, done)
    BY <1>2
  <1>4. <<c>> \in Seq(Seq(Mapping))
    BY <1>3
  <1>5. Fits /\ \E new : Fills(new, <<c>>)
    BY <1>3, <1>4, ReplaceFills
  <1>6. QED
    BY <1>3, <1>5

LEMMA PoolMakes ==
    ASSUME FlowInv, at \in Ops, Listing, \A i \in DOMAIN ins[at] : Len(Inputs[i]) = PopSize, Pool
    PROVE  /\ Fits
           /\ \E new, q : /\ q \in Seq(Seq(Mapping)) /\ Len(q) = Len(ins[at])
                          /\ \A i \in DOMAIN q : Len(q[i]) = PopSize
                          /\ Fills(new, q)
  <1> DEFINE D == DOMAIN ins[at]
  <1>1. /\ Inputs \in Seq(Seq(Mapping)) /\ D = 1 .. Len(ins[at]) /\ DOMAIN Inputs = D
        /\ Len(ins[at]) \in Nat /\ PopSize \in Nat
    BY InputsIs, ChainAssumption
  <1>2. PICK pick \in [D -> [1 .. PopSize -> 1 .. PopSize]] :
          Replace([i \in D |-> [k \in DOMAIN Inputs[i] |-> Inputs[i][pick[i][k]]]], done)
    BY DEF Pool
  <1> DEFINE F(i) == [k \in DOMAIN Inputs[i] |-> Inputs[i][pick[i][k]]]
             q == [i \in D |-> F(i)]
             T == Seq(Mapping)
  <1>3. ASSUME NEW i \in D
        PROVE  F(i) \in T /\ Len(F(i)) = PopSize
    <2> DEFINE x == Inputs[i]
               p == pick[i]
    <2>1. x \in Seq(Mapping) /\ Len(x) = PopSize
      BY <1>1
    <2>2. p \in [1 .. PopSize -> 1 .. PopSize]
      OBVIOUS
    <2> DEFINE n == PopSize
    <2>3. F(i) = [k \in DOMAIN x |-> x[p[k]]] /\ n \in Nat
      BY <1>1
    <2>4. DOMAIN x = 1 .. n /\ \A k \in 1 .. n : x[p[k]] \in Mapping
      BY <2>1, <2>2
    <2> DEFINE y == [k \in 1 .. n |-> x[p[k]]]
    <2>5. F(i) = y
      BY <2>3, <2>4
    <2> HIDE DEF x, p, F, n
    <2>6. y \in Seq(Mapping) /\ Len(y) = n
      BY <2>3, <2>4
    <2>7. QED
      BY <2>5, <2>6 DEF n
  <1>4. q \in Seq(T) /\ Len(q) = Len(ins[at]) /\ DOMAIN q = D /\ \A i \in D : q[i] = F(i)
    <2>1. D = 1 .. Len(ins[at]) /\ Len(ins[at]) \in Nat
      BY <1>1
    <2> HIDE DEF F, D, T
    <2>2. QED
      BY <1>3, <2>1
  <1>5. Replace(q, done)
    BY <1>2
  <1> HIDE DEF F, D, q
  <1>6. Fits /\ \E new : Fills(new, q)
    BY <1>4, <1>5, ReplaceFills
  <1>7. QED
    BY <1>3, <1>4, <1>6

LEMMA BreedMakes ==
    ASSUME FlowInv, at \in Ops, Listing, NEW parents, NEW size \in Nat \ {0}, Breed(parents, size)
    PROVE  /\ Fits
           /\ \E new, q, f :
                /\ q \in Seq(Seq(Mapping)) /\ Apart(q)
                /\ f \in Seq(Mapping) /\ IsInjective(f) /\ Len(f) = Len(parents)
                /\ UNION {ToSet(q[i]) : i \in DOMAIN q} = ToSet(f)
                /\ \A z \in reg.sets \ ToSet(outs[at]) : ToSet(f) \cap ToSet(maps[z]) = {}
                /\ Fills(new, q)
  <1> DEFINE r == clearOutputSets(reg, outs[at])
             f == FreshIn(Mapping, Solutions(r, maps), Len(parents))
             q == Chunks(f, size)
  <1>1. /\ Room(Mapping, Solutions(r, maps), Len(parents))
        /\ \E d : Replace(q, d)
    BY DEF Breed
  <1>2. r.sets = reg.sets \ ToSet(outs[at])
    BY ClearSound, OpsIs DEF FlowInv
  <1>3. /\ f \in Seq(Mapping) /\ ToSet(f) \cap Solutions(r, maps) = {}
        /\ IsInjective(f) /\ Len(f) = Len(parents)
    <2> HIDE DEF r
    <2>1. QED
      BY <1>1, FreshIs, ChainAssumption
  <1> HIDE DEF f, r
  <1>4. q \in Seq(Seq(Mapping)) /\ Apart(q) /\ UNION {ToSet(q[i]) : i \in DOMAIN q} = ToSet(f)
    BY <1>3, ChunksCover
  <1> HIDE DEF q
  <1>5. Fits /\ \E new : Fills(new, q)
    BY <1>1, <1>4, ReplaceFills
  <1>6. \A z \in reg.sets \ ToSet(outs[at]) : ToSet(f) \cap ToSet(maps[z]) = {}
    BY <1>2, <1>3 DEF Solutions
  <1>7. QED
    BY <1>3, <1>4, <1>5, <1>6

LEMMA TruncateIs ==
    ASSUME FlowInv, at \in Ops, Listing, Truncate
    PROVE  /\ Fits /\ UNCHANGED <<reg, outs>>
           /\ \A s \in reg.sets :
                 maps'[s] = IF s \in ToSet(outs[at]) /\ Len(maps[s]) > Op.size
                            THEN SubSeq(maps[s], 1, Op.size) ELSE maps[s]
  <1> DEFINE F(s) == IF Contains(outs[at], s) /\ Len(maps[s]) > Op.size
                     THEN SubSeq(maps[s], 1, Op.size) ELSE maps[s]
  <1>1. Become(reg, [s \in SetId |-> F(s)], done) /\ outs' = outs /\ reg' = reg
    BY DEF Truncate, Become
  <1>2. reg.sets \subseteq SetId /\ Op.size \in Nat /\ outs[at] \in Seq(SetId)
    BY OpsIs, SizeIs DEF FlowInv, Op
  <1>3. \A s : Contains(outs[at], s) <=> s \in ToSet(outs[at])
    BY <1>2 DEF Contains, ToSet
  <1>4. \A s \in reg.sets : F(s) \in Seq(Mapping)
    <2> SUFFICES ASSUME NEW s \in reg.sets
                 PROVE  F(s) \in Seq(Mapping)
      OBVIOUS
    <2> DEFINE x == maps[s]
               n == Op.size
    <2>1. x \in Seq(Mapping) /\ n \in Nat
      BY <1>2 DEF Listing
    <2> HIDE DEF x, n
    <2>2. Len(x) > n => SubSeq(x, 1, n) \in Seq(Mapping)
      BY <2>1
    <2>3. QED
      BY <2>1, <2>2 DEF x, n
  <1> HIDE DEF F
  <1>5. \A s \in reg.sets : [t \in SetId |-> F(t)][s] \in Seq(Mapping)
    BY <1>2, <1>4
  <1>6. Fits
    <2> DEFINE m == [t \in SetId |-> F(t)]
    <2>1. Become(reg, m, done) /\ \A s \in reg.sets : m[s] \in Seq(Mapping)
      BY <1>1, <1>5
    <2> HIDE DEF m
    <2>2. QED
      BY <1>2, <2>1, BecomeFits
  <1>7. \A s \in reg.sets : maps'[s] = F(s)
    BY <1>1, <1>2 DEF Become
  <1>8. QED
    BY <1>1, <1>3, <1>6, <1>7 DEF F

LEMMA MergeIs ==
    ASSUME FlowInv, at \in Ops, Listing, Merge
    PROVE  /\ Fits /\ UNCHANGED <<reg, outs>>
           /\ \A s \in reg.sets :
                 maps'[s] = IF s = outs[at][1]
                            THEN [i \in DOMAIN maps[s] |-> IF i <= Len(FlattenSeq(Inputs))
                                                          THEN FlattenSeq(Inputs)[i] ELSE maps[s][i]]
                            ELSE maps[s]
  <1> DEFINE k == outs[at][1]
             next == FlattenSeq(Inputs)
             F(q) == [i \in DOMAIN q |-> IF i <= Len(next) THEN next[i] ELSE q[i]]
             m == [maps EXCEPT ![k] = F(@)]
  <1>1. Become(reg, m, done) /\ outs' = outs /\ reg' = reg
    BY DEF Merge, Become
  <1>2. next \in Seq(Mapping) /\ reg.sets \subseteq SetId
    BY InputsIs, FlattenIs, OpsIs
  <1> HIDE DEF k, next
  <1>3. \A q \in Seq(Mapping) : F(q) \in Seq(Mapping)
    <2> SUFFICES ASSUME NEW q \in Seq(Mapping)
                 PROVE  F(q) \in Seq(Mapping)
      OBVIOUS
    <2>1. Len(q) \in Nat /\ DOMAIN q = 1 .. Len(q) /\ \A i \in 1 .. Len(q) : q[i] \in Mapping
      OBVIOUS
    <2>2. \A i \in 1 .. Len(q) : i <= Len(next) => next[i] \in Mapping
      BY <1>2
    <2>3. \A i \in 1 .. Len(q) : (IF i <= Len(next) THEN next[i] ELSE q[i]) \in Mapping
      BY <2>1, <2>2
    <2>4. QED
      BY <2>1, <2>3
  <1> HIDE DEF F
  <1>4. \A s \in SetId : m[s] = (IF s = k THEN F(maps[s]) ELSE maps[s]) /\ maps[s] \in Seq(Mapping)
    BY DEF Listing
  <1> HIDE DEF m
  <1>5. \A s \in reg.sets : m[s] \in Seq(Mapping)
    BY <1>2, <1>3, <1>4
  <1>6. Fits
    BY <1>1, <1>2, <1>5, BecomeFits
  <1>7. \A s \in reg.sets : maps'[s] = m[s]
    BY <1>1, <1>2 DEF Become
  <1>8. \A s \in reg.sets : maps'[s] = IF s = k THEN F(maps[s]) ELSE maps[s]
    BY <1>2, <1>4, <1>7
  <1>9. QED
    BY <1>1, <1>6, <1>8 DEF F, k, next

-----------------------------------------------------------------------------
(* Sets hold lists of solutions, and the population has its size: a mating *)
(* pool is drawn by positions up to that size.                             *)
Typed ==
    /\ Listing /\ done \subseteq Solutions(reg, maps)
    /\ later \in BOOLEAN /\ failed \in BOOLEAN
    /\ phase = "gone" => at \in 1 .. Len(chain) + 1

Sized == phase # "gone" => \A s \in Of(1) : Len(maps[s]) = PopSize

\* the sets stay as they are
Still == UNCHANGED <<reg, maps, outs>>

\* the operator's sets are made anew, the population when there was none
Makes(contents) ==
    /\ at \in MakersOf(chain) /\ at' = at + 1
    /\ \E new : Fills(new, contents)
    /\ at = 1 => /\ outs[at] = <<>>
                 /\ \E c : /\ contents = <<c>> /\ c \in Seq(Mapping)
                           /\ IsInjective(c) /\ Len(c) = PopSize

\* whose turn it is, by the kind of operator
LEMMA TurnIs ==
    ASSUME FlowInv, phase # "gone", NEW e \in Ops, Generation(chain, e)
    PROVE  /\ at \in Nat /\ at \in Ops /\ e \in Nat /\ 1 < e /\ e + 1 < Len(chain)
           /\ Op.kind = "init" => at = 1
           /\ Op.kind \in {"evaluate", "rank", "score"} => 1 < at /\ at < e
           /\ Op.kind \in Selecting => at = e
           /\ Op.kind \in Breeding => at = e + 1
           /\ Op.kind \in {"vary", "truncate"} => e + 1 < at /\ at < Len(chain)
           /\ Op.kind = "merge" => at = Len(chain)
  <1>1. at \in Ops /\ Ops \subseteq Nat
    BY OpsIs
  <1>2. \/ at = 1 \/ (1 < at /\ at < e) \/ at = e \/ at = e + 1
        \/ (e + 1 < at /\ at < Len(chain)) \/ at = Len(chain)
    BY <1>1, PartsIs
  <1>3. QED
    BY <1>1, <1>2, PartsIs DEF Op, Selecting, Breeding

LEMMA NodeIs ==
    ASSUME FlowInv, Works, Next, NEW e \in Ops, Generation(chain, e)
    PROVE  /\ phase = "node" /\ phase' = "update" /\ chain' = chain
           /\ \/ EvaluateThrows /\ at' = 1
              \/ Merge /\ at' = 1
              \/ /\ Initialise \/ Evaluate \/ Rank \/ Score \/ Elite \/ Reduce \/ Pool
                    \/ Children \/ Filtered \/ Vary \/ Truncate
                 /\ at' = at + 1
  <1>1. phase = "node" /\ phase' = "update" /\ chain' = chain
    BY DEF Works, Next
  <1>2. ~ updateSets /\ ~ StartUnload /\ ~ Destroy
    BY <1>1 DEF updateSets, StartUnload, Destroy
  <1>3. EvaluateThrows => at' = 1
    BY DEF EvaluateThrows
  <1>4. Merge => at' = 1
    <2>1. Merge => Op.kind = "merge" /\ Advance
      BY DEF Merge, Node
    <2>2. QED
      BY <1>1, <2>1, TurnIs DEF Advance
  <1>5. ASSUME \/ Initialise \/ Evaluate \/ Rank \/ Score \/ Elite \/ Reduce \/ Pool
               \/ Children \/ Filtered \/ Vary \/ Truncate
        PROVE  at' = at + 1
    <2>1. Op.kind # "merge" /\ Advance
      BY <1>5 DEF Initialise, Evaluate, Rank, Score, Elite, Reduce, Pool, Children, Filtered, Vary,
                  Truncate, Node
    <2>2. Op.kind # "merge" => at # Len(chain)
      BY <1>1, PartsIs DEF Op
    <2>3. QED
      BY <2>1, <2>2 DEF Advance
  <1>6. \/ EvaluateThrows \/ Merge
        \/ Initialise \/ Evaluate \/ Rank \/ Score \/ Elite \/ Reduce \/ Pool
        \/ Children \/ Filtered \/ Vary \/ Truncate
    BY <1>2 DEF Next
  <1>7. CASE EvaluateThrows
    BY <1>1, <1>3, <1>7
  <1>8. CASE Merge
    BY <1>1, <1>4, <1>8
  <1>9. CASE \/ Initialise \/ Evaluate \/ Rank \/ Score \/ Elite \/ Reduce \/ Pool
             \/ Children \/ Filtered \/ Vary \/ Truncate
    BY <1>1, <1>5, <1>9
  <1>10. QED
    BY <1>6, <1>7, <1>8, <1>9

LEMMA NodeEffect ==
    ASSUME SeenInv, Supply, NEW e \in Ops, Generation(chain, e), Typed, Sized, Works, Next
    PROVE  /\ Fits
           /\ \/ Still /\ (Initialise \/ Evaluate \/ EvaluateThrows \/ Score \/ Vary)
              \/ \E contents \in Seq(Seq(Mapping)) : Makes(contents)
              \/ Truncate \/ Merge
  <1>1. /\ FlowInv /\ phase = "node" /\ at \in Ops /\ Listing /\ done \subseteq Solutions(reg, maps)
        /\ Ops = DOMAIN chain
    BY OpsIs DEF SeenInv, Works, Typed
  <1>2. Op.kind \in Making => at \in MakersOf(chain)
    BY <1>1 DEF MakersOf, Op
  <1> DEFINE Now(contents) == \E new : Fills(new, contents)
  <1>3. ASSUME NEW contents \in Seq(Seq(Mapping)), Now(contents), at' = at + 1, at # 1, Op.kind \in Making
        PROVE  \E c \in Seq(Seq(Mapping)) : Makes(c)
    BY <1>2, <1>3 DEF Makes
  <1>4. CASE Evaluate \/ EvaluateThrows \/ Score \/ Vary
    <2>1. Still
      BY <1>4 DEF Still, Evaluate, EvaluateThrows, Score, Vary
    <2>2. done' \subseteq done \cup OutputSolutions
      BY <1>4 DEF Evaluate, EvaluateThrows, Score, Vary
    <2>3. OutputSolutions \subseteq Solutions(reg, maps)
      <3>1. InputsOutliveClear
        BY <1>1, GenerationWires, SeenOutlives
      <3>2. ToSet(outs[at]) \subseteq reg.sets
        BY <1>1, <3>1 DEF InputsOutliveClear
      <3>3. QED
        BY <3>2 DEF OutputSolutions, Solutions
    <2>4. Fits
      BY <1>1, <2>1, <2>2, <2>3 DEF Fits, Still, Listing, Solutions
    <2>5. QED
      BY <1>4, <2>1, <2>4
  <1>5. CASE Initialise
    <2>1. Op.kind = "init" /\ Op.kind \in Making
      BY <1>5 DEF Initialise, Node, Making
    <2>2. at = 1 /\ at' = at + 1
      <3>1. at = 1
        BY <1>1, <2>1, TurnIs
      <3>2. at # Len(chain)
        BY <1>1, <3>1, PartsIs
      <3>3. QED
        BY <1>5, <3>1, <3>2 DEF Initialise, Node, Advance
    <2>3. CASE UNCHANGED <<reg, maps, outs>>
      BY <1>1, <1>5, <2>3, InitialiseMakes DEF Still
    <2>4. CASE outs[at] = <<>>
      <3>1. CASE Still
        BY <1>1, <1>5, <3>1, InitialiseMakes
      <3>2. ASSUME NEW new, NEW c, c \in Seq(Mapping), IsInjective(c), Len(c) = PopSize, Fills(new, <<c>>)
            PROVE  Makes(<<c>>) /\ <<c>> \in Seq(Seq(Mapping))
        BY <1>2, <2>1, <2>2, <2>4, <3>2 DEF Makes
      <3>3. QED
        BY <1>1, <1>5, <3>1, <3>2, InitialiseMakes DEF Still
    <2>5. QED
      BY <1>1, <1>5, <2>3, <2>4, InitialiseMakes
  <1>6. CASE Rank
    <2>1. Op.kind = "rank" /\ Op.kind \in Making
      BY <1>6 DEF Rank, Node, Making, Replacing
    <2>2. at # 1 /\ at' = at + 1 /\ ins[at] # <<>>
      <3>1. 1 < at /\ at < e /\ e < Len(chain) /\ at \in Nat
        BY <1>1, <2>1, TurnIs
      <3>2. Supplied(chain, at)
        BY <1>1, <2>1, GenerationWires DEF Op
      <3>3. Len(ins[at]) > 0
        BY <1>1, <3>2, SuppliedReads
      <3>4. ins[at] # <<>>
        BY <3>3
      <3>5. Advance
        BY <1>6 DEF Rank, Node
      <3>6. at # 1 /\ at # Len(chain)
        BY <1>1, <3>1, PartsIs
      <3>7. QED
        BY <3>4, <3>5, <3>6 DEF Advance
    <2>3. Fits /\ \E q \in Seq(Seq(Mapping)) : Now(q)
      BY <1>1, <1>6, <2>2, RankMakes
    <2> HIDE DEF Now
    <2>4. QED
      BY <1>3, <2>1, <2>2, <2>3
  <1>7. CASE Elite \/ Reduce \/ Pool
    <2>1. Op.kind \in Selecting /\ Op.kind \in Making /\ (Pool => Op.kind = "pool")
      BY <1>7 DEF Elite, Reduce, Pool, Node, Making, Replacing, Selecting
    <2>2. at = e /\ at # 1 /\ at' = at + 1 /\ ins[at] # <<>>
      <3>1. at = e /\ 1 < at /\ at < Len(chain) /\ at \in Nat
        BY <1>1, <2>1, TurnIs
      <3>2. Supplied(chain, at)
        BY <1>1, <3>1, GenerationWires
      <3>3. Len(ins[at]) > 0
        BY <1>1, <3>2, SuppliedReads
      <3>4. QED
        BY <1>7, <3>1, <3>3 DEF Elite, Reduce, Pool, Node, Advance
    <2>3. CASE Elite \/ Reduce
      <3>1. /\ Fits
            /\ \E new, c : c \in Seq(Mapping) /\ Fills(new, <<c>>)
        BY <1>1, <2>2, <2>3, EliteMakes, ReduceMakes
      <3>2. PICK c \in Seq(Mapping) : Now(<<c>>)
        BY <3>1
      <3>3. <<c>> \in Seq(Seq(Mapping))
        OBVIOUS
      <3> HIDE DEF Now
      <3>4. QED
        BY <1>3, <2>1, <2>2, <3>1, <3>2, <3>3
    <2>4. CASE Pool
      <3>1. \A i \in DOMAIN ins[at] : Len(Inputs[i]) = PopSize
        <4>1. Reads(chain, e, 1) /\ 1 \in MakersOf(chain)
          BY <1>1, <2>1, <2>2, <2>4, PartsIs DEF Generation, Op
        <4>2. ToSet(ins[at]) = UNION {Of(p) : p \in {1}}
          BY <1>1, <2>2, <4>1, FoundOf DEF Reads, Op
        <4>3. ToSet(ins[at]) = Of(1)
          BY <4>2
        <4>4. QED
          BY <1>1, <4>3, InputsIs DEF Sized
      <3>2. Fits /\ \E q \in Seq(Seq(Mapping)) : Now(q)
        BY <1>1, <2>4, <3>1, PoolMakes
      <3> HIDE DEF Now
      <3>3. QED
        BY <1>3, <2>1, <2>2, <3>2
    <2>5. QED
      BY <1>7, <2>3, <2>4
  <1>8. CASE Children \/ Filtered
    <2>1. Op.kind \in Breeding /\ Op.kind \in Making
      BY <1>8 DEF Children, Filtered, Node, Making, Replacing, Breeding
    <2>2. at = e + 1 /\ at # 1 /\ at' = at + 1
      <3>1. at = e + 1 /\ 1 < at /\ at < Len(chain) /\ at \in Nat
        BY <1>1, <2>1, TurnIs
      <3>2. QED
        BY <1>8, <3>1 DEF Children, Filtered, Node, Advance
    <2>3. Op.size \in Nat \ {0}
      <3>1. chain[e + 1].size > 0
        BY DEF Generation
      <3>2. QED
        BY <1>1, <2>2, <3>1, SizeIs DEF FlowInv, Op
    <2>4. \E parents : Breed(parents, Op.size)
      BY <1>8 DEF Children, Filtered
    <2>5. Fits /\ \E q \in Seq(Seq(Mapping)) : Now(q)
      BY <1>1, <2>3, <2>4, BreedMakes
    <2> HIDE DEF Now
    <2>6. QED
      BY <1>3, <2>1, <2>2, <2>5
  <1>9. CASE Truncate
    BY <1>1, <1>9, TruncateIs
  <1>10. CASE Merge
    BY <1>1, <1>10, MergeIs
  <1>11. QED
    BY <1>1, <1>4, <1>5, <1>6, <1>7, <1>8, <1>9, <1>10, NodeIs

LEMMA OfApart ==
    ASSUME SeenInv, phase # "gone", NEW e \in Ops, Generation(chain, e),
           NEW p \in MakersOf(chain), NEW q \in MakersOf(chain), p # q
    PROVE  Of(p) \cap Of(q) = {}
  <1> SUFFICES ASSUME NEW s \in Of(p) \cap Of(q)
               PROVE  FALSE
    OBVIOUS
  <1>1. s \in reg.sets
    BY DEF Of
  <1>2. QED
    BY <1>1, MakerIs

LEMMA MakesOf ==
    ASSUME SeenInv, phase = "node", NEW e \in Ops, Generation(chain, e), chain' = chain,
           NEW a \in MakersOf(chain), a = at, NEW contents \in Seq(Seq(Mapping)), NEW new,
           Fills(new, contents)
    PROVE  /\ Of(a)' = ToSet(new) /\ new \in Seq(SetId) /\ IsInjective(new)
           /\ DOMAIN new = DOMAIN contents /\ Len(new) = Len(contents)
           /\ \A i \in DOMAIN new : maps'[new[i]] = contents[i]
           /\ \A p \in MakersOf(chain) \ {a} :
                 /\ Of(p)' = Of(p) /\ Of(p) \cap ToSet(new) = {}
                 /\ \A s \in Of(p) : maps'[s] = maps[s]
           /\ \A z \in reg.sets \ Of(a) : maps'[z] = maps[z] /\ z \in reg'.sets
  <1>1. Remade(new)
    BY DEF Fills
  <1>2. /\ new \in Seq(SetId) /\ IsInjective(new) /\ DOMAIN new = DOMAIN contents
        /\ Len(new) = Len(contents)
        /\ \A i \in DOMAIN new : maps'[new[i]] = contents[i]
        /\ \A s \in reg'.sets \ ToSet(new) : maps'[s] = maps[s]
    BY <1>1 DEF Fills, Remade
  <1>3. /\ Of(a)' = ToSet(new)
        /\ \A p \in MakersOf(chain) \ {a} : Of(p)' = Of(p) /\ Of(p) \cap ToSet(new) = {}
        /\ ToSet(new) \cap (reg.sets \ Of(a)) = {}
        /\ reg'.sets = (reg.sets \ Of(a)) \cup ToSet(new)
    BY <1>1, RemadeOf
  <1>4. \A z \in reg.sets \ Of(a) : maps'[z] = maps[z] /\ z \in reg'.sets
    BY <1>2, <1>3
  <1>5. \A p \in MakersOf(chain) \ {a} : \A s \in Of(p) : s \in reg.sets \ Of(a)
    <2> SUFFICES ASSUME NEW p \in MakersOf(chain) \ {a}, NEW s \in Of(p)
                 PROVE  s \in reg.sets \ Of(a)
      OBVIOUS
    <2>1. Of(p) \cap Of(a) = {}
      BY OfApart
    <2>2. QED
      BY <2>1 DEF Of
  <1>6. QED
    BY <1>2, <1>3, <1>4, <1>5

LEMMA StillOf ==
    ASSUME chain' = chain, reg' = reg
    PROVE  \A p : Of(p)' = Of(p)
  BY DEF Of

LEMMA TruncateOf ==
    ASSUME SeenInv, phase = "node", NEW e \in Ops, Generation(chain, e), chain' = chain,
           Listing, Truncate
    PROVE  /\ \A p \in MakersOf(chain) : Of(p)' = Of(p)
           /\ \A p \in MakersOf(chain) \ {e + 1} : \A s \in Of(p) : maps'[s] = maps[s]
           /\ \A s \in Of(e + 1) :
                 maps'[s] = IF Len(maps[s]) > Op.size THEN SubSeq(maps[s], 1, Op.size) ELSE maps[s]
           /\ e + 1 < at /\ at < Len(chain) /\ at \in Nat /\ Op.kind = "truncate" /\ at \in Ops
  <1>1. Op.kind = "truncate" /\ FlowInv /\ at \in Ops
    BY OpsIs DEF Truncate, Node, SeenInv
  <1>2. e + 1 < at /\ at < Len(chain) /\ at \in Nat /\ e \in Nat /\ Len(chain) \in Nat
    BY <1>1, TurnIs, PartsIs
  <1>3. reg' = reg
    BY <1>1, TruncateIs
  <1>4. e + 1 \in MakersOf(chain)
    BY <1>1, PartsIs
  <1>5. Names(chain, Out(chain, at), {e + 1})
    <2> DEFINE b == e + 1
               m == Len(chain)
    <2>1. at \in b + 1 .. m - 1
      BY <1>2
    <2>2. \A o \in b + 1 .. m - 1 : Names(chain, Out(chain, o), {b})
      BY DEF Generation
    <2>3. QED
      BY <2>1, <2>2
  <1>6. ToSet(outs[at]) = Of(e + 1)
    <2>1. ToSet(outs[at]) = UNION {Of(p) : p \in {e + 1}}
      BY <1>4, <1>5, FoundOf
    <2>2. QED
      BY <2>1
  <1>7. \A s \in reg.sets :
           maps'[s] = IF s \in Of(e + 1) /\ Len(maps[s]) > Op.size
                      THEN SubSeq(maps[s], 1, Op.size) ELSE maps[s]
    BY <1>1, <1>6, TruncateIs
  <1>8. \A p \in MakersOf(chain) \ {e + 1} : \A s \in Of(p) : s \in reg.sets /\ s \notin Of(e + 1)
    <2> SUFFICES ASSUME NEW p \in MakersOf(chain) \ {e + 1}, NEW s \in Of(p)
                 PROVE  s \in reg.sets /\ s \notin Of(e + 1)
      OBVIOUS
    <2>1. Of(p) \cap Of(e + 1) = {}
      BY <1>4, OfApart
    <2>2. QED
      BY <2>1 DEF Of
  <1>9. \A s \in Of(e + 1) : s \in reg.sets
    BY DEF Of
  <1>10. QED
    BY <1>1, <1>2, <1>3, <1>7, <1>8, <1>9, StillOf

LEMMA MergeOf ==
    ASSUME SeenInv, Supply, phase = "node", NEW e \in Ops, Generation(chain, e), chain' = chain,
           Listing, Merge
    PROVE  /\ at = Len(chain) /\ at \in Ops
           /\ \A p \in MakersOf(chain) : Of(p)' = Of(p)
           /\ outs[at][1] \in Of(1)
           /\ \A s \in reg.sets \ {outs[at][1]} : maps'[s] = maps[s]
           /\ \A s \in reg.sets : s = outs[at][1]
                => maps'[s] = [i \in DOMAIN maps[s] |-> IF i <= Len(FlattenSeq(Inputs))
                                                       THEN FlattenSeq(Inputs)[i] ELSE maps[s][i]]
           /\ \A p \in MakersOf(chain) \ {1} : \A s \in Of(p) : maps'[s] = maps[s]
  <1>1. Op.kind = "merge" /\ FlowInv /\ at \in Ops
    BY OpsIs DEF Merge, Node, SeenInv
  <1>2. at = Len(chain) /\ 1 \in MakersOf(chain) /\ 1 \in Ops /\ 1 < at
    BY <1>1, TurnIs, PartsIs
  <1>3. reg' = reg
    BY <1>1, MergeIs
  <1>4. Names(chain, Out(chain, at), {1})
    BY <1>2 DEF Generation
  <1>5. ToSet(outs[at]) = Of(1)
    <2>1. ToSet(outs[at]) = UNION {Of(p) : p \in {1}}
      BY <1>2, <1>4, FoundOf
    <2>2. QED
      BY <2>1
  <1>6. outs[at][1] \in Of(1)
    <2>1. Reliable(chain, 1)
      BY <1>1, GenerationWires
    <2>2. PICK s \in reg.sets : MadeBy(s, 1)
      BY <1>2, <2>1 DEF Supply
    <2>3. s \in ToSet(outs[at])
      BY <1>5, <2>2 DEF Of, MadeBy
    <2>4. outs[at] \in Seq(SetId)
      BY <1>1, OpsIs
    <2>5. outs[at][1] \in ToSet(outs[at])
      BY <2>3, <2>4 DEF ToSet
    <2>6. QED
      BY <1>5, <2>5
  <1>7. \A s \in reg.sets :
           maps'[s] = IF s = outs[at][1]
                      THEN [i \in DOMAIN maps[s] |-> IF i <= Len(FlattenSeq(Inputs))
                                                    THEN FlattenSeq(Inputs)[i] ELSE maps[s][i]]
                      ELSE maps[s]
    BY <1>1, MergeIs
  <1>8. \A p \in MakersOf(chain) \ {1} : \A s \in Of(p) : s \in reg.sets /\ s # outs[at][1]
    <2> SUFFICES ASSUME NEW p \in MakersOf(chain) \ {1}, NEW s \in Of(p)
                 PROVE  s \in reg.sets /\ s # outs[at][1]
      OBVIOUS
    <2>1. Of(p) \cap Of(1) = {}
      BY <1>2, OfApart
    <2>2. QED
      BY <1>6, <2>1 DEF Of
  <1>9. QED
    BY <1>1, <1>2, <1>3, <1>6, <1>7, <1>8, StillOf

LEMMA NextSized ==
    ASSUME SeenInv, Supply, NEW e \in Ops, Generation(chain, e), Typed, Sized, [Next]_vars
    PROVE  Sized'
  <1>1. chain' = chain /\ FlowInv
    BY StepIs DEF SeenInv
  <1>2. 1 \in MakersOf(chain)
    BY <1>1, PartsIs
  <1>3. CASE UNCHANGED <<reg, maps, done, outs, ins, creator, at, phase>>
    BY <1>1, <1>3, StillOf DEF Sized
  <1>4. CASE updateSets
    <2>1. Of(1)' = Of(1) /\ maps' = maps /\ phase = "update"
      BY <1>1, <1>2, <1>4, UpdateKeepsOf
    <2>2. QED
      BY <2>1 DEF Sized
  <1>5. CASE Works /\ Next
    <2>1. phase = "node" /\ phase' = "update"
      BY <1>5 DEF Works
    <2>2. \/ Still
          \/ \E contents \in Seq(Seq(Mapping)) : Makes(contents)
          \/ Truncate \/ Merge
      BY <1>5, NodeEffect
    <2>3. CASE Still
      BY <1>1, <2>1, <2>3, StillOf DEF Sized, Still
    <2>4. ASSUME NEW contents \in Seq(Seq(Mapping)), Makes(contents)
          PROVE  Sized'
      <3>1. PICK a \in MakersOf(chain) : a = at
        BY <2>4 DEF Makes
      <3>2. PICK new : Fills(new, contents)
        BY <2>4 DEF Makes
      <3>3. /\ Of(a)' = ToSet(new) /\ new \in Seq(SetId) /\ Len(new) = Len(contents)
            /\ \A i \in DOMAIN new : maps'[new[i]] = contents[i]
            /\ \A p \in MakersOf(chain) \ {a} :
                  /\ Of(p)' = Of(p)
                  /\ \A s \in Of(p) : maps'[s] = maps[s]
        BY <1>1, <2>1, <3>1, <3>2, MakesOf
      <3>4. CASE a = 1
        <4>1. PICK c : contents = <<c>> /\ Len(c) = PopSize
          BY <2>4, <3>1, <3>4 DEF Makes
        <4>2. Len(new) = 1 /\ new \in Seq(SetId)
          BY <3>3, <4>1
        <4>3. DOMAIN new = {1}
          BY <4>2
        <4>4. \A s \in ToSet(new) : s = new[1]
          BY <4>3 DEF ToSet
        <4>5. \A s \in ToSet(new) : Len(maps'[s]) = PopSize
          BY <3>3, <4>1, <4>3, <4>4
        <4>6. QED
          BY <3>3, <3>4, <4>5 DEF Sized
      <3>5. CASE a # 1
        BY <1>2, <2>1, <3>3, <3>5 DEF Sized
      <3>6. QED
        BY <3>4, <3>5
    <2>5. CASE Truncate
      <3>1. 1 \in MakersOf(chain) \ {e + 1}
        BY <1>1, <1>2, PartsIs
      <3>2. Of(1)' = Of(1) /\ \A s \in Of(1) : maps'[s] = maps[s]
        BY <1>1, <2>1, <2>5, <3>1, TruncateOf DEF Typed
      <3>3. QED
        BY <2>1, <3>2 DEF Sized
    <2>6. CASE Merge
      <3>1. Of(1)' = Of(1)
        BY <1>1, <1>2, <2>1, <2>6, MergeOf DEF Typed
      <3>2. ASSUME NEW s \in Of(1)
            PROVE  Len(maps'[s]) = PopSize
        <4>1. s \in reg.sets /\ Len(maps[s]) = PopSize /\ maps[s] \in Seq(Mapping)
          BY <1>1, <2>1, OpsIs DEF Sized, Of, Typed, Listing
        <4>2. CASE s # outs[at][1]
          <5>1. maps'[s] = maps[s]
            BY <1>1, <2>1, <2>6, <4>1, <4>2, MergeOf DEF Typed
          <5>2. QED
            BY <4>1, <5>1
        <4>3. CASE s = outs[at][1]
          <5> DEFINE next == FlattenSeq(Inputs)
                     x == maps[s]
          <5>1. maps'[s] = [i \in DOMAIN x |-> IF i <= Len(next) THEN next[i] ELSE x[i]]
            BY <1>1, <2>1, <2>6, <4>1, <4>3, MergeOf DEF Typed
          <5>2. DOMAIN x = 1 .. Len(x) /\ Len(x) \in Nat /\ Len(x) = PopSize
            BY <4>1
          <5> HIDE DEF next, x
          <5>3. QED
            BY <5>1, <5>2
        <4>4. QED
          BY <4>2, <4>3
      <3>3. QED
        BY <3>1, <3>2 DEF Sized
    <2>7. QED
      BY <2>2, <2>3, <2>4, <2>5, <2>6
  <1>6. CASE StartUnload \/ Destroy
    BY <1>6 DEF StartUnload, Destroy, Sized
  <1>7. QED
    BY <1>1, <1>3, <1>4, <1>5, <1>6, StepIs

LEMMA FlagsStay ==
    ASSUME Next, later \in BOOLEAN, failed \in BOOLEAN
    PROVE  later' \in BOOLEAN /\ failed' \in BOOLEAN
  <1>1. CASE updateSets \/ Initialise \/ Evaluate \/ EvaluateThrows \/ Score \/ Vary \/ Truncate \/ Merge
             \/ StartUnload \/ Destroy
    BY <1>1 DEF updateSets, Initialise, Evaluate, EvaluateThrows, Score, Vary, Truncate, Merge,
                StartUnload, Destroy
  <1>2. CASE Rank \/ Elite \/ Pool \/ Children \/ Filtered
    <2>1. later' = later /\ failed' = failed
      BY <1>2 DEF Rank, Elite, Pool, Children, Filtered
    <2>2. QED
      BY <2>1
  <1>3. CASE Reduce
    <2>1. failed' = failed /\ (later' = later \/ later' = TRUE)
      BY <1>3 DEF Reduce
    <2>2. QED
      BY <2>1
  <1>4. QED
    BY <1>1, <1>2, <1>3 DEF Next

LEMMA DestroyFits ==
    ASSUME FlowInv, Typed, Destroy
    PROVE  Fits
  <1>1. CASE at \notin creator
    BY <1>1 DEF Destroy, Fits, Typed, Listing, Solutions
  <1>2. CASE at \in creator
    <2> DEFINE r == clearOutputSets(TaggedOutputs, FoundOutputs)
    <2>1. Become(r, maps, done) /\ at \in Ops
      BY <1>2 DEF Destroy
    <2>2. Found(TaggedOutputs)
      BY <2>1, TaggedOutputsFound
    <2>3. r.sets = TaggedOutputs.sets \ ToSet(FoundOutputs) /\ TaggedOutputs.sets = reg.sets
      BY <2>2, ClearSound DEF Found
    <2>4. r.sets \subseteq SetId
      BY <2>3, OpsIs
    <2> HIDE DEF r
    <2>5. QED
      BY <2>1, <2>4, BecomeFits DEF Typed, Listing
  <1>3. QED
    BY <1>1, <1>2

LEMMA NextTyped ==
    ASSUME SeenInv, Supply, NEW e \in Ops, Generation(chain, e), Typed, Sized, [Next]_vars
    PROVE  Typed'
  <1>1. CASE UNCHANGED vars
    BY <1>1 DEF vars, Typed, Listing, Solutions
  <1>2. CASE Next
    <2>1. chain' = chain /\ FlowInv /\ FlowInv' /\ Ops = 1 .. Len(chain) /\ Len(chain) \in Nat
      BY StepIs, NextFlow, OpsIs DEF SeenInv, Ops
    <2>2. later' \in BOOLEAN /\ failed' \in BOOLEAN
      BY <1>2, FlagsStay DEF Typed
    <2>3. SUFFICES Fits /\ (phase' = "gone" => at' \in 1 .. Len(chain) + 1)
      BY <2>1, <2>2 DEF Fits, Typed
    <2>4. CASE UNCHANGED <<reg, maps, done, outs, ins, creator, at, phase>>
      BY <2>4 DEF Fits, Typed, Listing, Solutions
    <2>5. CASE updateSets
      <3>1. reg'.sets = reg.sets /\ maps' = maps /\ phase' = "node"
        BY <2>1, <2>5, UpdateKeepsOf
      <3>2. done' = done
        BY <2>5 DEF updateSets
      <3>3. QED
        BY <3>1, <3>2 DEF Fits, Typed, Listing, Solutions
    <2>6. CASE Works /\ Next
      BY <2>6, NodeEffect DEF Works
    <2>7. CASE StartUnload
      <3>1. at' = 1 /\ reg' = reg /\ maps' = maps /\ done' = done
        BY <2>7 DEF StartUnload
      <3>2. QED
        BY <2>1, <3>1 DEF Fits, Typed, Listing, Solutions
    <2>8. CASE Destroy
      <3>1. at \in Ops /\ at' = at + 1
        BY <2>8 DEF Destroy
      <3>2. QED
        BY <2>1, <2>8, <3>1, DestroyFits
    <2>9. QED
      BY <2>1, <2>4, <2>5, <2>6, <2>7, <2>8, StepIs
  <1>3. QED
    BY <1>1, <1>2

LEMMA InitTyped ==
    ASSUME Init
    PROVE  Typed /\ Sized
  <1>1. /\ reg.sets = {} /\ maps = [s \in SetId |-> <<>>] /\ done = {}
        /\ later = FALSE /\ failed = FALSE /\ phase = "update"
    BY DEF Init, EmptyRegistry
  <1>2. Listing
    <2> DEFINE T == Seq(Mapping)
    <2>1. <<>> \in T
      OBVIOUS
    <2> HIDE DEF T
    <2>2. maps \in [SetId -> T]
      BY <1>1, <2>1
    <2>3. QED
      BY <2>2 DEF Listing, T
  <1>3. QED
    BY <1>1, <1>2 DEF Typed, Sized, Of

(* A flow that makes a generation: what the following theorems are about.  *)
Generating == \E e \in Ops : Generation(chain, e)

LEMMA GeneratingStays ==
    ASSUME \A c \in Chains : \E e \in DOMAIN c : Generation(c, e), FlowInv
    PROVE  Generating
  BY OpsIs DEF Generating, FlowInv, Places

LEMMA TypedAlways ==
    ASSUME \A c \in Chains : \E e \in DOMAIN c : Generation(c, e)
    PROVE  Spec => [](SeenInv /\ Supply /\ Typed /\ Sized)
  <1>1. Init => Typed /\ Sized
    BY InitTyped
  <1>2. SeenInv /\ Supply /\ Typed /\ Sized /\ [Next]_vars => Typed' /\ Sized'
    <2> SUFFICES ASSUME SeenInv, Supply, Typed, Sized, [Next]_vars
                 PROVE  Typed' /\ Sized'
      OBVIOUS
    <2>1. PICK e \in Ops : Generation(chain, e)
      BY GeneratingStays DEF Generating, SeenInv
    <2>2. QED
      BY <2>1, NextTyped, NextSized
  <1>3. QED
    BY <1>1, <1>2, SupplyAlways, PTL DEF Spec

(* In every flow whose generation selects, breeds and merges as the        *)
(* algorithms of Tigon do, every operator keeps the sets, the solutions in *)
(* them and its own members within their types: no operator reads a set    *)
(* that is not there, and no draw goes past the end of a population.       *)
THEOREM TypesAlwaysOK ==
    ASSUME \A c \in Chains : \E e \in DOMAIN c : Generation(c, e)
    PROVE  Spec => []TypeOK
  <1>1. SeenInv /\ Supply /\ Typed /\ Sized => TypeOK
    <2> SUFFICES ASSUME FlowInv, Typed
                 PROVE  TypeOK
      BY DEF SeenInv
    <2>1. /\ chain \in Chains /\ reg \in Registry /\ outs \in [Ops -> Seq(SetId)]
          /\ ins \in [Ops -> Seq(SetId)] /\ creator \subseteq Ops
          /\ phase \in {"update", "node", "gone"} /\ (phase # "gone" => at \in Ops)
      BY OpsIs DEF FlowInv, Places, Sound
    <2>2. QED
      BY <2>1 DEF TypeOK, Typed, Listing
  <1>2. QED
    BY <1>1, TypedAlways, PTL
-----------------------------------------------------------------------------
(* What a step does to the sets of every maker.                            *)
Keeps(e) ==
    /\ \A p \in MakersOf(chain) : Of(p)' = Of(p)
    /\ maps' = maps
    /\ at > e => reg' = reg
    /\ \/ at' = at
       \/ at' = 1 /\ at < e
       \/ at' = at + 1 /\ Op.kind \in {"init", "evaluate", "score", "vary"}

LEMMA StepOf ==
    ASSUME SeenInv, Supply, NEW e \in Ops, Generation(chain, e), Typed, Sized, [Next]_vars,
           phase' # "gone"
    PROVE  /\ chain' = chain /\ Ops' = Ops /\ phase # "gone" /\ at \in Nat /\ e \in Nat
           /\ \/ Keeps(e)
              \/ /\ Works /\ Next /\ phase = "node" /\ at' = at + 1
                 /\ \E contents \in Seq(Seq(Mapping)) : Makes(contents)
              \/ phase = "node" /\ Truncate /\ at' = at + 1
              \/ phase = "node" /\ Merge /\ at' = 1
  <1>1. chain' = chain /\ Ops' = Ops /\ FlowInv
    BY StepIs DEF SeenInv, Ops
  <1>2. phase # "gone"
    <2>1. CASE UNCHANGED <<reg, maps, done, outs, ins, creator, at, phase>>
      BY <2>1
    <2>2. CASE updateSets \/ StartUnload \/ Destroy
      BY <2>2 DEF updateSets, StartUnload, Destroy
    <2>3. CASE Works
      BY <2>3 DEF Works
    <2>4. QED
      BY <1>1, <2>1, <2>2, <2>3, StepIs
  <1>3. at \in Ops /\ at \in Nat /\ e \in Nat /\ Ops = 1 .. Len(chain) /\ Len(chain) \in Nat
    BY <1>1, <1>2, TurnIs, PartsIs
  <1>4. CASE UNCHANGED <<reg, maps, done, outs, ins, creator, at, phase>>
    <2>1. reg' = reg /\ maps' = maps /\ at' = at
      BY <1>4
    <2>2. Keeps(e)
      BY <1>1, <2>1, StillOf DEF Keeps
    <2>3. QED
      BY <1>1, <1>2, <1>3, <2>2
  <1>5. CASE updateSets
    <2>1. /\ maps' = maps /\ at' = at /\ \A p \in MakersOf(chain) : Of(p)' = Of(p)
      BY <1>1, <1>5, UpdateKeepsOf
    <2>2. ASSUME at > e
          PROVE  reg' = reg
      <3>1. at \in e + 1 .. Len(chain)
        BY <1>3, <2>2
      <3>2. Op.add = <<>> /\ Op.out # <<>>
        BY <1>1, <1>3, <3>1, OpsIs DEF Generation, Op
      <3>3. reg' = TagAll(reg, FoundOutputs, <<>>)
        BY <1>5, <3>2 DEF updateSets, TaggedOutputs
      <3>4. /\ FoundOutputs \in Seq(SetId)
            /\ ToSet(FoundOutputs) = {s \in reg.sets : ToSet(Op.out) \subseteq reg.own[s]}
        BY <1>1, <1>3, <3>2, TaggedOutputsFound DEF Found
      <3>5. ToSet(FoundOutputs) \subseteq reg.sets
        BY <3>4
      <3>6. QED
        BY <1>1, <3>3, <3>4, <3>5, TagNothing DEF FlowInv
    <2>3. Keeps(e)
      BY <2>1, <2>2 DEF Keeps
    <2>4. QED
      BY <1>1, <1>2, <1>3, <2>3
  <1>6. CASE Works /\ Next
    <2>1. phase = "node"
      BY <1>6 DEF Works
    <2>2. \/ Still /\ (Initialise \/ Evaluate \/ EvaluateThrows \/ Score \/ Vary)
          \/ \E contents \in Seq(Seq(Mapping)) : Makes(contents)
          \/ Truncate \/ Merge
      BY <1>6, NodeEffect
    <2>3. CASE Still /\ (Initialise \/ Evaluate \/ EvaluateThrows \/ Score \/ Vary)
      <3>1. /\ maps' = maps /\ reg' = reg /\ \A p \in MakersOf(chain) : Of(p)' = Of(p)
        BY <1>1, <2>3, StillOf DEF Still
      <3>2. CASE EvaluateThrows
        <4>1. Op.kind = "evaluate" /\ at' = 1
          BY <3>2 DEF EvaluateThrows
        <4>2. at < e
          BY <1>1, <1>2, <4>1, TurnIs
        <4>3. Keeps(e)
          BY <3>1, <4>1, <4>2 DEF Keeps
        <4>4. QED
          BY <1>1, <1>2, <1>3, <4>3
      <3>3. CASE Initialise \/ Evaluate \/ Score \/ Vary
        <4>1. Op.kind \in {"init", "evaluate", "score", "vary"} /\ Advance
          BY <3>3 DEF Initialise, Evaluate, Score, Vary, Node
        <4>2. at # Len(chain)
          BY <1>1, <1>3, <4>1, PartsIs DEF Op
        <4>3. at' = at + 1
          BY <4>1, <4>2 DEF Advance
        <4>4. Keeps(e)
          BY <3>1, <4>1, <4>3 DEF Keeps
        <4>5. QED
          BY <1>1, <1>2, <1>3, <4>4
      <3>4. QED
        BY <2>3, <3>2, <3>3
    <2>4. CASE \E contents \in Seq(Seq(Mapping)) : Makes(contents)
      <3>1. at' = at + 1
        BY <2>4 DEF Makes
      <3>2. QED
        BY <1>1, <1>2, <1>3, <1>6, <2>1, <2>4, <3>1
    <2>5. CASE Truncate
      <3>1. Op.kind = "truncate" /\ Advance
        BY <2>5 DEF Truncate, Node
      <3>2. at' = at + 1
        BY <1>1, <1>3, <3>1, PartsIs DEF Op, Advance
      <3>3. QED
        BY <1>1, <1>2, <1>3, <2>1, <2>5, <3>2
    <2>6. CASE Merge
      <3>1. Op.kind = "merge" /\ Advance
        BY <2>6 DEF Merge, Node
      <3>2. at' = 1
        BY <1>1, <1>2, <3>1, TurnIs DEF Advance
      <3>3. QED
        BY <1>1, <1>2, <1>3, <2>1, <2>6, <3>2
    <2>7. QED
      BY <2>2, <2>3, <2>4, <2>5, <2>6
  <1>7. CASE StartUnload \/ Destroy
    BY <1>7 DEF StartUnload, Destroy
  <1>8. QED
    BY <1>1, <1>4, <1>5, <1>6, <1>7, StepIs

(* The inputs of an operator are in the order of the tag's list.           *)
Exact == phase = "node" /\ Op.in # <<>> => ins[at] = setsWithTags(reg, Op.in)

LEMMA NextExact ==
    ASSUME FlowInv, Exact, [Next]_vars
    PROVE  Exact'
  <1>1. chain' = chain
    BY StepIs
  <1>2. CASE UNCHANGED <<reg, maps, done, outs, ins, creator, at, phase>>
    BY <1>1, <1>2 DEF Exact, Op
  <1>3. CASE updateSets
    <2>1. at' = at /\ at \in Ops /\ ins \in [Ops -> Seq(SetId)]
      BY <1>3, OpsIs DEF updateSets
    <2>2. Op.in # <<>> => ins'[at] = setsWithTags(reg', Op.in)
      BY <1>3, <2>1 DEF updateSets
    <2>3. QED
      BY <1>1, <2>1, <2>2 DEF Exact, Op
  <1>4. CASE Works \/ StartUnload \/ Destroy
    BY <1>4 DEF Exact, Works, StartUnload, Destroy
  <1>5. QED
    BY <1>2, <1>3, <1>4, StepIs

(* There is one population, and what was selected came after it.           *)
OneMain    == phase # "gone" => \A s, t \in Of(1) : s = t
Founded(e) == phase # "gone" => (Of(e) # {} => Of(1) # {})

LEMMA MainThere ==
    ASSUME SeenInv, Supply, phase # "gone", NEW e \in Ops, Generation(chain, e), at > 1
    PROVE  Of(1) # {}
  <1>1. Reliable(chain, 1) /\ 1 \in Ops
    BY GenerationWires, PartsIs DEF SeenInv
  <1>2. PICK s \in reg.sets : MadeBy(s, 1)
    BY <1>1 DEF Supply
  <1>3. QED
    BY <1>2 DEF MadeBy, Of

LEMMA OneEntry ==
    ASSUME NEW E, NEW q \in Seq(E), Len(q) = 1
    PROVE  DOMAIN q = {1} /\ ToSet(q) = {q[1]} /\ q[1] \in E /\ q = <<q[1]>>
  <1>1. DOMAIN q = {1}
    OBVIOUS
  <1>2. q[1] \in E
    BY <1>1
  <1>3. q = <<q[1]>>
    <2> DEFINE z == <<q[1]>>
    <2>1. z \in Seq(E) /\ Len(z) = 1 /\ z[1] = q[1]
      BY <1>2
    <2>2. DOMAIN z = {1}
      BY <2>1
    <2>3. q = [i \in {1} |-> q[i]] /\ z = [i \in {1} |-> z[i]]
      <3>1. q = [i \in DOMAIN q |-> q[i]] /\ z = [i \in DOMAIN z |-> z[i]]
        BY <2>1
      <3> HIDE DEF z
      <3>2. QED
        BY <1>1, <2>2, <3>1
    <2> HIDE DEF z
    <2>4. z = q
      BY <2>1, <2>3
    <2>5. QED
      BY <2>4 DEF z
  <1>4. QED
    BY <1>1, <1>2, <1>3 DEF ToSet

LEMMA OnlyEntry ==
    ASSUME NEW E, NEW q \in Seq(E), Len(q) > 0, IsInjective(q),
           \A i, j \in DOMAIN q : q[i] = q[j]
    PROVE  Len(q) = 1
  <1>1. Len(q) \in Nat /\ DOMAIN q = 1 .. Len(q)
    OBVIOUS
  <1>2. 1 \in DOMAIN q /\ Len(q) \in DOMAIN q
    BY <1>1
  <1>3. q[1] = q[Len(q)]
    BY <1>2
  <1>4. QED
    BY <1>2, <1>3 DEF IsInjective

LEMMA NextOneMain ==
    ASSUME SeenInv, Supply, NEW e \in Ops, Generation(chain, e), Typed, Sized, [Next]_vars,
           OneMain, Founded(e)
    PROVE  OneMain' /\ Founded(e)'
  <1> SUFFICES ASSUME phase' # "gone"
               PROVE  (\A s, t \in Of(1)' : s = t) /\ (Of(e)' # {} => Of(1)' # {})
    BY DEF OneMain, Founded
  <1>1. chain' = chain /\ phase # "gone" /\ FlowInv /\ 1 \in MakersOf(chain) /\ e \in MakersOf(chain)
        /\ e # 1 /\ at \in Nat /\ e \in Nat /\ 1 < e
    BY StepOf, PartsIs DEF SeenInv
  <1>2. (\A s, t \in Of(1) : s = t) /\ (Of(e) # {} => Of(1) # {})
    BY <1>1 DEF OneMain, Founded
  <1>3. CASE Keeps(e)
    BY <1>1, <1>2, <1>3 DEF Keeps
  <1>4. ASSUME NEW contents \in Seq(Seq(Mapping)), Makes(contents), phase = "node"
        PROVE  (\A s, t \in Of(1)' : s = t) /\ (Of(e)' # {} => Of(1)' # {})
    <2>1. PICK a \in MakersOf(chain) : a = at
      BY <1>4 DEF Makes
    <2>2. PICK new : Fills(new, contents)
      BY <1>4 DEF Makes
    <2>3. /\ Of(a)' = ToSet(new) /\ new \in Seq(SetId) /\ Len(new) = Len(contents)
          /\ \A p \in MakersOf(chain) \ {a} : Of(p)' = Of(p)
      BY <1>1, <1>4, <2>1, <2>2, MakesOf
    <2>4. CASE a = 1
      <3>1. PICK c : contents = <<c>>
        BY <1>4, <2>1, <2>4 DEF Makes
      <3>2. Of(1)' = {new[1]}
        BY <2>3, <2>4, <3>1, OneEntry
      <3>3. QED
        BY <3>2
    <2>5. CASE a # 1
      <3>1. a > 1
        BY <1>1, <2>1, <2>5, PartsIs, OpsIs
      <3>2. Of(1) # {} /\ Of(1)' = Of(1)
        BY <1>1, <2>1, <2>3, <2>5, <3>1, MainThere
      <3>3. QED
        BY <1>2, <3>2
    <2>6. QED
      BY <2>4, <2>5
  <1>5. CASE phase = "node" /\ Truncate
    BY <1>1, <1>2, <1>5, TruncateOf DEF Typed
  <1>6. CASE phase = "node" /\ Merge
    BY <1>1, <1>2, <1>6, MergeOf DEF Typed
  <1>7. QED
    BY <1>3, <1>4, <1>5, <1>6, StepOf

-----------------------------------------------------------------------------
(* What a selection makes: one list of some of the solutions it reads.     *)
SelectsOf(c) ==
    /\ c \in Seq(Mapping)
    /\ Op.kind = "elite" => /\ Len(c) = (Len(FlattenSeq(Inputs)) + 1) \div 2
                            /\ Apart(Inputs) => IsInjective(c)
    /\ Op.kind = "reduce" => /\ Apart(Inputs) => IsInjective(c)
                             /\ \E x : ToSet(FlattenSeq(Inputs)) \ {x} \subseteq ToSet(c)
    /\ Op.kind = "pool" => Len(c) = PopSize

LEMMA SelectMakes ==
    ASSUME SeenInv, Supply, NEW e \in Ops, Generation(chain, e), Typed, Sized, Works, Next,
           Exact, OneMain, phase = "node", at = e, at' = at + 1
    PROVE  \E new, c : SelectsOf(c) /\ Fills(new, <<c>>)
  <1>1. /\ FlowInv /\ at \in Ops /\ Listing /\ at > 1 /\ at' > 1 /\ Op.kind \in Selecting
        /\ 1 \in MakersOf(chain)
    BY PartsIs DEF SeenInv, Typed, Op
  <1>2. ins[at] \in Seq(SetId) /\ Len(ins[at]) > 0
    BY <1>1, GenerationWires, SuppliedReads
  <1>3. ins[at] # <<>>
    BY <1>2
  <1>4. CASE Op.kind = "elite"
    <2>1. Elite
      BY <1>1, <1>4, CameFrom
    <2>2. QED
      BY <1>1, <1>4, <2>1, EliteMakes DEF SelectsOf
  <1>5. CASE Op.kind = "reduce"
    <2>1. Reduce
      BY <1>1, <1>5, CameFrom
    <2>2. QED
      BY <1>1, <1>3, <1>5, <2>1, ReduceMakes DEF SelectsOf
  <1>6. CASE Op.kind = "pool"
    <2>1. Pool
      BY <1>1, <1>6, CameFrom
    <2>2. Reads(chain, e, 1)
      BY <1>6 DEF Generation, Op
    <2>3. ToSet(ins[at]) = UNION {Of(p) : p \in {1}}
      BY <1>1, <2>2, FoundOf DEF Reads, Op
    <2>4. ToSet(ins[at]) = Of(1)
      BY <2>3
    <2>5. \A i \in DOMAIN ins[at] : Len(Inputs[i]) = PopSize
      BY <1>1, <2>4, InputsIs DEF Sized
    <2>6. IsInjective(ins[at])
      <3>1. Op.in # <<>> /\ ins[at] = setsWithTags(reg, Op.in)
        BY <2>2 DEF Reads, Exact, Op
      <3>2. Op.in \in Seq(Tag) /\ Sound(reg)
        BY <1>1, ChainIs DEF FlowInv, Op
      <3>3. QED
        BY <3>1, <3>2, FoundIs
    <2>7. Len(ins[at]) = 1
      <3>1. 1 \in DOMAIN ins[at] /\ Len(ins[at]) \in Nat /\ DOMAIN ins[at] = 1 .. Len(ins[at])
        BY <1>2
      <3>2. \A i, j \in DOMAIN ins[at] : ins[at][i] = ins[at][j]
        BY <1>1, <2>4, InputsIs DEF OneMain
      <3>3. QED
        BY <1>2, <2>6, <3>2, OnlyEntry
    <2>8. PICK new, q : /\ q \in Seq(Seq(Mapping)) /\ Len(q) = 1
                        /\ \A i \in DOMAIN q : Len(q[i]) = PopSize
                        /\ Fills(new, q)
      BY <1>1, <2>1, <2>5, <2>7, PoolMakes
    <2>9. q = <<q[1]>> /\ q[1] \in Seq(Mapping) /\ Len(q[1]) = PopSize
      <3> DEFINE T == Seq(Mapping)
      <3>1. q \in Seq(T)
        BY <2>8
      <3> HIDE DEF T
      <3>2. q = <<q[1]>> /\ q[1] \in T /\ 1 \in DOMAIN q
        BY <2>8, <3>1, OneEntry
      <3>3. QED
        BY <2>8, <3>2 DEF T
    <2>10. SelectsOf(q[1]) /\ Fills(new, <<q[1]>>)
      BY <1>6, <2>8, <2>9 DEF SelectsOf
    <2>11. QED
      BY <2>10
  <1>7. QED
    BY <1>1, <1>4, <1>5, <1>6 DEF Selecting

(* What was selected is one set, and of what the merge reads it comes      *)
(* first: the tag's list holds it from before the bred sets.               *)
Single(e) == phase # "gone" /\ at > e => \E s : Of(e) = {s}

Merged == setsWithTags(reg, chain[Len(chain)].in)

Ordered(e) ==
    phase # "gone" /\ at > e + 1 /\ chain[e].kind # "pool"
      => Merged # <<>> /\ Merged[1] \in Of(e)

LEMMA NextSingle ==
    ASSUME SeenInv, Supply, NEW e \in Ops, Generation(chain, e), Typed, Sized, [Next]_vars,
           Exact, OneMain, Single(e)
    PROVE  Single(e)'
  <1> SUFFICES ASSUME phase' # "gone", at' > e
               PROVE  \E s : Of(e)' = {s}
    BY DEF Single
  <1>1. /\ chain' = chain /\ phase # "gone" /\ FlowInv /\ e \in MakersOf(chain)
        /\ at \in Nat /\ e \in Nat /\ 1 < e
    BY StepOf, PartsIs DEF SeenInv
  <1>2. at > e => \E s : Of(e) = {s}
    BY <1>1 DEF Single
  <1>3. CASE Keeps(e)
    <2>1. at > e
      <3>1. at # e
        <4>1. at = e => Op.kind \in Selecting
          BY <1>1, PartsIs DEF Op
        <4>2. at = e => at' = at
          BY <1>1, <1>3, <4>1 DEF Keeps, Selecting
        <4>3. QED
          BY <1>1, <4>2
      <3>2. QED
        BY <1>1, <1>3, <3>1 DEF Keeps
    <2>2. Of(e)' = Of(e)
      BY <1>1, <1>3 DEF Keeps
    <2>3. QED
      BY <1>2, <2>1, <2>2
  <1>4. ASSUME NEW contents \in Seq(Seq(Mapping)), Makes(contents), phase = "node", Works, Next
        PROVE  \E s : Of(e)' = {s}
    <2>1. at \in MakersOf(chain) /\ at' = at + 1
      BY <1>4 DEF Makes
    <2>2. CASE at = e
      <3>1. PICK new, c : SelectsOf(c) /\ Fills(new, <<c>>)
        BY <1>1, <1>4, <2>1, <2>2, SelectMakes
      <3>2. <<c>> \in Seq(Seq(Mapping)) /\ Len(<<c>>) = 1
        BY <3>1 DEF SelectsOf
      <3>3. Of(e)' = ToSet(new) /\ new \in Seq(SetId) /\ Len(new) = 1
        BY <1>1, <1>4, <2>2, <3>1, <3>2, MakesOf
      <3>4. ToSet(new) = {new[1]}
        BY <3>3, OneEntry
      <3>5. QED
        BY <3>3, <3>4
    <2>3. CASE at # e
      <3>1. PICK a \in MakersOf(chain) : a = at
        BY <2>1
      <3>2. PICK new : Fills(new, contents)
        BY <1>4 DEF Makes
      <3>3. Of(e)' = Of(e)
        BY <1>1, <1>4, <2>3, <3>1, <3>2, MakesOf
      <3>4. at > e
        BY <1>1, <2>1, <2>3
      <3>5. QED
        BY <1>2, <3>3, <3>4
    <2>4. QED
      BY <2>2, <2>3
  <1>5. CASE phase = "node" /\ Truncate /\ at' = at + 1
    <2>1. Of(e)' = Of(e) /\ e + 1 < at
      BY <1>1, <1>5, TruncateOf DEF Typed
    <2>2. QED
      BY <1>1, <1>2, <2>1
  <1>6. CASE phase = "node" /\ Merge /\ at' = 1
    BY <1>1, <1>6
  <1>7. QED
    BY <1>3, <1>4, <1>5, <1>6, StepOf

\* the sets that the merge reads
LEMMA MergedIs ==
    ASSUME SeenInv, phase # "gone", NEW e \in Ops, Generation(chain, e), chain[e].kind # "pool"
    PROVE  LET T == ToSet(chain[Len(chain)].in) IN
           /\ chain[Len(chain)].in \in Seq(Tag) /\ chain[Len(chain)].in # <<>>
           /\ {s \in reg.sets : T \subseteq reg.own[s]} = Of(e) \cup Of(e + 1)
           /\ T \subseteq Out(chain, e) /\ T \subseteq Out(chain, e + 1)
  <1> DEFINE in == chain[Len(chain)].in
  <1>1. FlowInv /\ e + 1 \in MakersOf(chain) /\ e \in MakersOf(chain) /\ Len(chain) \in Ops
    BY PartsIs DEF SeenInv, Ops
  <1>2. in \in Seq(Tag)
    BY <1>1, ChainIs DEF FlowInv
  <1>3. in # <<>> /\ Names(chain, ToSet(in), {e, e + 1})
    BY DEF Generation, In
  <1>4. {s \in reg.sets : ToSet(in) \subseteq reg.own[s]} = UNION {Of(p) : p \in {e, e + 1}}
    BY <1>1, <1>3, NamedIs
  <1>5. UNION {Of(p) : p \in {e, e + 1}} = Of(e) \cup Of(e + 1)
    OBVIOUS
  <1>6. QED
    BY <1>2, <1>3, <1>4, <1>5 DEF Names

LEMMA FirstListed ==
    ASSUME NEW r, Sound(r), NEW tags \in Seq(Tag), tags # <<>>, NEW q \in Seq(SetId), NEW n \in Seq(SetId),
           r.index[Head(tags)] = q \o n,
           NEW s \in r.sets, ToSet(tags) \subseteq r.own[s], s \notin ToSet(n)
    PROVE  setsWithTags(r, tags) # <<>> /\ setsWithTags(r, tags)[1] \in ToSet(q)
  <1> DEFINE S == {x \in SetId : \A t \in ToSet(tags) : x \in ToSet(r.index[t])}
  <1>1. setsWithTags(r, tags) = Listed(q \o n, S)
    BY DEF setsWithTags
  <1>2. Head(tags) \in ToSet(tags) /\ ToSet(tags) \subseteq Tag
    <2>1. tags[1] \in ToSet(tags) /\ Head(tags) = tags[1]
      BY DEF ToSet
    <2>2. QED
      BY <2>1 DEF ToSet
  <1>3. s \in SetId /\ \A t \in ToSet(tags) : s \in ToSet(r.index[t])
    BY <1>2, RegistryIs DEF Sound, Agree
  <1>4. ToSet(q \o n) = ToSet(q) \cup ToSet(n)
    BY ConcatIs
  <1>5. s \in ToSet(q) \cap S
    BY <1>2, <1>3, <1>4
  <1> HIDE DEF S
  <1>6. Listed(q \o n, S) # <<>> /\ Listed(q \o n, S)[1] \in ToSet(q)
    BY <1>5, ListedFirst
  <1>7. QED
    BY <1>1, <1>6

LEMMA NextOrdered ==
    ASSUME SeenInv, Supply, NEW e \in Ops, Generation(chain, e), Typed, Sized, [Next]_vars,
           Single(e), Ordered(e)
    PROVE  Ordered(e)'
  <1>2. SUFFICES ASSUME phase' # "gone", at' > e + 1, chain'[e].kind # "pool"
                 PROVE  Merged' # <<>> /\ Merged'[1] \in Of(e)'
    BY DEF Ordered
  <1>3. /\ chain' = chain /\ phase # "gone" /\ FlowInv /\ e \in MakersOf(chain) /\ e + 1 \in MakersOf(chain)
        /\ at \in Nat /\ e \in Nat /\ 1 < e /\ chain[e].kind # "pool"
    BY <1>2, StepOf, PartsIs DEF SeenInv
  <1>4. at > e + 1 => Merged # <<>> /\ Merged[1] \in Of(e)
    BY <1>3 DEF Ordered
  <1>5. reg' = reg => Merged' = Merged /\ Of(e)' = Of(e)
    BY <1>3 DEF Merged, Of
  <1>6. CASE Keeps(e)
    <2>1. at > e + 1
      <3>1. at = e + 1 => Op.kind \in Breeding
        BY <1>3, PartsIs DEF Op
      <3>2. at = e + 1 => at' = at \/ at' = 1
        BY <1>6, <3>1 DEF Keeps, Breeding
      <3>3. at = e + 1 => FALSE
        BY <1>2, <1>3, <3>2
      <3>4. at' = at \/ at' = 1 \/ at' = at + 1
        BY <1>6 DEF Keeps
      <3>5. QED
        BY <1>2, <1>3, <3>3, <3>4
    <2>2. reg' = reg
      BY <1>3, <1>6, <2>1 DEF Keeps
    <2>3. QED
      BY <1>4, <1>5, <2>1, <2>2
  <1>7. ASSUME NEW contents \in Seq(Seq(Mapping)), Makes(contents), phase = "node"
        PROVE  Merged' # <<>> /\ Merged'[1] \in Of(e)'
    <2>1. at \in MakersOf(chain) /\ at' = at + 1
      BY <1>7 DEF Makes
    <2>2. at = e + 1
      BY <1>2, <1>3, <2>1, PartsIs
    <2>3. PICK a \in MakersOf(chain) : a = at
      BY <2>1
    <2>4. PICK new : Fills(new, contents)
      BY <1>7 DEF Makes
    <2>5. Of(e)' = Of(e) /\ Of(a)' = ToSet(new) /\ Of(e) \cap ToSet(new) = {}
      BY <1>3, <1>7, <2>2, <2>3, <2>4, MakesOf
    <2>6. PICK s : Of(e) = {s}
      <3>1. at > e
        BY <1>3, <2>2
      <3>2. QED
        BY ONLY <1>3, <3>1, Single(e) DEF Single
    <2> DEFINE in == chain[Len(chain)].in
    <2>7. /\ in \in Seq(Tag) /\ in # <<>> /\ ToSet(in) \subseteq Out(chain, e) /\ ToSet(in) \subseteq Out(chain, a)
          /\ \A z \in reg.sets : ToSet(in) \subseteq reg.own[z] => z \in Of(e) \cup Of(a)
      BY <1>3, <2>2, <2>3, MergedIs
    <2> HIDE DEF in
    <2>8. Head(in) \in ToSet(Op.out)
      <3>1. in[1] \in ToSet(in) /\ Head(in) = in[1]
        BY <2>7 DEF ToSet
      <3>2. QED
        BY <2>3, <2>7, <3>1 DEF Out, Op
    <2>9. Remade(new)
      BY <2>4 DEF Fills
    <2>10. PICK q \in Seq(SetId) : ToSet(q) \cap ToSet(new) = {} /\ reg'.index[Head(in)] = q \o new
      BY <2>8, <2>9 DEF Remade
    <2>11. Sound(reg') /\ new \in Seq(SetId)
      BY <2>9 DEF Remade
    <2>12. s \in reg'.sets /\ ToSet(in) \subseteq reg'.own[s] /\ s \notin ToSet(new)
      <3>1. s \in Of(e)'
        BY <2>5, <2>6
      <3>2. s \in reg'.sets /\ Out(chain, e) \subseteq reg'.own[s]
        BY <1>3, <3>1 DEF Of
      <3>3. QED
        BY <2>5, <2>6, <2>7, <3>2
    <2> DEFINE f == setsWithTags(reg', in)
    <2>13. f # <<>> /\ f[1] \in ToSet(q)
      BY <2>7, <2>10, <2>11, <2>12, FirstListed
    <2>14. f \in Seq(SetId) /\ ToSet(f) = {z \in reg'.sets : ToSet(in) \subseteq reg'.own[z]}
      BY <2>7, <2>11, FoundIs
    <2>15. f[1] \in ToSet(f)
      BY <2>13, <2>14 DEF ToSet
    <2>16. f[1] \in Of(e)
      <3>1. f[1] \in reg'.sets /\ ToSet(in) \subseteq reg'.own[f[1]] /\ f[1] \notin ToSet(new)
        BY <2>10, <2>13, <2>14, <2>15
      <3> DEFINE z == f[1]
      <3> HIDE DEF z
      <3>2. z \in reg'.sets /\ ToSet(in) \subseteq reg'.own[z] /\ z \notin ToSet(new)
        BY <3>1 DEF z
      <3>3. z \in reg.sets /\ reg'.own[z] = reg.own[z] /\ z \notin ToSet(outs[at])
        BY <2>9, <3>2 DEF Remade
      <3>4. z \notin Of(a)
        BY <1>7, <2>3, <3>3, FoundOf
      <3>5. z \in Of(e)
        BY <2>7, <3>2, <3>3, <3>4
      <3>6. QED
        BY <3>5 DEF z
    <2>17. Merged' = f
      BY <1>3 DEF Merged, in
    <2>18. QED
      BY <2>5, <2>13, <2>16, <2>17
  <1>8. CASE phase = "node" /\ Truncate /\ at' = at + 1
    <2>1. reg' = reg
      BY <1>8 DEF Truncate, Become
    <2>2. e + 1 < at
      BY <1>3, <1>8, TruncateOf DEF Typed
    <2>3. QED
      BY <1>3, <1>4, <1>5, <2>1, <2>2
  <1>9. CASE phase = "node" /\ Merge /\ at' = 1
    BY <1>2, <1>3, <1>9
  <1>10. QED
    BY <1>2, <1>6, <1>7, <1>8, <1>9, StepOf

(* From the selection to the end of the merge, and through the next        *)
(* generation up to the selection, the population holds the elites.        *)
Survive(e) ==
    phase # "gone" /\ at <= e /\ chain[e].kind # "pool"
      => \A s \in Of(e), p \in Of(1) : Len(maps[s]) < PopSize => ToSet(maps[s]) \subseteq ToSet(maps[p])

\* a merge writes the first list it reads
LEMMA FirstMerged ==
    ASSUME NEW E, NEW q \in Seq(Seq(E)), q # <<>>, NEW x \in Seq(E),
           Len(q[1]) < Len(x)
    PROVE  ToSet(q[1]) \subseteq ToSet([i \in DOMAIN x |-> IF i <= Len(FlattenSeq(q)) THEN FlattenSeq(q)[i] ELSE x[i]])
  <1> DEFINE next == FlattenSeq(q)
             z == [i \in DOMAIN x |-> IF i <= Len(next) THEN next[i] ELSE x[i]]
             f == q[1]
  <1>1. f \in Seq(E)
    <2> DEFINE T == Seq(E)
    <2>1. q \in Seq(T)
      OBVIOUS
    <2> HIDE DEF T, f
    <2>2. q[1] \in T
      BY <2>1
    <2>3. QED
      BY <2>2 DEF T, f
  <1>2. next \in Seq(E) /\ Len(f) <= Len(next) /\ \A i \in 1 .. Len(f) : next[i] = f[i]
    BY FlattenIs
  <1>3. Len(f) \in Nat /\ DOMAIN f = 1 .. Len(f) /\ Len(x) \in Nat /\ DOMAIN x = 1 .. Len(x) /\ Len(next) \in Nat
    BY <1>1, <1>2
  <1>4. Len(f) < Len(x)
    OBVIOUS
  <1> HIDE DEF next, f
  <1>5. \A i \in 1 .. Len(f) : i \in DOMAIN x /\ i <= Len(next)
    BY <1>2, <1>3, <1>4
  <1>6. \A i \in 1 .. Len(f) : i \in DOMAIN z /\ z[i] = f[i]
    BY <1>2, <1>5
  <1> HIDE DEF z
  <1>7. ToSet(f) \subseteq ToSet(z)
    BY <1>3, <1>6 DEF ToSet
  <1>8. QED
    BY <1>7 DEF f, z, next

LEMMA NextSurvive ==
    ASSUME SeenInv, Supply, NEW e \in Ops, Generation(chain, e), Typed, Sized, [Next]_vars,
           Exact, OneMain, Founded(e), Single(e), Ordered(e), Survive(e)
    PROVE  Survive(e)'
  <1>1. SUFFICES ASSUME phase' # "gone", at' <= e, chain'[e].kind # "pool"
                 PROVE  \A s \in Of(e)', p \in Of(1)' :
                          Len(maps'[s]) < PopSize => ToSet(maps'[s]) \subseteq ToSet(maps'[p])
    BY DEF Survive
  <1>2. /\ chain' = chain /\ phase # "gone" /\ FlowInv /\ e \in MakersOf(chain) /\ 1 \in MakersOf(chain)
        /\ at \in Nat /\ e \in Nat /\ 1 < e /\ e + 1 < Len(chain) /\ Len(chain) \in Nat
        /\ chain[e].kind # "pool"
    BY <1>1, StepOf, PartsIs DEF SeenInv
  <1>3. at <= e => \A s \in Of(e), p \in Of(1) :
                     Len(maps[s]) < PopSize => ToSet(maps[s]) \subseteq ToSet(maps[p])
    BY <1>2 DEF Survive
  <1>4. CASE Keeps(e)
    <2>1. at <= e
      BY <1>1, <1>2, <1>4 DEF Keeps
    <2>2. Of(e)' = Of(e) /\ Of(1)' = Of(1) /\ maps' = maps
      BY <1>2, <1>4 DEF Keeps
    <2>3. QED
      BY <1>3, <2>1, <2>2
  <1>5. ASSUME NEW contents \in Seq(Seq(Mapping)), Makes(contents), phase = "node"
        PROVE  \A s \in Of(e)', p \in Of(1)' :
                 Len(maps'[s]) < PopSize => ToSet(maps'[s]) \subseteq ToSet(maps'[p])
    <2>1. at \in MakersOf(chain) /\ at' = at + 1
      BY <1>5 DEF Makes
    <2>2. at < e
      BY <1>1, <1>2, <2>1
    <2>3. PICK a \in MakersOf(chain) : a = at
      BY <2>1
    <2>4. PICK new : Fills(new, contents)
      BY <1>5 DEF Makes
    <2>5. \A p \in MakersOf(chain) \ {a} : Of(p)' = Of(p) /\ \A s \in Of(p) : maps'[s] = maps[s]
      BY <1>2, <1>5, <2>3, <2>4, MakesOf
    <2>6. Of(e)' = Of(e) /\ \A s \in Of(e) : maps'[s] = maps[s]
      BY <1>2, <2>2, <2>3, <2>5
    <2>7. CASE a = 1
      <3>1. outs[at] = <<>>
        BY <1>5, <2>3, <2>7 DEF Makes
      <3>2. ToSet(outs[at]) = Of(1)
        BY <1>5, <2>3, <2>7, FoundOf
      <3>3. ToSet(outs[at]) = {}
        BY <3>1 DEF ToSet
      <3>4. Of(e) = {}
        BY <1>2, <3>2, <3>3 DEF Founded
      <3>5. QED
        BY <2>6, <3>4
    <2>8. CASE a # 1
      <3>1. Of(1)' = Of(1) /\ \A s \in Of(1) : maps'[s] = maps[s]
        BY <1>2, <2>5, <2>8
      <3>2. at <= e
        BY <1>2, <2>2
      <3>3. QED
        BY <1>3, <2>6, <3>1, <3>2
    <2>9. QED
      BY <2>7, <2>8
  <1>6. CASE phase = "node" /\ Truncate /\ at' = at + 1
    <2>1. e + 1 < at
      BY <1>2, <1>6, TruncateOf DEF Typed
    <2>2. QED
      BY <1>1, <1>2, <1>6, <2>1
  <1>7. CASE phase = "node" /\ Merge /\ at' = 1
    <2>1. /\ at = Len(chain) /\ at \in Ops
          /\ Of(e)' = Of(e) /\ Of(1)' = Of(1)
          /\ outs[at][1] \in Of(1)
          /\ \A s \in reg.sets : s = outs[at][1]
               => maps'[s] = [i \in DOMAIN maps[s] |-> IF i <= Len(FlattenSeq(Inputs))
                                                      THEN FlattenSeq(Inputs)[i] ELSE maps[s][i]]
          /\ \A s \in Of(e) : maps'[s] = maps[s]
      BY <1>2, <1>7, MergeOf DEF Typed
    <2>2. /\ Op.in # <<>> /\ ins[at] = Merged /\ Merged # <<>> /\ Merged[1] \in Of(e)
      <3>1. at > e + 1 /\ Op = chain[Len(chain)]
        BY <1>2, <2>1 DEF Op
      <3>2. Merged # <<>> /\ Merged[1] \in Of(e)
        BY <1>2, <3>1 DEF Ordered
      <3>3. Op.in # <<>>
        BY <3>1 DEF Generation
      <3>4. QED
        BY <1>7, <3>1, <3>2, <3>3 DEF Exact, Merged
    <2>3. SUFFICES ASSUME NEW s \in Of(e), NEW p \in Of(1), Len(maps[s]) < PopSize
                   PROVE  ToSet(maps[s]) \subseteq ToSet(maps'[p])
      BY <2>1
    <2>4. p = outs[at][1] /\ p \in reg.sets
      BY <1>2, <2>1 DEF OneMain, Of
    <2>5. /\ ins[at] \in Seq(SetId) /\ Inputs \in Seq(Seq(Mapping)) /\ Len(Inputs) = Len(ins[at])
          /\ \A i \in DOMAIN ins[at] : Inputs[i] = maps[ins[at][i]]
      BY <1>2, <2>1, InputsIs DEF Typed
    <2>6. ins[at][1] = s /\ 1 \in DOMAIN ins[at]
      <3>1. \E z : Of(e) = {z}
        <4>1. at > e
          BY <1>2, <2>1
        <4>2. QED
          BY ONLY <1>2, <4>1, Single(e) DEF Single
      <3>2. ins[at][1] = s
        BY <2>2, <3>1
      <3>3. 1 \in DOMAIN ins[at]
        BY <2>2, <2>5
      <3>4. QED
        BY <3>2, <3>3
    <2>7. Inputs # <<>> /\ Inputs[1] = maps[s]
      BY <2>5, <2>6
    <2>8. Len(maps[p]) = PopSize /\ maps[p] \in Seq(Mapping)
      <3>1. p \in SetId
        BY <1>2, <2>4, OpsIs
      <3>2. QED
        BY <1>2, <3>1 DEF Sized, Typed, Listing
    <2> DEFINE x == maps[p]
               y == Inputs
    <2>9. maps'[p] = [i \in DOMAIN x |-> IF i <= Len(FlattenSeq(y)) THEN FlattenSeq(y)[i] ELSE x[i]]
      BY <2>1, <2>4
    <2>10. /\ x \in Seq(Mapping) /\ y \in Seq(Seq(Mapping)) /\ y # <<>> /\ y[1] = maps[s]
           /\ Len(y[1]) < Len(x)
      BY <2>3, <2>5, <2>7, <2>8
    <2> HIDE DEF x, y
    <2>11. ToSet(y[1]) \subseteq ToSet(maps'[p])
      BY <2>9, <2>10, FirstMerged
    <2>12. QED
      BY <2>10, <2>11
  <1>8. QED
    BY <1>1, <1>4, <1>5, <1>6, <1>7, StepOf

Lineage == \A e \in Ops : Generation(chain, e) => Founded(e) /\ Single(e) /\ Ordered(e) /\ Survive(e)
KinInv  == Exact /\ OneMain /\ OwnOuts /\ Lineage

LEMMA InitKin ==
    ASSUME Init
    PROVE  KinInv
  <1>1. reg.sets = {} /\ phase = "update" /\ at = 1 /\ outs = [o \in Ops |-> <<>>]
    BY DEF Init, EmptyRegistry
  <1>2. \A p : Of(p) = {}
    BY <1>1 DEF Of
  <1>3. Exact /\ OneMain
    BY <1>1, <1>2 DEF Exact, OneMain
  <1>4. OwnOuts
    <2>1. \A o \in Ops : ToSet(outs[o]) = {}
      BY <1>1 DEF ToSet
    <2>2. Selectors \subseteq Ops
      BY DEF Selectors
    <2>3. QED
      BY <2>1, <2>2 DEF OwnOuts
  <1>5. ASSUME NEW e \in Ops, Generation(chain, e)
        PROVE  Founded(e) /\ Single(e) /\ Ordered(e) /\ Survive(e)
    <2>1. e > 1 /\ e \in Nat
      <3>1. e > 1
        BY <1>5 DEF Generation
      <3>2. FlowInv
        BY InitFlow
      <3>3. QED
        BY <3>1, <3>2, OpsIs
    <2>2. ~ (at > e) /\ ~ (at > e + 1)
      BY <1>1, <2>1
    <2>3. QED
      BY <1>1, <1>2, <2>2 DEF Founded, Single, Ordered, Survive
  <1>6. QED
    BY <1>3, <1>4, <1>5 DEF KinInv, Lineage

LEMMA NextKin ==
    ASSUME Generating, SeenInv, Supply, Typed, Sized, KinInv, [Next]_vars
    PROVE  KinInv'
  <1>1. PICK g \in Ops : Generation(chain, g)
    BY DEF Generating
  <1>2. chain' = chain /\ Ops' = Ops /\ FlowInv
    BY StepIs DEF SeenInv, Ops
  <1>3. Exact' /\ OneMain' /\ OwnOuts'
    <2>1. Founded(g)
      BY <1>1 DEF KinInv, Lineage
    <2>2. VariesBred(chain)
      BY <1>1, <1>2, GenerationWires
    <2>3. QED
      BY <1>1, <1>2, <2>1, <2>2, NextExact, NextOneMain, NextOwnOuts DEF KinInv
  <1>4. ASSUME NEW e \in Ops, Generation(chain, e)
        PROVE  Founded(e)' /\ Single(e)' /\ Ordered(e)' /\ Survive(e)'
    <2>1. Exact /\ OneMain /\ Founded(e) /\ Single(e) /\ Ordered(e) /\ Survive(e)
      BY <1>4 DEF KinInv, Lineage
    <2>2. QED
      BY <1>4, <2>1, NextOneMain, NextSingle, NextOrdered, NextSurvive
  <1>5. Lineage'
    BY <1>2, <1>4 DEF Lineage
  <1>6. QED
    BY <1>3, <1>5 DEF KinInv

LEMMA KinAlways ==
    ASSUME \A c \in Chains : \E e \in DOMAIN c : Generation(c, e)
    PROVE  Spec => [](SeenInv /\ Supply /\ Typed /\ Sized /\ KinInv)
  <1>1. Init => KinInv
    BY InitKin
  <1>2. SeenInv /\ Supply /\ Typed /\ Sized /\ KinInv /\ [Next]_vars => KinInv'
    <2> SUFFICES ASSUME SeenInv, Supply, Typed, Sized, KinInv, [Next]_vars
                 PROVE  KinInv'
      OBVIOUS
    <2>1. Generating
      BY GeneratingStays DEF SeenInv
    <2>2. QED
      BY <2>1, NextKin
  <1>3. QED
    BY <1>1, <1>2, TypedAlways, PTL DEF Spec

(* Elitism: at the end of a generation, whatever happened in between, the  *)
(* selected solutions are all in the population, although the merge cuts   *)
(* off what does not fit. What was selected is listed first under the      *)
(* merge's tag, because the bred sets are made anew after it; and between  *)
(* the merge and the next selection nothing touches either set, also when  *)
(* an evaluation fails and the generation starts again.                    *)
THEOREM ElitesAlwaysSurvive ==
    ASSUME \A c \in Chains : \E e \in DOMAIN c : Generation(c, e)
    PROVE  Spec => []ElitesSurvive
  <1>1. SeenInv /\ Supply /\ Typed /\ Sized /\ KinInv => ElitesSurvive
    <2> SUFFICES ASSUME SeenInv, KinInv, at = 1, phase = "update",
                        NEW o \in Ops, chain[o].kind \in {"elite", "reduce"},
                        NEW s \in ToSet(outs[o]), NEW p \in MainSets, Len(maps[s]) < PopSize
                 PROVE  ToSet(maps[s]) \subseteq ToSet(maps[p])
      BY DEF ElitesSurvive
    <2>1. FlowInv
      BY DEF SeenInv
    <2>2. PICK e \in Ops : Generation(chain, e)
      BY <2>1, GeneratingStays DEF Generating
    <2>3. o = e
      <3>1. /\ Ops = 1 .. Len(chain) /\ Len(chain) \in Nat /\ e \in Nat
            /\ chain[1].kind = "init" /\ chain[e + 1].kind \in Breeding /\ chain[Len(chain)].kind = "merge"
            /\ 1 < o /\ o < e => chain[o].kind \in {"evaluate", "rank", "score"}
            /\ e + 1 < o /\ o < Len(chain) => chain[o].kind \in {"vary", "truncate"}
        BY <2>1, <2>2, PartsIs
      <3>2. o # 1 /\ o # e + 1 /\ o # Len(chain)
        BY <3>1 DEF Breeding
      <3>3. ~ (1 < o /\ o < e) /\ ~ (e + 1 < o /\ o < Len(chain))
        BY <3>1
      <3>4. QED
        BY <3>1, <3>2, <3>3
    <2>4. s \in Of(e)
      <3>1. o \in Selectors
        BY DEF Selectors, Selecting
      <3>2. QED
        BY <2>3, <3>1 DEF KinInv, OwnOuts, MadeBy, Of
    <2>5. p \in Of(1)
      BY <2>2, MainIs
    <2>6. Survive(e) /\ at <= e
      BY <2>1, <2>2, PartsIs DEF KinInv, Lineage
    <2>7. chain[e].kind # "pool"
      BY <2>3
    <2>8. QED
      BY ONLY <2>4, <2>5, <2>6, <2>7, phase = "update", Len(maps[s]) < PopSize DEF Survive
  <1>2. QED
    BY <1>1, KinAlways, PTL
-----------------------------------------------------------------------------
(* How many solutions there are, and that none is there twice.             *)
Held(S) == UNION {ToSet(maps[s]) : s \in S}

Separate(S) ==
    /\ \A s \in S : IsInjective(maps[s])
    /\ \A s, t \in S : s # t => ToSet(maps[s]) \cap ToSet(maps[t]) = {}

LEMMA NumberIs ==
    ASSUME Places, NEW o \in Ops
    PROVE  chain[o].number \in Nat
  <1> DEFINE T == [kind : {"init", "evaluate", "rank", "score", "elite", "reduce", "pool",
                           "children", "filtered", "vary", "truncate", "merge"},
                   out : Seq(Tag), add : Seq(Tag), in : Seq(Tag), size : Nat, number : Nat]
  <1>1. chain \in Seq(T)
    BY ChainAssumption DEF Places
  <1>2. chain[o] \in T
    <2> HIDE DEF T
    <2>1. QED
      BY ONLY <1>1, o \in Ops DEF Ops
  <1>3. QED
    BY <1>2

\* what is read under tags is read once
LEMMA InputsOnce ==
    ASSUME FlowInv, Exact, phase = "node", at \in Ops, Op.in # <<>>
    PROVE  IsInjective(ins[at])
  <1>1. ins[at] = setsWithTags(reg, Op.in)
    BY DEF Exact
  <1>2. Op.in \in Seq(Tag) /\ Sound(reg)
    BY ChainIs DEF FlowInv, Op
  <1>3. QED
    BY <1>1, <1>2, FoundIs

\* separate inputs make a list without repetitions
LEMMA InputsSeparate ==
    ASSUME FlowInv, at \in Ops, Listing, IsInjective(ins[at]), Separate(ToSet(ins[at]))
    PROVE  LET f == FlattenSeq(Inputs)
               H == Held(ToSet(ins[at]))
           IN /\ Apart(Inputs) /\ f \in Seq(Mapping) /\ IsInjective(f) /\ ToSet(f) = H
              /\ IsFiniteSet(H) /\ Cardinality(H) = Len(f)
  <1> DEFINE f == FlattenSeq(Inputs)
             H == Held(ToSet(ins[at]))
  <1>1. /\ Inputs \in Seq(Seq(Mapping)) /\ DOMAIN Inputs = DOMAIN ins[at]
        /\ \A i \in DOMAIN ins[at] : Inputs[i] = maps[ins[at][i]] /\ ins[at][i] \in ToSet(ins[at])
    BY InputsIs
  <1>2. Apart(Inputs)
    <2> SUFFICES ASSUME NEW i \in DOMAIN ins[at]
                 PROVE  /\ IsInjective(Inputs[i])
                        /\ \A j \in DOMAIN ins[at] \ {i} : ToSet(Inputs[i]) \cap ToSet(Inputs[j]) = {}
      BY <1>1 DEF Apart
    <2>1. \A j \in DOMAIN ins[at] \ {i} : ins[at][i] # ins[at][j]
      BY DEF IsInjective
    <2>2. QED
      BY <1>1, <2>1 DEF Separate
  <1>3. f \in Seq(Mapping) /\ IsInjective(f) /\ ToSet(f) = UNION {ToSet(Inputs[i]) : i \in DOMAIN Inputs}
    BY <1>1, <1>2, FlattenIs
  <1>4. UNION {ToSet(Inputs[i]) : i \in DOMAIN Inputs} = H
    <2>1. \A s \in ToSet(ins[at]) : \E i \in DOMAIN ins[at] : s = ins[at][i]
      BY DEF ToSet
    <2>2. QED
      BY <1>1, <2>1 DEF Held
  <1> HIDE DEF f, H
  <1>5. IsFiniteSet(H) /\ Cardinality(H) = Len(f)
    BY <1>3, <1>4, CountIs
  <1>6. QED
    BY <1>2, <1>3, <1>4, <1>5 DEF f, H

\* the made sets are as separate as their contents
LEMMA FillsSeparate ==
    ASSUME NEW new, NEW q, DOMAIN new = DOMAIN q, IsInjective(new),
           \A i \in DOMAIN new : maps'[new[i]] = q[i], Apart(q)
    PROVE  /\ Separate(ToSet(new))'
           /\ Held(ToSet(new))' = UNION {ToSet(q[i]) : i \in DOMAIN q}
  <1>1. \A s \in ToSet(new) : \E i \in DOMAIN new : s = new[i]
    BY DEF ToSet
  <1>2. \A i \in DOMAIN new : new[i] \in ToSet(new)
    BY DEF ToSet
  <1>3. ASSUME NEW s \in ToSet(new)
        PROVE  IsInjective(maps'[s])
    BY <1>1 DEF Apart
  <1>4. ASSUME NEW s \in ToSet(new), NEW t \in ToSet(new), s # t
        PROVE  ToSet(maps'[s]) \cap ToSet(maps'[t]) = {}
    <2>1. PICK i \in DOMAIN new, j \in DOMAIN new : s = new[i] /\ t = new[j]
      BY <1>1
    <2>2. i # j
      BY <1>4, <2>1
    <2>3. QED
      BY <2>1, <2>2 DEF Apart
  <1>5. Held(ToSet(new))' = UNION {ToSet(maps'[s]) : s \in ToSet(new)}
    BY DEF Held
  <1>6. UNION {ToSet(maps'[s]) : s \in ToSet(new)} = UNION {ToSet(q[i]) : i \in DOMAIN q}
    BY <1>1, <1>2
  <1>7. QED
    BY <1>3, <1>4, <1>5, <1>6 DEF Separate

\* what a step leaves alone stays as separate as it was
LEMMA SameSeparate ==
    ASSUME NEW S, \A s \in S : maps'[s] = maps[s]
    PROVE  (Separate(S) => Separate(S)') /\ Held(S)' = Held(S)
  <1>1. Held(S)' = Held(S)
    <2>1. Held(S)' = UNION {ToSet(maps'[s]) : s \in S}
      BY DEF Held
    <2>2. UNION {ToSet(maps'[s]) : s \in S} = UNION {ToSet(maps[s]) : s \in S}
      OBVIOUS
    <2>3. QED
      BY <2>1, <2>2 DEF Held
  <1>2. Separate(S) => Separate(S)'
    BY DEF Separate
  <1>3. QED
    BY <1>1, <1>2

Distinct == phase # "gone" => \A s \in Of(1) : IsInjective(maps[s])

(* The ranks divide the population among them.                             *)
Parted(e) ==
    phase # "gone" /\ at <= e
      => \A r \in 2 .. e - 1 : Splits(chain, e, r) /\ r < at
           => Separate(Of(r)) /\ \A p \in Of(1) : Held(Of(r)) = ToSet(maps[p])

LEMMA RankParts ==
    ASSUME SeenInv, Supply, NEW e \in Ops, Generation(chain, e), Typed, Sized, Works, Next,
           OneMain, Distinct, NEW a \in MakersOf(chain), a = at, at' = at + 1, 1 < at, at < e,
           Op.kind = "rank"
    PROVE  Separate(Of(a))' /\ \A p \in Of(1)' : Held(Of(a))' = ToSet(maps'[p])
  <1>1. /\ FlowInv /\ at \in Ops /\ Listing /\ 1 \in MakersOf(chain) /\ 1 # a
        /\ chain' = chain /\ phase = "node" /\ at \in Nat /\ e \in Nat /\ a \in Nat
    BY StepIs, PartsIs DEF SeenInv, Typed, Works, vars
  <1>2. Supplied(chain, at) /\ Reads(chain, at, 1)
    <2>1. at \in 2 .. e - 1
      BY <1>1
    <2>2. QED
      BY <1>1, <2>1, GenerationWires DEF Generation, Op
  <1>3. ins[at] \in Seq(SetId) /\ Len(ins[at]) > 0
    BY <1>1, <1>2, SuppliedReads
  <1>4. ins[at][1] \in Of(1)
    <2>1. ToSet(ins[at]) = UNION {Of(p) : p \in {1}}
      BY <1>1, <1>2, FoundOf DEF Reads, Op
    <2>2. ins[at][1] \in ToSet(ins[at])
      BY <1>3 DEF ToSet
    <2>3. QED
      BY <2>1, <2>2
  <1>5. Rank
    BY <1>1, CameFrom
  <1> DEFINE main == maps[ins[at][1]]
  <1>6. IsInjective(main)
    BY <1>1, <1>4 DEF Distinct
  <1>7. PICK new, q : /\ q \in Seq(Seq(Mapping))
                      /\ UNION {ToSet(q[i]) : i \in DOMAIN q} = ToSet(main)
                      /\ Apart(q) /\ Fills(new, q)
    <2>1. ins[at] # <<>>
      BY <1>3
    <2>2. QED
      BY <1>1, <1>5, <1>6, <2>1, RankMakes
  <1>8. /\ Of(a)' = ToSet(new) /\ IsInjective(new) /\ DOMAIN new = DOMAIN q
        /\ \A i \in DOMAIN new : maps'[new[i]] = q[i]
        /\ Of(1)' = Of(1) /\ \A s \in Of(1) : maps'[s] = maps[s]
    BY <1>1, <1>7, MakesOf
  <1>9. /\ Separate(ToSet(new))'
        /\ Held(ToSet(new))' = ToSet(main)
    <2>1. /\ Separate(ToSet(new))'
          /\ Held(ToSet(new))' = UNION {ToSet(q[i]) : i \in DOMAIN q}
      BY <1>7, <1>8, FillsSeparate
    <2> HIDE DEF main
    <2>2. QED
      BY <1>7, <2>1
  <1>10. \A p \in Of(1) : maps'[p] = main
    BY <1>1, <1>4, <1>8 DEF OneMain
  <1>11. Separate(Of(a))' /\ Held(Of(a))' = ToSet(main)
    BY <1>8, <1>9 DEF Separate, Held
  <1>12. QED
    BY <1>8, <1>10, <1>11

LEMMA SeparateSame ==
    ASSUME NEW p, Of(p)' = Of(p), \A s \in Of(p) : maps'[s] = maps[s]
    PROVE  (Separate(Of(p)) => Separate(Of(p))') /\ Held(Of(p))' = Held(Of(p))
  <1> DEFINE S == Of(p)
  <1>1. Held(Of(p))' = UNION {ToSet(maps'[s]) : s \in S}
    BY DEF Held
  <1>2. UNION {ToSet(maps'[s]) : s \in S} = UNION {ToSet(maps[s]) : s \in S}
    OBVIOUS
  <1>3. Held(Of(p))' = Held(Of(p))
    BY <1>1, <1>2 DEF Held
  <1>4. Separate(Of(p)) => Separate(Of(p))'
    BY DEF Separate
  <1>5. QED
    BY <1>3, <1>4

LEMMA NextParted ==
    ASSUME SeenInv, Supply, NEW e \in Ops, Generation(chain, e), Typed, Sized, [Next]_vars,
           OneMain, Distinct, Parted(e)
    PROVE  Parted(e)'
  <1>1. SUFFICES ASSUME phase' # "gone", at' <= e, NEW r \in 2 .. e - 1, Splits(chain', e, r), r < at'
                 PROVE  Separate(Of(r))' /\ \A p \in Of(1)' : Held(Of(r))' = ToSet(maps'[p])
    BY DEF Parted
  <1>2. /\ chain' = chain /\ phase # "gone" /\ FlowInv /\ e \in MakersOf(chain) /\ 1 \in MakersOf(chain)
        /\ at \in Nat /\ e \in Nat /\ r \in Nat /\ 1 < r /\ r < e /\ r # 1
        /\ Ops = DOMAIN chain /\ Ops = 1 .. Len(chain) /\ Len(chain) \in Nat /\ e < Len(chain)
    BY <1>1, StepOf, PartsIs DEF SeenInv
  <1>3. Splits(chain, e, r) /\ chain[r].kind = "rank" /\ r \in Ops
    BY <1>1, <1>2 DEF Splits
  <1>4. r \in MakersOf(chain)
    BY <1>2, <1>3 DEF MakersOf, Making, Replacing
  <1>5. at <= e /\ r < at => Separate(Of(r)) /\ \A p \in Of(1) : Held(Of(r)) = ToSet(maps[p])
    BY <1>2, <1>3 DEF Parted
  <1>6. ASSUME r < at, at <= e, Of(r)' = Of(r), Of(1)' = Of(1),
               \A s \in Of(r) : maps'[s] = maps[s], \A s \in Of(1) : maps'[s] = maps[s]
        PROVE  Separate(Of(r))' /\ \A p \in Of(1)' : Held(Of(r))' = ToSet(maps'[p])
    <2>1. Separate(Of(r))' /\ Held(Of(r))' = Held(Of(r))
      BY <1>5, <1>6, SeparateSame
    <2>2. QED
      BY <1>5, <1>6, <2>1
  <1>7. CASE Keeps(e)
    <2>1. r < at /\ at <= e
      <3>1. at = r => Op.kind = "rank"
        BY <1>3 DEF Op
      <3>2. at' = at \/ at' = 1 \/ (at' = at + 1 /\ Op.kind # "rank")
        BY <1>7 DEF Keeps
      <3>3. QED
        BY <1>1, <1>2, <3>1, <3>2
    <2>2. Of(r)' = Of(r) /\ Of(1)' = Of(1) /\ maps' = maps
      BY <1>2, <1>4, <1>7 DEF Keeps
    <2>3. QED
      BY <1>6, <2>1, <2>2
  <1>8. ASSUME NEW contents \in Seq(Seq(Mapping)), Makes(contents), phase = "node", Works, Next
        PROVE  Separate(Of(r))' /\ \A p \in Of(1)' : Held(Of(r))' = ToSet(maps'[p])
    <2>1. at \in MakersOf(chain) /\ at' = at + 1
      BY <1>8 DEF Makes
    <2>2. r <= at /\ at < e
      BY <1>1, <1>2, <2>1
    <2>3. CASE at = r
      <3>1. Op.kind = "rank"
        BY <1>3, <2>3 DEF Op
      <3>2. QED
        BY <1>2, <1>4, <1>8, <2>1, <2>2, <2>3, <3>1, RankParts
    <2>4. CASE at # r
      <3>1. at \in r + 1 .. e - 1
        BY <1>2, <2>2, <2>4
      <3>2. chain[at].kind = "score"
        BY <1>3, <3>1 DEF Splits
      <3>3. QED
        BY <2>1, <3>2 DEF MakersOf, Making, Replacing, Selecting, Breeding
    <2>5. QED
      BY <2>3, <2>4
  <1>9. CASE phase = "node" /\ Truncate /\ at' = at + 1
    <2>1. e + 1 < at
      BY <1>2, <1>9, TruncateOf DEF Typed
    <2>2. QED
      BY <1>1, <1>2, <1>9, <2>1
  <1>10. CASE phase = "node" /\ Merge /\ at' = 1
    BY <1>1, <1>2, <1>10
  <1>11. \/ Keeps(e)
         \/ Works /\ Next /\ phase = "node" /\ \E contents \in Seq(Seq(Mapping)) : Makes(contents)
         \/ phase = "node" /\ Truncate /\ at' = at + 1
         \/ phase = "node" /\ Merge /\ at' = 1
    BY <1>1, StepOf
  <1>12. CASE Works /\ Next /\ phase = "node" /\ \E contents \in Seq(Seq(Mapping)) : Makes(contents)
    BY <1>8, <1>12
  <1>13. QED
    BY <1>7, <1>9, <1>10, <1>11, <1>12

\* a selection reads the whole population, every solution once
LEMMA SelectReads ==
    ASSUME SeenInv, Supply, NEW e \in Ops, Generation(chain, e), Typed, Sized, phase = "node", at = e,
           Exact, OneMain, Distinct, Parted(e), chain[e].kind # "pool"
    PROVE  LET f == FlattenSeq(Inputs) IN
           /\ Apart(Inputs) /\ f \in Seq(Mapping) /\ IsInjective(f) /\ Len(f) = PopSize
  <1> DEFINE f == FlattenSeq(Inputs)
  <1>1. /\ FlowInv /\ at \in Ops /\ Listing /\ at > 1 /\ e \in Nat /\ Ops = DOMAIN chain
        /\ Ops = 1 .. Len(chain) /\ Len(chain) \in Nat /\ e < Len(chain) /\ 1 \in MakersOf(chain)
    BY PartsIs DEF SeenInv, Typed
  <1>2. PICK r \in 2 .. e - 1 : Splits(chain, e, r)
    BY <1>1, GenerationWires
  <1>3. r \in MakersOf(chain) /\ Reads(chain, e, r) /\ r < at
    <2>1. r \in DOMAIN chain
      BY <1>1
    <2>2. QED
      BY <1>1, <1>2, <2>1 DEF Splits, MakersOf, Making, Replacing
  <1>4. PICK p : p \in Of(1)
    BY <1>1, MainThere
  <1>5. Separate(Of(r)) /\ Held(Of(r)) = ToSet(maps[p])
    BY <1>1, <1>2, <1>3, <1>4 DEF Parted
  <1>6. ToSet(ins[at]) = Of(r) /\ Op.in # <<>>
    <2>1. ToSet(ins[at]) = UNION {Of(o) : o \in {r}} /\ Op.in # <<>>
      BY <1>1, <1>3, FoundOf DEF Reads, Op
    <2>2. QED
      BY <2>1
  <1>7. IsInjective(ins[at])
    BY <1>1, <1>6, InputsOnce
  <1>8. /\ Apart(Inputs) /\ f \in Seq(Mapping) /\ IsInjective(f)
        /\ Cardinality(ToSet(maps[p])) = Len(f)
    <2>1. Separate(ToSet(ins[at])) /\ Held(ToSet(ins[at])) = ToSet(maps[p])
      BY <1>5, <1>6
    <2>2. QED
      BY <1>1, <1>7, <2>1, InputsSeparate
  <1>9. Cardinality(ToSet(maps[p])) = PopSize
    <2>1. p \in SetId
      BY <1>1, <1>4, OpsIs DEF Of
    <2>2. maps[p] \in Seq(Mapping) /\ IsInjective(maps[p]) /\ Len(maps[p]) = PopSize
      BY <1>4, <2>1 DEF Listing, Typed, Distinct, Sized
    <2>3. QED
      BY <2>2, CountIs
  <1>10. QED
    BY <1>8, <1>9

(* How much is selected.                                                   *)
Enough(k, q) ==
    /\ k = "elite" => IsInjective(q) /\ 2 * Len(q) >= PopSize
    /\ k = "reduce" => IsInjective(q) /\ Len(q) + 1 >= PopSize
    /\ k = "pool" => Len(q) = PopSize

Picked(e) == phase # "gone" /\ at > e => \A s \in Of(e) : Enough(chain[e].kind, maps[s])

LEMMA HalfIs ==
    ASSUME NEW n \in Nat
    PROVE  (n + 1) \div 2 \in Nat /\ 2 * ((n + 1) \div 2) >= n
  OBVIOUS

\* a list that holds all but one
LEMMA AllButOne ==
    ASSUME NEW E, NEW f \in Seq(E), IsInjective(f), NEW c \in Seq(E), IsInjective(c),
           NEW x, ToSet(f) \ {x} \subseteq ToSet(c)
    PROVE  Len(c) + 1 >= Len(f)
  <1> DEFINE F == ToSet(f)
             C == ToSet(c)
  <1>1. /\ IsFiniteSet(F) /\ Cardinality(F) = Len(f) /\ IsFiniteSet(C) /\ Cardinality(C) = Len(c)
        /\ Len(f) \in Nat /\ Len(c) \in Nat
    BY CountIs
  <1> HIDE DEF F, C
  <1>2. IsFiniteSet(F \ {x}) /\ Cardinality(F \ {x}) = IF x \in F THEN Cardinality(F) - 1 ELSE Cardinality(F)
    BY <1>1, FS_RemoveElement
  <1>3. Cardinality(F \ {x}) <= Cardinality(C)
    <2>1. F \ {x} \in SUBSET C
      BY DEF F, C
    <2>2. QED
      BY <1>1, <2>1, FS_Subset
  <1>4. QED
    BY <1>1, <1>2, <1>3

LEMMA SelectsEnough ==
    ASSUME SeenInv, Supply, NEW e \in Ops, Generation(chain, e), Typed, Sized, phase = "node", at = e,
           Exact, OneMain, Distinct, Parted(e), NEW c, SelectsOf(c)
    PROVE  Enough(chain[e].kind, c)
  <1> DEFINE f == FlattenSeq(Inputs)
  <1>1. chain[e].kind \in Selecting /\ PopSize \in Nat /\ c \in Seq(Mapping) /\ Op = chain[e]
    BY PartsIs, ChainAssumption DEF SeenInv, SelectsOf, Op
  <1>2. chain[e].kind # "pool" => Apart(Inputs) /\ f \in Seq(Mapping) /\ IsInjective(f) /\ Len(f) = PopSize
    BY SelectReads
  <1>3. CASE chain[e].kind = "elite"
    <2>1. IsInjective(c) /\ Len(c) = (PopSize + 1) \div 2
      BY <1>1, <1>2, <1>3 DEF SelectsOf
    <2>2. QED
      BY <1>1, <1>3, <2>1, HalfIs DEF Enough
  <1>4. CASE chain[e].kind = "reduce"
    <2>1. PICK x : ToSet(f) \ {x} \subseteq ToSet(c)
      BY <1>1, <1>4 DEF SelectsOf
    <2>2. IsInjective(c)
      BY <1>1, <1>2, <1>4 DEF SelectsOf
    <2> HIDE DEF f
    <2>3. Len(c) + 1 >= Len(f)
      BY <1>1, <1>2, <1>4, <2>1, <2>2, AllButOne
    <2>4. QED
      BY <1>2, <1>4, <2>2, <2>3 DEF Enough
  <1>5. CASE chain[e].kind = "pool"
    BY <1>1, <1>5 DEF SelectsOf, Enough
  <1>6. QED
    BY <1>1, <1>3, <1>4, <1>5 DEF Selecting

LEMMA NextPicked ==
    ASSUME SeenInv, Supply, NEW e \in Ops, Generation(chain, e), Typed, Sized, [Next]_vars,
           Exact, OneMain, Distinct, Parted(e), Picked(e)
    PROVE  Picked(e)'
  <1>1. SUFFICES ASSUME phase' # "gone", at' > e
                 PROVE  \A s \in Of(e)' : Enough(chain'[e].kind, maps'[s])
    BY DEF Picked
  <1>2. /\ chain' = chain /\ phase # "gone" /\ FlowInv /\ e \in MakersOf(chain) /\ e + 1 \in MakersOf(chain)
        /\ at \in Nat /\ e \in Nat /\ 1 < e /\ e # e + 1
    BY <1>1, StepOf, PartsIs DEF SeenInv
  <1> DEFINE k == chain[e].kind
  <1>3. at > e => \A s \in Of(e) : Enough(k, maps[s])
    BY <1>2 DEF Picked
  <1>4. ASSUME at > e, Of(e)' = Of(e), \A s \in Of(e) : maps'[s] = maps[s]
        PROVE  \A s \in Of(e)' : Enough(chain'[e].kind, maps'[s])
    BY <1>2, <1>3, <1>4
  <1>5. CASE Keeps(e)
    <2>1. at > e
      <3>1. at = e => Op.kind \in Selecting
        BY <1>2, PartsIs DEF Op
      <3>2. at' = at \/ at' = 1 \/ (at' = at + 1 /\ Op.kind \notin Selecting)
        BY <1>5 DEF Keeps, Selecting
      <3>3. QED
        BY <1>1, <1>2, <3>1, <3>2
    <2>2. Of(e)' = Of(e) /\ maps' = maps
      BY <1>2, <1>5 DEF Keeps
    <2>3. QED
      BY <1>4, <2>1, <2>2
  <1>6. ASSUME NEW contents \in Seq(Seq(Mapping)), Makes(contents), phase = "node", Works, Next
        PROVE  \A s \in Of(e)' : Enough(chain'[e].kind, maps'[s])
    <2>1. at \in MakersOf(chain) /\ at' = at + 1
      BY <1>6 DEF Makes
    <2>2. CASE at = e
      <3>1. PICK new, c : SelectsOf(c) /\ Fills(new, <<c>>)
        BY <1>2, <1>6, <2>1, <2>2, SelectMakes
      <3>2. PICK z : z \in Seq(Seq(Mapping)) /\ Len(z) = 1 /\ z[1] = c /\ Fills(new, z)
        <4>1. <<c>> \in Seq(Seq(Mapping)) /\ Len(<<c>>) = 1 /\ <<c>>[1] = c
          BY <3>1 DEF SelectsOf
        <4>2. QED
          BY <3>1, <4>1
      <3>3. /\ Of(e)' = ToSet(new) /\ new \in Seq(SetId) /\ Len(new) = 1
            /\ \A i \in DOMAIN new : maps'[new[i]] = z[i]
        BY <1>2, <1>6, <2>2, <3>2, MakesOf
      <3>4. ToSet(new) = {new[1]} /\ DOMAIN new = {1}
        BY <3>3, OneEntry
      <3>5. Enough(k, c)
        BY <1>2, <1>6, <2>2, <3>1, SelectsEnough
      <3>6. QED
        BY <1>2, <3>2, <3>3, <3>4, <3>5
    <2>3. CASE at # e
      <3>1. PICK a \in MakersOf(chain) : a = at
        BY <2>1
      <3>2. PICK new : Fills(new, contents)
        BY <1>6 DEF Makes
      <3>3. Of(e)' = Of(e) /\ \A s \in Of(e) : maps'[s] = maps[s]
        BY <1>2, <1>6, <2>3, <3>1, <3>2, MakesOf
      <3>4. at > e
        BY <1>1, <1>2, <2>1, <2>3
      <3>5. QED
        BY <1>4, <3>3, <3>4
    <2>4. QED
      BY <2>2, <2>3
  <1>7. CASE phase = "node" /\ Truncate /\ at' = at + 1
    <2>1. Of(e)' = Of(e) /\ (\A s \in Of(e) : maps'[s] = maps[s]) /\ e + 1 < at
      BY <1>2, <1>7, TruncateOf DEF Typed
    <2>2. QED
      BY <1>2, <1>4, <2>1
  <1>8. CASE phase = "node" /\ Merge /\ at' = 1
    BY <1>1, <1>2, <1>8
  <1>9. \/ Keeps(e)
        \/ Works /\ Next /\ phase = "node" /\ \E contents \in Seq(Seq(Mapping)) : Makes(contents)
        \/ phase = "node" /\ Truncate /\ at' = at + 1
        \/ phase = "node" /\ Merge /\ at' = 1
    BY <1>1, StepOf
  <1>10. CASE Works /\ Next /\ phase = "node" /\ \E contents \in Seq(Seq(Mapping)) : Makes(contents)
    BY <1>6, <1>10
  <1>11. QED
    BY <1>5, <1>7, <1>8, <1>9, <1>10

(* How much is bred, of how many parents.                                  *)
Litter(k, n) ==
    /\ k = "elite" => 2 * n >= PopSize
    /\ k = "reduce" => n > 0
    /\ k = "pool" => n >= PopSize

LEMMA HoldsMore ==
    ASSUME NEW E, NEW f \in Seq(E), IsInjective(f), NEW c \in Seq(E), IsInjective(c),
           ToSet(f) \subseteq ToSet(c)
    PROVE  Len(f) <= Len(c)
  <1> DEFINE F == ToSet(f)
             C == ToSet(c)
  <1>1. Cardinality(F) = Len(f) /\ IsFiniteSet(C) /\ Cardinality(C) = Len(c) /\ F \in SUBSET C
    BY CountIs
  <1> HIDE DEF F, C
  <1>2. Cardinality(F) <= Cardinality(C)
    BY <1>1, FS_Subset
  <1>3. QED
    BY <1>1, <1>2

\* the parents are what was selected
LEMMA ParentsRead ==
    ASSUME SeenInv, NEW e \in Ops, Generation(chain, e), Typed, phase = "node", at = e + 1,
           Single(e), Picked(e)
    PROVE  LET f == FlattenSeq(Inputs)
               u == Union(Inputs)
           IN /\ Inputs \in Seq(Seq(Mapping)) /\ f \in Seq(Mapping) /\ u \in Seq(Mapping)
              /\ chain[e].kind = "elite" => 2 * Len(u) >= PopSize
              /\ chain[e].kind = "pool" => Len(f) >= PopSize
  <1> DEFINE f == FlattenSeq(Inputs)
             u == Union(Inputs)
             k == chain[e].kind
  <1>1. /\ FlowInv /\ at \in Ops /\ Listing /\ at > e /\ e \in MakersOf(chain) /\ e \in Nat
        /\ Ops = DOMAIN chain /\ PopSize \in Nat
    BY PartsIs, ChainAssumption DEF SeenInv, Typed
  <1>2. PICK s : Of(e) = {s}
    BY ONLY <1>1, phase = "node", Single(e) DEF Single
  <1>3. ToSet(ins[at]) = {s}
    <2>1. Reads(chain, at, e)
      BY DEF Generation
    <2>2. ToSet(ins[at]) = UNION {Of(o) : o \in {e}}
      BY <1>1, <2>1, FoundOf DEF Reads, Op
    <2>3. QED
      BY <1>2, <2>2
  <1>4. /\ Inputs \in Seq(Seq(Mapping)) /\ ins[at] \in Seq(SetId) /\ Len(Inputs) = Len(ins[at])
        /\ DOMAIN Inputs = DOMAIN ins[at]
        /\ \A i \in DOMAIN ins[at] : Inputs[i] = maps[ins[at][i]] /\ ins[at][i] \in ToSet(ins[at])
    BY <1>1, InputsIs
  <1>5. 1 \in DOMAIN Inputs /\ Inputs # <<>> /\ Inputs[1] = maps[s] /\ maps[s] \in Seq(Mapping)
    <2>1. \E i \in DOMAIN ins[at] : ins[at][i] = s
      BY <1>3 DEF ToSet
    <2>2. 1 \in DOMAIN ins[at]
      BY <1>4, <2>1
    <2>3. ins[at][1] = s /\ s \in SetId
      BY <1>3, <1>4, <2>2
    <2>4. QED
      BY <1>1, <1>4, <2>2, <2>3 DEF Listing
  <1>6. /\ f \in Seq(Mapping) /\ Len(maps[s]) <= Len(f)
        /\ ToSet(f) = UNION {ToSet(Inputs[i]) : i \in DOMAIN Inputs}
        /\ u \in Seq(Mapping) /\ ToSet(u) = ToSet(f) /\ IsInjective(u)
    <2>1. Len(Inputs[1]) <= Len(f)
      BY <1>4, <1>5, FlattenIs
    <2>2. QED
      BY <1>4, <1>5, <2>1, FlattenIs, UnionIs
  <1>7. ToSet(maps[s]) \subseteq ToSet(u)
    BY <1>5, <1>6
  <1>8. Enough(k, maps[s])
    BY <1>1, <1>2 DEF Picked
  <1> HIDE DEF f, u
  <1>9. k = "elite" => 2 * Len(u) >= PopSize
    <2> SUFFICES ASSUME k = "elite"
                 PROVE  2 * Len(u) >= PopSize
      OBVIOUS
    <2>1. IsInjective(maps[s]) /\ 2 * Len(maps[s]) >= PopSize
      BY <1>8 DEF Enough
    <2>2. Len(maps[s]) <= Len(u)
      BY <1>5, <1>6, <1>7, <2>1, HoldsMore
    <2>3. Len(maps[s]) \in Nat /\ Len(u) \in Nat
      BY <1>5, <1>6
    <2>4. QED
      BY ONLY <1>1, <2>1, <2>2, <2>3
  <1>10. k = "pool" => Len(f) >= PopSize
    <2>1. Len(maps[s]) \in Nat /\ Len(f) \in Nat
      BY <1>5, <1>6
    <2>2. k = "pool" => Len(maps[s]) = PopSize
      BY <1>8 DEF Enough
    <2>3. QED
      BY <1>1, <1>6, <2>1, <2>2
  <1>11. QED
    BY <1>4, <1>6, <1>9, <1>10 DEF f, u

LEMMA BreedsEnough ==
    ASSUME SeenInv, NEW e \in Ops, Generation(chain, e), Refills(chain, e), Typed,
           Works, Next, at = e + 1, at' = at + 1, Single(e), Picked(e)
    PROVE  \E parents : /\ Breed(parents, Op.size) /\ Len(parents) \in Nat
                        /\ Litter(chain[e].kind, Len(parents))
  <1>1. /\ FlowInv /\ at \in Ops /\ phase = "node" /\ at' > 1 /\ Op.kind \in Breeding /\ e \in Nat
        /\ Ops = DOMAIN chain /\ Op = chain[e + 1] /\ PopSize \in Nat
    BY PartsIs, ChainAssumption DEF SeenInv, Works, Op
  <1>2. /\ Inputs \in Seq(Seq(Mapping))
        /\ FlattenSeq(Inputs) \in Seq(Mapping) /\ Union(Inputs) \in Seq(Mapping)
        /\ chain[e].kind = "elite" => 2 * Len(Union(Inputs)) >= PopSize
        /\ chain[e].kind = "pool" => Len(FlattenSeq(Inputs)) >= PopSize
    BY <1>1, ParentsRead
  <1>3. \/ chain[e].kind = "elite" /\ Op.kind = "children" /\ Op.number = 0
        \/ chain[e].kind = "reduce" /\ Op.kind = "children" /\ Op.number > 0
        \/ chain[e].kind = "pool" /\ Op.kind = "filtered"
    BY <1>1 DEF Refills
  <1>4. Op.number \in Nat
    BY <1>1, NumberIs DEF FlowInv, Op
  <1>5. Children \/ Filtered
    BY <1>1, CameFrom
  <1>6. CASE Children
    <2>1. Op.kind = "children"
      BY <1>6 DEF Children, Node
    <2> DEFINE pop == Union(Inputs)
               n == IF Op.number = 0 THEN Len(pop) ELSE Op.number
    <2>2. PICK winner \in [1 .. n -> ToSet(pop)] : Breed(winner, Op.size)
      BY <1>6 DEF Children
    <2>3. n \in Nat
      BY <1>2, <1>4
    <2>4. Litter(chain[e].kind, n)
      BY <1>1, <1>2, <1>3, <1>4, <2>1 DEF Litter
    <2> HIDE DEF n, pop
    <2>5. Len(winner) = n
      <3>1. winner \in Seq(ToSet(pop))
        BY <2>3
      <3>2. QED
        BY <2>3, <3>1
    <2>6. QED
      BY <2>2, <2>3, <2>4, <2>5
  <1>7. CASE Filtered
    <2>1. Op.kind = "filtered" /\ chain[e].kind = "pool"
      BY <1>3, <1>7 DEF Filtered, Node
    <2> DEFINE pop == FlattenSeq(Inputs)
    <2>2. PICK perm \in [DOMAIN pop -> DOMAIN pop] : Breed([i \in DOMAIN pop |-> pop[perm[i]]], Op.size)
      BY <1>7 DEF Filtered
    <2> DEFINE parents == [i \in DOMAIN pop |-> pop[perm[i]]]
    <2>3. Breed(parents, Op.size)
      BY <2>2
    <2>4. pop \in Seq(Mapping) /\ Len(pop) >= PopSize
      BY <1>2, <2>1
    <2> HIDE DEF pop
    <2>5. Len(parents) = Len(pop)
      <3>1. DOMAIN pop = 1 .. Len(pop) /\ Len(pop) \in Nat
        BY <2>4
      <3>2. parents \in [1 .. Len(pop) -> Mapping]
        BY <2>4, <3>1
      <3>3. DOMAIN parents = 1 .. Len(pop)
        BY <3>1
      <3>4. parents \in Seq(Mapping)
        BY <3>1, <3>2
      <3> HIDE DEF parents
      <3>5. QED
        BY <3>1, <3>3, <3>4
    <2> HIDE DEF parents
    <2>6. Litter(chain[e].kind, Len(parents)) /\ Len(parents) \in Nat
      BY <2>1, <2>4, <2>5 DEF Litter
    <2>7. QED
      BY <2>3, <2>6
  <1>8. QED
    BY <1>5, <1>6, <1>7

(* The bred sets are separate from each other and from what was selected,  *)
(* and hold enough.                                                        *)
Sufficient(k, H) ==
    /\ IsFiniteSet(H)
    /\ k = "elite" => 2 * Cardinality(H) >= PopSize
    /\ k = "reduce" => H # {}
    /\ k = "pool" => Cardinality(H) >= PopSize

Cohort(e) ==
    phase # "gone" /\ at > e + 1
      => /\ Separate(Of(e + 1))
         /\ \A s \in Of(e), z \in Of(e + 1) : ToSet(maps[s]) \cap ToSet(maps[z]) = {}
         /\ Sufficient(chain[e].kind, Held(Of(e + 1)))

\* what the invariant says of the next state, with Of(e + 1) for b
LEMMA BredCohort ==
    ASSUME SeenInv, NEW e \in Ops, Generation(chain, e), Refills(chain, e), Typed,
           Works, Next, at' = at + 1, NEW b \in MakersOf(chain), b = at, b = e + 1,
           Single(e), Picked(e)
    PROVE  /\ Separate(Of(b))'
           /\ \A s \in Of(e)', z \in Of(b)' : ToSet(maps'[s]) \cap ToSet(maps'[z]) = {}
           /\ Sufficient(chain[e].kind, Held(Of(b))')
  <1>1. /\ FlowInv /\ at \in Ops /\ phase = "node" /\ Listing /\ chain' = chain
        /\ e \in MakersOf(chain) /\ e # b /\ e \in Nat /\ Ops = DOMAIN chain
    BY PartsIs, StepIs DEF SeenInv, Works, Typed, vars
  <1>2. PICK parents : /\ Breed(parents, Op.size) /\ Len(parents) \in Nat
                       /\ Litter(chain[e].kind, Len(parents))
    BY <1>1, BreedsEnough
  <1>3. Op.size \in Nat \ {0}
    <2>1. chain[e + 1].size > 0
      BY DEF Generation
    <2>2. QED
      BY <1>1, <2>1, SizeIs DEF FlowInv, Op
  <1>4. PICK new, q, f :
               /\ q \in Seq(Seq(Mapping)) /\ Apart(q)
               /\ f \in Seq(Mapping) /\ IsInjective(f) /\ Len(f) = Len(parents)
               /\ UNION {ToSet(q[i]) : i \in DOMAIN q} = ToSet(f)
               /\ \A z \in reg.sets \ ToSet(outs[at]) : ToSet(f) \cap ToSet(maps[z]) = {}
               /\ Fills(new, q)
    BY <1>1, <1>2, <1>3, BreedMakes
  <1>5. /\ Of(b)' = ToSet(new) /\ IsInjective(new) /\ DOMAIN new = DOMAIN q
        /\ \A i \in DOMAIN new : maps'[new[i]] = q[i]
        /\ Of(e)' = Of(e) /\ \A s \in Of(e) : maps'[s] = maps[s]
    BY <1>1, <1>4, MakesOf
  <1>6. Separate(Of(b))' /\ Held(Of(b))' = ToSet(f)
    <2>1. /\ Separate(ToSet(new))'
          /\ Held(ToSet(new))' = UNION {ToSet(q[i]) : i \in DOMAIN q}
      <3>1. /\ DOMAIN new = DOMAIN q /\ IsInjective(new) /\ Apart(q)
            /\ \A i \in DOMAIN new : maps'[new[i]] = q[i]
        BY <1>4, <1>5
      <3>2. QED
        BY ONLY <3>1, FillsSeparate
    <2>2. Held(ToSet(new))' = ToSet(f)
      BY <1>4, <2>1
    <2>3. QED
      BY <1>5, <2>1, <2>2 DEF Separate, Held
  <1>7. ASSUME NEW s \in Of(e), NEW z \in ToSet(new)
        PROVE  ToSet(maps'[s]) \cap ToSet(maps'[z]) = {}
    <2>1. ToSet(outs[at]) = Of(b) /\ Of(e) \cap Of(b) = {}
      BY <1>1, FoundOf, OfApart
    <2>2. s \in reg.sets \ ToSet(outs[at])
      BY <2>1 DEF Of
    <2>3. ToSet(f) \cap ToSet(maps[s]) = {}
      BY <1>4, <2>2
    <2>4. ToSet(maps'[z]) \subseteq ToSet(f)
      <3>1. \E i \in DOMAIN new : z = new[i]
        BY DEF ToSet
      <3>2. \E i \in DOMAIN q : maps'[z] = q[i]
        BY <1>5, <3>1
      <3>3. QED
        BY <1>4, <3>2
    <2>5. QED
      BY <1>5, <2>3, <2>4
  <1>8. Sufficient(chain[e].kind, ToSet(f))
    <2>1. IsFiniteSet(ToSet(f)) /\ Cardinality(ToSet(f)) = Len(parents)
      BY <1>4, CountIs
    <2>2. Len(parents) > 0 => ToSet(f) # {}
      <3>1. Len(f) > 0 => f[1] \in ToSet(f)
        BY <1>4 DEF ToSet
      <3>2. QED
        BY <1>4, <3>1
    <2>3. QED
      BY <1>2, <2>1, <2>2 DEF Litter, Sufficient
  <1>9. QED
    BY <1>5, <1>6, <1>7, <1>8

\* cutting a list
LEMMA CutIs ==
    ASSUME NEW E, NEW q \in Seq(E), NEW n \in Nat, NEW c,
           c = IF Len(q) > n THEN SubSeq(q, 1, n) ELSE q
    PROVE  /\ ToSet(c) \subseteq ToSet(q) /\ (IsInjective(q) => IsInjective(c))
           /\ n > 0 /\ ToSet(q) # {} => ToSet(c) # {}
  <1>1. CASE ~ (Len(q) > n)
    BY <1>1
  <1>2. CASE Len(q) > n
    <2>1. c = SubSeq(q, 1, n) /\ Len(q) \in Nat /\ DOMAIN q = 1 .. Len(q)
      BY <1>2
    <2>2. DOMAIN c = 1 .. n /\ \A i \in 1 .. n : c[i] = q[i] /\ i \in DOMAIN q
      BY <1>2, <2>1
    <2>3. ToSet(c) \subseteq ToSet(q)
      BY <2>2 DEF ToSet
    <2>4. IsInjective(q) => IsInjective(c)
      BY <2>2 DEF IsInjective
    <2>5. n > 0 => c[1] \in ToSet(c)
      <3>1. n > 0 => 1 \in DOMAIN c
        BY <2>2
      <3>2. QED
        BY <3>1 DEF ToSet
    <2>6. QED
      BY <2>3, <2>4, <2>5
  <1>3. QED
    BY <1>1, <1>2

LEMMA CutCohort ==
    ASSUME SeenInv, NEW e \in Ops, Generation(chain, e), Refills(chain, e), Typed,
           phase = "node", chain' = chain, Truncate, NEW b \in MakersOf(chain), b = e + 1, Cohort(e)
    PROVE  /\ Separate(Of(b))'
           /\ \A s \in Of(e)', z \in Of(b)' : ToSet(maps'[s]) \cap ToSet(maps'[z]) = {}
           /\ Sufficient(chain[e].kind, Held(Of(b))')
  <1>1. /\ FlowInv /\ at \in Ops /\ Listing /\ e \in MakersOf(chain) /\ e # b /\ e \in Nat
        /\ Ops = DOMAIN chain /\ Len(chain) \in Nat
    BY PartsIs, OpsIs DEF SeenInv, Typed
  <1>2. /\ Of(b)' = Of(b) /\ Of(e)' = Of(e) /\ \A s \in Of(e) : maps'[s] = maps[s]
        /\ \A s \in Of(b) :
              maps'[s] = IF Len(maps[s]) > Op.size THEN SubSeq(maps[s], 1, Op.size) ELSE maps[s]
        /\ b < at /\ at < Len(chain) /\ at \in Nat /\ Op.kind = "truncate"
    BY <1>1, TruncateOf
  <1>3. chain[e].kind = "reduce" /\ Op.size > 0
    <2>1. at \in {o \in e + 2 .. Len(chain) - 1 : chain[o].kind = "truncate"}
      BY <1>1, <1>2 DEF Op
    <2>2. QED
      BY <2>1 DEF Refills, Op
  <1>4. /\ Separate(Of(b))
        /\ \A s \in Of(e), z \in Of(b) : ToSet(maps[s]) \cap ToSet(maps[z]) = {}
        /\ Sufficient(chain[e].kind, Held(Of(b)))
    <2>1. at > e + 1
      BY <1>2
    <2>2. QED
      BY ONLY <2>1, b = e + 1, phase = "node", Cohort(e) DEF Cohort
  <1>5. ASSUME NEW s \in Of(b)
        PROVE  /\ ToSet(maps'[s]) \subseteq ToSet(maps[s])
               /\ IsInjective(maps[s]) => IsInjective(maps'[s])
               /\ ToSet(maps[s]) # {} => ToSet(maps'[s]) # {}
    <2>1. s \in SetId /\ maps[s] \in Seq(Mapping) /\ Op.size \in Nat
      BY <1>1, OpsIs, SizeIs DEF Of, Listing, FlowInv, Op
    <2> DEFINE x == maps[s]
               y == maps'[s]
               n == Op.size
    <2>2. y = IF Len(x) > n THEN SubSeq(x, 1, n) ELSE x
      BY <1>2
    <2>3. x \in Seq(Mapping) /\ n \in Nat /\ n > 0
      BY <1>3, <2>1
    <2> HIDE DEF x, y, n
    <2>4. ToSet(y) \subseteq ToSet(x) /\ (IsInjective(x) => IsInjective(y)) /\ (ToSet(x) # {} => ToSet(y) # {})
      BY <2>2, <2>3, CutIs
    <2>5. QED
      BY <2>4 DEF x, y
  <1> DEFINE S == Of(b)
  <1>6. ASSUME NEW s \in S, NEW t \in S, s # t
        PROVE  ToSet(maps'[s]) \cap ToSet(maps'[t]) = {}
    <2>1. ToSet(maps[s]) \cap ToSet(maps[t]) = {}
      BY <1>4, <1>6 DEF Separate
    <2>2. QED
      BY <1>5, <2>1
  <1>7. ASSUME NEW s \in S
        PROVE  IsInjective(maps'[s])
    BY <1>4, <1>5 DEF Separate
  <1>8. ASSUME NEW s \in Of(e), NEW z \in S
        PROVE  ToSet(maps'[s]) \cap ToSet(maps'[z]) = {}
    BY <1>2, <1>4, <1>5
  <1>9. Held(Of(b))' = UNION {ToSet(maps'[s]) : s \in S}
    BY <1>2 DEF Held
  <1>10. Held(Of(b))' # {} /\ IsFiniteSet(Held(Of(b))')
    <2>1. Held(Of(b)) = UNION {ToSet(maps[s]) : s \in S}
      BY DEF Held
    <2>2. Held(Of(b)) # {} /\ IsFiniteSet(Held(Of(b)))
      BY <1>3, <1>4 DEF Sufficient
    <2> DEFINE H == Held(Of(b))
               G == UNION {ToSet(maps'[s]) : s \in S}
    <2>3. G \in SUBSET H /\ G # {}
      BY <1>5, <2>1, <2>2
    <2> HIDE DEF G, H
    <2>4. IsFiniteSet(G)
      <3>1. IsFiniteSet(H)
        BY <2>2 DEF H
      <3>2. QED
        BY <2>3, <3>1, FS_Subset
    <2>5. QED
      BY <1>9, <2>3, <2>4 DEF G
  <1>11. Sufficient(chain[e].kind, Held(Of(b))')
    BY <1>3, <1>10 DEF Sufficient
  <1>12. Separate(Of(b))'
    BY <1>2, <1>6, <1>7 DEF Separate
  <1>13. QED
    BY <1>2, <1>8, <1>11, <1>12

LEMMA NextCohort ==
    ASSUME SeenInv, Supply, NEW e \in Ops, Generation(chain, e), Refills(chain, e), Typed, Sized,
           [Next]_vars, Single(e), Picked(e), Cohort(e)
    PROVE  Cohort(e)'
  <1> DEFINE Goal == /\ Separate(Of(e + 1))'
                     /\ \A s \in Of(e)', z \in Of(e + 1)' : ToSet(maps'[s]) \cap ToSet(maps'[z]) = {}
                     /\ Sufficient(chain'[e].kind, Held(Of(e + 1))')
  <1>1. SUFFICES ASSUME phase' # "gone", at' > e + 1
                 PROVE  Goal
    BY DEF Cohort, Sufficient
  <1>2. /\ chain' = chain /\ phase # "gone" /\ FlowInv /\ e \in MakersOf(chain) /\ e + 1 \in MakersOf(chain)
        /\ at \in Nat /\ e \in Nat /\ 1 < e
    BY <1>1, StepOf, PartsIs DEF SeenInv
  <1>3. PICK b \in MakersOf(chain) : b = e + 1
    BY <1>2
  <1> DEFINE Same == /\ Separate(Of(b))'
                     /\ \A s \in Of(e)', z \in Of(b)' : ToSet(maps'[s]) \cap ToSet(maps'[z]) = {}
                     /\ Sufficient(chain[e].kind, Held(Of(b))')
  <1>4. Same => Goal
    BY <1>2, <1>3
  <1> HIDE DEF Goal
  <1>5. CASE Keeps(e)
    <2>1. at > e + 1
      <3>1. at = e + 1 => Op.kind \in Breeding
        BY <1>2, PartsIs DEF Op
      <3>2. at' = at \/ at' = 1 \/ (at' = at + 1 /\ Op.kind \notin Breeding)
        BY <1>5 DEF Keeps, Breeding
      <3>3. QED
        BY <1>1, <1>2, <3>1, <3>2
    <2>2. Of(e)' = Of(e) /\ Of(b)' = Of(b) /\ maps' = maps
      BY <1>2, <1>5 DEF Keeps
    <2>3. /\ Separate(Of(b))
          /\ \A s \in Of(e), z \in Of(b) : ToSet(maps[s]) \cap ToSet(maps[z]) = {}
          /\ Sufficient(chain[e].kind, Held(Of(b)))
      BY ONLY <1>2, <1>3, <2>1, Cohort(e) DEF Cohort
    <2>4. Separate(Of(b))' /\ Held(Of(b))' = Held(Of(b))
      BY <2>2, <2>3, SeparateSame
    <2>5. \A s \in Of(e)', z \in Of(b)' : ToSet(maps'[s]) \cap ToSet(maps'[z]) = {}
      BY <2>2, <2>3
    <2>6. Same
      BY <2>3, <2>4, <2>5
    <2>7. QED
      BY <1>4, <2>6
  <1>6. ASSUME NEW contents \in Seq(Seq(Mapping)), Makes(contents), phase = "node", Works, Next
        PROVE  Goal
    <2>1. at \in MakersOf(chain) /\ at' = at + 1
      BY <1>6 DEF Makes
    <2>2. b = at
      BY <1>1, <1>2, <1>3, <2>1, PartsIs
    <2>3. Same
      BY <1>2, <1>3, <1>6, <2>1, <2>2, BredCohort
    <2>4. QED
      BY <1>4, <2>3
  <1>7. CASE phase = "node" /\ Truncate /\ at' = at + 1
    <2>1. Same
      BY <1>2, <1>3, <1>7, CutCohort
    <2>2. QED
      BY <1>4, <2>1
  <1>8. CASE phase = "node" /\ Merge /\ at' = 1
    BY <1>1, <1>2, <1>8
  <1>9. \/ Keeps(e)
        \/ Works /\ Next /\ phase = "node" /\ \E contents \in Seq(Seq(Mapping)) : Makes(contents)
        \/ phase = "node" /\ Truncate /\ at' = at + 1
        \/ phase = "node" /\ Merge /\ at' = 1
    BY <1>1, StepOf
  <1>10. CASE Works /\ Next /\ phase = "node" /\ \E contents \in Seq(Seq(Mapping)) : Makes(contents)
    BY <1>6, <1>10
  <1>11. QED
    BY <1>5, <1>7, <1>8, <1>9, <1>10

\* what is merged fills the population, and repeats nothing
LEMMA MergesEnough ==
    ASSUME SeenInv, NEW e \in Ops, Generation(chain, e), Typed, phase = "node", at = Len(chain),
           Exact, Single(e), Picked(e), Cohort(e)
    PROVE  LET next == FlattenSeq(Inputs) IN
           next \in Seq(Mapping) /\ IsInjective(next) /\ Len(next) >= PopSize
  <1> DEFINE next == FlattenSeq(Inputs)
             k == chain[e].kind
             b == e + 1
  <1>1. /\ FlowInv /\ at \in Ops /\ Listing /\ e \in MakersOf(chain) /\ b \in MakersOf(chain) /\ e \in Nat
        /\ at \in Nat /\ at > e + 1 /\ at > e /\ Ops = DOMAIN chain /\ PopSize \in Nat /\ k \in Selecting
        /\ reg.sets \subseteq SetId
    BY PartsIs, OpsIs, ChainAssumption DEF SeenInv, Typed, Ops
  <1>2. /\ Separate(Of(b))
        /\ \A s \in Of(e), z \in Of(b) : ToSet(maps[s]) \cap ToSet(maps[z]) = {}
        /\ Sufficient(k, Held(Of(b)))
    BY ONLY <1>1, phase = "node", Cohort(e) DEF Cohort
  <1>3. Op.in # <<>> /\ IsInjective(ins[at])
    <2>1. Op.in # <<>>
      BY <1>1 DEF Generation, Op
    <2>2. QED
      BY <1>1, <2>1, InputsOnce
  <1>4. CASE k = "pool"
    <2>1. ToSet(ins[at]) = Of(b)
      <3>1. Names(chain, In(chain, at), {b})
        BY <1>4 DEF Generation
      <3>2. ToSet(ins[at]) = UNION {Of(p) : p \in {b}}
        BY <1>1, <1>3, <3>1, FoundOf
      <3>3. QED
        BY <3>2
    <2>2. Separate(ToSet(ins[at])) /\ Held(ToSet(ins[at])) = Held(Of(b))
      BY <1>2, <2>1
    <2>3. next \in Seq(Mapping) /\ IsInjective(next) /\ Cardinality(Held(Of(b))) = Len(next)
      BY <1>1, <1>3, <2>2, InputsSeparate
    <2>4. QED
      BY <1>2, <1>4, <2>3 DEF Sufficient
  <1>5. CASE k # "pool"
    <2>1. ToSet(ins[at]) = Of(e) \cup Of(b)
      <3>1. Names(chain, In(chain, at), {e, b})
        BY <1>5 DEF Generation
      <3>2. ToSet(ins[at]) = UNION {Of(p) : p \in {e, b}}
        BY <1>1, <1>3, <3>1, FoundOf
      <3>3. QED
        BY <3>2
    <2>2. PICK s : Of(e) = {s}
      BY ONLY <1>1, phase = "node", Single(e) DEF Single
    <2> DEFINE x == maps[s]
               X == ToSet(x)
               H == Held(Of(b))
    <2>3. x \in Seq(Mapping) /\ Enough(k, x)
      <3>1. s \in SetId
        BY <1>1, <2>2 DEF Of
      <3>2. Enough(k, x)
        BY ONLY <1>1, <2>2, phase = "node", Picked(e) DEF Picked
      <3>3. QED
        BY <1>1, <3>1, <3>2 DEF Listing
    <2>4. k \in {"elite", "reduce"} /\ IsInjective(x)
      BY <1>1, <1>5, <2>3 DEF Enough, Selecting
    <2>5. Separate(ToSet(ins[at])) /\ Held(ToSet(ins[at])) = X \cup H
      BY <1>2, <2>1, <2>2, <2>4 DEF Separate, Held
    <2>6. next \in Seq(Mapping) /\ IsInjective(next) /\ Cardinality(X \cup H) = Len(next)
      <3>1. /\ next \in Seq(Mapping) /\ IsInjective(next)
            /\ Cardinality(Held(ToSet(ins[at]))) = Len(next)
        BY <1>1, <1>3, <2>5, InputsSeparate
      <3>2. QED
        BY <2>5, <3>1
    <2>7. X \cap H = {}
      <3>1. \A z \in Of(b) : X \cap ToSet(maps[z]) = {}
        BY <1>2, <2>2
      <3>2. QED
        BY <3>1 DEF Held
    <2>8. IsFiniteSet(X) /\ Cardinality(X) = Len(x) /\ IsFiniteSet(H) /\ Len(x) \in Nat
      BY <1>2, <2>3, <2>4, CountIs DEF Sufficient
    <2>9. /\ k = "elite" => 2 * Len(x) >= PopSize /\ 2 * Cardinality(H) >= PopSize
          /\ k = "reduce" => Len(x) + 1 >= PopSize /\ H # {}
      BY <1>2, <2>3 DEF Enough, Sufficient
    <2> HIDE DEF X, H, x, next, k
    <2>10. Cardinality(X \cup H) = Len(x) + Cardinality(H) /\ Cardinality(H) \in Nat
      <3>1. Cardinality(X \cup H) = Cardinality(X) + Cardinality(H) - Cardinality({})
        BY <2>7, <2>8, FS_Union
      <3>2. Cardinality({}) = 0 /\ Cardinality(H) \in Nat
        BY <2>8, FS_EmptySet, FS_CardinalityType
      <3>3. QED
        BY <2>8, <3>1, <3>2
    <2>11. H # {} => Cardinality(H) > 0
      BY <2>8, <2>10, FS_EmptySet
    <2>12. Len(x) + Cardinality(H) >= PopSize
      <3> DEFINE c == Cardinality(H)
                 n == Len(x)
      <3>1. /\ c \in Nat /\ n \in Nat /\ PopSize \in Nat
            /\ (2 * n >= PopSize /\ 2 * c >= PopSize) \/ (n + 1 >= PopSize /\ c > 0)
        BY <1>1, <2>4, <2>8, <2>9, <2>10, <2>11
      <3> HIDE DEF c, n
      <3>2. n + c >= PopSize
        BY ONLY <3>1
      <3>3. QED
        BY <3>2 DEF n, c
    <2>13. QED
      BY <2>6, <2>10, <2>12 DEF next
  <1>6. QED
    BY <1>4, <1>5

\* a list overwritten from the front by a long enough one
LEMMA Overwritten ==
    ASSUME NEW E, NEW x \in Seq(E), NEW next \in Seq(E), IsInjective(next), Len(next) >= Len(x)
    PROVE  IsInjective([i \in DOMAIN x |-> IF i <= Len(next) THEN next[i] ELSE x[i]])
  <1> DEFINE z == [i \in DOMAIN x |-> IF i <= Len(next) THEN next[i] ELSE x[i]]
  <1>1. /\ DOMAIN x = 1 .. Len(x) /\ Len(x) \in Nat /\ Len(next) \in Nat
        /\ DOMAIN next = 1 .. Len(next)
    OBVIOUS
  <1>2. DOMAIN z = DOMAIN x /\ \A i \in DOMAIN x : i <= Len(next) /\ i \in DOMAIN next
    BY <1>1
  <1>3. \A i \in DOMAIN z : z[i] = next[i] /\ i \in DOMAIN next
    BY <1>2
  <1> HIDE DEF z
  <1>4. IsInjective(z)
    BY <1>3 DEF IsInjective
  <1>5. QED
    BY <1>4 DEF z

LEMMA NextDistinct ==
    ASSUME SeenInv, Supply, NEW e \in Ops, Generation(chain, e), Typed, Sized, [Next]_vars,
           Exact, OneMain, Single(e), Picked(e), Cohort(e), Distinct
    PROVE  Distinct'
  <1>1. SUFFICES ASSUME phase' # "gone"
                 PROVE  \A s \in Of(1)' : IsInjective(maps'[s])
    BY DEF Distinct
  <1>2. /\ chain' = chain /\ phase # "gone" /\ FlowInv /\ 1 \in MakersOf(chain) /\ e + 1 \in MakersOf(chain)
        /\ at \in Nat /\ e \in Nat /\ 1 < e /\ 1 # e + 1 /\ reg.sets \subseteq SetId
    BY <1>1, StepOf, PartsIs, OpsIs DEF SeenInv
  <1>3. \A s \in Of(1) : IsInjective(maps[s])
    BY <1>2 DEF Distinct
  <1>4. CASE Keeps(e)
    BY <1>2, <1>3, <1>4 DEF Keeps
  <1>5. ASSUME NEW contents \in Seq(Seq(Mapping)), Makes(contents), phase = "node"
        PROVE  \A s \in Of(1)' : IsInjective(maps'[s])
    <2>1. PICK a \in MakersOf(chain) : a = at
      BY <1>5 DEF Makes
    <2>2. PICK new : Fills(new, contents)
      BY <1>5 DEF Makes
    <2>3. /\ Of(a)' = ToSet(new) /\ new \in Seq(SetId) /\ Len(new) = Len(contents)
          /\ \A i \in DOMAIN new : maps'[new[i]] = contents[i]
          /\ \A p \in MakersOf(chain) \ {a} : Of(p)' = Of(p) /\ \A s \in Of(p) : maps'[s] = maps[s]
      BY <1>2, <1>5, <2>1, <2>2, MakesOf
    <2>4. CASE a = 1
      <3>1. PICK c : contents = <<c>> /\ IsInjective(c)
        BY <1>5, <2>1, <2>4 DEF Makes
      <3>2. Len(new) = 1 /\ contents[1] = c
        BY <2>3, <3>1
      <3>3. DOMAIN new = {1} /\ ToSet(new) = {new[1]}
        BY <2>3, <3>2, OneEntry
      <3>4. maps'[new[1]] = c
        BY <2>3, <3>2, <3>3
      <3>5. QED
        BY <2>3, <2>4, <3>1, <3>3, <3>4
    <2>5. CASE a # 1
      BY <1>2, <1>3, <2>3, <2>5
    <2>6. QED
      BY <2>4, <2>5
  <1>6. CASE phase = "node" /\ Truncate
    <2>1. Of(1)' = Of(1) /\ \A s \in Of(1) : maps'[s] = maps[s]
      BY <1>2, <1>6, TruncateOf DEF Typed
    <2>2. QED
      BY <1>3, <2>1
  <1>7. CASE phase = "node" /\ Merge
    <2>1. /\ at = Len(chain) /\ at \in Ops
          /\ Of(1)' = Of(1) /\ outs[at][1] \in Of(1)
          /\ \A s \in reg.sets : s = outs[at][1]
               => maps'[s] = [i \in DOMAIN maps[s] |-> IF i <= Len(FlattenSeq(Inputs))
                                                      THEN FlattenSeq(Inputs)[i] ELSE maps[s][i]]
      BY <1>2, <1>7, MergeOf DEF Typed
    <2>2. SUFFICES ASSUME NEW p \in Of(1)
                   PROVE  IsInjective(maps'[p])
      BY <2>1
    <2>3. p = outs[at][1] /\ p \in reg.sets /\ p \in SetId
      BY <1>2, <2>1 DEF OneMain, Of
    <2> DEFINE x == maps[p]
               next == FlattenSeq(Inputs)
    <2>4. maps'[p] = [i \in DOMAIN x |-> IF i <= Len(next) THEN next[i] ELSE x[i]]
      BY <2>1, <2>3
    <2>5. x \in Seq(Mapping) /\ Len(x) = PopSize
      BY <1>2, <2>3 DEF Sized, Typed, Listing
    <2>6. next \in Seq(Mapping) /\ IsInjective(next) /\ Len(next) >= PopSize
      BY <1>7, <2>1, MergesEnough
    <2> HIDE DEF x, next
    <2>7. QED
      BY <2>4, <2>5, <2>6, Overwritten
  <1>8. \/ Keeps(e)
        \/ phase = "node" /\ \E contents \in Seq(Seq(Mapping)) : Makes(contents)
        \/ phase = "node" /\ Truncate
        \/ phase = "node" /\ Merge
    BY <1>1, StepOf
  <1>9. CASE phase = "node" /\ \E contents \in Seq(Seq(Mapping)) : Makes(contents)
    BY <1>5, <1>9
  <1>10. QED
    BY <1>4, <1>6, <1>7, <1>8, <1>9

(* Until the flow is gone, the population is kept because of the above;    *)
(* while it is being deleted, because populations only disappear.          *)
Kept == phase = "gone" => PopulationKept

LEMMA DistinctKeeps ==
    ASSUME SeenInv, phase # "gone", NEW e \in Ops, Generation(chain, e), Typed, Sized, Distinct
    PROVE  PopulationKept
  <1>1. MainSets = Of(1) /\ reg.sets \subseteq SetId
    BY MainIs, OpsIs DEF SeenInv
  <1>2. SUFFICES ASSUME NEW s \in Of(1)
                 PROVE  Len(maps[s]) = PopSize /\ Cardinality(ToSet(maps[s])) = PopSize
    BY <1>1 DEF PopulationKept
  <1>3. s \in SetId
    BY <1>1 DEF Of
  <1>4. maps[s] \in Seq(Mapping) /\ Len(maps[s]) = PopSize /\ IsInjective(maps[s])
    BY <1>3 DEF Typed, Listing, Sized, Distinct
  <1>5. QED
    BY <1>4, CountIs

LEMMA DestroyKeeps ==
    ASSUME FlowInv, Destroy, PopulationKept
    PROVE  PopulationKept'
  <1>1. SUFFICES ASSUME NEW s \in MainSets'
                 PROVE  s \in MainSets /\ maps'[s] = maps[s]
    BY DEF PopulationKept
  <1>2. s \in reg'.sets /\ Main \in reg'.own[s]
    BY DEF MainSets
  <1>3. CASE at \notin creator
    BY <1>2, <1>3 DEF Destroy, MainSets
  <1>4. CASE at \in creator
    <2> DEFINE r == clearOutputSets(TaggedOutputs, FoundOutputs)
    <2>1. Become(r, maps, done) /\ at \in Ops
      BY <1>4 DEF Destroy
    <2>2. Found(TaggedOutputs) /\ reg.sets \subseteq SetId
      BY <2>1, TaggedOutputsFound, OpsIs
    <2>3. /\ r.sets = TaggedOutputs.sets \ ToSet(FoundOutputs) /\ TaggedOutputs.sets = reg.sets
          /\ \A z \in SetId \ ToSet(FoundOutputs) : r.own[z] = TaggedOutputs.own[z]
          /\ \A z \in SetId \ ToSet(FoundOutputs) : TaggedOutputs.own[z] = reg.own[z]
      BY <2>2, ClearSound DEF Found
    <2> HIDE DEF r
    <2>4. reg' = r /\ \A z \in SetId : maps'[z] = IF z \in r.sets THEN maps[z] ELSE <<>>
      BY <2>1 DEF Become
    <2>5. s \in SetId \ ToSet(FoundOutputs) /\ s \in reg.sets
      BY <1>2, <2>2, <2>3, <2>4
    <2>6. QED
      BY <1>2, <2>3, <2>4, <2>5 DEF MainSets
  <1>5. QED
    BY <1>3, <1>4

LEMMA NextKept ==
    ASSUME SeenInv, Supply, NEW e \in Ops, Generation(chain, e), Typed, Sized, Distinct, Kept, [Next]_vars
    PROVE  Kept'
  <1>1. SUFFICES ASSUME phase' = "gone"
                 PROVE  PopulationKept'
    BY DEF Kept
  <1>2. PopulationKept
    BY DistinctKeeps DEF Kept
  <1>3. CASE UNCHANGED <<reg, maps, done, outs, ins, creator, at, phase>> \/ StartUnload
    <2>1. reg' = reg /\ maps' = maps
      BY <1>3 DEF StartUnload
    <2>2. QED
      BY <1>2, <2>1 DEF PopulationKept, MainSets
  <1>4. CASE Destroy
    BY <1>2, <1>4, DestroyKeeps DEF SeenInv
  <1>5. CASE updateSets \/ Works
    BY <1>1, <1>5 DEF updateSets, Works
  <1>6. QED
    BY <1>3, <1>4, <1>5, StepIs DEF SeenInv

Growth   == \A e \in Ops : Generation(chain, e) /\ Refills(chain, e) => Parted(e) /\ Picked(e) /\ Cohort(e)
FullInv  == Distinct /\ Kept /\ Growth

LEMMA InitFull ==
    ASSUME Init
    PROVE  FullInv
  <1>1. reg.sets = {} /\ phase = "update" /\ at = 1
    BY DEF Init, EmptyRegistry
  <1>2. \A p : Of(p) = {}
    BY <1>1 DEF Of
  <1>3. Distinct /\ Kept
    BY <1>1, <1>2 DEF Distinct, Kept
  <1>4. ASSUME NEW e \in Ops, Generation(chain, e)
        PROVE  Parted(e) /\ Picked(e) /\ Cohort(e)
    <2>1. e > 1 /\ e \in Nat
      <3>1. e > 1
        BY <1>4 DEF Generation
      <3>2. FlowInv
        BY InitFlow
      <3>3. QED
        BY <3>1, <3>2, OpsIs
    <2>2. ~ (at > e) /\ ~ (at > e + 1) /\ \A r \in 2 .. e - 1 : ~ (r < at)
      BY <1>1, <2>1
    <2>3. QED
      BY <2>2 DEF Parted, Picked, Cohort
  <1>5. QED
    BY <1>3, <1>4 DEF FullInv, Growth

LEMMA NextFull ==
    ASSUME SeenInv, Supply, Typed, Sized, KinInv, FullInv, [Next]_vars,
           NEW g \in Ops, Generation(chain, g), Refills(chain, g)
    PROVE  FullInv'
  <1>1. chain' = chain /\ Ops' = Ops
    BY StepIs DEF SeenInv, Ops
  <1>2. Exact /\ OneMain /\ Distinct /\ Kept
    BY DEF KinInv, FullInv
  <1>3. ASSUME NEW e \in Ops, Generation(chain, e), Refills(chain, e)
        PROVE  Single(e) /\ Parted(e) /\ Picked(e) /\ Cohort(e)
    BY <1>3 DEF KinInv, Lineage, FullInv, Growth
  <1>4. ASSUME NEW e \in Ops, Generation(chain, e), Refills(chain, e)
        PROVE  Parted(e)' /\ Picked(e)' /\ Cohort(e)'
    BY <1>2, <1>3, <1>4, NextParted, NextPicked, NextCohort
  <1>5. Growth'
    BY <1>1, <1>4 DEF Growth
  <1>6. Distinct'
    BY <1>2, <1>3, NextDistinct
  <1>7. Kept'
    BY <1>2, NextKept
  <1>8. QED
    BY <1>5, <1>6, <1>7 DEF FullInv

(* In every flow whose generation selects, breeds and merges as the        *)
(* algorithms of Tigon do, and selects and breeds enough together, the     *)
(* population never loses or repeats a solution, whatever fails and until  *)
(* the flow is deleted: the ranks divide the population, the selection     *)
(* draws from them without repetition, bred solutions are new, and the     *)
(* merge finds as many as the population has places.                       *)
THEOREM PopulationAlwaysKept ==
    ASSUME \A c \in Chains : \E e \in DOMAIN c : Generation(c, e) /\ Refills(c, e)
    PROVE  Spec => []PopulationKept
  <1>1. \A c \in Chains : \E e \in DOMAIN c : Generation(c, e)
    OBVIOUS
  <1>2. SeenInv => \E e \in Ops : Generation(chain, e) /\ Refills(chain, e)
    BY OpsIs DEF SeenInv, FlowInv, Places
  <1>3. Init => FullInv
    BY InitFull
  <1>4. SeenInv /\ Supply /\ Typed /\ Sized /\ KinInv /\ FullInv /\ [Next]_vars => FullInv'
    <2> SUFFICES ASSUME SeenInv, Supply, Typed, Sized, KinInv, FullInv, [Next]_vars
                 PROVE  FullInv'
      OBVIOUS
    <2>1. PICK e \in Ops : Generation(chain, e) /\ Refills(chain, e)
      BY <1>2
    <2>2. QED
      BY <2>1, NextFull
  <1>5. SeenInv /\ Typed /\ Sized /\ FullInv => PopulationKept
    <2> SUFFICES ASSUME SeenInv, Typed, Sized, FullInv
                 PROVE  PopulationKept
      OBVIOUS
    <2>1. PICK e \in Ops : Generation(chain, e)
      BY <1>2
    <2>2. QED
      BY <2>1, DistinctKeeps DEF FullInv, Kept
  <1>6. QED
    BY <1>1, <1>3, <1>4, <1>5, KinAlways, PTL DEF Spec
=============================================================================
