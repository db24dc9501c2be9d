------------------------------ MODULE TaggedSets ------------------------------
(***************************************************************************)
(* The sets of solutions that the operators of a workflow share            *)
(* (IPSetPrivate::m_sets) and the registry that finds them by tag          *)
(* (IPSetPrivate::m_tags), with the operations of IPSet on them. A tag's   *)
(* list keeps the order in which sets were tagged; operators rely on it.   *)
(* A tag without sets and an absent tag are not distinguished, and the     *)
(* order of m_sets is left out: operators never remove by position.        *)
(***************************************************************************)
EXTENDS Naturals, SequencesExt

CONSTANTS
    Tag,      \* tags of sets
    SetId     \* addresses of ISet objects: positive integers, reused after a delete

ASSUME SetIdAssumption == SetId \subseteq Nat /\ IsFiniteSet(SetId)

\* m_sets, m_tags and every set's own tag list
EmptyRegistry ==
    [sets |-> {}, index |-> [t \in Tag |-> <<>>], own |-> [s \in SetId |-> {}]]

Registry ==
    [sets : SUBSET SetId, index : [Tag -> Seq(SetId)], own : [SetId -> SUBSET Tag]]

\* what r becomes when op is applied with every entry of q in turn
ForEach(op(_, _), r, q) ==
    LET after[i \in 0 .. Len(q)] == IF i = 0 THEN r ELSE op(after[i - 1], q[i])
    IN  after[Len(q)]

\* the entries of q that are in S, in their order
Listed(q, S) == ForEach(LAMBDA kept, s : IF s \in S THEN Append(kept, s) ELSE kept, <<>>, q)

\* a slip the runs must notice: only the first tag is looked at
setsWithFirstTag(r, tags) == IF tags = <<>> THEN <<>> ELSE r.index[Head(tags)]

\* the sets that carry all tags, in the order of the first tag's list
setsWithTags(r, tags) ==
    IF tags = <<>> THEN <<>>
    ELSE Listed(r.index[Head(tags)],
                {s \in SetId : \A t \in ToSet(tags) : s \in ToSet(r.index[t])})

\* a slip the runs must notice: new sets go to the front of the lists
prependSet(r, s, tags) ==
    [sets  |-> r.sets \cup {s},
     index |-> [t \in Tag |-> IF t \in tags THEN <<s>> \o r.index[t] ELSE r.index[t]],
     own   |-> [r.own EXCEPT ![s] = tags]]

\* appendSet(set, tags): a known set only has its own tags replaced
appendSet(r, s, tags) ==
    LET owned == [r.own EXCEPT ![s] = tags] IN
    IF s \in r.sets THEN [r EXCEPT !.own = owned]
    ELSE [sets  |-> r.sets \cup {s},
          index |-> [t \in Tag |-> IF t \in tags THEN Append(r.index[t], s) ELSE r.index[t]],
          own   |-> owned]

tagSet(r, s, tag) ==
    IF s \notin r.sets
    THEN appendSet(r, s, r.own[s] \cup {tag})
    ELSE [r EXCEPT !.own[s] = @ \cup {tag},
                   !.index[tag] = IF s \in ToSet(@) THEN @ ELSE Append(@, s)]

\* removeTagFromSet() once per tag of the set: it goes from the tags' lists
untagged(r, s) ==
    [t \in Tag |-> IF t \in r.own[s] THEN Listed(r.index[t], SetId \ {s}) ELSE r.index[t]]

\* a slip the runs must notice: the set is deleted but stays listed under its tags
removeTaggedSet(r, s) ==
    IF s \notin r.sets THEN r ELSE [r EXCEPT !.sets = @ \ {s}, !.own[s] = {}]

\* removeSet(set): untag, delete, forget; an unknown set is left alone
removeSet(r, s) ==
    IF s \notin r.sets THEN r
    ELSE [r EXCEPT !.index = untagged(r, s), !.sets = @ \ {s}, !.own[s] = {}]

-----------------------------------------------------------------------------
\* The registry and the sets' own tags tell the same story about registered
\* sets, list every set once, and mention no deleted set.
Agree(r) ==
    \A t \in Tag :
      /\ ToSet(r.index[t]) = {s \in r.sets : t \in r.own[s]}
      /\ IsInjective(r.index[t])
=============================================================================
