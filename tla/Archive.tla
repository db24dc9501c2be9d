------------------------------- MODULE Archive -------------------------------
(***************************************************************************)
(* The archive of non-dominated solutions and the ideal, anti-ideal and    *)
(* nadir vectors of a problem, as IPSet::updateIdealNadirVec() updates     *)
(* them for one solution after the other (Evaluator::evaluateNode). The    *)
(* archive is changed while it is walked, from its end to its beginning.   *)
(***************************************************************************)
EXTENDS Integers, Sequences

CONSTANTS
    Objective,       \* the objectives of the problem
    Value,           \* the values an objective can take
    Lowest, Highest, \* resetToMin() and resetToMax() of the objectives' type
    Mapping,         \* the solutions that are evaluated
    Decision,        \* their decision vectors
    Failed,          \* those whose objectives could not all be evaluated
    KeepArchive,     \* m_keepArchive
    Parallel         \* the evaluator's parallel branch, which reports them all

ASSUME ValueAssumption ==
    /\ Value \subseteq Int
    /\ Lowest \in Int /\ Highest \in Int
    /\ \A v \in Value : Lowest <= v /\ v <= Highest
ASSUME MappingAssumption ==
    /\ Mapping # {} /\ Failed \subseteq Mapping
    /\ KeepArchive \in BOOLEAN
    /\ Parallel \in BOOLEAN

VARIABLES
    ovec,       \* the objective vector every solution holds
    pc,         \* where updateIdealNadirVec() is
    imap,       \* the solution it is called with
    at,         \* index of the walk, or of the pass over the archive
    ret,        \* status of updateNonDominatedArchive() so far
    created,    \* a set with the archive's tag exists
    archive,    \* its solutions
    ideal, antiIdeal, nadir,
    newNadir,   \* the local vector of updateNadirVec()
    seen        \* history: the solutions reported so far

vars == <<ovec, pc, imap, at, ret, created, archive, ideal, antiIdeal, nadir,
          newNadir, seen>>
problem == <<ideal, antiIdeal, nadir>>

Vector  == [Objective -> Value]
Bound   == [Objective -> Value \cup {Lowest, Highest}]
Entries == {archive[i] : i \in DOMAIN archive}

TypeOK ==
    /\ ovec \in [Mapping -> Vector]
    /\ pc \in {"idle", "walk", "raise", "scan"}
    /\ imap \in Mapping
    /\ at \in Nat
    /\ ret \in {"Added", "Replaced"}
    /\ created \in BOOLEAN
    /\ archive \in Seq(Mapping)
    /\ ideal \in Bound
    /\ antiIdeal \in Bound
    /\ nadir \in Bound
    /\ newNadir \in Bound
    /\ seen \subseteq Mapping

Init ==
    /\ ovec \in [Mapping -> Vector]
    /\ pc = "idle"
    /\ imap = CHOOSE m \in Mapping : TRUE
    /\ at = 0
    /\ ret = "Added"
    /\ created = FALSE
    /\ archive = <<>>
    /\ ideal = [o \in Objective |-> Highest]
    /\ antiIdeal = [o \in Objective |-> Lowest]
    /\ nadir = [o \in Objective |-> Lowest]
    /\ newNadir = [o \in Objective |-> Lowest]
    /\ seen = {}
-----------------------------------------------------------------------------
\* bug: compares with a tolerance, as the branch for epsilon dominance does
BetterWithin(m, n) ==
    /\ m \notin Failed /\ n \notin Failed
    /\ \A o \in Objective : ovec[m][o] <= ovec[n][o] + 1
    /\ \E o \in Objective : ovec[m][o] < ovec[n][o]

\* operator<= of two mappings is true: weak dominance, undefined when an
\* objective is missing
Better(m, n) ==
    /\ m \notin Failed /\ n \notin Failed
    /\ \A o \in Objective : ovec[m][o] <= ovec[n][o]
    /\ \E o \in Objective : ovec[m][o] < ovec[n][o]

\* operator== of two mappings is true
Equal(m, n) ==
    /\ Decision[m] = Decision[n]
    /\ \/ m \in Failed /\ n \in Failed
       \/ m \notin Failed /\ n \notin Failed /\ ovec[m] = ovec[n]

Larger(x, y)  == IF x > y THEN x ELSE y
Smaller(x, y) == IF x < y THEN x ELSE y

\* Problem::updateNadir and updateAntiIdeal, and Problem::updateIdeal
Raised(v, m)  == [o \in Objective |-> Larger(ovec[m][o], v[o])]
Lowered(v, m) == [o \in Objective |-> Smaller(ovec[m][o], v[o])]

RemoveAt(s, i) == [j \in 1 .. Len(s) - 1 |-> IF j < i THEN s[j] ELSE s[j + 1]]
-----------------------------------------------------------------------------
(* A solution is reported: ideal and anti-ideal vector, then the archive,  *)
(* which is created with the first solution, or walked from its end.       *)
Arrive(m) ==
    /\ pc = "idle"
    /\ Parallel \/ m \notin Failed
    /\ imap' = m
    /\ seen' = seen \cup {m}
    /\ ideal' = Lowered(ideal, m)
    /\ antiIdeal' = Raised(antiIdeal, m)
    /\ pc' = IF KeepArchive THEN IF created THEN "walk" ELSE "scan" ELSE "idle"
    /\ created' = (created \/ KeepArchive)
    /\ archive' = IF KeepArchive /\ ~created THEN <<m>> ELSE archive
    /\ ret' = IF KeepArchive /\ ~created THEN "Replaced" ELSE "Added"
    /\ at' = IF KeepArchive /\ created THEN Len(archive) ELSE 0
    /\ newNadir' = [o \in Objective |-> Lowest]
    /\ UNCHANGED <<ovec, nadir>>

Walking == pc = "walk" /\ at > 0

\* An archived solution is better or the same: the archive is unchanged.
Reject ==
    /\ Walking
    /\ Better(archive[at], imap) \/ Equal(archive[at], imap)
    /\ pc' = "idle"
    /\ UNCHANGED <<ovec, imap, at, ret, created, archive, problem, newNadir, seen>>

\* bug: forgets that the archive has lost a solution
DropQuietly ==
    /\ Walking
    /\ Better(imap, archive[at])
    /\ archive' = RemoveAt(archive, at)
    /\ at' = at - 1
    /\ UNCHANGED <<ovec, pc, imap, ret, created, problem, newNadir, seen>>

\* bug: the index moves on by one too many after a removal
DropSkips ==
    /\ Walking
    /\ Better(imap, archive[at])
    /\ archive' = RemoveAt(archive, at)
    /\ ret' = "Replaced"
    /\ at' = IF at > 1 THEN at - 2 ELSE 0
    /\ UNCHANGED <<ovec, pc, imap, created, problem, newNadir, seen>>

\* The new solution is better: the archived one goes.
Drop ==
    /\ Walking
    /\ Better(imap, archive[at])
    /\ archive' = RemoveAt(archive, at)
    /\ ret' = "Replaced"
    /\ at' = at - 1
    /\ UNCHANGED <<ovec, pc, imap, created, problem, newNadir, seen>>

Pass ==
    /\ Walking
    /\ ~Better(archive[at], imap) /\ ~Better(imap, archive[at])
    /\ ~Equal(archive[at], imap)
    /\ at' = at - 1
    /\ UNCHANGED <<ovec, pc, imap, ret, created, archive, problem, newNadir, seen>>

\* The walk is over; the nadir vector grows, or is computed anew.
Insert ==
    /\ pc = "walk" /\ at = 0
    /\ archive' = Append(archive, imap)
    /\ pc' = IF ret = "Added" THEN "raise" ELSE "scan"
    /\ UNCHANGED <<ovec, imap, at, ret, created, problem, newNadir, seen>>

\* Problem::updateNadir
Raise ==
    /\ pc = "raise"
    /\ nadir' = Raised(nadir, imap)
    /\ pc' = "idle"
    /\ UNCHANGED <<ovec, imap, at, ret, created, archive, ideal, antiIdeal,
                   newNadir, seen>>

\* The pass over the archive that finds the new nadir vector.
Scan ==
    /\ pc = "scan" /\ at < Len(archive)
    /\ newNadir' = Raised(newNadir, archive[at + 1])
    /\ at' = at + 1
    /\ UNCHANGED <<ovec, pc, imap, ret, created, archive, problem, seen>>

DefineNadir ==
    /\ pc = "scan" /\ at = Len(archive)
    /\ nadir' = newNadir
    /\ pc' = "idle"
    /\ UNCHANGED <<ovec, imap, at, ret, created, archive, ideal, antiIdeal,
                   newNadir, seen>>

Next == \/ \E m \in Mapping : Arrive(m)
        \/ Reject \/ Drop \/ Pass \/ Insert \/ Raise \/ Scan \/ DefineNadir

Spec == Init /\ [][Next]_vars
-----------------------------------------------------------------------------
(* Between two reports the archive is exactly the non-dominated part of    *)
(* what was reported: no archived solution is worse than any reported one, *)
(* none is there twice, and a solution that is missing has a better one or *)
(* its equal in the archive. So the order of arrival does not matter.      *)
ArchiveExact ==
    pc = "idle" /\ KeepArchive =>
        /\ \A e \in Entries : e \in seen /\ \A s \in seen : ~Better(s, e)
        /\ \A i, j \in DOMAIN archive : i # j => ~Equal(archive[i], archive[j])
        /\ \A s \in seen : \E e \in Entries : e = s \/ Equal(e, s) \/ Better(e, s)

(* updateNonDominatedArchive() returns early without having looked at the  *)
(* rest of the archive: this happens only when it has removed nothing.     *)
NoLostRemoval == [][Reject => ret = "Added"]_vars

(* The vectors are what their names say: ideal and anti-ideal the smallest *)
(* and largest value of each objective of all reported solutions, nadir    *)
(* the largest of the archived ones, although it is updated incrementally  *)
(* as long as nothing is removed.                                          *)
Attained(v, S) == \A o \in Objective : \E s \in S : ovec[s][o] = v[o]
VectorsExact ==
    /\ seen # {} => /\ \A s \in seen, o \in Objective :
                          ideal[o] <= ovec[s][o] /\ ovec[s][o] <= antiIdeal[o]
                    /\ Attained(ideal, seen) /\ Attained(antiIdeal, seen)
    /\ pc = "idle" /\ created =>
         /\ \A e \in Entries, o \in Objective : ovec[e][o] <= nadir[o]
         /\ Attained(nadir, Entries)
=============================================================================
