---------------------------- MODULE ArchiveProofs ----------------------------
(***************************************************************************)
(* The archive is the non-dominated part of what was reported, for any     *)
(* solutions, objectives and values, in whichever order they arrive.       *)
(***************************************************************************)
EXTENDS Archive, TLAPS

Index == DOMAIN archive

(* What the walk relies on about the places it is at.                      *)
Places ==
    /\ at <= Len(archive)
    /\ pc # "idle" => KeepArchive /\ created
    /\ pc # "idle" => imap \in seen
    /\ ~created => archive = <<>>
    /\ KeepArchive /\ ~created => seen = {}
    /\ \A i \in Index : archive[i] \in seen

(* No two archived solutions are comparable or equal.                      *)
Antichain ==
    \A i, j \in Index : i # j => /\ ~Better(archive[i], archive[j])
                                 /\ ~Equal(archive[i], archive[j])

(* Entry i stands for solution s.                                          *)
StandsFor(i, s) ==
    archive[i] = s \/ Equal(archive[i], s) \/ Better(archive[i], s)

(* Every reported solution is represented, if only by the one that is      *)
(* about to be inserted.                                                   *)
Covered ==
    KeepArchive =>
        \A s \in seen : \/ pc = "walk" /\ (s = imap \/ Better(imap, s))
                        \/ \E i \in Index : StandsFor(i, s)

(* The walk has passed only solutions that have nothing to do with imap.   *)
Passed ==
    pc = "walk" =>
        \A j \in Index : j > at => /\ ~Better(archive[j], imap)
                                   /\ ~Better(imap, archive[j])
                                   /\ ~Equal(archive[j], imap)

(* When the walk has removed something, that was worse than imap and       *)
(* nothing still in the archive is better than it.                         *)
Removed ==
    pc = "walk" /\ ret = "Replaced" =>
        \E x \in seen : /\ Better(imap, x)
                        /\ \A i \in Index : ~Better(archive[i], x)

ArchiveInv == TypeOK /\ Places /\ Antichain /\ Covered /\ Passed /\ Removed
-----------------------------------------------------------------------------
(* Weak dominance is a strict order that respects equality of mappings.    *)
LEMMA BetterTransitive ==
    ASSUME TypeOK, NEW a \in Mapping, NEW b \in Mapping, NEW c \in Mapping,
           Better(a, b), Better(b, c)
    PROVE  Better(a, c)
  <1>1. \A m \in Mapping, o \in Objective : ovec[m][o] \in Int
    BY ValueAssumption DEF TypeOK, Vector
  <1>2. QED
    BY <1>1 DEF Better

LEMMA BetterIrreflexive ==
    ASSUME TypeOK, NEW a \in Mapping
    PROVE  ~Better(a, a)
  <1>1. \A o \in Objective : ovec[a][o] \in Int
    BY ValueAssumption DEF TypeOK, Vector
  <1>2. QED
    BY <1>1 DEF Better

LEMMA BetterOfEqual ==
    ASSUME NEW a, NEW b, NEW c, Equal(a, b)
    PROVE  /\ Better(b, c) => Better(a, c)
           /\ Better(c, b) => Better(c, a)
           /\ Better(c, a) => Better(c, b)
           /\ Equal(b, a)
           /\ Equal(b, c) => Equal(a, c)
  BY DEF Equal, Better

(* What RemoveAt leaves of a sequence.                                     *)
LEMMA RemoveAtIndex ==
    ASSUME NEW S, NEW s \in Seq(S), NEW i \in DOMAIN s
    PROVE  /\ RemoveAt(s, i) \in Seq(S)
           /\ Len(RemoveAt(s, i)) = Len(s) - 1
           /\ \A j \in 1 .. Len(s) - 1 :
                 RemoveAt(s, i)[j] = IF j < i THEN s[j] ELSE s[j + 1]
           /\ \A k \in DOMAIN s : k # i =>
                 \E j \in 1 .. Len(s) - 1 : RemoveAt(s, i)[j] = s[k]
  <1> DEFINE r == RemoveAt(s, i)
  <1>1. Len(s) \in Nat /\ DOMAIN s = 1 .. Len(s) /\ Len(s) - 1 \in Nat
    OBVIOUS
  <1>2. \A j \in 1 .. Len(s) - 1 : (IF j < i THEN s[j] ELSE s[j + 1]) \in S
    BY <1>1
  <1>3. r \in [1 .. Len(s) - 1 -> S]
    BY <1>2 DEF RemoveAt
  <1>4. r \in Seq(S) /\ Len(r) = Len(s) - 1
    <2>1. PICK n \in Nat : n = Len(s) - 1
      BY <1>1
    <2>2. \A f \in [1 .. n -> S] : f \in Seq(S) /\ Len(f) = n
      OBVIOUS
    <2>3. QED
      BY <1>3, <2>1, <2>2
  <1>5. \A j \in 1 .. Len(s) - 1 : r[j] = IF j < i THEN s[j] ELSE s[j + 1]
    BY DEF RemoveAt
  <1>6. ASSUME NEW k \in DOMAIN s, k # i
        PROVE  \E j \in 1 .. Len(s) - 1 : r[j] = s[k]
    <2>1. CASE k < i
      BY <1>1, <1>5, <2>1
    <2>2. CASE k > i
      <3>1. k - 1 \in 1 .. Len(s) - 1 /\ ~(k - 1 < i) /\ k - 1 + 1 = k
        BY <1>1, <2>2
      <3>2. QED
        BY <1>5, <3>1
    <2>3. QED
      BY <1>1, <1>6, <2>1, <2>2
  <1>7. QED
    BY <1>4, <1>5, <1>6
-----------------------------------------------------------------------------
(* The three vectors. While nothing has been removed the nadir vector is   *)
(* that of the archive; afterwards it is stale until the pass is over.     *)
Bounded(v, k) == \A i \in Index, o \in Objective : i <= k => ovec[archive[i]][o] <= v[o]
Reached(v, k) == \A o \in Objective : \E i \in Index : i <= k /\ ovec[archive[i]][o] = v[o]

NadirKept ==
    /\ pc = "idle" /\ created => Bounded(nadir, Len(archive)) /\ Reached(nadir, Len(archive))
    /\ pc = "walk" => newNadir = [o \in Objective |-> Lowest]
    /\ pc = "walk" /\ ret = "Added" => Bounded(nadir, Len(archive)) /\ Reached(nadir, Len(archive))
    /\ pc = "raise" => /\ Len(archive) > 0 /\ archive[Len(archive)] = imap
                       /\ Bounded(nadir, Len(archive) - 1)
                       /\ Reached(nadir, Len(archive) - 1)
    /\ pc = "scan" => /\ Len(archive) > 0
                      /\ Bounded(newNadir, at)
                      /\ IF at = 0 THEN newNadir = [o \in Objective |-> Lowest]
                                   ELSE Reached(newNadir, at)

SeenBounds ==
    /\ \A s \in seen, o \in Objective : ideal[o] <= ovec[s][o] /\ ovec[s][o] <= antiIdeal[o]
    /\ seen = {} => /\ ideal = [o \in Objective |-> Highest]
                    /\ antiIdeal = [o \in Objective |-> Lowest]
    /\ seen # {} => Attained(ideal, seen) /\ Attained(antiIdeal, seen)

VectorInv == NadirKept /\ SeenBounds
-----------------------------------------------------------------------------
(* Types and places.                                                       *)
LEMMA RaisedBound ==
    ASSUME NEW v \in Bound, NEW m \in Mapping, ovec \in [Mapping -> Vector]
    PROVE  /\ Raised(v, m) \in Bound
           /\ Lowered(v, m) \in Bound
           /\ \A o \in Objective :
                 /\ Raised(v, m)[o] \in Int /\ v[o] \in Int /\ ovec[m][o] \in Int
                 /\ Raised(v, m)[o] = Larger(ovec[m][o], v[o])
                 /\ Lowered(v, m)[o] \in Int
                 /\ Lowered(v, m)[o] = Smaller(ovec[m][o], v[o])
  <1>1. \A o \in Objective : ovec[m][o] \in Value /\ v[o] \in Value \cup {Lowest, Highest}
    BY DEF Vector, Bound
  <1>2. \A o \in Objective : /\ Larger(ovec[m][o], v[o]) \in Value \cup {Lowest, Highest}
                             /\ Smaller(ovec[m][o], v[o]) \in Value \cup {Lowest, Highest}
    BY <1>1 DEF Larger, Smaller
  <1>3. \A x \in Value \cup {Lowest, Highest} : x \in Int
    BY ValueAssumption
  <1>4. QED
    BY <1>1, <1>2, <1>3 DEF Raised, Lowered, Bound

LEMMA InitArchive == Init => ArchiveInv /\ VectorInv
  <1> SUFFICES ASSUME Init PROVE ArchiveInv /\ VectorInv
    OBVIOUS
  <1> DEFINE low == [o \in Objective |-> Lowest]
             high == [o \in Objective |-> Highest]
  <1>1. imap \in Mapping
    BY MappingAssumption DEF Init
  <1>2. /\ ovec \in [Mapping -> Vector] /\ pc = "idle" /\ at = 0 /\ ret = "Added"
        /\ created = FALSE /\ archive = <<>> /\ seen = {}
        /\ ideal = high /\ antiIdeal = low /\ nadir = low /\ newNadir = low
    BY DEF Init
  <1>3. low \in Bound /\ high \in Bound
    BY DEF Bound
  <1>4. archive \in Seq(Mapping) /\ at \in Nat
    BY <1>2
  <1> HIDE DEF low, high
  <1>5. TypeOK
    BY <1>1, <1>2, <1>3, <1>4 DEF TypeOK
  <1>6. Places /\ Antichain /\ Covered /\ Passed /\ Removed
    BY <1>2 DEF Places, Antichain, Covered, Passed, Removed, Index
  <1>7. NadirKept /\ SeenBounds
    BY <1>2 DEF NadirKept, SeenBounds, low, high
  <1>8. QED
    BY <1>5, <1>6, <1>7 DEF ArchiveInv, VectorInv

LEMMA PlacesStep ==
    ASSUME TypeOK, Places, [Next]_vars
    PROVE  TypeOK' /\ Places'
  <1> USE DEF TypeOK, Places, Index
  <1>1. CASE \E m \in Mapping : Arrive(m)
    <2>1. PICK m \in Mapping : Arrive(m)
      BY <1>1
    <2>2. Lowered(ideal, m) \in Bound /\ Raised(antiIdeal, m) \in Bound
      BY RaisedBound
    <2>3. [o \in Objective |-> Lowest] \in Bound
      BY DEF Bound
    <2>4. CASE KeepArchive /\ ~created
      <3>1. archive' = <<m>> /\ archive' \in Seq(Mapping)
        BY <2>1, <2>4 DEF Arrive
      <3>2. Len(archive') = 1 /\ DOMAIN archive' = {1} /\ archive'[1] = m
        BY <3>1
      <3>3. pc' = "scan" /\ at' = 0 /\ ret' = "Replaced" /\ created' = TRUE
        BY <2>1, <2>4 DEF Arrive
      <3>4. m \in seen' /\ seen' \subseteq Mapping /\ imap' = m /\ imap' \in Mapping
        BY <2>1 DEF Arrive
      <3>5. TypeOK'
        BY <2>1, <2>2, <2>3, <3>1, <3>3, <3>4 DEF Arrive
      <3>6. Places'
        BY <2>4, <3>1, <3>2, <3>3, <3>4
      <3>7. QED
        BY <3>5, <3>6
    <2>5. CASE ~(KeepArchive /\ ~created)
      <3>1. archive' = archive /\ ret' = "Added" /\ at' \in Nat /\ at' <= Len(archive)
        BY <2>1, <2>5 DEF Arrive
      <3>2. pc' \in {"idle", "walk"} /\ (pc' = "walk" => KeepArchive /\ created)
        BY <2>1, <2>5 DEF Arrive
      <3>3. QED
        BY <2>1, <2>2, <2>3, <2>5, <3>1, <3>2, MappingAssumption DEF Arrive
    <2>6. QED
      BY <2>4, <2>5
  <1>2. CASE Reject
    BY <1>2 DEF Reject, Walking, problem
  <1>3. CASE Drop
    <2>1. at \in DOMAIN archive /\ at - 1 \in Nat
      BY <1>3 DEF Drop, Walking
    <2>2. /\ archive' \in Seq(Mapping) /\ Len(archive') = Len(archive) - 1
          /\ \A j \in 1 .. Len(archive) - 1 :
                archive'[j] = IF j < at THEN archive[j] ELSE archive[j + 1]
      BY <1>3, <2>1, RemoveAtIndex DEF Drop
    <2>3. \A j \in DOMAIN archive' : archive'[j] \in seen
      BY <2>1, <2>2
    <2>4. QED
      BY <1>3, <2>1, <2>2, <2>3 DEF Drop, Walking, problem
  <1>4. CASE Pass
    BY <1>4 DEF Pass, Walking, problem
  <1>5. CASE Insert
    <2>1. /\ archive' \in Seq(Mapping) /\ Len(archive') = Len(archive) + 1
          /\ \A j \in DOMAIN archive' : archive'[j] \in seen
      BY <1>5 DEF Insert
    <2>2. QED
      BY <1>5, <2>1 DEF Insert, problem
  <1>6. CASE Raise
    <2>1. Raised(nadir, imap) \in Bound
      BY RaisedBound
    <2>2. QED
      BY <1>6, <2>1 DEF Raise
  <1>7. CASE Scan
    <2>1. at + 1 \in DOMAIN archive /\ archive[at + 1] \in Mapping
      BY <1>7 DEF Scan
    <2>. Raised(newNadir, archive[at + 1]) \in Bound
      BY <2>1, RaisedBound
    <2>2. QED
      BY <1>7, <2>1 DEF Scan, problem
  <1>8. CASE DefineNadir
    BY <1>8 DEF DefineNadir
  <1>9. CASE UNCHANGED vars
    BY <1>9 DEF vars
  <1>10. QED
    BY <1>1, <1>2, <1>3, <1>4, <1>5, <1>6, <1>7, <1>8, <1>9 DEF Next
-----------------------------------------------------------------------------
(* The archive, one lemma per action that touches it or its walk.          *)
Walk == Antichain /\ Covered /\ Passed /\ Removed

LEMMA ArriveWalk ==
    ASSUME ArchiveInv, NEW m \in Mapping, Arrive(m)
    PROVE  Walk'
  <1> USE DEF ArchiveInv, Places, Index
  <1>1. ovec' = ovec /\ pc = "idle" /\ imap' = m /\ seen' = seen \cup {m}
    BY DEF Arrive
  <1>2. CASE KeepArchive /\ ~created
    <2>1. seen = {} /\ archive' = <<m>> /\ pc' = "scan"
      BY <1>1, <1>2 DEF Arrive
    <2>2. DOMAIN archive' = {1} /\ archive'[1] = m
      BY <2>1
    <2>3. QED
      BY <1>1, <2>1, <2>2 DEF Walk, Antichain, Covered, Passed, Removed, StandsFor
  <1>3. CASE ~(KeepArchive /\ ~created)
    <2>1. archive' = archive /\ ret' = "Added"
      BY <1>3 DEF Arrive
    <2>2. Antichain'
      BY <1>1, <2>1 DEF Antichain, Better, Equal
    <2>3. CASE KeepArchive
      <3>1. pc' = "walk" /\ at' = Len(archive)
        BY <1>3, <2>3 DEF Arrive
      <3>2. Covered'
        BY <1>1, <2>1, <3>1 DEF Covered, StandsFor, Better, Equal
      <3>3. Passed' /\ Removed'
        BY <2>1, <3>1 DEF TypeOK, Passed, Removed
      <3>4. QED
        BY <2>2, <3>2, <3>3 DEF Walk
    <2>4. CASE ~KeepArchive
      <3>1. pc' = "idle"
        BY <2>4 DEF Arrive
      <3>2. QED
        BY <2>2, <2>4, <3>1 DEF Walk, Covered, Passed, Removed
    <2>5. QED
      BY <2>3, <2>4
  <1>4. QED
    BY <1>2, <1>3

(* A rejected solution is represented, and so is all it is better than.    *)
LEMMA RejectWalk ==
    ASSUME ArchiveInv, Reject
    PROVE  Walk'
  <1> USE DEF ArchiveInv, Places, Index
  <1>1. /\ ovec' = ovec /\ pc = "walk" /\ pc' = "idle" /\ at \in DOMAIN archive
        /\ archive' = archive /\ seen' = seen
        /\ Better(archive[at], imap) \/ Equal(archive[at], imap)
    BY DEF Reject, Walking, TypeOK
  <1>2. Antichain'
    BY <1>1 DEF Antichain, Better, Equal
  <1>3. StandsFor(at, imap)
    BY <1>1 DEF StandsFor
  <1>4. ASSUME NEW s \in seen, Better(imap, s)
        PROVE  StandsFor(at, s)
    <2>1. archive[at] \in Mapping /\ imap \in Mapping /\ s \in Mapping
      BY <1>1 DEF TypeOK
    <2>2. Better(archive[at], s)
      BY <1>1, <1>4, <2>1, BetterTransitive, BetterOfEqual
    <2>3. QED
      BY <2>2 DEF StandsFor
  <1>5. \A s \in seen : KeepArchive => \E i \in Index : StandsFor(i, s)
    BY <1>1, <1>3, <1>4 DEF Covered
  <1>6. Covered'
    BY <1>1, <1>5 DEF Covered, StandsFor, Better, Equal
  <1>7. QED
    BY <1>1, <1>2, <1>6 DEF Walk, Passed, Removed

(* Whoever the dropped solution stood for is worse than the new one.       *)
LEMMA DropWalk ==
    ASSUME ArchiveInv, Drop
    PROVE  Walk'
  <1> USE DEF ArchiveInv, Places, Index
  <1> DEFINE x == archive[at]
  <1>1. /\ ovec' = ovec /\ pc = "walk" /\ pc' = "walk" /\ imap' = imap
        /\ at \in DOMAIN archive /\ at' = at - 1 /\ seen' = seen
        /\ Better(imap, x) /\ archive' = RemoveAt(archive, at) /\ ret' = "Replaced"
    BY DEF Drop, Walking, TypeOK
  <1>2. archive \in Seq(Mapping) /\ x \in Mapping /\ x \in seen /\ imap \in Mapping
    BY <1>1 DEF TypeOK
  <1>3. /\ archive' \in Seq(Mapping) /\ Len(archive') = Len(archive) - 1
        /\ \A j \in 1 .. Len(archive) - 1 :
              archive'[j] = IF j < at THEN archive[j] ELSE archive[j + 1]
        /\ \A k \in DOMAIN archive : k # at =>
              \E j \in 1 .. Len(archive) - 1 : archive'[j] = archive[k]
    BY <1>1, <1>2, RemoveAtIndex
  <1>4. DOMAIN archive' = 1 .. Len(archive) - 1 /\ at \in 1 .. Len(archive)
    BY <1>1, <1>2, <1>3
  <1> DEFINE from(j) == IF j < at THEN j ELSE j + 1
  <1>5. \A j \in DOMAIN archive' :
            /\ from(j) \in DOMAIN archive /\ from(j) # at
            /\ archive'[j] = archive[from(j)]
            /\ j > at - 1 => from(j) > at
    BY <1>2, <1>3, <1>4
  <1>6. \A i, j \in DOMAIN archive' : i # j => from(i) # from(j)
    BY <1>4
  <1>7. \A a, b : (Better(a, b) <=> Better(a, b)') /\ (Equal(a, b) <=> Equal(a, b)')
    BY <1>1 DEF Better, Equal
  <1> HIDE DEF from
  <1>8. Antichain'
    BY <1>5, <1>6, <1>1 DEF Antichain, Better, Equal
  <1>9. Passed'
    BY <1>5, <1>1 DEF Passed, Better, Equal
  <1>10. Removed'
    BY <1>5, <1>1, <1>2 DEF Removed, Antichain, Better
  <1>11. Covered'
    <2> SUFFICES ASSUME KeepArchive, NEW s \in seen, s # imap, ~Better(imap, s)
                 PROVE  \E j \in DOMAIN archive' : StandsFor(j, s)'
      BY <1>1 DEF Covered, Better
    <2>1. PICK k \in DOMAIN archive : StandsFor(k, s)
      BY <1>1 DEF Covered
    <2>2. s \in Mapping /\ ~(x = s) /\ ~Equal(x, s) /\ ~Better(x, s)
      BY <1>1, <1>2, BetterTransitive, BetterOfEqual DEF TypeOK
    <2>3. k # at
      BY <2>1, <2>2 DEF StandsFor
    <2>4. PICK j \in DOMAIN archive' : archive'[j] = archive[k]
      BY <1>3, <1>4, <2>3
    <2>5. StandsFor(j, s)'
      BY <1>1, <2>1, <2>4 DEF StandsFor, Better, Equal
    <2>6. QED
      BY <2>5
  <1>12. QED
    BY <1>8, <1>9, <1>10, <1>11 DEF Walk
LEMMA PassWalk ==
    ASSUME ArchiveInv, Pass
    PROVE  Walk'
  <1> USE DEF ArchiveInv, Places, Index
  <1>1. /\ ovec' = ovec /\ pc = "walk" /\ pc' = "walk" /\ imap' = imap /\ ret' = ret
        /\ at \in DOMAIN archive /\ at' = at - 1 /\ seen' = seen /\ archive' = archive
        /\ ~Better(archive[at], imap) /\ ~Better(imap, archive[at])
        /\ ~Equal(archive[at], imap)
    BY DEF Pass, Walking, TypeOK
  <1>2. \A j \in DOMAIN archive : j > at - 1 => j = at \/ j > at
    BY <1>1 DEF TypeOK
  <1>3. Passed'
    BY <1>1, <1>2 DEF Passed, Better, Equal
  <1>4. Antichain' /\ Removed'
    BY <1>1 DEF Antichain, Removed, Better, Equal
  <1>5. Covered'
    BY <1>1 DEF Covered, StandsFor, Better, Equal
  <1>6. QED
    BY <1>3, <1>4, <1>5 DEF Walk

LEMMA InsertWalk ==
    ASSUME ArchiveInv, Insert
    PROVE  Walk'
  <1> USE DEF ArchiveInv, Places, Index
  <1>1. /\ ovec' = ovec /\ pc = "walk" /\ pc' # "walk" /\ imap' = imap /\ at = 0
        /\ seen' = seen /\ archive' = Append(archive, imap)
        /\ archive \in Seq(Mapping) /\ imap \in Mapping
    BY DEF Insert, TypeOK
  <1> PICK n \in Nat : n = Len(archive)
    BY <1>1
  <1>2. /\ DOMAIN archive = 1 .. n /\ DOMAIN archive' = 1 .. n + 1
        /\ archive'[n + 1] = imap
        /\ \A i \in 1 .. n : archive'[i] = archive[i]
    BY <1>1
  <1>3. \A i \in 1 .. n : /\ ~Better(archive[i], imap) /\ ~Better(imap, archive[i])
                          /\ ~Equal(archive[i], imap) /\ ~Equal(imap, archive[i])
    BY <1>1, <1>2, BetterOfEqual DEF Passed
  <1>4. Antichain'
    <2> SUFFICES ASSUME NEW i \in 1 .. n + 1, NEW j \in 1 .. n + 1, i # j
                 PROVE  /\ ~Better(archive[i], archive[j])'
                        /\ ~Equal(archive[i], archive[j])'
      BY <1>2 DEF Antichain
    <2>1. CASE i \in 1 .. n /\ j \in 1 .. n
      BY <1>1, <1>2, <2>1 DEF Antichain, Better, Equal
    <2>2. CASE i = n + 1 /\ j \in 1 .. n
      BY <1>1, <1>2, <1>3, <2>2 DEF Better, Equal
    <2>3. CASE j = n + 1 /\ i \in 1 .. n
      BY <1>1, <1>2, <1>3, <2>3 DEF Better, Equal
    <2>4. QED
      BY <1>2, <2>1, <2>2, <2>3
  <1>5. Covered'
    <2> SUFFICES ASSUME KeepArchive, NEW s \in seen
                 PROVE  \E i \in 1 .. n + 1 : StandsFor(i, s)'
      BY <1>1, <1>2 DEF Covered
    <2>1. CASE s = imap \/ Better(imap, s)
      <3>1. StandsFor(n + 1, s)'
        BY <1>1, <1>2, <2>1 DEF StandsFor, Better
      <3>2. QED
        BY <1>2, <3>1
    <2>2. CASE \E i \in Index : StandsFor(i, s)
      <3>1. PICK i \in 1 .. n : StandsFor(i, s)
        BY <1>2, <2>2
      <3>2. StandsFor(i, s)'
        BY <1>1, <1>2, <3>1 DEF StandsFor, Better, Equal
      <3>3. QED
        BY <1>2, <3>2
    <2>3. QED
      BY <1>1, <2>1, <2>2 DEF Covered
  <1>6. QED
    BY <1>1, <1>4, <1>5 DEF Walk, Passed, Removed

LEMMA StepArchive == ArchiveInv /\ [Next]_vars => ArchiveInv'
  <1> SUFFICES ASSUME ArchiveInv, [Next]_vars PROVE ArchiveInv'
    OBVIOUS
  <1>1. TypeOK' /\ Places'
    BY PlacesStep DEF ArchiveInv
  <1>2. Walk'
    <2>1. CASE \E m \in Mapping : Arrive(m)
      BY <2>1, ArriveWalk
    <2>2. CASE Reject
      BY <2>2, RejectWalk
    <2>3. CASE Drop
      BY <2>3, DropWalk
    <2>4. CASE Pass
      BY <2>4, PassWalk
    <2>5. CASE Insert
      BY <2>5, InsertWalk
    <2>6. CASE Raise \/ Scan \/ DefineNadir
      <3>1. /\ ovec' = ovec /\ archive' = archive /\ seen' = seen
            /\ pc # "walk" /\ pc' # "walk"
        BY <2>6 DEF Raise, Scan, DefineNadir
      <3>2. QED
        BY <3>1 DEF ArchiveInv, Walk, Index, Antichain, Covered, Passed, Removed,
                    StandsFor, Better, Equal
    <2>7. CASE UNCHANGED vars
      BY <2>7 DEF vars, ArchiveInv, Walk, Index, Antichain, Covered, Passed, Removed,
                  StandsFor, Better, Equal
    <2>8. QED
      BY <2>1, <2>2, <2>3, <2>4, <2>5, <2>6, <2>7 DEF Next
  <1>3. QED
    BY <1>1, <1>2 DEF ArchiveInv, Walk

(* The invariant of the walk gives the reference definition at its end.    *)
LEMMA ArchiveInvExact == ArchiveInv => ArchiveExact
  <1> SUFFICES ASSUME ArchiveInv, pc = "idle", KeepArchive
               PROVE  /\ \A e \in Entries : e \in seen /\ \A s \in seen : ~Better(s, e)
                      /\ \A i, j \in DOMAIN archive : i # j => ~Equal(archive[i], archive[j])
                      /\ \A s \in seen : \E e \in Entries : e = s \/ Equal(e, s) \/ Better(e, s)
    BY DEF ArchiveExact
  <1> USE DEF ArchiveInv, Places, Index
  <1>1. \A s \in seen : \E i \in DOMAIN archive : StandsFor(i, s)
    BY DEF Covered
  <1>2. ASSUME NEW j \in DOMAIN archive, NEW s \in seen, Better(s, archive[j])
        PROVE  FALSE
    <2>1. PICK i \in DOMAIN archive : StandsFor(i, s)
      BY <1>1
    <2>2. archive[i] \in Mapping /\ archive[j] \in Mapping /\ s \in Mapping
      BY DEF TypeOK
    <2>3. Better(archive[i], archive[j])
      BY <1>2, <2>1, <2>2, BetterTransitive, BetterOfEqual DEF StandsFor
    <2>4. i = j
      BY <2>3 DEF Antichain
    <2>5. QED
      BY <2>2, <2>3, <2>4, BetterIrreflexive
  <1>3. \A e \in Entries : e \in seen /\ \A s \in seen : ~Better(s, e)
    BY <1>2 DEF Entries
  <1>4. \A s \in seen : \E e \in Entries : e = s \/ Equal(e, s) \/ Better(e, s)
    BY <1>1 DEF Entries, StandsFor
  <1>5. QED
    BY <1>3, <1>4 DEF Antichain

(* The archive is the non-dominated part of what was reported.             *)
THEOREM ArchiveIsExact == Spec => []ArchiveExact
  <1>1. Init => ArchiveInv
    BY InitArchive
  <1>2. ArchiveInv /\ [Next]_vars => ArchiveInv'
    BY StepArchive
  <1>3. QED
    BY <1>1, <1>2, ArchiveInvExact, PTL DEF Spec

(* A report is refused before anything was removed.                        *)
LEMMA RejectUnchanged == ArchiveInv /\ Reject => ret = "Added"
  <1> SUFFICES ASSUME ArchiveInv, Reject, ret # "Added" PROVE FALSE
    OBVIOUS
  <1>1. /\ pc = "walk" /\ ret = "Replaced" /\ at \in DOMAIN archive
        /\ Better(archive[at], imap) \/ Equal(archive[at], imap)
    BY DEF Reject, Walking, ArchiveInv, TypeOK, Places
  <1>2. PICK x \in seen : Better(imap, x) /\ ~Better(archive[at], x)
    BY <1>1 DEF ArchiveInv, Removed, Index
  <1>3. archive[at] \in Mapping /\ imap \in Mapping /\ x \in Mapping
    BY <1>1 DEF ArchiveInv, TypeOK
  <1>4. QED
    BY <1>1, <1>2, <1>3, BetterTransitive, BetterOfEqual DEF ArchiveInv

(* When an early return leaves the archive, it is as it was.               *)
THEOREM NothingLost == Spec => NoLostRemoval
  BY InitArchive, StepArchive, RejectUnchanged, PTL DEF Spec, NoLostRemoval
-----------------------------------------------------------------------------
(* The vectors, one lemma per part.                                        *)
LEMMA SeenStep ==
    ASSUME TypeOK, SeenBounds, [Next]_vars
    PROVE  SeenBounds'
  <1>1. CASE \E m \in Mapping : Arrive(m)
    <2>1. PICK m \in Mapping : Arrive(m)
      BY <1>1
    <2>2. /\ ovec' = ovec /\ seen' = seen \cup {m} /\ m \in seen'
          /\ ideal' = Lowered(ideal, m) /\ antiIdeal' = Raised(antiIdeal, m)
      BY <2>1 DEF Arrive
    <2>3. \A o \in Objective :
             /\ ideal'[o] = Smaller(ovec[m][o], ideal[o])
             /\ antiIdeal'[o] = Larger(ovec[m][o], antiIdeal[o])
             /\ ideal[o] \in Int /\ antiIdeal[o] \in Int /\ ovec[m][o] \in Int
             /\ Lowest <= ovec[m][o] /\ ovec[m][o] <= Highest
      BY <2>2, RaisedBound, ValueAssumption DEF TypeOK, Vector
    <2>4. \A s \in seen, o \in Objective : ovec[s][o] \in Int
      BY ValueAssumption DEF TypeOK, Vector
    <2>5. \A s \in seen', o \in Objective :
             ideal'[o] <= ovec'[s][o] /\ ovec'[s][o] <= antiIdeal'[o]
      BY <2>2, <2>3, <2>4 DEF SeenBounds, Smaller, Larger
    <2>6. ASSUME NEW o \in Objective
          PROVE  /\ \E s \in seen' : ovec'[s][o] = ideal'[o]
                 /\ \E s \in seen' : ovec'[s][o] = antiIdeal'[o]
      <3>1. CASE seen = {}
        <4>1. ideal[o] = Highest /\ antiIdeal[o] = Lowest
          BY <3>1 DEF SeenBounds
        <4>2. ovec[m][o] = ideal'[o] /\ ovec[m][o] = antiIdeal'[o]
          BY <2>3, <4>1, ValueAssumption DEF Smaller, Larger
        <4>3. QED
          BY <2>2, <4>2
      <3>2. CASE seen # {}
        <4>1. /\ \E s \in seen : ovec[s][o] = ideal[o]
              /\ \E s \in seen : ovec[s][o] = antiIdeal[o]
          BY <3>2 DEF SeenBounds, Attained
        <4>2. /\ ideal'[o] = ovec[m][o] \/ ideal'[o] = ideal[o]
              /\ antiIdeal'[o] = ovec[m][o] \/ antiIdeal'[o] = antiIdeal[o]
          BY <2>3 DEF Smaller, Larger
        <4>3. QED
          BY <2>2, <4>1, <4>2
      <3>3. QED
        BY <3>1, <3>2
    <2>7. QED
      BY <2>2, <2>5, <2>6 DEF SeenBounds, Attained
  <1>2. CASE ~\E m \in Mapping : Arrive(m)
    <2>1. UNCHANGED <<ovec, ideal, antiIdeal, seen>>
      BY <1>2 DEF Next, vars, Reject, Drop, Pass, Insert, Raise, Scan, DefineNadir, problem
    <2>2. QED
      BY <2>1 DEF SeenBounds, Attained
  <1>3. QED
    BY <1>1, <1>2

(* A vector that covers the first k - 1 entries is raised by entry k.      *)
Extends(v, w, k) ==
    /\ k \in Index
    /\ w = Raised(v, archive[k])
    /\ v \in Bound
    /\ Bounded(v, k - 1)
    /\ Reached(v, k - 1) \/ (k = 1 /\ v = [o \in Objective |-> Lowest])

LEMMA ExtendedVector ==
    ASSUME TypeOK, NEW v, NEW w, NEW k, Extends(v, w, k)
    PROVE  Bounded(w, k) /\ Reached(w, k)
  <1> USE DEF Extends, Index
  <1>1. /\ k \in Nat /\ k \in DOMAIN archive
        /\ \A i \in DOMAIN archive : i \in Nat /\ (i <= k <=> i <= k - 1 \/ i = k)
    BY DEF TypeOK
  <1>2. \A i \in DOMAIN archive, o \in Objective :
           /\ ovec[archive[i]][o] \in Int /\ v[o] \in Int
           /\ Lowest <= ovec[archive[i]][o]
           /\ w[o] = Larger(ovec[archive[k]][o], v[o])
    <2>1. \A i \in DOMAIN archive : archive[i] \in Mapping
      BY DEF TypeOK
    <2>2. \A m \in Mapping, o \in Objective : ovec[m][o] \in Value
      BY DEF TypeOK, Vector
    <2>3. \A o \in Objective : v[o] \in Int
      BY ValueAssumption DEF Bound
    <2>4. \A o \in Objective : w[o] = Larger(ovec[archive[k]][o], v[o])
      BY DEF Raised
    <2>5. QED
      BY <2>1, <2>2, <2>3, <2>4, ValueAssumption
  <1>3. Bounded(w, k)
    BY <1>1, <1>2 DEF Bounded, Larger
  <1>4. ASSUME NEW o \in Objective
        PROVE  \E i \in DOMAIN archive : i <= k /\ ovec[archive[i]][o] = w[o]
    <2>1. CASE w[o] = ovec[archive[k]][o]
      BY <1>1, <2>1
    <2>2. CASE w[o] # ovec[archive[k]][o]
      <3>1. w[o] = v[o] /\ v[o] > ovec[archive[k]][o]
        BY <1>1, <1>2, <2>2 DEF Larger
      <3>2. v[o] # Lowest
        BY <1>1, <1>2, <3>1, ValueAssumption
      <3>3. PICK i \in DOMAIN archive : i <= k - 1 /\ ovec[archive[i]][o] = v[o]
        BY <3>2 DEF Reached
      <3>4. QED
        BY <1>1, <3>1, <3>3
    <2>3. QED
      BY <2>1, <2>2
  <1>5. QED
    BY <1>3, <1>4 DEF Reached

LEMMA NadirStep ==
    ASSUME ArchiveInv, NadirKept, [Next]_vars
    PROVE  NadirKept'
  <1> USE DEF ArchiveInv, TypeOK, Places, Index
  <1>1. CASE \E m \in Mapping : Arrive(m)
    <2>1. PICK m \in Mapping : Arrive(m)
      BY <1>1
    <2>2. CASE KeepArchive /\ ~created
      <3>1. /\ archive' = <<m>> /\ pc' = "scan" /\ at' = 0
            /\ newNadir' = [o \in Objective |-> Lowest]
        BY <2>1, <2>2 DEF Arrive
      <3>2. Len(archive') = 1 /\ DOMAIN archive' = {1}
        BY <3>1
      <3>3. QED
        BY <3>1, <3>2 DEF NadirKept, Bounded
    <2>3. CASE KeepArchive /\ created
      <3>1. /\ archive' = archive /\ pc' = "walk" /\ pc = "idle" /\ ret' = "Added"
            /\ newNadir' = [o \in Objective |-> Lowest]
            /\ nadir' = nadir /\ ovec' = ovec
        BY <2>1, <2>3 DEF Arrive
      <3>2. QED
        BY <2>3, <3>1 DEF NadirKept, Bounded, Reached
    <2>4. CASE ~KeepArchive
      <3>1. /\ archive' = archive /\ pc' = "idle" /\ pc = "idle" /\ created' = created
            /\ nadir' = nadir /\ ovec' = ovec
        BY <2>1, <2>4, MappingAssumption DEF Arrive
      <3>2. QED
        BY <2>4, <3>1 DEF NadirKept, Bounded, Reached
    <2>5. QED
      BY <2>2, <2>3, <2>4
  <1>2. CASE Reject
    <2>1. ret = "Added"
      BY <1>2, RejectUnchanged
    <2>2. /\ archive' = archive /\ pc = "walk" /\ pc' = "idle"
          /\ nadir' = nadir /\ ovec' = ovec
      BY <1>2 DEF Reject, Walking, problem
    <2>3. QED
      BY <2>1, <2>2 DEF NadirKept, Bounded, Reached
  <1>3. CASE Drop
    <2>1. pc = "walk" /\ pc' = "walk" /\ ret' = "Replaced" /\ newNadir' = newNadir
      BY <1>3 DEF Drop, Walking
    <2>2. QED
      BY <2>1 DEF NadirKept
  <1>4. CASE Pass
    <2>1. /\ archive' = archive /\ pc = "walk" /\ pc' = "walk" /\ ret' = ret
          /\ nadir' = nadir /\ ovec' = ovec /\ newNadir' = newNadir
      BY <1>4 DEF Pass, Walking, problem
    <2>2. QED
      BY <2>1 DEF NadirKept, Bounded, Reached
  <1>5. CASE Insert
    <2>1. /\ archive' = Append(archive, imap) /\ pc = "walk" /\ at' = 0 /\ at = 0
          /\ nadir' = nadir /\ ovec' = ovec /\ imap' = imap /\ newNadir' = newNadir
          /\ pc' = IF ret = "Added" THEN "raise" ELSE "scan"
      BY <1>5 DEF Insert, problem
    <2> PICK n \in Nat : n = Len(archive)
      OBVIOUS
    <2>2. /\ Len(archive') = n + 1 /\ archive'[n + 1] = imap
          /\ DOMAIN archive = 1 .. n /\ DOMAIN archive' = 1 .. n + 1
          /\ \A i \in 1 .. n : archive'[i] = archive[i]
      BY <2>1
    <2>3. CASE ret = "Added"
      BY <2>1, <2>2, <2>3 DEF NadirKept, Bounded, Reached
    <2>4. CASE ret = "Replaced"
      <3>1. pc' = "scan"
        BY <2>1, <2>4
      <3>2. newNadir = [o \in Objective |-> Lowest]
        BY <2>1 DEF NadirKept
      <3>3. QED
        BY <2>1, <2>2, <3>1, <3>2 DEF NadirKept, Bounded
    <2>5. QED
      BY <2>3, <2>4
  <1>6. CASE Raise
    <2>1. /\ archive' = archive /\ pc = "raise" /\ pc' = "idle" /\ ovec' = ovec
          /\ nadir' = Raised(nadir, imap)
      BY <1>6 DEF Raise
    <2> PICK n \in Nat : n = Len(archive)
      OBVIOUS
    <2>2. /\ n > 0 /\ archive[n] = imap /\ DOMAIN archive = 1 .. n
          /\ Bounded(nadir, n - 1) /\ Reached(nadir, n - 1)
      BY <2>1 DEF NadirKept
    <2>3. Extends(nadir, nadir', n)
      BY <2>1, <2>2 DEF Extends
    <2>4. Bounded(nadir', n) /\ Reached(nadir', n)
      BY <2>2, <2>3, ExtendedVector
    <2>5. QED
      BY <2>1, <2>4 DEF NadirKept, Bounded, Reached
  <1>7. CASE Scan
    <2>1. /\ archive' = archive /\ pc = "scan" /\ pc' = "scan" /\ ovec' = ovec
          /\ newNadir' = Raised(newNadir, archive[at + 1])
          /\ at < Len(archive) /\ at' = at + 1
      BY <1>7 DEF Scan
    <2>2. /\ Bounded(newNadir, at)
          /\ IF at = 0 THEN newNadir = [o \in Objective |-> Lowest]
                       ELSE Reached(newNadir, at)
      BY <2>1 DEF NadirKept
    <2>3. Extends(newNadir, newNadir', at + 1)
      BY <2>1, <2>2 DEF Extends
    <2>4. Bounded(newNadir', at + 1) /\ Reached(newNadir', at + 1)
      BY <2>2, <2>3, ExtendedVector
    <2>5. QED
      BY <2>1, <2>4 DEF NadirKept, Bounded, Reached
  <1>8. CASE DefineNadir
    <2>1. /\ archive' = archive /\ pc = "scan" /\ pc' = "idle" /\ ovec' = ovec
          /\ nadir' = newNadir /\ at = Len(archive)
      BY <1>8 DEF DefineNadir
    <2>2. QED
      BY <2>1 DEF NadirKept, Bounded, Reached
  <1>9. CASE UNCHANGED vars
    BY <1>9 DEF vars, NadirKept, Bounded, Reached
  <1>10. QED
    BY <1>1, <1>2, <1>3, <1>4, <1>5, <1>6, <1>7, <1>8, <1>9 DEF Next

LEMMA VectorInvExact == ArchiveInv /\ VectorInv => VectorsExact
  <1> SUFFICES ASSUME ArchiveInv, NadirKept, SeenBounds PROVE VectorsExact
    BY DEF VectorInv
  <1>1. seen # {} => /\ \A s \in seen, o \in Objective :
                            ideal[o] <= ovec[s][o] /\ ovec[s][o] <= antiIdeal[o]
                     /\ Attained(ideal, seen) /\ Attained(antiIdeal, seen)
    BY DEF SeenBounds
  <1>2. ASSUME pc = "idle", created
        PROVE  /\ \A e \in Entries, o \in Objective : ovec[e][o] <= nadir[o]
               /\ Attained(nadir, Entries)
    BY <1>2 DEF NadirKept, Bounded, Reached, Entries, Attained, Index, ArchiveInv, TypeOK
  <1>3. QED
    BY <1>1, <1>2 DEF VectorsExact

(* Ideal, anti-ideal and nadir vector are what their names say.            *)
THEOREM VectorsAreExact == Spec => []VectorsExact
  <1> DEFINE Inv == ArchiveInv /\ VectorInv
  <1>1. Init => Inv
    BY InitArchive
  <1>2. Inv /\ [Next]_vars => Inv'
    BY StepArchive, SeenStep, NadirStep DEF VectorInv, ArchiveInv
  <1>3. Inv => VectorsExact
    BY VectorInvExact
  <1> HIDE DEF Inv
  <1>4. QED
    BY <1>1, <1>2, <1>3, PTL DEF Spec

(* Every variable keeps its type.                                          *)
THEOREM ArchiveTypes == Spec => []TypeOK
  <1>1. ArchiveInv => TypeOK
    BY DEF ArchiveInv
  <1>2. QED
    BY <1>1, InitArchive, StepArchive, PTL DEF Spec
=============================================================================
