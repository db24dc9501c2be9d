--------------------------- MODULE MatlabPoolProofs ---------------------------
(***************************************************************************)
(* Safety of the MATLAB pool for any number of threads and engines and any *)
(* limit of free engines, provided the pool is emptied between evaluations. *)
(***************************************************************************)
EXTENDS MatlabPool, TLAPS

(* A thread has an engine exactly between aquireEngine() and the end of    *)
(* releaseEngine(): without it Release could append NoEngine to the pool.  *)
HoldsWhileUsing ==
    \A u \in User : pc[u] \in {"using", "release"} <=> held[u] # NoEngine

PoolInv == TypeOK /\ Exclusive /\ PoolBounded /\ FreeIsClean /\ HoldsWhileUsing

LEMMA FreeOfTail ==
    ASSUME NEW s \in Seq(Engine), s # <<>>,
           \A i, j \in DOMAIN s : s[i] = s[j] => i = j
    PROVE  /\ Tail(s) \in Seq(Engine)
           /\ Head(s) \in Engine
           /\ Len(Tail(s)) <= Len(s)
           /\ \A i, j \in DOMAIN Tail(s) : Tail(s)[i] = Tail(s)[j] => i = j
           /\ \A i \in DOMAIN Tail(s) : \E j \in DOMAIN s : Tail(s)[i] = s[j]
           /\ \A i \in DOMAIN Tail(s) : Tail(s)[i] # Head(s)
           /\ \E j \in DOMAIN s : Head(s) = s[j]
  <1>1. Len(s) \in Nat /\ Len(s) > 0 /\ DOMAIN s = 1 .. Len(s)
    OBVIOUS
  <1>2. DOMAIN Tail(s) = 1 .. (Len(s) - 1) /\ Len(Tail(s)) = Len(s) - 1
    BY <1>1
  <1>3. \A i \in DOMAIN Tail(s) : Tail(s)[i] = s[i + 1] /\ i + 1 \in DOMAIN s
    BY <1>1, <1>2
  <1>4. Head(s) = s[1] /\ 1 \in DOMAIN s
    BY <1>1
  <1>5. Tail(s) \in Seq(Engine) /\ Head(s) \in Engine
    BY <1>1
  <1>6. \A i, j \in DOMAIN Tail(s) : Tail(s)[i] = Tail(s)[j] => i = j
    BY <1>2, <1>3
  <1>7. \A i \in DOMAIN Tail(s) : Tail(s)[i] # Head(s)
    BY <1>2, <1>3, <1>4
  <1>8. QED
    BY <1>1, <1>2, <1>3, <1>4, <1>5, <1>6, <1>7

LEMMA FreeOfAppend ==
    ASSUME NEW s \in Seq(Engine), NEW e \in Engine,
           \A i, j \in DOMAIN s : s[i] = s[j] => i = j,
           \A i \in DOMAIN s : s[i] # e
    PROVE  /\ Append(s, e) \in Seq(Engine)
           /\ Len(Append(s, e)) = Len(s) + 1
           /\ \A i, j \in DOMAIN Append(s, e) :
                 Append(s, e)[i] = Append(s, e)[j] => i = j
           /\ \A i \in DOMAIN Append(s, e) :
                 Append(s, e)[i] = e \/ \E j \in DOMAIN s : Append(s, e)[i] = s[j]
  <1>1. Len(s) \in Nat /\ DOMAIN s = 1 .. Len(s)
    OBVIOUS
  <1>2. DOMAIN Append(s, e) = 1 .. (Len(s) + 1)
    BY <1>1
  <1>3. \A i \in DOMAIN s : Append(s, e)[i] = s[i]
    BY <1>1
  <1>4. Append(s, e)[Len(s) + 1] = e
    BY <1>1
  <1>5. QED
    BY <1>1, <1>2, <1>3, <1>4

LEMMA EmptySeqTyped == <<>> \in Seq(Engine)
  OBVIOUS

LEMMA InitPool == Init => PoolInv
  <1> SUFFICES ASSUME Init PROVE PoolInv
    OBVIOUS
  <1>1. Free = {} /\ DOMAIN unlocked = {}
    BY DEF Init, Free
  <1>2. TypeOK
    <2>1. unlocked \in Seq(Engine)
      BY EmptySeqTyped DEF Init
    <2>2. QED
      BY <2>1 DEF Init, TypeOK
  <1>3. Exclusive
    BY <1>1 DEF Init, Exclusive
  <1>4. PoolBounded
    BY <1>1, PoolAssumption DEF Init, PoolBounded
  <1>5. FreeIsClean /\ HoldsWhileUsing
    BY <1>1 DEF Init, FreeIsClean, HoldsWhileUsing
  <1>6. QED
    BY <1>2, <1>3, <1>4, <1>5 DEF PoolInv

LEMMA LockPool ==
    ASSUME PoolInv, NEW u \in User, Lock(u)
    PROVE  PoolInv'
  BY DEF Lock, PoolInv, TypeOK, Exclusive, PoolBounded, FreeIsClean,
         HoldsWhileUsing, Free

LEMMA AcquirePool ==
    ASSUME PoolInv, NEW u \in User, Acquire(u)
    PROVE  PoolInv'
  <1> USE DEF PoolInv
  <1>1. PICK e \in Engine :
            /\ IF unlocked # <<>>
               THEN e = Head(unlocked) /\ unlocked' = Tail(unlocked)
               ELSE e \notin Known /\ UNCHANGED unlocked
            /\ locked' = locked \cup {e}
            /\ held' = [held EXCEPT ![u] = e]
    BY DEF Acquire
  <1>2. /\ pc' = [pc EXCEPT ![u] = "using"]
        /\ mutex' = NoUser
        /\ UNCHANGED <<deleted, dirty, away, useMatlab>>
    BY DEF Acquire
  <1>3. /\ unlocked' \in Seq(Engine)
        /\ Len(unlocked') <= MaxUnlocked
        /\ \A i, j \in DOMAIN unlocked' : unlocked'[i] = unlocked'[j] => i = j
        /\ Free' \subseteq Free
        /\ e \notin Free'
        /\ e \notin locked /\ e \notin deleted
    <2>1. CASE unlocked # <<>>
      <3>1. unlocked \in Seq(Engine)
            /\ \A i, j \in DOMAIN unlocked : unlocked[i] = unlocked[j] => i = j
        BY DEF TypeOK, PoolBounded
      <3>2. e = Head(unlocked) /\ unlocked' = Tail(unlocked)
        BY <1>1, <2>1
      <3>3. /\ Free' \subseteq Free /\ e \notin Free' /\ e \in Free
        BY <3>1, <3>2, <2>1, FreeOfTail DEF Free
      <3>4. Len(Tail(unlocked)) <= MaxUnlocked
        BY <3>1, <2>1, FreeOfTail, PoolAssumption DEF PoolBounded
      <3>5. e \notin locked /\ e \notin deleted
        BY <3>3 DEF Exclusive, PoolBounded
      <3>6. QED
        BY <3>1, <3>2, <3>3, <3>4, <3>5, <2>1, FreeOfTail
    <2>2. CASE unlocked = <<>>
      BY <1>1, <2>2 DEF Known, TypeOK, PoolBounded, Free
    <2>3. QED
      BY <2>1, <2>2
  <1>4. TypeOK'
    BY <1>1, <1>2, <1>3, PoolAssumption DEF TypeOK
  <1>5. e # NoEngine
    BY PoolAssumption
  <1>6. Exclusive'
    BY <1>1, <1>2, <1>3, <1>5 DEF Exclusive, TypeOK
  <1>7. PoolBounded' /\ FreeIsClean'
    BY <1>2, <1>3 DEF PoolBounded, FreeIsClean
  <1>8. HoldsWhileUsing'
    BY <1>1, <1>2, <1>5 DEF HoldsWhileUsing, TypeOK
  <1>9. QED
    BY <1>4, <1>6, <1>7, <1>8

LEMMA EvaluatePool ==
    ASSUME PoolInv, NEW u \in User, Evaluate(u)
    PROVE  PoolInv'
  <1>1. held[u] \in Engine /\ held[u] \in locked
    BY DEF PoolInv, TypeOK, Exclusive, HoldsWhileUsing, Evaluate
  <1>2. QED
    BY <1>1 DEF Evaluate, PoolInv, TypeOK, Exclusive, PoolBounded, FreeIsClean,
                HoldsWhileUsing, Free

LEMMA ThrowPool ==
    ASSUME PoolInv, NEW u \in User, Throw(u)
    PROVE  PoolInv'
  BY DEF Throw, PoolInv, TypeOK, Exclusive, PoolBounded, FreeIsClean,
         HoldsWhileUsing, Free

LEMMA ReleasePool ==
    ASSUME PoolInv, NEW u \in User, Release(u)
    PROVE  PoolInv'
  <1> USE DEF PoolInv
  <1> DEFINE e == held[u]
             keep == e \in locked /\ Len(unlocked) # MaxUnlocked
  <1>1. /\ unlocked' = IF keep THEN Append(unlocked, e) ELSE unlocked
        /\ deleted' = IF keep THEN deleted ELSE deleted \cup {e}
        /\ locked' = locked \ {e}
        /\ dirty' = dirty \ {e}
        /\ pc' = [pc EXCEPT ![u] = "idle"]
        /\ held' = [held EXCEPT ![u] = NoEngine]
        /\ mutex' = NoUser
        /\ UNCHANGED <<away, useMatlab>>
    BY DEF Release, Released
  <1>2. e \in Engine /\ e \in locked /\ e \notin Free /\ e \notin deleted
    BY DEF Release, Released, TypeOK, Exclusive, HoldsWhileUsing
  <1>3. unlocked \in Seq(Engine) /\ Len(unlocked) \in Nat
    BY DEF TypeOK
  <1>4. /\ unlocked' \in Seq(Engine)
        /\ Len(unlocked') <= MaxUnlocked
        /\ \A i, j \in DOMAIN unlocked' : unlocked'[i] = unlocked'[j] => i = j
        /\ Free' \subseteq Free \cup {e}
        /\ e \in Free' => deleted' = deleted
    <2>1. CASE keep
      <3>1. \A i \in DOMAIN unlocked : unlocked[i] # e
        BY <1>2 DEF Free
      <3>2. unlocked' = Append(unlocked, e)
        BY <1>1, <2>1
      <3>3. Len(Append(unlocked, e)) <= MaxUnlocked
        BY <2>1, <1>2, <1>3, <3>1, FreeOfAppend, PoolAssumption DEF PoolBounded
      <3>4. QED
        BY <1>1, <1>2, <1>3, <2>1, <3>1, <3>2, <3>3, FreeOfAppend DEF Free, PoolBounded
    <2>2. CASE ~keep
      BY <1>1, <1>2, <1>3, <2>2 DEF Free, PoolBounded
    <2>3. QED
      BY <2>1, <2>2
  <1>5. TypeOK'
    BY <1>1, <1>2, <1>4, PoolAssumption DEF TypeOK
  <1>6. \A v \in User : v # u => held'[v] # e \/ held'[v] = NoEngine
    BY <1>1, <1>2 DEF Exclusive, TypeOK
  <1>7. Exclusive'
    BY <1>1, <1>2, <1>4, <1>6, PoolAssumption DEF Exclusive, TypeOK, PoolBounded
  <1>8. PoolBounded' /\ FreeIsClean'
    BY <1>1, <1>2, <1>4 DEF PoolBounded, FreeIsClean, Exclusive
  <1>9. HoldsWhileUsing'
    BY <1>1 DEF HoldsWhileUsing, TypeOK
  <1>10. QED
    BY <1>5, <1>7, <1>8, <1>9

LEMMA EmptyPoolPool ==
    ASSUME ShutdownIdle, PoolInv, EmptyPool
    PROVE  PoolInv'
  <1>1. \A u \in User : held[u] = NoEngine
    BY DEF EmptyPool, PoolInv, HoldsWhileUsing
  <1>2. Free \subseteq Engine
    BY DEF PoolInv, TypeOK, Free
  <1>3. Free' = {} /\ DOMAIN unlocked' = {} /\ Len(unlocked') = 0
    BY DEF EmptyPool, Free
  <1>4. TypeOK'
    <2>1. (unlocked \in Seq(Engine))'
      BY EmptySeqTyped DEF EmptyPool
    <2>2. QED
      BY <1>2, <2>1 DEF EmptyPool, PoolInv, TypeOK
  <1>5. Exclusive' /\ FreeIsClean' /\ HoldsWhileUsing'
    BY <1>1, <1>3
    DEF EmptyPool, PoolInv, TypeOK, Exclusive, FreeIsClean, HoldsWhileUsing
  <1>6. PoolBounded'
    BY <1>3, PoolAssumption DEF PoolBounded
  <1>7. QED
    BY <1>4, <1>5, <1>6 DEF PoolInv

LEMMA StutterPool ==
    ASSUME PoolInv, UNCHANGED vars
    PROVE  PoolInv'
  BY DEF vars, PoolInv, TypeOK, Exclusive, PoolBounded, FreeIsClean,
         HoldsWhileUsing, Free

LEMMA NextPool ==
    ASSUME ShutdownIdle
    PROVE  PoolInv /\ [Next]_vars => PoolInv'
  BY LockPool, AcquirePool, EvaluatePool, ThrowPool, ReleasePool, EmptyPoolPool,
     StutterPool
  DEF Next

LEMMA PoolInvariant ==
    ASSUME ShutdownIdle
    PROVE  Spec => []PoolInv
  <1>1. PoolInv /\ [Next]_vars => PoolInv'
    BY NextPool
  <1>2. QED
    BY InitPool, <1>1, PTL DEF Spec

(* The types of the pool, for every instance.                              *)
THEOREM PoolTypes ==
    ASSUME ShutdownIdle
    PROVE  Spec => []TypeOK
  BY PoolInvariant, PTL DEF PoolInv

(* An engine that aquireEngine() handed out belongs to one thread until it *)
(* is released, and is neither offered to another nor deleted under it.    *)
THEOREM PoolExclusive ==
    ASSUME ShutdownIdle
    PROVE  Spec => []Exclusive
  BY PoolInvariant, PTL DEF PoolInv

(* The pool never keeps more than m_maxUnlocked free engines, no engine    *)
(* twice, no deleted engine.                                               *)
THEOREM PoolIsBounded ==
    ASSUME ShutdownIdle
    PROVE  Spec => []PoolBounded
  BY PoolInvariant, PTL DEF PoolInv

(* No variables of one evaluation are visible to the next.                 *)
THEOREM PoolIsClean ==
    ASSUME ShutdownIdle
    PROVE  Spec => []FreeIsClean
  BY PoolInvariant, PTL DEF PoolInv

(* No engine is used or deleted after it was deleted.                      *)
THEOREM PoolDeletesOnce ==
    ASSUME ShutdownIdle
    PROVE  Spec => DeletedOnce
  <1>1. PoolInv /\ [Next]_vars =>
           [/\ \A u \in User : Release(u) => held[u] \notin deleted
            /\ EmptyPool => (Free \cup locked) \cap deleted = {}]_vars
    <2> SUFFICES ASSUME PoolInv
                 PROVE  /\ \A u \in User : Release(u) => held[u] \notin deleted
                        /\ EmptyPool => (Free \cup locked) \cap deleted = {}
      OBVIOUS
    <2>1. \A u \in User : Release(u) => held[u] \notin deleted
      BY DEF PoolInv, Release, Released, HoldsWhileUsing, Exclusive
    <2>2. (Free \cup locked) \cap deleted = {}
      BY DEF PoolInv, Exclusive, PoolBounded
    <2>3. QED
      BY <2>1, <2>2
  <1>2. QED
    BY <1>1, PoolInvariant, PTL DEF Spec, DeletedOnce
=============================================================================
