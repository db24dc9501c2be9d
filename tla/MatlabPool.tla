------------------------------ MODULE MatlabPool ------------------------------
(***************************************************************************)
(* The pool of MATLAB sessions (matlabplugin/Utils/MatlabPool.cpp) and the *)
(* evaluations that borrow from it (MatlabFunction::evaluate), on any      *)
(* number of threads: the pool is a singleton with its own mutex, which    *)
(* aquireEngine() and releaseEngine() take and emptyPool() does not.       *)
(***************************************************************************)
EXTENDS Naturals, Sequences

CONSTANTS
    User,          \* threads that evaluate MATLAB functions
    Engine,        \* identities of engine objects; bounds how many are made
    MaxUnlocked,   \* m_maxUnlocked
    NoUser,        \* nobody holds m_mutex
    NoEngine,      \* no engine borrowed
    ShutdownIdle   \* TRUE: the plug-in is shut down between evaluations only

ASSUME PoolAssumption ==
    /\ NoUser \notin User
    /\ NoEngine \notin Engine
    /\ MaxUnlocked \in Nat
    /\ ShutdownIdle \in BOOLEAN

VARIABLES
    unlocked,   \* m_unlocked, the free engines in the order of their return
    locked,     \* m_locked, the engines handed out
    deleted,    \* engine objects that were deleted
    dirty,      \* engines with variables in their workspace
    away,       \* engines whose current directory was changed by cd
    mutex,      \* the thread in a critical section of m_mutex
    useMatlab,  \* ms_useMatlab
    pc, held    \* per thread: where it is, and the engine it borrowed

vars == <<unlocked, locked, deleted, dirty, away, mutex, useMatlab, pc, held>>

TypeOK ==
    /\ unlocked \in Seq(Engine)
    /\ locked \subseteq Engine
    /\ deleted \subseteq Engine
    /\ dirty \subseteq Engine
    /\ away \subseteq Engine
    /\ mutex \in User \cup {NoUser}
    /\ useMatlab \in BOOLEAN
    /\ pc \in [User -> {"idle", "acquire", "using", "release"}]
    /\ held \in [User -> Engine \cup {NoEngine}]

Init ==
    /\ unlocked = <<>>
    /\ locked = {}
    /\ deleted = {}
    /\ dirty = {}
    /\ away = {}
    /\ mutex = NoUser
    /\ useMatlab = FALSE
    /\ pc = [u \in User |-> "idle"]
    /\ held = [u \in User |-> NoEngine]

Free  == {unlocked[i] : i \in DOMAIN unlocked}
Known == Free \cup locked \cup deleted
-----------------------------------------------------------------------------
\* MatlabPool::getInstance(), then m_mutex.lock() of aquireEngine/releaseEngine
Lock(u) ==
    /\ mutex = NoUser
    /\ \/ pc[u] = "idle"  /\ pc' = [pc EXCEPT ![u] = "acquire"]
       \/ pc[u] = "using" /\ pc' = [pc EXCEPT ![u] = "release"]
    /\ mutex' = u
    /\ useMatlab' = TRUE
    /\ UNCHANGED <<unlocked, locked, deleted, dirty, away, held>>

\* bug: hands out the front of m_unlocked without erasing it
AcquireNoErase(u) ==
    /\ pc[u] = "acquire"
    /\ \E e \in Engine :
       /\ IF unlocked # <<>> THEN e = Head(unlocked) ELSE e \notin Known
       /\ locked' = locked \cup {e}
       /\ held' = [held EXCEPT ![u] = e]
    /\ pc' = [pc EXCEPT ![u] = "using"]
    /\ mutex' = NoUser
    /\ UNCHANGED <<unlocked, deleted, dirty, away, useMatlab>>

(* The body of aquireEngine(): the oldest free engine, or a new one.       *)
Acquire(u) ==
    /\ pc[u] = "acquire"
    /\ \E e \in Engine :
       /\ IF unlocked # <<>>
          THEN e = Head(unlocked) /\ unlocked' = Tail(unlocked)
          ELSE e \notin Known /\ UNCHANGED unlocked
       /\ locked' = locked \cup {e}
       /\ held' = [held EXCEPT ![u] = e]
    /\ pc' = [pc EXCEPT ![u] = "using"]
    /\ mutex' = NoUser
    /\ UNCHANGED <<deleted, dirty, away, useMatlab>>

(* MatlabFunction::evaluate() changes directory when the function has one, *)
(* and leaves its inputs and outputs in the workspace.                     *)
Evaluate(u) ==
    /\ pc[u] = "using"
    /\ dirty' = dirty \cup {held[u]}
    /\ away' \in {away, away \cup {held[u]}}
    /\ UNCHANGED <<unlocked, locked, deleted, mutex, useMatlab, pc, held>>

(* ... or throws EvaluationFailed past its call of releaseEngine().        *)
Throw(u) ==
    /\ pc[u] = "using"
    /\ pc' = [pc EXCEPT ![u] = "idle"]
    /\ held' = [held EXCEPT ![u] = NoEngine]
    /\ UNCHANGED <<unlocked, locked, deleted, dirty, away, mutex, useMatlab>>

\* The frame of releaseEngine(): the thread gives up its engine and the mutex.
Released(u) ==
    /\ pc[u] = "release"
    /\ pc' = [pc EXCEPT ![u] = "idle"]
    /\ held' = [held EXCEPT ![u] = NoEngine]
    /\ mutex' = NoUser
    /\ UNCHANGED <<away, useMatlab>>

\* bug: keeps every engine, m_maxUnlocked is not looked at
ReleaseKeepAll(u) ==
    /\ Released(u)
    /\ unlocked' = Append(unlocked, held[u])
    /\ locked' = locked \ {held[u]}
    /\ dirty' = dirty \ {held[u]}
    /\ UNCHANGED deleted

\* bug: keeps an engine without resetting it
ReleaseNoReset(u) ==
    /\ Released(u)
    /\ LET keep == Len(unlocked) # MaxUnlocked IN
       /\ unlocked' = IF keep THEN Append(unlocked, held[u]) ELSE unlocked
       /\ deleted' = IF keep THEN deleted ELSE deleted \cup {held[u]}
    /\ locked' = locked \ {held[u]}
    /\ UNCHANGED dirty

\* bug: deletes a superfluous engine without erasing it from m_locked
ReleaseNoErase(u) ==
    /\ Released(u)
    /\ LET keep == Len(unlocked) # MaxUnlocked IN
       /\ unlocked' = IF keep THEN Append(unlocked, held[u]) ELSE unlocked
       /\ deleted' = IF keep THEN deleted ELSE deleted \cup {held[u]}
       /\ locked' = IF keep THEN locked \ {held[u]} ELSE locked
    /\ dirty' = dirty \ {held[u]}

(* The body of releaseEngine(): reset the engine, then keep it if there is *)
(* room among the free ones. resetEngine() clears the variables only.      *)
Release(u) ==
    /\ Released(u)
    /\ LET e == held[u]
           keep == e \in locked /\ Len(unlocked) # MaxUnlocked IN
       /\ unlocked' = IF keep THEN Append(unlocked, e) ELSE unlocked
       /\ deleted' = IF keep THEN deleted ELSE deleted \cup {e}
       /\ locked' = locked \ {e}
       /\ dirty' = dirty \ {e}

\* MatlabPool::emptyPool(), from MATLABPlugin::shutdown() if the pool was used
EmptyPool ==
    /\ useMatlab
    /\ ShutdownIdle => \A u \in User : pc[u] = "idle"
    /\ unlocked' = <<>>
    /\ locked' = {}
    /\ deleted' = deleted \cup Free \cup locked
    /\ useMatlab' = FALSE
    /\ UNCHANGED <<dirty, away, mutex, pc, held>>

Next == \/ \E u \in User : Lock(u) \/ Acquire(u) \/ Evaluate(u) \/ Throw(u) \/ Release(u)
        \/ EmptyPool

Spec == Init /\ [][Next]_vars
-----------------------------------------------------------------------------
(* An engine handed out by aquireEngine() belongs to one thread, is not    *)
(* offered to another, and is not deleted under it.                        *)
Exclusive ==
    /\ \A u, v \in User : held[u] = held[v] /\ held[u] # NoEngine => u = v
    /\ \A u \in User : held[u] # NoEngine => held[u] \in locked
    /\ locked \cap (Free \cup deleted) = {}

(* The pool keeps at most m_maxUnlocked engines open, each of them once,   *)
(* and none that was deleted.                                              *)
PoolBounded ==
    /\ Len(unlocked) <= MaxUnlocked
    /\ \A i, j \in DOMAIN unlocked : unlocked[i] = unlocked[j] => i = j
    /\ Free \cap deleted = {}

(* aquireEngine() returns "a clean MatlabEngine for use": no variables of  *)
(* an earlier evaluation are left in a free engine.                        *)
FreeIsClean == Free \cap dirty = {}

(* No engine object is used by releaseEngine() after it was deleted, and   *)
(* neither releaseEngine() nor emptyPool() deletes one a second time.      *)
DeletedOnce ==
    [][/\ \A u \in User : Release(u) => held[u] \notin deleted
       /\ EmptyPool => (Free \cup locked) \cap deleted = {}]_vars
=============================================================================
