---------------------- MODULE ParallelEvaluationProofs ----------------------
(***************************************************************************)
(* Safety of the parallel evaluation for every set of solutions and every  *)
(* problem, whichever functions throw or lack a mapping; and when none     *)
(* does, its agreement with the serial evaluation.                         *)
(***************************************************************************)
EXTENDS ParallelEvaluation, FiniteSetTheorems, TLAPS

(* A thread inside a function that is not parallelizable has the mutex.    *)
HolderInside == \A s \in Solution : pc[s] = "evaluate" => mutex = s

(* A thread that has fetched the inputs of a function is at a function: its *)
(* index can be advanced without leaving the range of the loop.            *)
AtFunction ==
    \A s \in Solution : pc[s] \in {"fetched", "evaluate"} => at[s] \in Function

(* While a thread collects, the tasks behind its index have ended; when it *)
(* has ended, so have all its tasks.                                       *)
TasksBehind ==
    \A s \in Solution, f \in Function :
        task[s][f] = "running" =>
            /\ ~ Ended(s)
            /\ pc[s] = "collect" => at[s] <= f

(* The evaluator has seen the results before its index, and leaves by an   *)
(* exception only when all threads have ended.                             *)
ResultsSeen ==
    /\ \A s \in Solution : s < next => Ended(s)
    /\ main = "done" => next = N + 1
    /\ main = "threw" => \A s \in Solution : Ended(s)

EvalInv == TypeOK /\ AtFunction /\ HolderInside /\ TasksBehind /\ ResultsSeen

(* The types that most steps need; only Fetch looks at the inputs fetched. *)
CoreTypes ==
    /\ pc \in [Solution -> {"fetch", "fetched", "evaluate", "collect",
                            "failing", "throwing", "returned", "threw"}]
    /\ at \in [Solution -> 1 .. M + 1]
    /\ task \in [Solution -> [Function -> {"none", "running", "done", "threw"}]]
    /\ evaluated \in [Solution -> SUBSET Function]
    /\ out \in [Solution -> [Function -> Form]]
    /\ count \in [Solution -> Int]
    /\ before \in [Solution -> SUBSET Function]

LEMMA TypesOfCore == EvalInv => CoreTypes
  BY DEF EvalInv, TypeOK, CoreTypes

LEMMA InitEval == Init => EvalInv
  <1> SUFFICES ASSUME Init PROVE EvalInv
    OBVIOUS
  <1> USE EvaluationAssumption DEF Init, Solution, Function
  <1>1. TypeOK
    BY DEF TypeOK, Form, Minimised
  <1>2. AtFunction /\ HolderInside /\ TasksBehind /\ ResultsSeen
    BY DEF AtFunction, HolderInside, TasksBehind, ResultsSeen
  <1>3. QED
    BY <1>1, <1>2 DEF EvalInv

LEMMA ThreadTypes ==
    ASSUME TypeOK, AtFunction, NEW s \in Solution, ThreadStep(s)
    PROVE  TypeOK' /\ AtFunction'
  <1> USE EvaluationAssumption DEF TypeOK, Form, AtFunction, Function
  <1>1. UNCHANGED <<mainVars, before>>
    BY DEF ThreadStep
  <1> USE <1>1 DEF mainVars
  <1>2. CASE Skip(s)
    BY <1>2 DEF Skip, Advance
  <1>3. CASE Fetch(s)
    <2>1. /\ at[s] \in Function /\ FetchInputs(s)
          /\ UNCHANGED <<mutex, at, task, evaluated, out, count>>
      BY <1>3 DEF Fetch
    <2>2. fed' \in [Solution -> [Function -> [Function -> Form]]]
      <3> DEFINE read == [g \in Function |->
                            IF <<g, at[s]>> \in Connected THEN out[s][g] ELSE "none"]
      <3>1. read \in [Function -> Form]
        OBVIOUS
      <3>2. fed' = fed \/ fed' = [fed EXCEPT ![s][at[s]] = read]
        BY <2>1 DEF FetchInputs
      <3>3. fed \in [Solution -> [Function -> [Function -> Form]]]
        OBVIOUS
      <3>4. [fed[s] EXCEPT ![at[s]] = read] \in [Function -> [Function -> Form]]
        BY <2>1, <3>1, <3>3
      <3> HIDE DEF read
      <3>5. QED
        BY <3>2, <3>3, <3>4
    <2>3. pc' = [pc EXCEPT ![s] = IF at[s] \in Unmapped THEN "failing" ELSE "fetched"]
      BY <2>1 DEF FetchInputs, Goto
    <2>4. QED
      BY <2>1, <2>2, <2>3
  <1>4. CASE Launch(s)
    BY <1>4 DEF Launch, Goto, Advance
  <1>5. CASE Lock(s)
    BY <1>5 DEF Lock, Goto
  <1>6. CASE Evaluate(s)
    BY <1>6 DEF Evaluate, Goto, Advance, MarkEvaluated
  <1>7. CASE EvaluateThrows(s)
    BY <1>7 DEF EvaluateThrows, Goto
  <1>8. CASE StartCollecting(s)
    BY <1>8 DEF StartCollecting, Goto
  <1>9. CASE PassOver(s)
    BY <1>9 DEF PassOver, Advance
  <1>10. CASE Collect(s)
    BY <1>10 DEF Collect, Advance, MarkEvaluated
  <1>11. CASE Return(s)
    BY <1>11 DEF Return, Goto
  <1>12. CASE ReturnError(s)
    BY <1>12 DEF ReturnError, Goto
  <1>13. CASE Unwind(s)
    BY <1>13 DEF Unwind, Goto
  <1>14. QED
    BY <1>2, <1>3, <1>4, <1>5, <1>6, <1>7, <1>8, <1>9, <1>10, <1>11, <1>12,
       <1>13 DEF ThreadStep

LEMMA ThreadKeeps ==
    ASSUME EvalInv, NEW s \in Solution, ThreadStep(s)
    PROVE  HolderInside' /\ TasksBehind' /\ ResultsSeen'
  <1> USE EvaluationAssumption
      DEF EvalInv, TypeOK, HolderInside, TasksBehind, Ended, Function
  <1>1. UNCHANGED <<mainVars, before>>
    BY DEF ThreadStep
  <1>2. Skip(s) \/ Fetch(s) \/ Launch(s) \/ Lock(s) \/ Evaluate(s)
        \/ EvaluateThrows(s) \/ StartCollecting(s) \/ PassOver(s) \/ Collect(s)
        \/ Return(s) \/ ReturnError(s) \/ Unwind(s)
    BY DEF ThreadStep
  <1>3. HolderInside'
    <2>1. CASE Skip(s) \/ Fetch(s) \/ Launch(s)
      BY <2>1 DEF Skip, Fetch, FetchInputs, Launch, Goto
    <2>2. CASE Lock(s)
      BY <2>2 DEF Lock, Goto
    <2>3. CASE Evaluate(s)
      BY <2>3 DEF Evaluate, Goto
    <2>4. CASE EvaluateThrows(s) \/ StartCollecting(s) \/ PassOver(s)
      BY <2>4 DEF EvaluateThrows, StartCollecting, PassOver, Goto
    <2>5. CASE Collect(s) \/ Return(s) \/ ReturnError(s) \/ Unwind(s)
      BY <2>5 DEF Collect, Return, ReturnError, Unwind, Goto
    <2>6. QED
      BY <1>2, <2>1, <2>2, <2>3, <2>4, <2>5
  <1>4. TasksBehind'
    <2>1. CASE Skip(s) \/ Fetch(s) \/ Lock(s)
      <3>1. /\ task' = task /\ pc[s] \in {"fetch", "fetched"}
            /\ pc'[s] \in {"fetch", "fetched", "evaluate", "failing"}
            /\ \A t \in Solution : t # s => pc'[t] = pc[t] /\ at'[t] = at[t]
        BY <2>1 DEF Skip, Fetch, FetchInputs, Lock, Goto, Advance
      <3>2. QED
        BY <3>1
    <2>2. CASE Launch(s)
      BY <2>2 DEF Launch, Goto, Advance
    <2>3. CASE Evaluate(s) \/ EvaluateThrows(s)
      BY <2>3 DEF Evaluate, EvaluateThrows, Goto, Advance
    <2>4. CASE StartCollecting(s)
      BY <2>4 DEF StartCollecting, Goto
    <2>5. CASE PassOver(s)
      BY <2>5 DEF PassOver, Advance
    <2>6. CASE Collect(s)
      BY <2>6 DEF Collect, Advance
    <2>7. CASE Return(s)
      BY <2>7 DEF Return, Goto
    <2>8. CASE ReturnError(s) \/ Unwind(s)
      BY <2>8 DEF ReturnError, Unwind, Joined, Goto
    <2>9. QED
      BY <1>2, <2>1, <2>2, <2>3, <2>4, <2>5, <2>6, <2>7, <2>8
  <1>5. \A t \in Solution : Ended(t) => Ended(t)'
    <2>1. CASE Skip(s) \/ Fetch(s) \/ Launch(s) \/ Lock(s)
      BY <2>1 DEF Skip, Fetch, FetchInputs, Launch, Lock, Goto
    <2>2. CASE Evaluate(s) \/ EvaluateThrows(s) \/ StartCollecting(s)
      BY <2>2 DEF Evaluate, EvaluateThrows, StartCollecting, Goto
    <2>3. CASE PassOver(s) \/ Collect(s)
      BY <2>3 DEF PassOver, Collect
    <2>4. CASE Return(s) \/ ReturnError(s) \/ Unwind(s)
      BY <2>4 DEF Return, ReturnError, Unwind, Goto
    <2>5. QED
      BY <1>2, <2>1, <2>2, <2>3, <2>4
  <1>6. ResultsSeen'
    BY <1>1, <1>5 DEF ResultsSeen, mainVars
  <1>7. QED
    BY <1>3, <1>4, <1>6

LEMMA TaskKeeps ==
    ASSUME EvalInv, NEW s \in Solution, TaskStep(s)
    PROVE  EvalInv'
  <1>1. PICK f \in Function : TaskReturns(s, f) \/ TaskThrows(s, f)
    BY DEF TaskStep
  <1>2. UNCHANGED <<mainVars, before>>
    BY DEF TaskStep
  <1>3. UNCHANGED <<mutex, pc, at, evaluated, fed, count>>
    BY <1>1 DEF TaskReturns, TaskThrows
  <1>4. PICK res \in {"done", "threw"} : task' = [task EXCEPT ![s][f] = res]
    BY <1>1 DEF TaskReturns, TaskThrows
  <1>5. \A t \in Solution, g \in Function :
            task'[t][g] = "running" => task[t][g] = "running"
    BY <1>4 DEF EvalInv, TypeOK
  <1>6. TypeOK' /\ AtFunction' /\ HolderInside' /\ ResultsSeen'
    <2>1. task' \in [Solution -> [Function -> {"none", "running", "done", "threw"}]]
      BY <1>4 DEF EvalInv, TypeOK
    <2>2. out' \in [Solution -> [Function -> Form]]
      <3>1. CASE TaskReturns(s, f)
        BY <3>1 DEF EvalInv, TypeOK, TaskReturns, Form
      <3>2. CASE TaskThrows(s, f)
        BY <3>2 DEF EvalInv, TypeOK, TaskThrows
      <3>3. QED
        BY <1>1, <3>1, <3>2
    <2>3. TypeOK'
      BY <1>2, <1>3, <2>1, <2>2 DEF EvalInv, TypeOK, mainVars
    <2>4. AtFunction' /\ HolderInside' /\ ResultsSeen'
      BY <1>2, <1>3
         DEF EvalInv, AtFunction, HolderInside, ResultsSeen, Ended, mainVars
    <2>5. QED
      BY <2>3, <2>4
  <1>7. TasksBehind'
    BY <1>3, <1>5 DEF EvalInv, TasksBehind, Ended
  <1>8. QED
    BY <1>6, <1>7 DEF EvalInv

LEMMA MainKeeps ==
    ASSUME EvalInv, MainStep
    PROVE  EvalInv'
  <1> USE EvaluationAssumption DEF EvalInv
  <1>1. UNCHANGED <<threadVars, before>>
    BY DEF MainStep
  <1>2. AtFunction' /\ HolderInside' /\ TasksBehind'
    BY <1>1 DEF AtFunction, HolderInside, TasksBehind, Ended, threadVars
  <1>3. TypeOK' /\ ResultsSeen'
    <2> USE <1>1 DEF TypeOK, ResultsSeen, Ended, threadVars, Solution
    <2>1. CASE Get
      <3>1. next \in 1 .. N /\ next' = next + 1 /\ pc[next] = "returned"
        BY <2>1 DEF Get
      <3>2. Charge(count[next]) \in Int
        BY <3>1 DEF Charge
      <3>3. TypeOK'
        <4>1. next' \in 1 .. N + 1 /\ cost' \in Int /\ UNCHANGED <<main, used, bounds>>
          BY <2>1, <3>1, <3>2 DEF Get
        <4>2. TypeOK
          OBVIOUS
        <4>3. QED
          BY ONLY <1>1, <4>1, <4>2 DEF TypeOK, threadVars, Solution
      <3>4. \A t \in 1 .. N : t < next' => t < next \/ t = next
        BY <3>1
      <3>5. ResultsSeen'
        BY <2>1, <3>1, <3>4 DEF Get
      <3>6. QED
        BY <3>3, <3>5
    <2>2. CASE GetThrows
      BY <2>2 DEF GetThrows
    <2>3. CASE Leave
      BY <2>3 DEF Leave
    <2>4. CASE Finish
      BY <2>4 DEF Finish
    <2>5. QED
      BY <2>1, <2>2, <2>3, <2>4 DEF MainStep
  <1>4. QED
    BY <1>2, <1>3

LEMMA NextKeeps == EvalInv /\ [Next]_vars => EvalInv'
  <1> SUFFICES ASSUME EvalInv, [Next]_vars PROVE EvalInv'
    OBVIOUS
  <1>1. ASSUME NEW s \in Solution, ThreadStep(s) PROVE EvalInv'
    BY <1>1, ThreadTypes, ThreadKeeps DEF EvalInv
  <1>2. ASSUME NEW s \in Solution, TaskStep(s) PROVE EvalInv'
    BY <1>2, TaskKeeps
  <1>3. CASE MainStep
    BY <1>3, MainKeeps
  <1>4. CASE UNCHANGED vars
    BY <1>4 DEF EvalInv, TypeOK, AtFunction, HolderInside, TasksBehind,
                ResultsSeen, Ended, vars, threadVars, mainVars
  <1>5. QED
    BY <1>1, <1>2, <1>3, <1>4 DEF Next

LEMMA EvalInvariant == Spec => []EvalInv
  BY InitEval, NextKeeps, PTL DEF Spec

(* Every variable of the parallel evaluation stays in its type, the index  *)
(* of every loop within one of the number of functions.                    *)
THEOREM EvaluationTypes == Spec => []TypeOK
  <1>1. EvalInv => TypeOK
    BY DEF EvalInv
  <1>2. QED
    BY <1>1, EvalInvariant, PTL

(* Mutual exclusion by ms_mutex: functions that are not parallelizable are *)
(* never evaluated for two solutions at once, also after exceptions that   *)
(* leave the mutex locked.                                                 *)
THEOREM EvaluationExclusive == Spec => []SerialExclusive
  <1>1. EvalInv => SerialExclusive
    BY DEF EvalInv, HolderInside, SerialExclusive
  <1>2. QED
    BY <1>1, EvalInvariant, PTL

(* When evaluateNode() is left, by return or by exception, every thread of *)
(* a solution and every thread of a function has ended.                    *)
THEOREM EvaluationJoins == Spec => []NothingRunsOn
  <1>1. EvalInv => NothingRunsOn
    <2> SUFFICES ASSUME EvalInv, main \in {"done", "threw"}, NEW s \in Solution
                 PROVE  Ended(s) /\ \A f \in Function : task[s][f] # "running"
      BY DEF NothingRunsOn
    <2>1. Ended(s)
      BY EvaluationAssumption DEF EvalInv, ResultsSeen, Solution
    <2>2. QED
      BY <2>1 DEF EvalInv, TasksBehind
  <1>2. QED
    BY <1>1, EvalInvariant, PTL
-----------------------------------------------------------------------------
(* A function at which a thread is, or whose task is not collected yet, is *)
(* not marked evaluated; while functions are launched, tasks exist only    *)
(* behind the index.                                                       *)
Pending(s, f) ==
    /\ task[s][f] # "none"
    /\ pc[s] # "returned"
    /\ pc[s] = "collect" => at[s] <= f

FreshInv ==
    \A s \in Solution :
        /\ pc[s] \in {"fetched", "evaluate"} => at[s] \notin evaluated[s]
        /\ \A f \in Function :
              /\ task[s][f] # "none" /\ pc[s] \in {"fetch", "fetched", "evaluate"}
                    => f < at[s]
              /\ Pending(s, f) => f \notin evaluated[s]

LEMMA InitFresh == Init => FreshInv
  BY DEF Init, FreshInv, Pending

(* A thread touches nothing of another solution.                           *)
LEMMA ThreadIsLocal ==
    ASSUME EvalInv, NEW s \in Solution, ThreadStep(s),
           NEW t \in Solution, t # s
    PROVE  /\ pc'[t] = pc[t] /\ at'[t] = at[t] /\ task'[t] = task[t]
           /\ evaluated'[t] = evaluated[t] /\ out'[t] = out[t] /\ fed'[t] = fed[t]
  <1> USE DEF EvalInv, TypeOK, Goto, Advance, MarkEvaluated
  <1>1. CASE Skip(s) \/ Fetch(s) \/ Launch(s) \/ Lock(s)
    BY <1>1 DEF Skip, Fetch, FetchInputs, Launch, Lock
  <1>2. CASE Evaluate(s)
    BY <1>2 DEF Evaluate
  <1>3. CASE EvaluateThrows(s) \/ StartCollecting(s) \/ PassOver(s)
    BY <1>3 DEF EvaluateThrows, StartCollecting, PassOver
  <1>4. CASE Collect(s)
    BY <1>4 DEF Collect
  <1>5. CASE Return(s) \/ ReturnError(s) \/ Unwind(s)
    BY <1>5 DEF Return, ReturnError, Unwind
  <1>6. QED
    BY <1>1, <1>2, <1>3, <1>4, <1>5 DEF ThreadStep

(* What one thread step does to its own solution.                          *)
LEMMA ThreadOwn ==
    ASSUME EvalInv, FreshInv, NEW s \in Solution, ThreadStep(s)
    PROVE  /\ pc'[s] \in {"fetched", "evaluate"} => at'[s] \notin evaluated'[s]
           /\ \A f \in Function :
                 /\ task'[s][f] # "none" /\ pc'[s] \in {"fetch", "fetched", "evaluate"}
                       => f < at'[s]
                 /\ Pending(s, f)' => f \notin evaluated'[s]
           /\ \A f \in evaluated[s] : f \in evaluated'[s] /\ out'[s][f] = out[s][f]
  <1> USE EvaluationAssumption, TypesOfCore
      DEF EvalInv, CoreTypes, AtFunction, FreshInv, Pending, Goto, Advance, Function
  <1>1. CASE Skip(s)
    BY <1>1 DEF Skip
  <1>2. CASE Fetch(s)
    BY <1>2 DEF Fetch, FetchInputs
  <1>3. CASE Launch(s)
    <2>1. /\ pc[s] = "fetched" /\ pc'[s] = "fetch"
          /\ at[s] \in Nat /\ at'[s] = at[s] + 1
          /\ evaluated'[s] = evaluated[s] /\ out'[s] = out[s]
          /\ \A f \in Function : f # at[s] => task'[s][f] = task[s][f]
      BY <1>3 DEF Launch
    <2>2. at[s] \notin evaluated[s]
      BY <2>1
    <2>3. \A f \in Function : task[s][f] # "none" => f < at[s] /\ f \notin evaluated[s]
      BY <2>1
    <2>4. \A f \in Function : task'[s][f] # "none" => f < at'[s] /\ f \notin evaluated'[s]
      BY ONLY <2>1, <2>2, <2>3, EvaluationAssumption DEF Function
    <2>5. QED
      BY ONLY <2>1, <2>4 DEF Pending
  <1>4. CASE Lock(s)
    BY <1>4 DEF Lock
  <1>5. CASE Evaluate(s)
    <2>1. /\ pc[s] = "evaluate" /\ pc'[s] = "fetch"
          /\ at[s] \in Nat /\ at'[s] = at[s] + 1 /\ task'[s] = task[s]
          /\ evaluated'[s] = evaluated[s] \cup {at[s]}
          /\ \A f \in Function : f # at[s] => out'[s][f] = out[s][f]
      BY <1>5 DEF Evaluate, MarkEvaluated
    <2>2. at[s] \notin evaluated[s] /\ evaluated[s] \subseteq Function
      BY <2>1
    <2>3. \A f \in Function : task[s][f] # "none" => f < at[s] /\ f \notin evaluated[s]
      BY <2>1
    <2>4. \A f \in Function : task'[s][f] # "none" => f < at'[s] /\ f \notin evaluated'[s]
      BY ONLY <2>1, <2>3, EvaluationAssumption DEF Function
    <2>5. QED
      BY ONLY <2>1, <2>2, <2>4 DEF Pending
  <1>6. CASE EvaluateThrows(s)
    BY <1>6 DEF EvaluateThrows
  <1>7. CASE StartCollecting(s)
    BY <1>7 DEF StartCollecting
  <1>8. CASE PassOver(s)
    <2>1. /\ pc[s] = "collect" /\ pc'[s] = "collect"
          /\ at[s] \in Nat /\ at'[s] = at[s] + 1 /\ task'[s] = task[s]
          /\ evaluated'[s] = evaluated[s] /\ out'[s] = out[s]
      BY <1>8 DEF PassOver
    <2>2. \A f \in Function : at'[s] <= f => at[s] <= f
      BY <2>1
    <2>3. QED
      BY <2>1, <2>2
  <1>9. CASE Collect(s)
    <2>1. /\ pc[s] = "collect" /\ pc'[s] = "collect"
          /\ at[s] \in Function /\ at'[s] = at[s] + 1 /\ task'[s] = task[s]
          /\ task[s][at[s]] # "none"
          /\ evaluated'[s] = evaluated[s] \cup {at[s]}
      BY <1>9 DEF Collect, MarkEvaluated
    <2>2. \A f \in Function : f # at[s] => out'[s][f] = out[s][f]
      BY <1>9 DEF Collect
    <2>3. at[s] \notin evaluated[s] /\ evaluated[s] \subseteq Function
      <3>1. at[s] <= at[s]
        BY <2>1
      <3>2. Pending(s, at[s])
        BY ONLY <2>1, <3>1 DEF Pending
      <3>3. QED
        BY <2>1, <3>2 DEF FreshInv
    <2>4. \A f \in Function : at'[s] <= f => at[s] <= f /\ f # at[s]
      BY <2>1
    <2>5. QED
      BY <2>1, <2>2, <2>3, <2>4
  <1>10. CASE Return(s) \/ ReturnError(s) \/ Unwind(s)
    BY <1>10 DEF Return, ReturnError, Unwind
  <1>11. QED
    BY <1>1, <1>2, <1>3, <1>4, <1>5, <1>6, <1>7, <1>8, <1>9, <1>10 DEF ThreadStep

(* A step leaves every finished output as it is.                           *)
FinishedStay ==
    \A s \in Solution : \A f \in evaluated[s] :
        f \in evaluated'[s] /\ out'[s][f] = out[s][f]

LEMMA ThreadFresh ==
    ASSUME EvalInv, FreshInv, NEW s \in Solution, ThreadStep(s)
    PROVE  FreshInv' /\ FinishedStay
  <1>1. ASSUME NEW t \in Solution, t # s
        PROVE  /\ pc'[t] = pc[t] /\ at'[t] = at[t] /\ task'[t] = task[t]
               /\ evaluated'[t] = evaluated[t] /\ out'[t] = out[t]
    BY <1>1, ThreadIsLocal
  <1>2. FreshInv'
    BY <1>1, ThreadOwn DEF FreshInv, Pending
  <1>3. FinishedStay
    BY <1>1, ThreadOwn DEF FinishedStay
  <1>4. QED
    BY <1>2, <1>3

LEMMA TaskFresh ==
    ASSUME EvalInv, FreshInv, NEW s \in Solution, TaskStep(s)
    PROVE  FreshInv' /\ FinishedStay
  <1>1. PICK f \in Function : TaskReturns(s, f) \/ TaskThrows(s, f)
    BY DEF TaskStep
  <1>2. PICK res \in {"done", "threw"} : task' = [task EXCEPT ![s][f] = res]
    BY <1>1 DEF TaskReturns, TaskThrows
  <1>3. UNCHANGED <<pc, at, evaluated>> /\ task[s][f] = "running"
    BY <1>1 DEF TaskReturns, TaskThrows
  <1>4. \A u \in Solution, g \in Function :
            task'[u][g] # "none" => task[u][g] # "none"
    BY <1>2, <1>3 DEF EvalInv, TypeOK
  <1>5. FreshInv'
    BY <1>3, <1>4 DEF FreshInv, Pending
  <1>6. f \notin evaluated[s]
    BY <1>3 DEF EvalInv, TasksBehind, FreshInv, Pending, Ended
  <1>7. \A t \in Solution, g \in Function :
            t # s \/ g # f => out'[t][g] = out[t][g]
    BY <1>1 DEF EvalInv, TypeOK, TaskReturns, TaskThrows
  <1>8. FinishedStay
    BY <1>3, <1>6, <1>7 DEF EvalInv, TypeOK, FinishedStay
  <1>9. QED
    BY <1>5, <1>8

LEMMA NextFresh == EvalInv /\ FreshInv /\ [Next]_vars => FreshInv' /\ FinishedStay
  <1> SUFFICES ASSUME EvalInv, FreshInv, [Next]_vars
               PROVE  FreshInv' /\ FinishedStay
    OBVIOUS
  <1>1. ASSUME NEW s \in Solution, ThreadStep(s) PROVE FreshInv' /\ FinishedStay
    BY <1>1, ThreadFresh
  <1>2. ASSUME NEW s \in Solution, TaskStep(s) PROVE FreshInv' /\ FinishedStay
    BY <1>2, TaskFresh
  <1>3. CASE MainStep \/ UNCHANGED vars
    BY <1>3 DEF MainStep, FreshInv, Pending, FinishedStay, vars, threadVars
  <1>4. QED
    BY <1>1, <1>2, <1>3 DEF Next

(* A finished output stays as it is: no thread evaluates, negates or       *)
(* unmarks what is marked evaluated, whatever the order of the threads.    *)
THEOREM EvaluationKeepsFinished == Spec => FinishedOutputsStay
  <1>1. Init /\ [][Next]_vars => []FreshInv
    <2>1. EvalInv /\ FreshInv /\ [Next]_vars => FreshInv'
      BY NextFresh
    <2>2. QED
      BY InitEval, NextKeeps, InitFresh, <2>1, PTL
  <1>2. EvalInv /\ FreshInv /\ [Next]_vars => [FinishedStay]_vars
    BY NextFresh
  <1>3. Spec => [][FinishedStay]_vars
    BY <1>1, <1>2, EvalInvariant, PTL DEF Spec
  <1>4. QED
    BY <1>3 DEF FinishedStay, FinishedOutputsStay
-----------------------------------------------------------------------------
(* A task is of a parallelizable function, and one that has ended without  *)
(* an exception has left its output.                                       *)
OutputsInv ==
    \A s \in Solution, f \in Function :
        /\ task[s][f] # "none" => f \in Parallel
        /\ task[s][f] = "threw" => f \in MayThrow
        /\ task[s][f] = "done" => out[s][f] # "none"
        /\ f \in evaluated[s] => out[s][f] # "none"

(* Where the loops of a solution are, each function they have passed is    *)
(* evaluated or left to the second loop.                                   *)
Covered(s, f) ==
    /\ pc[s] \in {"fetch", "fetched", "evaluate"} /\ f < at[s]
       => f \in evaluated[s] \/ task[s][f] # "none"
    /\ pc[s] = "collect" => f \in evaluated[s] \/ (task[s][f] # "none" /\ at[s] <= f)
    /\ pc[s] = "returned" => f \in evaluated[s]

(* A function whose inputs have been fetched in this evaluation has been   *)
(* fed the outputs that the serial one would have fed.                     *)
Fetched(s, f) ==
    \/ f \in evaluated[s] \ before[s]
    \/ task[s][f] # "none"
    \/ pc[s] \in {"fetched", "evaluate"} /\ f = at[s]

FedRight(s) == \A g, f \in Function :
    <<g, f>> \in Connected /\ Fetched(s, f) => fed[s][f][g] = Minimised(g)

FedInv == \A s \in Solution : FedRight(s)

(* What one solution's thread has done so far is what the serial evaluation *)
(* does to it, and each function it evaluated has been counted once.       *)
Faithful(s) ==
    /\ pc[s] # "failing"
    /\ pc[s] = "evaluate" => at[s] \notin Parallel
    /\ before[s] \subseteq evaluated[s]
    /\ count[s] = Cardinality(evaluated[s] \ before[s])
    /\ \A f \in Function :
          /\ Covered(s, f)
          /\ Pending(s, f) /\ task[s][f] = "done" => out[s][f] = "plain"
          /\ f \in evaluated[s] => out[s][f] = Minimised(f)

(* The serial cost of the first solutions of the set.                      *)
Missing(n) == {p \in Solution \X Function : p[1] < n /\ p[2] \notin before[p[1]]}
Partial(n) == {s \in Solution : s < n /\ before[s] # Function}
CostTo(n)  == IF PerFunction THEN Cardinality(Missing(n)) ELSE Cardinality(Partial(n))

CostInv ==
    /\ \A s \in Solution : s < next => pc[s] = "returned"
    /\ cost = CostTo(next)
    /\ used = IF main = "done" THEN cost ELSE 0
    /\ main = "done" => bounds = Solution

SerialInv == (\A s \in Solution : Faithful(s)) /\ FedInv /\ CostInv

\* No exception is lost in a task and no mapping is missing, only parallelizable
\* functions are maximised and none of them feeds another function, and no
\* solution comes with a cost.
WellBehaved == /\ Parallel \cap MayThrow = {} /\ Unmapped = {}
               /\ Maximised \subseteq Parallel
               /\ \A g, f \in Function : <<g, f>> \in Connected => g \notin Parallel
               /\ Scalarised = {}

LEMMA ThreadOutputs ==
    ASSUME EvalInv, OutputsInv, Parallel \cap MayThrow = {}, NEW s \in Solution, ThreadStep(s)
    PROVE  OutputsInv'
  <1> USE TypesOfCore DEF EvalInv, CoreTypes, AtFunction, Goto, Advance, MarkEvaluated
  <1>1. ASSUME NEW f \in Function
        PROVE  /\ task'[s][f] # "none" => f \in Parallel
               /\ task'[s][f] = "threw" => f \in MayThrow
               /\ task'[s][f] = "done" => out'[s][f] # "none"
               /\ f \in evaluated'[s] => out'[s][f] # "none"
    <2> USE DEF OutputsInv
    <2>1. CASE Skip(s) \/ Fetch(s) \/ Lock(s) \/ EvaluateThrows(s)
      BY <2>1 DEF Skip, Fetch, FetchInputs, Lock, EvaluateThrows
    <2>2. CASE Launch(s)
      BY <2>2 DEF Launch
    <2>3. CASE Evaluate(s)
      <3>1. /\ task'[s] = task[s] /\ evaluated'[s] = evaluated[s] \cup {at[s]}
            /\ out'[s][f] = IF f = at[s] THEN "plain" ELSE out[s][f]
        BY <2>3 DEF Evaluate
      <3>2. QED
        BY <3>1
    <2>4. CASE StartCollecting(s) \/ PassOver(s)
      BY <2>4 DEF StartCollecting, PassOver
    <2>5. CASE Collect(s)
      <3>1. /\ task'[s] = task[s] /\ evaluated'[s] = evaluated[s] \cup {at[s]}
            /\ out'[s][f] = out[s][f] \/ out'[s][f] = "negated"
            /\ at[s] \in Function /\ task[s][at[s]] \in {"done", "threw"}
        BY <2>5 DEF Collect
      <3>2. task[s][at[s]] = "done"
        BY <3>1
      <3>3. QED
        BY <3>1, <3>2
    <2>6. CASE Return(s) \/ ReturnError(s) \/ Unwind(s)
      BY <2>6 DEF Return, ReturnError, Unwind
    <2>7. QED
      BY <2>1, <2>2, <2>3, <2>4, <2>5, <2>6 DEF ThreadStep
  <1>2. \A t \in Solution \ {s} : task'[t] = task[t] /\ evaluated'[t] = evaluated[t]
                                  /\ out'[t] = out[t]
    BY ThreadIsLocal
  <1>3. OutputsInv
    OBVIOUS
  <1>4. QED
    BY ONLY <1>1, <1>2, <1>3 DEF OutputsInv

LEMMA TaskOutputs ==
    ASSUME EvalInv, OutputsInv, NEW s \in Solution, TaskStep(s)
    PROVE  OutputsInv'
  <1>1. PICK g \in Function : TaskReturns(s, g) \/ TaskThrows(s, g)
    BY DEF TaskStep
  <1>2. UNCHANGED evaluated
    BY <1>1 DEF TaskReturns, TaskThrows
  <1>3. ASSUME NEW t \in Solution, NEW f \in Function
        PROVE  /\ t # s \/ f # g => task'[t][f] = task[t][f] /\ out'[t][f] = out[t][f]
               /\ t = s /\ f = g => /\ task[t][f] = "running"
                                    /\ \/ task'[t][f] = "done" /\ out'[t][f] = "plain"
                                       \/ /\ task'[t][f] = "threw" /\ f \in MayThrow
                                          /\ out'[t][f] = out[t][f]
    <2>1. CASE TaskReturns(s, g)
      BY <2>1 DEF TaskReturns, EvalInv, TypeOK
    <2>2. CASE TaskThrows(s, g)
      BY <2>2 DEF TaskThrows, EvalInv, TypeOK
    <2>3. QED
      BY <1>1, <2>1, <2>2
  <1>4. QED
    BY <1>2, <1>3 DEF OutputsInv

LEMMA NextOutputs ==
    ASSUME Parallel \cap MayThrow = {}
    PROVE  EvalInv /\ OutputsInv /\ [Next]_vars => OutputsInv'
  <1> SUFFICES ASSUME EvalInv, OutputsInv, [Next]_vars PROVE OutputsInv'
    OBVIOUS
  <1>1. CASE MainStep \/ UNCHANGED vars
    BY <1>1 DEF MainStep, OutputsInv, vars, threadVars
  <1>2. QED
    BY <1>1, ThreadOutputs, TaskOutputs DEF Next

(* When no function that may throw is parallelizable, whose exception the  *)
(* wait for its task would swallow, a function that is marked evaluated    *)
(* has been computed, also after errors and exceptions of other functions. *)
THEOREM EvaluationComputesMarked ==
    ASSUME Parallel \cap MayThrow = {}
    PROVE  Spec => []MarkedIsComputed
  <1>1. Init => OutputsInv
    BY DEF Init, OutputsInv, Minimised
  <1>2. EvalInv /\ OutputsInv => MarkedIsComputed
    BY DEF EvalInv, TypeOK, OutputsInv, MarkedIsComputed
  <1>3. QED
    BY <1>1, <1>2, NextOutputs, EvalInvariant, PTL DEF Spec
-----------------------------------------------------------------------------
LEMMA FinitelyMany ==
    /\ IsFiniteSet(Solution) /\ IsFiniteSet(Function)
    /\ \A S : S \subseteq Function => IsFiniteSet(S) /\ Cardinality(S) \in Nat
  <1>1. IsFiniteSet(Solution) /\ IsFiniteSet(Function)
    BY EvaluationAssumption, FS_Interval DEF Solution, Function
  <1>2. QED
    BY <1>1, FS_Subset, FS_CardinalityType

(* One more function evaluated is one more counted.                        *)
LEMMA CountOne ==
    ASSUME NEW B, NEW E, B \subseteq E, E \subseteq Function, NEW f \in Function, f \notin E
    PROVE  Cardinality((E \cup {f}) \ B) = Cardinality(E \ B) + 1
  <1>1. (E \cup {f}) \ B = (E \ B) \cup {f} /\ f \notin E \ B
    OBVIOUS
  <1>2. IsFiniteSet(E \ B)
    BY FinitelyMany
  <1>3. QED
    BY <1>1, <1>2, FS_AddElement

LEMMA ThreadFaithful ==
    ASSUME EvalInv, FreshInv, OutputsInv, WellBehaved,
           NEW s \in Solution, Faithful(s), ThreadStep(s)
    PROVE  Faithful(s)'
  <1> USE EvaluationAssumption, TypesOfCore
      DEF EvalInv, CoreTypes, AtFunction, Goto, Advance, Function
  <1>1. before' = before
    BY DEF ThreadStep
  <1>2. CASE Skip(s)
    BY <1>1, <1>2 DEF Skip, Faithful, Covered, Pending
  <1>3. CASE Fetch(s)
    <2>1. at[s] \notin Unmapped
      BY DEF WellBehaved
    <2>2. QED
      BY <1>1, <1>3, <2>1 DEF Fetch, FetchInputs, Faithful, Covered, Pending
  <1>4. CASE Launch(s)
    <2>1. /\ pc[s] = "fetched" /\ pc'[s] = "fetch" /\ at'[s] = at[s] + 1
          /\ task'[s] = [task[s] EXCEPT ![at[s]] = "running"]
          /\ evaluated'[s] = evaluated[s] /\ out'[s] = out[s] /\ count'[s] = count[s]
      BY <1>4 DEF Launch
    <2>2. \A f \in Function : task'[s][f] = IF f = at[s] THEN "running" ELSE task[s][f]
      BY <2>1
    <2>3. \A f \in Function : f < at'[s] => f < at[s] \/ f = at[s]
      BY <2>1
    <2>4. QED
      BY <1>1, <2>1, <2>2, <2>3 DEF Faithful, Covered, Pending
  <1>5. CASE Lock(s)
    BY <1>1, <1>5 DEF Lock, Faithful, Covered, Pending
  <1>6. CASE Evaluate(s)
    <2>1. /\ pc[s] = "evaluate" /\ pc'[s] = "fetch" /\ at'[s] = at[s] + 1
          /\ task'[s] = task[s] /\ evaluated'[s] = evaluated[s] \cup {at[s]}
          /\ count'[s] = count[s] + 1
          /\ \A f \in Function : out'[s][f] = IF f = at[s] THEN "plain" ELSE out[s][f]
      BY <1>6 DEF Evaluate, MarkEvaluated
    <2>2. at[s] \in Function /\ at[s] \notin evaluated[s] /\ at[s] \notin Parallel
      BY <2>1 DEF FreshInv, Faithful
    <2>3. count'[s] = Cardinality(evaluated'[s] \ before[s])
      <3>1. before[s] \subseteq evaluated[s] /\ evaluated[s] \subseteq Function
        BY DEF Faithful
      <3>2. Cardinality((evaluated[s] \cup {at[s]}) \ before[s])
            = Cardinality(evaluated[s] \ before[s]) + 1
        BY ONLY <2>1, <2>2, <3>1, CountOne
      <3>3. QED
        BY <2>1, <3>2 DEF Faithful
    <2>4. Minimised(at[s]) = "plain" /\ task[s][at[s]] = "none"
      BY <2>2 DEF WellBehaved, Minimised, OutputsInv
    <2>5. \A f \in Function : f < at'[s] => f < at[s] \/ f = at[s]
      BY <2>1
    <2>6. \A f \in Function : Covered(s, f)'
      BY <2>1, <2>5 DEF Faithful, Covered
    <2>7. \A f \in Function : (f \in evaluated[s] => out[s][f] = Minimised(f))
                              /\ (Pending(s, f) /\ task[s][f] = "done" => out[s][f] = "plain")
      BY DEF Faithful
    <2>8. \A f \in Function :
              /\ Pending(s, f)' /\ task'[s][f] = "done" => out'[s][f] = "plain"
              /\ f \in evaluated'[s] => out'[s][f] = Minimised(f)
      BY <2>1, <2>4, <2>7 DEF Pending
    <2>9. before'[s] \subseteq evaluated'[s] /\ pc'[s] # "failing" /\ pc'[s] # "evaluate"
      BY <1>1, <2>1 DEF Faithful
    <2>10. QED
      BY <1>1, <2>3, <2>6, <2>8, <2>9 DEF Faithful, Minimised
  <1>7. CASE EvaluateThrows(s)
    BY <1>1, <1>7 DEF EvaluateThrows, Faithful, Covered, Pending
  <1>8. CASE StartCollecting(s)
    BY <1>1, <1>8 DEF StartCollecting, Faithful, Covered, Pending
  <1>9. CASE PassOver(s)
    <2>1. /\ pc[s] = "collect" /\ pc'[s] = "collect" /\ at'[s] = at[s] + 1
          /\ at[s] \in Function /\ task[s][at[s]] = "none"
          /\ task'[s] = task[s] /\ evaluated'[s] = evaluated[s] /\ out'[s] = out[s]
          /\ count'[s] = count[s]
      BY <1>9 DEF PassOver
    <2>2. \A f \in Function : (at[s] <= f /\ f # at[s] <=> at'[s] <= f)
      BY <2>1
    <2>3. QED
      BY <1>1, <2>1, <2>2 DEF Faithful, Covered, Pending
  <1>10. CASE Collect(s)
    <2>1. /\ pc[s] = "collect" /\ pc'[s] = "collect" /\ at'[s] = at[s] + 1
          /\ at[s] \in Function /\ task[s][at[s]] \in {"done", "threw"}
          /\ task'[s] = task[s] /\ evaluated'[s] = evaluated[s] \cup {at[s]}
          /\ count'[s] = count[s] + 1
          /\ \A f \in Function :
                out'[s][f] = IF f = at[s] /\ f \in Maximised /\ out[s][f] = "plain"
                             THEN "negated" ELSE out[s][f]
      BY <1>10 DEF Collect, MarkEvaluated
    <2>2. Pending(s, at[s]) /\ at[s] \notin evaluated[s]
      BY <2>1 DEF FreshInv, Pending
    <2>3. task[s][at[s]] = "done" /\ out[s][at[s]] = "plain"
      BY <2>1, <2>2 DEF OutputsInv, WellBehaved, Faithful
    <2>4. count'[s] = Cardinality(evaluated'[s] \ before[s])
      <3>1. before[s] \subseteq evaluated[s] /\ evaluated[s] \subseteq Function
        BY DEF Faithful
      <3>2. Cardinality((evaluated[s] \cup {at[s]}) \ before[s])
            = Cardinality(evaluated[s] \ before[s]) + 1
        BY ONLY <2>1, <2>2, <3>1, CountOne
      <3>3. QED
        BY <2>1, <3>2 DEF Faithful
    <2>5. \A f \in Function : (at[s] <= f /\ f # at[s] <=> at'[s] <= f)
      BY <2>1
    <2>6. \A f \in Function : Covered(s, f)'
      BY <2>1, <2>5 DEF Faithful, Covered
    <2>7. \A f \in Function : (f \in evaluated[s] => out[s][f] = Minimised(f))
                              /\ (Pending(s, f) /\ task[s][f] = "done" => out[s][f] = "plain")
      BY DEF Faithful
    <2>8. out'[s][at[s]] = Minimised(at[s])
      BY <2>1, <2>3 DEF Minimised
    <2>9. \A f \in Function : f # at[s] => out'[s][f] = out[s][f]
      BY <2>1
    <2>10. \A f \in Function :
              /\ Pending(s, f)' /\ task'[s][f] = "done" => out'[s][f] = "plain"
              /\ f \in evaluated'[s] => out'[s][f] = Minimised(f)
      BY <2>1, <2>5, <2>7, <2>8, <2>9 DEF Pending
    <2>11. before'[s] \subseteq evaluated'[s] /\ pc'[s] # "failing" /\ pc'[s] # "evaluate"
      BY <1>1, <2>1 DEF Faithful
    <2>12. QED
      BY <1>1, <2>4, <2>6, <2>10, <2>11 DEF Faithful, Minimised
  <1>11. CASE Return(s)
    <2>1. /\ pc[s] = "collect" /\ pc'[s] = "returned" /\ at[s] = M + 1
          /\ UNCHANGED <<at, task, evaluated, out, count>>
      BY <1>11 DEF Return
    <2>2. \A f \in Function : ~(at[s] <= f)
      BY <2>1
    <2>3. QED
      BY <1>1, <2>1, <2>2 DEF Faithful, Covered, Pending
  <1>12. CASE ReturnError(s)
    BY <1>12 DEF ReturnError, Faithful
  <1>13. CASE Unwind(s)
    <2>1. /\ pc[s] = "throwing" /\ pc'[s] = "threw"
          /\ UNCHANGED <<at, task, evaluated, out, count>>
      BY <1>13 DEF Unwind
    <2>2. QED
      BY <1>1, <2>1 DEF Faithful, Covered, Pending
  <1>14. QED
    BY <1>2, <1>3, <1>4, <1>5, <1>6, <1>7, <1>8, <1>9, <1>10, <1>11, <1>12, <1>13
    DEF ThreadStep

(* Fetching is where a solution's thread takes in what others computed: the *)
(* sources come earlier in its loop and run on itself, so they are done.   *)
LEMMA FetchFed ==
    ASSUME EvalInv, OutputsInv, WellBehaved, NEW s \in Solution, Faithful(s),
           FedRight(s), Fetch(s), before' = before
    PROVE  FedRight(s)'
  <1>1. /\ at[s] \in Function /\ pc[s] = "fetch" /\ at[s] \notin Unmapped
        /\ UNCHANGED <<at, task, evaluated, out>> /\ FetchInputs(s)
    BY DEF Fetch, WellBehaved
  <1>3. ASSUME NEW g \in Function, <<g, at[s]>> \in Connected
        PROVE  out[s][g] = Minimised(g)
    <2>1. g < at[s] /\ g \notin Parallel
      BY <1>1, <1>3, EvaluationAssumption DEF WellBehaved
    <2>2. g \in evaluated[s]
      BY <1>1, <2>1 DEF Faithful, Covered, OutputsInv
    <2>3. QED
      BY <2>2 DEF Faithful
  <1>4. \A f, g \in Function :
           fed'[s][f][g] = IF f = at[s]
                           THEN IF <<g, at[s]>> \in Connected THEN out[s][g] ELSE "none"
                           ELSE fed[s][f][g]
    BY <1>1 DEF FetchInputs, EvalInv, TypeOK
  <1>5. ASSUME NEW g \in Function, NEW f \in Function,
               <<g, f>> \in Connected, Fetched(s, f)'
        PROVE  fed'[s][f][g] = Minimised(g)
    <2>1. CASE f = at[s]
      BY <1>3, <1>4, <1>5, <2>1
    <2>2. CASE f # at[s]
      <3>1. Fetched(s, f)
        BY <1>1, <1>5, <2>2 DEF Fetched
      <3>2. QED
        BY <1>4, <1>5, <2>2, <3>1 DEF FedRight
    <2>3. QED
      BY <2>1, <2>2
  <1>6. QED
    BY <1>5 DEF FedRight, Minimised

LEMMA StepFed ==
    ASSUME EvalInv, FreshInv, OutputsInv, WellBehaved, \A s \in Solution : Faithful(s),
           FedInv, [Next]_vars, NEW t \in Solution
    PROVE  FedRight(t)'
  <1> USE TypesOfCore DEF EvalInv, CoreTypes
  <1>0. before' = before
    BY DEF Next, ThreadStep, TaskStep, MainStep, vars
  <1>1. ASSUME fed'[t] = fed[t], \A f \in Function : Fetched(t, f)' => Fetched(t, f)
        PROVE  FedRight(t)'
    BY <1>1 DEF FedInv, FedRight, Minimised
  <1>2. ASSUME pc'[t] = pc[t], at'[t] = at[t], task'[t] = task[t],
               evaluated'[t] = evaluated[t], fed'[t] = fed[t]
        PROVE  FedRight(t)'
    BY <1>0, <1>1, <1>2 DEF Fetched
  <1>3. ASSUME NEW s \in Solution, ThreadStep(s)
        PROVE  FedRight(t)'
    <2>1. CASE t # s
      BY <1>2, <1>3, <2>1, ThreadIsLocal
    <2>2. CASE t = s
      <3> USE DEF Goto, Advance, MarkEvaluated
      <3>1. CASE Fetch(s)
        BY <1>0, <2>2, <3>1, FetchFed DEF FedInv
      <3>2. CASE Skip(s) \/ Lock(s) \/ EvaluateThrows(s) \/ StartCollecting(s)
        BY <1>0, <1>1, <2>2, <3>2 DEF Skip, Lock, EvaluateThrows, StartCollecting, Fetched
      <3>3. CASE Launch(s)
        <4>1. /\ pc[s] = "fetched" /\ pc'[s] = "fetch" /\ fed' = fed /\ evaluated' = evaluated
              /\ \A f \in Function : f # at[s] => task'[s][f] = task[s][f]
          BY <3>3 DEF Launch
        <4>2. QED
          BY <1>0, <1>1, <2>2, <4>1 DEF Fetched
      <3>4. CASE Evaluate(s)
        <4>1. /\ pc[s] = "evaluate" /\ pc'[s] = "fetch" /\ UNCHANGED <<fed, task>>
              /\ evaluated'[s] = evaluated[s] \cup {at[s]}
          BY <3>4 DEF Evaluate
        <4>2. QED
          BY <1>0, <1>1, <2>2, <4>1 DEF Fetched
      <3>5. CASE Collect(s)
        <4>1. /\ pc[s] = "collect" /\ pc'[s] = "collect" /\ UNCHANGED <<fed, task>>
              /\ evaluated'[s] = evaluated[s] \cup {at[s]} /\ task[s][at[s]] # "none"
          BY <3>5 DEF Collect
        <4>2. QED
          BY <1>0, <1>1, <2>2, <4>1 DEF Fetched
      <3>6. CASE PassOver(s) \/ Return(s) \/ ReturnError(s) \/ Unwind(s)
        BY <1>0, <1>1, <2>2, <3>6 DEF PassOver, Return, ReturnError, Unwind, Fetched
      <3>7. QED
        BY <1>3, <3>1, <3>2, <3>3, <3>4, <3>5, <3>6 DEF ThreadStep
    <2>3. QED
      BY <2>1, <2>2
  <1>4. ASSUME NEW s \in Solution, TaskStep(s)
        PROVE  FedRight(t)'
    <2>1. PICK g \in Function : TaskReturns(s, g) \/ TaskThrows(s, g)
      BY <1>4 DEF TaskStep
    <2>2. /\ UNCHANGED <<pc, at, evaluated, fed>>
          /\ \A f \in Function : task'[t][f] # "none" => task[t][f] # "none"
      <3>1. UNCHANGED <<pc, at, evaluated, fed>> /\ task[s][g] = "running"
        BY <2>1 DEF TaskReturns, TaskThrows
      <3>2. \E res : task' = [task EXCEPT ![s][g] = res]
        BY <2>1 DEF TaskReturns, TaskThrows
      <3>3. QED
        BY <3>1, <3>2
    <2>3. QED
      BY <1>0, <1>1, <2>2 DEF Fetched
  <1>5. CASE MainStep \/ UNCHANGED vars
    BY <1>2, <1>5 DEF MainStep, vars, threadVars
  <1>6. QED
    BY <1>3, <1>4, <1>5 DEF Next

LEMMA StepFaithful ==
    ASSUME EvalInv, FreshInv, OutputsInv, WellBehaved, \A s \in Solution : Faithful(s),
           [Next]_vars, NEW t \in Solution
    PROVE  Faithful(t)'
  <1> USE TypesOfCore DEF EvalInv, CoreTypes
  <1>1. ASSUME pc'[t] = pc[t], at'[t] = at[t], task'[t] = task[t], out'[t] = out[t],
               evaluated'[t] = evaluated[t], count'[t] = count[t], before'[t] = before[t]
        PROVE  Faithful(t)'
    <2>1. \A f \in Function : (Covered(t, f) => Covered(t, f)') /\ (Pending(t, f)' => Pending(t, f))
      BY ONLY <1>1 DEF Covered, Pending
    <2>2. Faithful(t)
      OBVIOUS
    <2>3. QED
      BY ONLY <1>1, <2>1, <2>2 DEF Faithful, Minimised
  <1>2. ASSUME NEW s \in Solution, ThreadStep(s)
        PROVE  Faithful(t)'
    <2>1. CASE t = s
      BY <1>2, <2>1, ThreadFaithful
    <2>2. CASE t # s
      <3>1. /\ pc'[t] = pc[t] /\ at'[t] = at[t] /\ task'[t] = task[t]
            /\ evaluated'[t] = evaluated[t] /\ out'[t] = out[t] /\ before'[t] = before[t]
        BY <1>2, <2>2, ThreadIsLocal DEF ThreadStep
      <3>2. count'[t] = count[t]
        BY <1>2, <2>2 DEF ThreadStep, Skip, Fetch, Launch, Lock, Evaluate, EvaluateThrows,
             StartCollecting, PassOver, Collect, Return, ReturnError, Unwind, MarkEvaluated
      <3>3. QED
        BY <1>1, <3>1, <3>2
    <2>3. QED
      BY <2>1, <2>2
  <1>3. ASSUME NEW s \in Solution, TaskStep(s)
        PROVE  Faithful(t)'
    <2>1. PICK g \in Function : TaskReturns(s, g) \/ TaskThrows(s, g)
      BY <1>3 DEF TaskStep
    <2>2. UNCHANGED <<pc, at, evaluated, count, before>> /\ task[s][g] = "running"
      BY <1>3, <2>1 DEF TaskReturns, TaskThrows, TaskStep
    <2>3. CASE t # s
      <3>1. task'[t] = task[t] /\ out'[t] = out[t]
        BY <2>1, <2>3 DEF TaskReturns, TaskThrows
      <3>2. QED
        BY <1>1, <2>2, <3>1
    <2>4. CASE t = s
      <3>1. \A f \in Function : f # g => task'[s][f] = task[s][f] /\ out'[s][f] = out[s][f]
        BY <2>1 DEF TaskReturns, TaskThrows
      <3>2. \/ task'[s][g] = "done" /\ out'[s][g] = "plain"
            \/ task'[s][g] = "threw" /\ out'[s][g] = out[s][g]
        BY <2>1 DEF TaskReturns, TaskThrows
      <3>3. g \notin evaluated[s]
        BY <2>2 DEF TasksBehind, FreshInv, Pending, Ended
      <3>4. \A f \in Function : task'[s][f] # "none" <=> task[s][f] # "none"
        BY <2>2, <3>1, <3>2
      <3>5. \A f \in Function : Covered(s, f)'
        BY <2>2, <2>4, <3>4 DEF Faithful, Covered
      <3>6. \A f \in Function :
                /\ Pending(s, f)' /\ task'[s][f] = "done" => out'[s][f] = "plain"
                /\ f \in evaluated'[s] => out'[s][f] = Minimised(f)
        BY <2>2, <2>4, <3>1, <3>2, <3>3 DEF Faithful, Pending
      <3>7. QED
        BY <2>2, <2>4, <3>5, <3>6 DEF Faithful, Minimised
    <2>5. QED
      BY <2>3, <2>4
  <1>4. CASE MainStep \/ UNCHANGED vars
    <2>1. UNCHANGED <<threadVars, before>>
      BY <1>4 DEF MainStep, vars
    <2>2. QED
      BY <1>1, <2>1 DEF threadVars
  <1>5. QED
    BY <1>2, <1>3, <1>4 DEF Next

(* Fetching a result adds what the serial branch would have charged for it. *)
LEMMA CostOne ==
    ASSUME EvalInv, NEW n \in Solution, NEW res \in Nat,
           res = Cardinality(Function \ before[n])
    PROVE  CostTo(n + 1) = CostTo(n) + Charge(res)
  <1> DEFINE X == Function \ before[n]
  <1>1. n \in Nat /\ Solution \subseteq Nat /\ before[n] \subseteq Function
    BY EvaluationAssumption DEF Solution, EvalInv, TypeOK
  <1>2. IsFiniteSet(X) /\ res = Cardinality(X)
    BY FinitelyMany
  <1>3. \A s \in Solution : s < n + 1 <=> s < n \/ s = n
    BY EvaluationAssumption DEF Solution
  <1> HIDE DEF X
  <1>4. CASE PerFunction
    <2>1. IsFiniteSet(Missing(n)) /\ Cardinality(Missing(n)) \in Nat
      <3>1. IsFiniteSet(Solution \X Function)
        BY FinitelyMany, FS_Product
      <3>2. Missing(n) \in SUBSET (Solution \X Function)
        BY DEF Missing
      <3>3. QED
        BY <3>1, <3>2, FS_Subset, FS_CardinalityType
    <2>2. IsFiniteSet({n} \X X) /\ Cardinality({n} \X X) = res
      <3>1. IsFiniteSet({n}) /\ Cardinality({n}) = 1
        BY FS_Singleton
      <3>2. Cardinality({n} \X X) = 1 * Cardinality(X) /\ IsFiniteSet({n} \X X)
        BY <1>2, <3>1, FS_Product
      <3>3. QED
        BY <1>2, <3>2
    <2>3. Missing(n + 1) = Missing(n) \cup ({n} \X X)
      BY <1>1, <1>3 DEF Missing, X
    <2>4. Missing(n) \cap ({n} \X X) = {}
      BY <1>1 DEF Missing
    <2>5. Cardinality(Missing(n) \cup ({n} \X X))
          = Cardinality(Missing(n)) + Cardinality({n} \X X) - Cardinality({})
      BY <2>1, <2>2, <2>4, FS_Union
    <2>6. QED
      <3>1. Cardinality({}) = 0
        BY FS_EmptySet
      <3>2. Cardinality(Missing(n + 1)) = Cardinality(Missing(n)) + res
        <4> DEFINE m == Cardinality(Missing(n))
                   k == Cardinality({n} \X X)
        <4>1. Cardinality(Missing(n + 1)) = m + k - 0
          BY <2>3, <2>5, <3>1
        <4>2. m \in Nat /\ k = res
          BY <2>1, <2>2
        <4> HIDE DEF m, k
        <4>3. m + k - 0 = m + res
          BY <4>2
        <4>4. QED
          BY <4>1, <4>3 DEF m
      <3>3. QED
        BY <1>4, <2>1, <3>2 DEF CostTo, Charge
  <1>5. CASE ~PerFunction
    <2>1. IsFiniteSet(Partial(n)) /\ Cardinality(Partial(n)) \in Nat
      <3>1. Partial(n) \in SUBSET Solution
        BY DEF Partial
      <3>2. QED
        BY <3>1, FinitelyMany, FS_Subset, FS_CardinalityType
    <2>2. CASE before[n] = Function
      <3>1. Partial(n + 1) = Partial(n)
        BY <1>1, <1>3, <2>2 DEF Partial
      <3>2. X = {}
        BY <2>2 DEF X
      <3>3. res = 0
        BY <1>2, <3>2, FS_EmptySet
      <3>4. QED
        BY <1>5, <2>1, <3>1, <3>3 DEF CostTo, Charge
    <2>3. CASE before[n] # Function
      <3>1. Partial(n + 1) = Partial(n) \cup {n} /\ n \notin Partial(n)
        <4>1. ~(n < n)
          BY <1>1
        <4>2. QED
          BY <1>3, <2>3, <4>1 DEF Partial
      <3>2. Cardinality(Partial(n + 1)) = Cardinality(Partial(n)) + 1
        BY <2>1, <3>1, FS_AddElement
      <3>3. X # {}
        BY <1>1, <2>3 DEF X
      <3>4. res # 0
        BY <1>2, <3>3, FS_EmptySet
      <3>5. QED
        BY <1>5, <2>1, <3>2, <3>4 DEF CostTo, Charge
    <2>4. QED
      BY <2>2, <2>3
  <1>6. QED
    BY <1>4, <1>5

LEMMA StepCost ==
    ASSUME EvalInv, FreshInv, OutputsInv, WellBehaved, SerialInv, [Next]_vars
    PROVE  CostInv'
  <1> USE DEF EvalInv, TypeOK, SerialInv
  <1>1. before' = before
    BY DEF Next, ThreadStep, TaskStep, MainStep, vars
  <1>2. \A n : CostTo(n)' = CostTo(n)
    BY <1>1 DEF CostTo, Missing, Partial
  <1>3. ASSUME UNCHANGED mainVars, \A s \in Solution : pc[s] = "returned" => pc'[s] = "returned"
        PROVE  CostInv'
    BY <1>1, <1>2, <1>3 DEF CostInv, mainVars, CostTo, Missing, Partial
  <1>4. ASSUME NEW s \in Solution, ThreadStep(s)
        PROVE  CostInv'
    <2>1. UNCHANGED mainVars /\ pc[s] # "returned"
      BY <1>4 DEF ThreadStep, Skip, Fetch, Launch, Lock, Evaluate, EvaluateThrows,
           StartCollecting, PassOver, Collect, Return, ReturnError, Unwind
    <2>2. QED
      BY <1>3, <1>4, <2>1, ThreadIsLocal
  <1>5. ASSUME NEW s \in Solution, TaskStep(s)
        PROVE  CostInv'
    BY <1>3, <1>5 DEF TaskStep, TaskReturns, TaskThrows
  <1>6. CASE UNCHANGED vars
    BY <1>3, <1>6 DEF vars, threadVars
  <1>7. CASE MainStep
    <2>1. UNCHANGED <<pc, evaluated, count>>
      BY <1>7 DEF MainStep, threadVars
    <2>2. CASE Get
      <3>1. /\ next \in Solution /\ pc[next] = "returned" /\ next' = next + 1
            /\ main = "get" /\ UNCHANGED <<main, used>>
            /\ cost' = cost + Charge(count[next])
        BY <2>2 DEF Get
      <3>2. evaluated[next] = Function /\ count[next] = Cardinality(evaluated[next] \ before[next])
        <4>1. \A f \in Function : f \in evaluated[next]
          BY <3>1 DEF Faithful, Covered
        <4>2. evaluated[next] \in SUBSET Function
          BY <3>1
        <4>3. QED
          BY <3>1, <4>1, <4>2 DEF Faithful
      <3>3. count[next] = Cardinality(Function \ before[next]) /\ count[next] \in Nat
        BY <3>2, FinitelyMany
      <3>4. CostTo(next + 1) = CostTo(next) + Charge(count[next])
        BY <3>1, <3>3, CostOne
      <3>5. cost' = CostTo(next + 1)
        BY <3>1, <3>4 DEF CostInv
      <3>6. CostTo(next)' = CostTo(next + 1)
        BY <1>1, <3>1 DEF CostTo, Missing, Partial
      <3>7. \A s \in Solution : s < next + 1 => s < next \/ s = next
        BY EvaluationAssumption DEF Solution
      <3>8. QED
        BY <2>1, <3>1, <3>5, <3>6, <3>7 DEF CostInv
    <2>3. CASE GetThrows \/ Leave
      <3>1. UNCHANGED <<next, cost, used>> /\ main # "done" /\ main' # "done"
        BY <2>3 DEF GetThrows, Leave
      <3>2. CostTo(next)' = CostTo(next)
        BY <1>1, <3>1 DEF CostTo, Missing, Partial
      <3>3. QED
        BY <2>1, <3>1, <3>2 DEF CostInv
    <2>4. CASE Finish
      <3>1. /\ UNCHANGED <<next, cost>> /\ main = "get" /\ main' = "done"
            /\ used' = used + cost /\ bounds' = Solution
        BY <2>4 DEF Finish
      <3>2. CostTo(next)' = CostTo(next)
        BY <1>1, <3>1 DEF CostTo, Missing, Partial
      <3>3. used' = cost
        BY <3>1 DEF CostInv
      <3>4. QED
        BY <2>1, <3>1, <3>2, <3>3 DEF CostInv
    <2>5. QED
      BY <1>7, <2>2, <2>3, <2>4 DEF MainStep
  <1>8. QED
    BY <1>4, <1>5, <1>6, <1>7 DEF Next

LEMMA InitSerial == Init => SerialInv
  <1> SUFFICES ASSUME Init PROVE SerialInv
    OBVIOUS
  <1>1. ASSUME NEW s \in Solution
        PROVE  Faithful(s)
    <2>1. /\ pc[s] = "fetch" /\ at[s] = 1 /\ evaluated[s] = before[s] /\ count[s] = 0
          /\ \A f \in Function : /\ task[s][f] = "none"
                                 /\ f \in before[s] => out[s][f] = Minimised(f)
      BY DEF Init
    <2>2. Cardinality(evaluated[s] \ before[s]) = 0
      <3>1. evaluated[s] \ before[s] = {}
        BY <2>1
      <3>2. QED
        BY <3>1, FS_EmptySet
    <2>3. \A f \in Function : ~(f < at[s])
      BY <2>1 DEF Function
    <2>4. QED
      BY <2>1, <2>2, <2>3 DEF Faithful, Covered, Pending
  <1>2. CostInv
    <2>1. next = 1 /\ cost = 0 /\ used = 0 /\ main = "get"
      BY DEF Init
    <2>2. \A s \in Solution : ~(s < 1)
      BY DEF Solution
    <2>3. Missing(1) = {} /\ Partial(1) = {}
      BY <2>2 DEF Missing, Partial
    <2>4. CostTo(1) = 0
      BY <2>3, FS_EmptySet DEF CostTo
    <2>5. QED
      BY <2>1, <2>2, <2>4 DEF CostInv
  <1>3. FedInv
    BY DEF Init, FedInv, FedRight, Fetched
  <1>4. QED
    BY <1>1, <1>2, <1>3 DEF SerialInv

(* Where no exception can be lost in a task, every function has its        *)
(* mappings, only parallelizable functions are maximised and none of them  *)
(* feeds another, and no solution comes with a cost, a parallel evaluation *)
(* leaves the solutions, the vectors and the budget as the serial branch   *)
(* of Evaluator::evaluateNode() does, for every interleaving of its threads. *)
THEOREM EvaluationAgreesWithSerial ==
    ASSUME WellBehaved
    PROVE  Spec => []AgreesWithSerial
  <1>1. Init => OutputsInv
    BY DEF Init, OutputsInv, Minimised
  <1>2. EvalInv /\ FreshInv /\ [Next]_vars => FreshInv'
    BY NextFresh
  <1>3. EvalInv /\ OutputsInv /\ [Next]_vars => OutputsInv'
    BY NextOutputs DEF WellBehaved
  <1>4. EvalInv /\ FreshInv /\ OutputsInv /\ SerialInv /\ [Next]_vars => SerialInv'
    BY StepFaithful, StepFed, StepCost DEF SerialInv, FedInv
  <1>5. EvalInv /\ SerialInv => AgreesWithSerial
    <2> SUFFICES ASSUME EvalInv, SerialInv, main = "done"
                 PROVE  /\ \A s \in Solution : evaluated[s] = Function
                        /\ \A s \in Solution, f \in Function : out[s][f] = Minimised(f)
                        /\ \A s \in Solution, g, f \in Function :
                              <<g, f>> \in Connected /\ f \notin before[s]
                              => fed[s][f][g] = Minimised(g)
                        /\ bounds = Solution
                        /\ used = SerialCost
      BY DEF AgreesWithSerial, WellBehaved
    <2>1. next = N + 1 /\ used = CostTo(N + 1) /\ bounds = Solution
      BY DEF EvalInv, ResultsSeen, SerialInv, CostInv
    <2>2. \A s \in Solution : s < N + 1
      BY EvaluationAssumption DEF Solution
    <2>3. \A s \in Solution : pc[s] = "returned" /\ Faithful(s)
      BY <2>1, <2>2 DEF SerialInv, CostInv
    <2>4. \A s \in Solution, f \in Function : f \in evaluated[s] /\ out[s][f] = Minimised(f)
      BY <2>3 DEF Faithful, Covered
    <2>5. ASSUME NEW s \in Solution
          PROVE  evaluated[s] = Function
      <3>1. evaluated[s] \in SUBSET Function
        BY DEF EvalInv, TypeOK
      <3>2. QED
        BY <2>4, <3>1
    <2>6. Missing(N + 1) = {p \in Solution \X Function : p[2] \notin before[p[1]]}
      BY <2>2 DEF Missing
    <2>7. Partial(N + 1) = {s \in Solution : before[s] # Function}
      BY <2>2 DEF Partial
    <2>8. \A s \in Solution, f \in Function : f \notin before[s] => Fetched(s, f)
      BY <2>4 DEF Fetched
    <2>9. used = SerialCost
      BY <2>1, <2>6, <2>7 DEF CostTo, SerialCost
    <2>10. QED
      BY <2>1, <2>4, <2>5, <2>8, <2>9 DEF SerialInv, FedInv, FedRight
  <1>6. QED
    BY <1>1, <1>2, <1>3, <1>4, <1>5, InitFresh, InitSerial, InitEval, NextKeeps,
       PTL DEF Spec
=============================================================================
