------------------------- MODULE ParallelEvaluation -------------------------
(***************************************************************************)
(* One parallel evaluation of a set (Evaluator::evaluateNode with          *)
(* ParallelEvaluation on). Every solution gets a thread that runs          *)
(* IMapping::parallelEvaluate(): functions that are not parallelizable are *)
(* evaluated on that thread under the static mutex ms_mutex, parallelizable*)
(* ones on a further thread each, collected at the end. A parameter of a   *)
(* function may be connected to the output of an earlier one: it is the    *)
(* same element, read when the inputs are fetched. The evaluator fetches   *)
(* the results in the order of the set.                                    *)
(***************************************************************************)
EXTENDS Integers, FiniteSets

CONSTANTS
    N, M,          \* solutions in the set, functions of the problem
    Parallel,      \* functions with parallelizable() true
    Sampled,       \* functions with an uncertain input: fetching it samples
    Maximised,     \* functions whose output is maximised
    Unmapped,      \* functions without a complete input or output mapping
    Connected,     \* <<g, f>>: an input of f is an output of g
    Scalarised,    \* solutions that hold the cost of earlier outputs
    MayThrow,      \* functions whose evaluate() may throw
    PerFunction,   \* TP_isCountPerFunction()
    NoThread       \* nobody holds ms_mutex

Solution == 1 .. N
Function == 1 .. M

ASSUME EvaluationAssumption ==
    /\ N \in Nat \ {0}
    /\ M \in Nat \ {0}
    /\ Parallel \subseteq Function
    /\ Sampled \subseteq Function
    /\ Maximised \subseteq Function
    /\ Unmapped \subseteq Function
    /\ Connected \subseteq {p \in Function \X Function : p[1] < p[2]}
    /\ Scalarised \subseteq Solution
    /\ MayThrow \subseteq Function
    /\ PerFunction \in BOOLEAN
    /\ NoThread \notin Solution

VARIABLES
    mutex,      \* the thread that holds ms_mutex
    pc,         \* per solution: where its thread is in parallelEvaluate()
    at,         \* per solution: the index of the loop its thread is in
    task,       \* per solution and function: its thread of evalThreads
    evaluated,  \* per solution: m_isFuncEvaluated
    out,        \* per solution and function: its output element
    fed,        \* per solution and function: the connected outputs it fetched
    count,      \* per solution: evalCount, the value returned
    main,       \* where the evaluator is
    next,       \* the result it fetches next
    cost,       \* evalCost
    used,       \* m_usedBudget, from the start of this evaluation
    bounds,     \* solutions that entered the ideal and nadir vectors
    before      \* history: the functions evaluated at the start

threadVars == <<mutex, pc, at, task, evaluated, out, fed, count>>
mainVars   == <<main, next, cost, used, bounds>>
vars       == <<threadVars, mainVars, before>>

\* An output element: not of the current inputs, as computed, or negated.
Form == {"none", "plain", "negated"}

TypeOK ==
    /\ mutex \in Solution \cup {NoThread}
    /\ pc \in [Solution -> {"fetch", "fetched", "evaluate", "collect",
                            "failing", "throwing", "returned", "threw"}]
    /\ at \in [Solution -> 1 .. M + 1]
    /\ task \in [Solution -> [Function -> {"none", "running", "done", "threw"}]]
    /\ evaluated \in [Solution -> SUBSET Function]
    /\ out \in [Solution -> [Function -> Form]]
    /\ fed \in [Solution -> [Function -> [Function -> Form]]]
    /\ count \in [Solution -> Int]
    /\ main \in {"get", "unwinding", "done", "threw"}
    /\ next \in 1 .. N + 1
    /\ cost \in Int
    /\ used \in Int
    /\ bounds \subseteq Solution
    /\ before \in [Solution -> SUBSET Function]

\* The output that IMapping::evaluate() leaves: minimised, whatever was asked.
Minimised(f) == IF f \in Maximised THEN "negated" ELSE "plain"

\* Solutions of the set may carry functions evaluated in earlier generations.
Init ==
    /\ before \in [Solution -> SUBSET Function]
    /\ mutex = NoThread
    /\ pc = [s \in Solution |-> "fetch"]
    /\ at = [s \in Solution |-> 1]
    /\ task = [s \in Solution |-> [f \in Function |-> "none"]]
    /\ evaluated = before
    /\ out = [s \in Solution |-> [f \in Function |->
                 IF f \in before[s] THEN Minimised(f) ELSE "none"]]
    /\ fed = [s \in Solution |-> [f \in Function |-> [g \in Function |-> "none"]]]
    /\ count = [s \in Solution |-> 0]
    /\ main = "get"
    /\ next = 1
    /\ cost = 0
    /\ used = 0
    /\ bounds = {}
-----------------------------------------------------------------------------
(* The thread of a solution.                                               *)

Goto(s, place) == pc' = [pc EXCEPT ![s] = place]
Advance(s)     == at' = [at EXCEPT ![s] = @ + 1]

\* defineFuncEvaluated(f, true) and evalCount++.
MarkEvaluated(s, f) ==
    /\ evaluated' = [evaluated EXCEPT ![s] = @ \cup {f}]
    /\ count' = [count EXCEPT ![s] = @ + 1]

Skip(s) ==
    /\ pc[s] = "fetch"
    /\ at[s] \in evaluated[s]
    /\ Advance(s)
    /\ UNCHANGED <<mutex, pc, task, evaluated, out, fed, count>>

(* fetchInputs(i): the connected parameters hold whatever their outputs    *)
(* hold at this moment, also while the task of the source writes them. The *)
(* sign of a maximised one is turned back, which suits the negated form.   *)
FetchInputs(s) ==
    IF at[s] \in Unmapped
    THEN Goto(s, "failing") /\ UNCHANGED fed
    ELSE /\ Goto(s, "fetched")
         /\ fed' = [fed EXCEPT ![s][at[s]] = [g \in Function |->
                      IF <<g, at[s]>> \in Connected THEN out[s][g] ELSE "none"]]

\* bug: does not look whether the function is evaluated already
FetchAgain(s) ==
    /\ pc[s] = "fetch"
    /\ at[s] \in Function
    /\ at[s] \in Sampled => mutex = NoThread
    /\ FetchInputs(s)
    /\ UNCHANGED <<mutex, at, task, evaluated, out, count>>

\* fetchInputs() takes and gives back the mutex to sample an uncertain input.
Fetch(s) ==
    /\ pc[s] = "fetch"
    /\ at[s] \in Function \ evaluated[s]
    /\ at[s] \in Sampled => mutex = NoThread
    /\ FetchInputs(s)
    /\ UNCHANGED <<mutex, at, task, evaluated, out, count>>

\* bug: launches every function, whatever parallelizable() says
LaunchAny(s) ==
    /\ pc[s] = "fetched"
    /\ task' = [task EXCEPT ![s][at[s]] = "running"]
    /\ Advance(s)
    /\ Goto(s, "fetch")
    /\ UNCHANGED <<mutex, evaluated, out, fed, count>>

Launch(s) ==
    /\ pc[s] = "fetched"
    /\ at[s] \in Parallel
    /\ task' = [task EXCEPT ![s][at[s]] = "running"]
    /\ Advance(s)
    /\ Goto(s, "fetch")
    /\ UNCHANGED <<mutex, evaluated, out, fed, count>>

\* bug: does not wait for the mutex
LockNoWait(s) ==
    /\ pc[s] = "fetched"
    /\ at[s] \notin Parallel
    /\ mutex' = s
    /\ Goto(s, "evaluate")
    /\ UNCHANGED <<at, task, evaluated, out, fed, count>>

Lock(s) ==
    /\ pc[s] = "fetched"
    /\ at[s] \notin Parallel
    /\ mutex = NoThread
    /\ mutex' = s
    /\ Goto(s, "evaluate")
    /\ UNCHANGED <<at, task, evaluated, out, fed, count>>

\* bug: keeps the mutex after the evaluation
EvaluateNoUnlock(s) ==
    /\ pc[s] = "evaluate"
    /\ out' = [out EXCEPT ![s][at[s]] = "plain"]
    /\ MarkEvaluated(s, at[s])
    /\ Advance(s)
    /\ Goto(s, "fetch")
    /\ UNCHANGED <<mutex, task, fed>>

\* The outputs of this branch are not negated.
Evaluate(s) ==
    /\ pc[s] = "evaluate"
    /\ out' = [out EXCEPT ![s][at[s]] = "plain"]
    /\ MarkEvaluated(s, at[s])
    /\ mutex' = NoThread
    /\ Advance(s)
    /\ Goto(s, "fetch")
    /\ UNCHANGED <<task, fed>>

\* The exception leaves parallelEvaluate() past ms_mutex.unlock().
EvaluateThrows(s) ==
    /\ pc[s] = "evaluate"
    /\ at[s] \in MayThrow
    /\ Goto(s, "throwing")
    /\ UNCHANGED <<mutex, at, task, evaluated, out, fed, count>>

StartCollecting(s) ==
    /\ pc[s] = "fetch"
    /\ at[s] = M + 1
    /\ at' = [at EXCEPT ![s] = 1]
    /\ Goto(s, "collect")
    /\ UNCHANGED <<mutex, task, evaluated, out, fed, count>>

PassOver(s) ==
    /\ pc[s] = "collect"
    /\ at[s] \in Function
    /\ task[s][at[s]] = "none"
    /\ Advance(s)
    /\ UNCHANGED <<mutex, pc, task, evaluated, out, fed, count>>

\* bug: does not wait for the task
CollectNoWait(s) ==
    /\ pc[s] = "collect"
    /\ at[s] \in Function
    /\ task[s][at[s]] # "none"
    /\ mutex = NoThread
    /\ MarkEvaluated(s, at[s])
    /\ Advance(s)
    /\ UNCHANGED <<mutex, pc, task, out, fed>>

\* wait() returns for a task that threw as for one that succeeded.
Collect(s) ==
    /\ pc[s] = "collect"
    /\ at[s] \in Function
    /\ task[s][at[s]] \in {"done", "threw"}
    /\ mutex = NoThread
    /\ out' = IF at[s] \in Maximised /\ out[s][at[s]] = "plain"
              THEN [out EXCEPT ![s][at[s]] = "negated"]
              ELSE out
    /\ MarkEvaluated(s, at[s])
    /\ Advance(s)
    /\ UNCHANGED <<mutex, pc, task, fed>>

Return(s) ==
    /\ pc[s] = "collect"
    /\ at[s] = M + 1
    /\ Goto(s, "returned")
    /\ UNCHANGED <<mutex, at, task, evaluated, out, fed, count>>

\* An early end destroys evalThreads: each future waits for its task.
Joined(s) == \A f \in Function : task[s][f] # "running"

ReturnError(s) ==
    /\ pc[s] = "failing"
    /\ Joined(s)
    /\ count' = [count EXCEPT ![s] = -1]
    /\ Goto(s, "returned")
    /\ UNCHANGED <<mutex, at, task, evaluated, out, fed>>

\* bug: leaves its tasks running
UnwindDetached(s) ==
    /\ pc[s] = "throwing"
    /\ Goto(s, "threw")
    /\ UNCHANGED <<mutex, at, task, evaluated, out, fed, count>>

Unwind(s) ==
    /\ pc[s] = "throwing"
    /\ Joined(s)
    /\ Goto(s, "threw")
    /\ UNCHANGED <<mutex, at, task, evaluated, out, fed, count>>

\* IFunction::evaluate on a thread of its own.
TaskReturns(s, f) ==
    /\ task[s][f] = "running"
    /\ task' = [task EXCEPT ![s][f] = "done"]
    /\ out' = [out EXCEPT ![s][f] = "plain"]
    /\ UNCHANGED <<mutex, pc, at, evaluated, fed, count>>

TaskThrows(s, f) ==
    /\ task[s][f] = "running"
    /\ f \in MayThrow
    /\ task' = [task EXCEPT ![s][f] = "threw"]
    /\ UNCHANGED <<mutex, pc, at, evaluated, out, fed, count>>
-----------------------------------------------------------------------------
(* The evaluator.                                                          *)

Ended(s) == pc[s] \in {"returned", "threw"}

\* The budget of one result; nothing for an error (-1) or nothing done (0).
Charge(res) == IF res <= 0 THEN 0 ELSE IF PerFunction THEN res ELSE 1

Get ==
    /\ main = "get"
    /\ next \in Solution
    /\ pc[next] = "returned"
    /\ cost' = cost + Charge(count[next])
    /\ next' = next + 1
    /\ UNCHANGED <<main, used, bounds>>

GetThrows ==
    /\ main = "get"
    /\ next \in Solution
    /\ pc[next] = "threw"
    /\ main' = "unwinding"
    /\ UNCHANGED <<next, cost, used, bounds>>

\* results is destroyed: each of its futures waits for its thread.
Leave ==
    /\ main = "unwinding"
    /\ \A s \in Solution : Ended(s)
    /\ main' = "threw"
    /\ UNCHANGED <<next, cost, used, bounds>>

\* updateIdealNadirVec() for every solution, then decrementBudget().
Finish ==
    /\ main = "get"
    /\ next = N + 1
    /\ bounds' = Solution
    /\ used' = used + cost
    /\ main' = "done"
    /\ UNCHANGED <<next, cost>>
-----------------------------------------------------------------------------
ThreadStep(s) ==
    /\ \/ Skip(s) \/ Fetch(s) \/ Launch(s) \/ Lock(s) \/ Evaluate(s)
       \/ EvaluateThrows(s) \/ StartCollecting(s) \/ PassOver(s) \/ Collect(s)
       \/ Return(s) \/ ReturnError(s) \/ Unwind(s)
    /\ UNCHANGED <<mainVars, before>>

TaskStep(s) ==
    /\ \E f \in Function : TaskReturns(s, f) \/ TaskThrows(s, f)
    /\ UNCHANGED <<mainVars, before>>

MainStep ==
    /\ Get \/ GetThrows \/ Leave \/ Finish
    /\ UNCHANGED <<threadVars, before>>

Next == (\E s \in Solution : ThreadStep(s) \/ TaskStep(s)) \/ MainStep

\* Threads are scheduled and a function's evaluate() returns or throws.
Spec ==
    /\ Init /\ [][Next]_vars
    /\ \A s \in Solution : WF_vars(ThreadStep(s)) /\ WF_vars(TaskStep(s))
    /\ WF_vars(MainStep)
-----------------------------------------------------------------------------
\* Functions that are not parallelizable run for one solution at a time: the
\* threads share one instance of each function.
SerialExclusive ==
    \A s, t \in Solution :
        pc[s] = "evaluate" /\ pc[t] = "evaluate" => s = t

\* When evaluateNode() has returned or thrown, no thread still works on a
\* solution of the set: the sets may be deleted now.
NothingRunsOn ==
    main \in {"done", "threw"} =>
        \A s \in Solution :
            Ended(s) /\ \A f \in Function : task[s][f] # "running"

\* A function marked evaluated has produced its output.
MarkedIsComputed ==
    \A s \in Solution : \A f \in evaluated[s] : out[s][f] # "none"

\* The output of an evaluated function is in the minimised form in which
\* dominance, ideal and nadir vectors and connected parameters read it.
MarkedIsMinimised ==
    \A s \in Solution : \A f \in evaluated[s] :
        out[s][f] # "none" => out[s][f] = Minimised(f)

\* What the serial branch of the evaluator would have charged: evaluate()
\* evaluates the functions not evaluated before.
SerialCost ==
    IF PerFunction
    THEN Cardinality({p \in Solution \X Function : p[2] \notin before[p[1]]})
    ELSE Cardinality({s \in Solution : before[s] # Function})

\* A parallel evaluation that finishes leaves the solutions, the vectors and the
\* budget as the serial one would, whatever the order of the threads: everything
\* evaluated, from the outputs that the serial one would have fed; each solution
\* that got a new output reported, none with a cost of outputs it no longer has;
\* each evaluation charged once.
AgreesWithSerial ==
    main = "done" =>
        /\ \A s \in Solution : evaluated[s] = Function
        /\ \A s \in Solution, f \in Function : out[s][f] = Minimised(f)
        /\ \A s \in Solution, g, f \in Function :
              <<g, f>> \in Connected /\ f \notin before[s] => fed[s][f][g] = Minimised(g)
        /\ {s \in Solution : before[s] # Function} \subseteq bounds
        /\ \A s \in Scalarised : before[s] = Function
        /\ used = SerialCost

\* Nothing marked evaluated is evaluated again or unmarked: the step of one
\* thread leaves the finished outputs of all solutions alone.
FinishedOutputsStay ==
    [][\A s \in Solution : \A f \in evaluated[s] :
          f \in evaluated'[s] /\ out'[s][f] = out[s][f]]_vars

\* The evaluator gets all its results: evaluateNode() returns or throws.
EvaluationReturns == <>(main \in {"done", "threw"})
=============================================================================
