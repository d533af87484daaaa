---------------------------- MODULE AsyncScheduler ----------------------------
(***************************************************************************)
(* The cooperative scheduler of BSL async routines (async_runtime.py).     *)
(*                                                                         *)
(* Everything runs on one thread, but routines call back into the          *)
(* scheduler while it runs them: a resumed task may start tasks, settle    *)
(* signals and fail, in any nesting.  The running code is the stack of     *)
(* frames; what the top frame does next is free.  A settlement is drained  *)
(* one notification at a time, and nothing else happens in between.        *)
(*                                                                         *)
(* A task is named by its promise.  An outcome carries the promise that    *)
(* made it, so that adoption and delivery can be told apart.               *)
(***************************************************************************)
EXTENDS Integers, Sequences, FiniteSets

CONSTANTS
    MaxPromises,  \* bound: promises ever made
    MaxDepth,     \* bound: frames on the stack
    Budget        \* max_steps of run_until_idle

ASSUME SchedulerAssumption ==
    /\ MaxPromises \in Nat /\ MaxDepth \in Nat
    /\ Budget \in Nat \ {0}

VARIABLES
    kind,           \* what each promise is: "free" until it is made
    promise,        \* _state and _result, _claimed, _adopting, _listeners
    pending,        \* _pending
    tasks,          \* _tasks
    ready,          \* _ready
    notifications,  \* _notifications
    stack,          \* the frames in execution, innermost last
    mode,           \* who drives: "host", "pump" or "reset"
    steps,          \* resumptions of the current pump, 0 outside of it
    closing,        \* tasks whose generator reset has still to close
    errors,         \* procedure_errors
    awaits,         \* history: the promise each suspended task awaits
    returned,       \* history: the promise each promise was resolved with
    dropped,        \* history: tasks that ended by a host exception
    reported        \* history: procedures whose failure the host took

vars == <<kind, promise, pending, tasks, ready, notifications, stack, mode, steps,
          closing, errors, awaits, returned, dropped, reported>>

Promise == 1 .. MaxPromises
None == 0            \* no promise
Foreign == -1        \* any promise of another scheduler
Kinds == {"free", "signal", "function", "procedure"}

Outcome == [state : {"pending", "fulfilled", "rejected"},
            why : {"none", "own", "foreign", "cyclic", "self", "reset"},
            by : Promise \cup {None}]
Pending == [state |-> "pending", why |-> "none", by |-> None]
Value(p) == [state |-> "fulfilled", why |-> "own", by |-> p]
Error(p, why) == [state |-> "rejected", why |-> why, by |-> p]

(* A listener wakes a task, settles an adopter or records a failure. *)
Listener == [does : {"wake", "adopt", "record"}, for : Promise]
Wake(t) == [does |-> "wake", for |-> t]
Adopt(p) == [does |-> "adopt", for |-> p]
Record(p) == [does |-> "record", for |-> p]

Frame == [kind : {"run", "inline", "close"}, task : Promise \cup {None}]

NewPromise == [outcome |-> Pending, claimed |-> FALSE, adopting |-> None,
               listeners |-> <<>>]

Settled(p) == promise[p].outcome # Pending

-----------------------------------------------------------------------------
(* Settlement. *)

SettleAndKeep(p, outcome, rest) == \* mutant: the listeners are not taken off
    IF Settled(p)
    THEN /\ notifications' = rest
         /\ UNCHANGED <<promise, pending>>
    ELSE /\ promise' = [promise EXCEPT ![p] =
               [outcome |-> outcome, claimed |-> TRUE, adopting |-> None,
                listeners |-> @.listeners]]
         /\ pending' = pending \ {p}
         /\ notifications' = rest \o
               [i \in 1 .. Len(promise[p].listeners) |->
                  [listener |-> promise[p].listeners[i], source |-> p]]

(* _settle: the first outcome stays; the listeners are queued behind rest. *)
Settle(p, outcome, rest) ==
    IF Settled(p)
    THEN /\ notifications' = rest
         /\ UNCHANGED <<promise, pending>>
    ELSE /\ promise' = [promise EXCEPT ![p] =
               [outcome |-> outcome, claimed |-> TRUE, adopting |-> None,
                listeners |-> <<>>]]
         /\ pending' = pending \ {p}
         /\ notifications' = rest \o
               [i \in 1 .. Len(promise[p].listeners) |->
                  [listener |-> promise[p].listeners[i], source |-> p]]

ChainOfOne(q) == {q} \* mutant: only a promise resolved with itself is a cycle

(* The promises that q takes its outcome from, q included: the smallest set  *)
(* that has q and, with a promise, the one it adopts.                        *)
Chain(q) ==
    {p \in Promise : \A walk \in SUBSET Promise :
        (q \in walk /\ \A x \in walk : promise[x].adopting \in walk \cup {None})
            => p \in walk}

AddListener(p, l) ==
    promise' = [promise EXCEPT ![p].listeners = Append(@, l)]

(* resolve with another promise: rejected, settled at once or adopted. *)
AdoptPromise(p, q) ==
    CASE q = Foreign -> Settle(p, Error(p, "foreign"), <<>>)
      [] q # Foreign /\ p \in Chain(q) -> Settle(p, Error(p, "cyclic"), <<>>)
      [] q # Foreign /\ p \notin Chain(q) /\ Settled(q) ->
             Settle(p, promise[q].outcome, <<>>)
      [] OTHER ->
             /\ promise' = [promise EXCEPT
                   ![p].claimed = TRUE,
                   ![p].adopting = q,
                   ![q].listeners = Append(@, Adopt(p))]
             /\ UNCHANGED <<pending, notifications>>

Adopted(p, q) == q \in Promise /\ ~promise[p].claimed /\ p \notin Chain(q)

(* resolve: only the first claim counts; None stands for a plain value. *)
Resolve(p, q) ==
    /\ IF promise[p].claimed THEN UNCHANGED <<promise, pending, notifications>>
       ELSE IF q = None THEN Settle(p, Value(p), <<>>)
       ELSE AdoptPromise(p, q)
    /\ returned' = IF Adopted(p, q) THEN [returned EXCEPT ![p] = q] ELSE returned

Reject(p) ==
    /\ IF promise[p].claimed THEN UNCHANGED <<promise, pending, notifications>>
       ELSE Settle(p, Error(p, "own"), <<>>)
    /\ UNCHANGED returned

-----------------------------------------------------------------------------
(* The drain of _settle. *)

Quiet == notifications = <<>>

Notify ==
    /\ ~Quiet
    /\ LET l == Head(notifications).listener
           outcome == promise[Head(notifications).source].outcome
       IN  \/ /\ l.does = "wake"
              /\ ready' = Append(ready, [task |-> l.for, outcome |-> outcome])
              /\ notifications' = Tail(notifications)
              /\ UNCHANGED <<promise, pending, errors>>
           \/ /\ l.does = "adopt"
              /\ Settle(l.for, outcome, Tail(notifications))
              /\ UNCHANGED <<ready, errors>>
           \/ /\ l.does = "record"
              /\ errors' = IF outcome.state = "rejected" THEN Append(errors, l.for)
                                                         ELSE errors
              /\ notifications' = Tail(notifications)
              /\ UNCHANGED <<promise, pending, ready>>
    /\ UNCHANGED <<kind, tasks, stack, mode, steps, closing, awaits, returned,
                   dropped, reported>>

-----------------------------------------------------------------------------
(* What running code does: the top frame, or the host between two calls. *)

CodeRuns == Quiet /\ (stack = <<>> => mode = "host")
Top == stack[Len(stack)]
Pop == SubSeq(stack, 1, Len(stack) - 1)
Runs(kinds) == Quiet /\ stack # <<>> /\ Top.kind \in kinds

Made == {p \in Promise : kind[p] # "free"}
Free == Promise \ Made
NextFree == CHOOSE p \in Free : \A q \in Free : p <= q

NewPending ==
    /\ CodeRuns /\ Free # {}
    /\ kind' = [kind EXCEPT ![NextFree] = "signal"]
    /\ pending' = pending \cup {NextFree}
    /\ UNCHANGED <<promise, tasks, ready, notifications, stack, mode, steps, closing,
                   errors, awaits, returned, dropped, reported>>

(* The owner of a signal settles it, perhaps again. *)
SettleSignal(p) ==
    /\ CodeRuns /\ kind[p] = "signal"
    /\ Reject(p) \/ \E q \in Made \cup {None, Foreign} : Resolve(p, q)
    /\ UNCHANGED <<kind, tasks, ready, stack, mode, steps, closing, errors, awaits,
                   dropped, reported>>

(* start: the new task runs at once, inside the code that starts it. *)
Start(k) ==
    /\ CodeRuns /\ Free # {} /\ Len(stack) < MaxDepth
    /\ kind' = [kind EXCEPT ![NextFree] = k]
    /\ pending' = pending \cup {NextFree}
    /\ tasks' = tasks \cup {NextFree}
    /\ IF k = "procedure" THEN AddListener(NextFree, Record(NextFree))
                          ELSE UNCHANGED promise
    /\ stack' = Append(stack, [kind |-> "run", task |-> NextFree])
    /\ UNCHANGED <<ready, notifications, mode, steps, closing, errors, awaits,
                   returned, dropped, reported>>

(* The request that a task yields: a promise to wait for, a plain value, or *)
(* a promise it may not wait for.                                           *)
AwaitPending(t, q) ==
    /\ q \in Made \ {t} /\ ~Settled(q)
    /\ AddListener(q, Wake(t))
    /\ UNCHANGED ready

AwaitScalars(t, q) == \* mutant: a settled promise is delivered as a plain value
    /\ q \in {t, None, Foreign} \/ (q \in Made /\ Settled(q))
    /\ ready' = Append(ready,
          [task |-> t,
           outcome |-> IF q = t THEN Error(t, "self")
                       ELSE IF q = Foreign THEN Error(t, "foreign")
                       ELSE Value(t)])
    /\ UNCHANGED promise

AwaitInFront(t, q) == \* mutant: the ready task goes to the head of the queue
    /\ q \in {t, None, Foreign} \/ (q \in Made /\ Settled(q))
    /\ ready' = <<[task |-> t, outcome |-> IF q \in {t, None, Foreign} THEN Value(t)
                                           ELSE promise[q].outcome]>> \o ready
    /\ UNCHANGED promise

AwaitReady(t, q) ==
    /\ q \in {t, None, Foreign} \/ (q \in Made /\ Settled(q))
    /\ ready' = Append(ready,
          [task |-> t,
           outcome |-> IF q = t THEN Error(t, "self")
                       ELSE IF q = Foreign THEN Error(t, "foreign")
                       ELSE IF q = None THEN Value(t)
                       ELSE promise[q].outcome])
    /\ UNCHANGED promise

Await ==
    /\ Runs({"run"})
    /\ \E q \in Made \cup {None, Foreign} :
          /\ AwaitPending(Top.task, q) \/ AwaitReady(Top.task, q)
          /\ awaits' = [awaits EXCEPT ![Top.task] =
                           IF q \in Made \ {Top.task} THEN q ELSE None]
    /\ stack' = Pop
    /\ UNCHANGED <<kind, pending, tasks, notifications, mode, steps, closing, errors,
                   returned, dropped, reported>>

(* The body ends with a result or with a BSL error. *)
Finish ==
    /\ Runs({"run"})
    /\ Reject(Top.task) \/ \E q \in Made \cup {None, Foreign} : Resolve(Top.task, q)
    /\ tasks' = tasks \ {Top.task}
    /\ awaits' = [awaits EXCEPT ![Top.task] = None]
    /\ stack' = Pop
    /\ UNCHANGED <<kind, ready, mode, steps, closing, errors, dropped, reported>>

(* Any other exception, or an unsupported request, leaves _resume as it is: *)
(* the task stays in _tasks, and a pump that resumed it ends.               *)
HostError ==
    /\ Runs({"run"})
    /\ dropped' = dropped \cup {Top.task}
    /\ awaits' = [awaits EXCEPT ![Top.task] = None]
    /\ stack' = Pop
    /\ IF stack' = <<>> /\ mode = "pump" THEN mode' = "host" /\ steps' = 0
                                          ELSE UNCHANGED <<mode, steps>>
    /\ UNCHANGED <<kind, promise, pending, tasks, ready, notifications, closing, errors,
                   returned, reported>>

(* run_inline: a synchronous root, which cannot suspend. *)
Inline ==
    /\ CodeRuns /\ Len(stack) < MaxDepth
    /\ stack' = Append(stack, [kind |-> "inline", task |-> None])
    /\ UNCHANGED <<kind, promise, pending, tasks, ready, notifications, mode, steps,
                   closing, errors, awaits, returned, dropped, reported>>

(* A synchronous root or the finalizer of a closed generator returns. *)
Leave ==
    /\ Runs({"inline", "close"})
    /\ stack' = Pop
    /\ UNCHANGED <<kind, promise, pending, tasks, ready, notifications, mode, steps,
                   closing, errors, awaits, returned, dropped, reported>>

-----------------------------------------------------------------------------
(* The host drives: it pumps, takes failures and resets. *)

Driving(m) == Quiet /\ stack = <<>> /\ mode = m

(* Refused while it pumps or any code runs. *)
Pump ==
    /\ Driving("host")
    /\ mode' = "pump"
    /\ UNCHANGED <<kind, promise, pending, tasks, ready, notifications, stack, steps,
                   closing, errors, awaits, returned, dropped, reported>>

PumpStepBeyond == \* mutant: one resumption more than the budget
    /\ Driving("pump")
    /\ ready # <<>> /\ steps <= Budget
    /\ ready' = Tail(ready)
    /\ steps' = steps + 1
    /\ IF Head(ready).task \in tasks
       THEN /\ stack' = <<[kind |-> "run", task |-> Head(ready).task]>>
            /\ awaits' = [awaits EXCEPT ![Head(ready).task] = None]
       ELSE UNCHANGED <<stack, awaits>>
    /\ UNCHANGED <<kind, promise, pending, tasks, notifications, mode, closing, errors,
                   returned, dropped, reported>>

PumpStep ==
    /\ Driving("pump")
    /\ ready # <<>> /\ steps < Budget
    /\ ready' = Tail(ready)
    /\ steps' = steps + 1
    /\ IF Head(ready).task \in tasks
       THEN /\ stack' = <<[kind |-> "run", task |-> Head(ready).task]>>
            /\ awaits' = [awaits EXCEPT ![Head(ready).task] = None]
       ELSE UNCHANGED <<stack, awaits>>
    /\ UNCHANGED <<kind, promise, pending, tasks, notifications, mode, closing, errors,
                   returned, dropped, reported>>

(* Idle, or out of budget with the queue kept. *)
PumpEnds ==
    /\ Driving("pump")
    /\ ready = <<>> \/ steps = Budget
    /\ mode' = "host" /\ steps' = 0
    /\ UNCHANGED <<kind, promise, pending, tasks, ready, notifications, stack, closing,
                   errors, awaits, returned, dropped, reported>>

TakeErrorsAgain == \* mutant: the batch is read but not consumed
    /\ Driving("host") /\ errors # <<>>
    /\ reported' = reported \cup {errors[i] : i \in 1 .. Len(errors)}
    /\ UNCHANGED <<kind, promise, pending, tasks, ready, notifications, stack, mode,
                   steps, closing, errors, awaits, returned, dropped>>

TakeErrors ==
    /\ Driving("host") /\ errors # <<>>
    /\ errors' = <<>>
    /\ reported' = reported \cup {errors[i] : i \in 1 .. Len(errors)}
    /\ UNCHANGED <<kind, promise, pending, tasks, ready, notifications, stack, mode,
                   steps, closing, awaits, returned, dropped>>

Reset ==
    /\ Driving("host")
    /\ mode' = "reset" /\ closing' = tasks
    /\ UNCHANGED <<kind, promise, pending, tasks, ready, notifications, stack, steps,
                   errors, awaits, returned, dropped, reported>>

(* generator.close() runs the task's finalizers, which may call anything. *)
CloseTask(t) ==
    /\ Driving("reset") /\ t \in closing
    /\ closing' = closing \ {t}
    /\ stack' = <<[kind |-> "close", task |-> t]>>
    /\ UNCHANGED <<kind, promise, pending, tasks, ready, notifications, mode, steps,
                   errors, awaits, returned, dropped, reported>>

Cancelled(p) ==
    [outcome |-> Error(p, "reset"), claimed |-> TRUE, adopting |-> None,
     listeners |-> <<>>]

ResetEverything == \* mutant: the settled promises are rejected as well
    /\ Driving("reset") /\ closing = {}
    /\ tasks' = {} /\ ready' = <<>> /\ notifications' = <<>>
    /\ promise' = [p \in Promise |-> IF p \in Made THEN Cancelled(p) ELSE promise[p]]
    /\ pending' = {}
    /\ errors' = <<>>
    /\ reported' = reported \cup {errors[i] : i \in 1 .. Len(errors)}
    /\ awaits' = [t \in Promise |-> None]
    /\ mode' = "host"
    /\ UNCHANGED <<kind, stack, steps, closing, returned, dropped>>

ResetEnds ==
    /\ Driving("reset") /\ closing = {}
    /\ tasks' = {} /\ ready' = <<>> /\ notifications' = <<>>
    /\ promise' = [p \in Promise |-> IF p \in pending THEN Cancelled(p) ELSE promise[p]]
    /\ pending' = {}
    /\ errors' = <<>>
    /\ reported' = reported \cup {errors[i] : i \in 1 .. Len(errors)}
    /\ awaits' = [t \in Promise |-> None]
    /\ mode' = "host"
    /\ UNCHANGED <<kind, stack, steps, closing, returned, dropped>>

-----------------------------------------------------------------------------
Init ==
    /\ kind = [p \in Promise |-> "free"]
    /\ promise = [p \in Promise |-> NewPromise]
    /\ pending = {} /\ tasks = {}
    /\ ready = <<>> /\ notifications = <<>> /\ stack = <<>>
    /\ mode = "host" /\ steps = 0 /\ closing = {} /\ errors = <<>>
    /\ awaits = [t \in Promise |-> None]
    /\ returned = [p \in Promise |-> None]
    /\ dropped = {} /\ reported = {}

FrameEnds == Await \/ Finish \/ HostError \/ Leave
PumpGoesOn == PumpStep \/ PumpEnds
ResetGoesOn == ResetEnds \/ \E t \in Promise : CloseTask(t)

Next ==
    \/ Notify
    \/ NewPending
    \/ \E p \in Promise : SettleSignal(p)
    \/ \E k \in {"function", "procedure"} : Start(k)
    \/ FrameEnds
    \/ Inline
    \/ Pump \/ PumpGoesOn
    \/ TakeErrors
    \/ Reset \/ ResetGoesOn

Spec == Init /\ [][Next]_vars

(* Loops run on, every piece of code reaches its end or an await whatever   *)
(* it calls before (the budget does not preempt code that never does), and  *)
(* the host pumps again and again (the outer boundary of execute).          *)
Fairness ==
    /\ WF_vars(Notify)
    /\ \A d \in 1 .. MaxDepth : SF_vars(Len(stack) = d /\ FrameEnds)
    /\ SF_vars(Pump)
    /\ WF_vars(PumpGoesOn)
    /\ WF_vars(ResetGoesOn)

FairSpec == Spec /\ Fairness

-----------------------------------------------------------------------------
(* Type correctness of the promises, the queues and the frames. *)
TypeOK ==
    /\ kind \in [Promise -> Kinds]
    /\ \A p \in Promise :
          /\ promise[p].outcome \in Outcome
          /\ promise[p].claimed \in BOOLEAN
          /\ promise[p].adopting \in Promise \cup {None}
          /\ \A i \in 1 .. Len(promise[p].listeners) : promise[p].listeners[i] \in Listener
    /\ pending \subseteq Promise /\ tasks \subseteq Promise /\ closing \subseteq Promise
    /\ \A i \in 1 .. Len(ready) : ready[i] \in [task : Promise, outcome : Outcome]
    /\ \A i \in 1 .. Len(notifications) :
          notifications[i] \in [listener : Listener, source : Promise]
    /\ \A i \in 1 .. Len(stack) : stack[i] \in Frame
    /\ mode \in {"host", "pump", "reset"} /\ steps \in 0 .. Budget
    /\ \A i \in 1 .. Len(errors) : errors[i] \in Promise
    /\ awaits \in [Promise -> Promise \cup {None}]
    /\ returned \in [Promise -> Promise \cup {None}]
    /\ dropped \subseteq Promise /\ reported \subseteq Promise

(* The places where a listener waits to be called. *)
Waiting(l) ==
    UNION {{p} \X {i \in 1 .. Len(promise[p].listeners) : promise[p].listeners[i] = l} :
           p \in Promise}
Queued(l) == {i \in 1 .. Len(notifications) : notifications[i].listener = l}
Calls(l) == Cardinality(Waiting(l)) + Cardinality(Queued(l))

InReady(t) == {i \in 1 .. Len(ready) : ready[i].task = t}
Running(t) == \E i \in 1 .. Len(stack) : stack[i] = [kind |-> "run", task |-> t]

(* A suspended task has exactly one wakeup ahead of it: one place in the    *)
(* queue or one listener.  Running, finished and discarded tasks have none. *)
(* So no wakeup is lost, and no await is answered twice, in whatever order   *)
(* tasks, signals and resets interleave (_resume, _settle, reset).          *)
OneWakeup ==
    \A t \in Promise :
        Calls(Wake(t)) + Cardinality(InReady(t)) =
            IF t \in tasks /\ ~Running(t) /\ t \notin dropped THEN 1 ELSE 0

(* What is delivered to a task is the outcome of the promise it awaited. *)
DeliversWhatWasAwaited ==
    \A i \in 1 .. Len(ready) :
        awaits[ready[i].task] # None =>
            ready[i].outcome = promise[awaits[ready[i].task]].outcome

(* A promise that adopted another one waits for it with exactly one         *)
(* listener, never in a circle, and a claimed promise that is still pending *)
(* has such a source: no claim ends in a promise that nobody will settle.   *)
AdoptionCompletes ==
    /\ \A circle \in (SUBSET Promise) \ {{}} :
          \E p \in circle : promise[p].adopting \notin circle
    /\ \A p \in Promise :
        /\ Calls(Adopt(p)) = IF promise[p].adopting # None THEN 1 ELSE 0
        /\ promise[p].claimed /\ ~Settled(p) <=> promise[p].adopting # None

(* A promise resolved with another one ends with that one's outcome; a reset *)
(* that cancels the one has cancelled the other.                             *)
AdoptedOutcome ==
    \A p \in Promise : returned[p] # None /\ Settled(p) =>
        LET source == promise[returned[p]].outcome IN
        promise[p].outcome = source
        \/ (promise[p].outcome.why = "reset" /\ source.why = "reset")

(* Nobody gets an outcome that is not the one of the promise it waits for.  *)
OutcomesArrive == DeliversWhatWasAwaited /\ AdoptedOutcome

(* pending_promises is what is not settled, so ensure_complete does not     *)
(* call blocked work complete; settled promises keep no listener alive.     *)
PendingIsExact ==
    /\ pending = {p \in Made : ~Settled(p)}
    /\ \A p \in Promise : Settled(p) => promise[p].listeners = <<>>
    /\ \A t \in tasks : t \in pending

(* Whoever waits, waits for something that is still to come and is counted. *)
PromisesWaitSoundly == AdoptionCompletes /\ PendingIsExact

(* The failure of a procedure is in exactly one batch of procedure_errors,  *)
(* even when it comes through a chain of adoptions; only a reset cancels it *)
(* (_record_procedure_error, take_procedure_error).                         *)
FailuresReportedOnce ==
    \A p \in Promise :
        kind[p] = "procedure" /\ promise[p].outcome.state = "rejected"
        /\ promise[p].outcome.why # "reset" =>
            Cardinality(Queued(Record(p)))
            + Cardinality({i \in 1 .. Len(errors) : errors[i] = p})
            + (IF p \in reported THEN 1 ELSE 0) = 1

(* An outcome is final: later claims, resets and repeated signals leave it. *)
OutcomesAreFinal ==
    [][\A p \in Promise : Settled(p) => promise'[p].outcome = promise[p].outcome]_vars

(* A task whose await has been answered runs again or is discarded. *)
Answered(t) == InReady(t) # {}
AnsweredTasksRun == \A t \in Promise : Answered(t) ~> ~Answered(t)
=============================================================================
