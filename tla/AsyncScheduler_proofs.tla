------------------------- MODULE AsyncScheduler_proofs -------------------------
(***************************************************************************)
(* Proofs about AsyncScheduler, for any number of promises, any depth of   *)
(* the stack and any budget.                                               *)
(*                                                                         *)
(* The argument follows the listeners.  A listener stays with the promise  *)
(* it waits for (its Home) until that promise is settled, is then in the   *)
(* queue of notifications, and is called once.  Wakeups, adoptions and     *)
(* recorded failures are the three uses of this one fact.                  *)
(***************************************************************************)
EXTENDS AsyncScheduler, SequenceTheorems, FiniteSetTheorems, WellFoundedInduction, TLAPS

PromiseRecord == [outcome : Outcome, claimed : BOOLEAN, adopting : Promise \cup {None},
                  listeners : Seq(Listener)]
ReadyRecord == [task : Promise, outcome : Outcome]
Notification == [listener : Listener, source : Promise]

SchedulerTyped ==
    /\ kind \in [Promise -> Kinds]
    /\ promise \in [Promise -> PromiseRecord]
    /\ pending \subseteq Promise /\ tasks \subseteq Promise /\ closing \subseteq Promise
    /\ ready \in Seq(ReadyRecord)
    /\ notifications \in Seq(Notification)
    /\ stack \in Seq(Frame)
    /\ mode \in {"host", "pump", "reset"} /\ steps \in 0 .. Budget
    /\ errors \in Seq(Promise)
    /\ awaits \in [Promise -> Promise \cup {None}]
    /\ returned \in [Promise -> Promise \cup {None}]
    /\ dropped \subseteq Promise /\ reported \subseteq Promise

(* A promise before it is made, while it is claimed, and once it is settled. *)
PromisesInv ==
    /\ \A p \in Promise : kind[p] = "free" =>
          promise[p] = NewPromise /\ p \notin dropped
    /\ \A p \in Promise : Settled(p) =>
          promise[p].claimed /\ promise[p].adopting = None /\ promise[p].listeners = <<>>
    /\ \A p \in Promise : ~Settled(p) =>
          (promise[p].claimed <=> promise[p].adopting # None)
    /\ pending = {p \in Made : ~Settled(p)}

(* Tasks are promises that their body has still to settle; a frame that runs *)
(* a task is the only one that does.                                        *)
TasksInv ==
    /\ \A t \in tasks : kind[t] \in {"function", "procedure"} /\ ~promise[t].claimed
    /\ \A t \in Promise : Running(t) => t \in tasks /\ t \notin dropped
    /\ \A i, j \in 1 .. Len(stack) :
          stack[i].kind = "run" /\ stack[j].kind = "run"
          /\ stack[i].task = stack[j].task => i = j
    /\ \A i \in 1 .. Len(stack) : stack[i].kind = "run" => stack[i].task \in Promise

(* The promise that a listener waits for. *)
Home(l) ==
    CASE l.does = "wake" -> awaits[l.for]
      [] l.does = "adopt" -> promise[l.for].adopting
      [] l.does = "record" -> l.for

Once(s) == \A i, j \in 1 .. Len(s) : s[i] = s[j] => i = j
Attached(l, p) == \E i \in 1 .. Len(promise[p].listeners) : promise[p].listeners[i] = l
CalledIn(l, queue) == \E i \in 1 .. Len(queue) : queue[i].listener = l
Called(l) == CalledIn(l, notifications)

(* A queue of notifications: each from the promise its listener waited for. *)
Sound(queue) ==
    /\ \A i \in 1 .. Len(queue) :
          /\ queue[i].source = Home(queue[i].listener)
          /\ Settled(queue[i].source)
    /\ \A i, j \in 1 .. Len(queue) : queue[i].listener = queue[j].listener => i = j

(* A listener is with the promise it waits for, once, until that promise is *)
(* settled; from then on it is in the queue, once, until it is called.      *)
ListenersInv ==
    /\ \A p \in Promise : Once(promise[p].listeners)
    /\ \A p \in Promise, l \in Listener : Attached(l, p) => Home(l) = p
    /\ Sound(notifications)

(* What waits has its listener. *)
Waits(l) ==
    /\ Home(l) \in Promise
    /\ IF Settled(Home(l)) THEN Called(l) ELSE Attached(l, Home(l))

AdoptersInv == \A p \in Promise : promise[p].adopting # None => Waits(Adopt(p))

Suspended(t) == t \in tasks /\ ~Running(t) /\ t \notin dropped
IsReady(t) == \E i \in 1 .. Len(ready) : ready[i].task = t

(* A suspended task is ready or waits, and only a suspended task is or does. *)
WakeupsInv ==
    /\ \A t \in Promise : Suspended(t) => IsReady(t) \/ Waits(Wake(t))
    /\ \A i \in 1 .. Len(ready) : Suspended(ready[i].task)
    /\ \A i, j \in 1 .. Len(ready) : ready[i].task = ready[j].task => i = j
    /\ \A t \in Promise, p \in Promise :
          Attached(Wake(t), p) \/ Called(Wake(t)) => Suspended(t) /\ ~IsReady(t)

(* A ready task carries the outcome it awaited, and an adopter takes, or has *)
(* taken, the outcome of the promise it was resolved with.                  *)
DeliveryInv ==
    /\ \A i \in 1 .. Len(ready) : awaits[ready[i].task] # None =>
          /\ Settled(awaits[ready[i].task])
          /\ ready[i].outcome = promise[awaits[ready[i].task]].outcome
    /\ \A p \in Promise : returned[p] # None =>
          /\ promise[p].claimed
          /\ ~Settled(p) => promise[p].adopting = returned[p]
    /\ AdoptedOutcome

NoCircle ==
    \A circle \in (SUBSET Promise) \ {{}} : \E p \in circle : promise[p].adopting \notin circle

Kept(p) == \E i \in 1 .. Len(errors) : errors[i] = p
Failed(p) == promise[p].outcome.state = "rejected" /\ promise[p].outcome.why # "reset"

(* A failure is recorded, kept and reported one after the other. *)
FailuresInv ==
    /\ \A p \in Promise : kind[p] = "procedure" /\ ~Settled(p) => Attached(Record(p), p)
    /\ \A p \in Promise : kind[p] = "procedure" /\ Settled(p) /\ Failed(p) =>
          Called(Record(p)) \/ Kept(p) \/ p \in reported
    /\ \A p \in Promise : Kept(p) \/ p \in reported => Settled(p) /\ ~Called(Record(p))
    /\ \A p \in Promise : Kept(p) => p \notin reported
    /\ Once(errors)

SchedulerInv ==
    /\ SchedulerTyped /\ PromisesInv /\ TasksInv /\ ListenersInv /\ AdoptersInv
    /\ WakeupsInv /\ DeliveryInv /\ NoCircle /\ FailuresInv

-----------------------------------------------------------------------------
(* Listeners and queues. *)

USE DEF None, Foreign

(* Promises are numbers, none of which is None or Foreign. *)
LEMMA PromisesAreNamed ==
    /\ None \notin Promise /\ Foreign \notin Promise
    /\ \A p \in Promise : p \in Nat
BY SchedulerAssumption DEF Promise

(* A listener is one of the three kinds, for one promise. *)
LEMMA ListenerForms ==
    /\ \A l \in Listener : /\ l.for \in Promise
                           /\ l = Wake(l.for) \/ l = Adopt(l.for) \/ l = Record(l.for)
    /\ \A p \in Promise : /\ Wake(p) \in Listener /\ Adopt(p) \in Listener
                          /\ Record(p) \in Listener
    /\ \A p, q : /\ Wake(p) # Adopt(q) /\ Wake(p) # Record(q) /\ Adopt(p) # Record(q)
                 /\ Wake(p) = Wake(q) => p = q
                 /\ Adopt(p) = Adopt(q) => p = q
                 /\ Record(p) = Record(q) => p = q
    /\ \A p : /\ Wake(p).for = p /\ Adopt(p).for = p /\ Record(p).for = p
              /\ Wake(p).does = "wake" /\ Adopt(p).does = "adopt"
              /\ Record(p).does = "record"
BY DEF Listener, Wake, Adopt, Record

(* Where a listener of each kind waits. *)
LEMMA Homes ==
    \A p : /\ Home(Wake(p)) = awaits[p] /\ Home(Adopt(p)) = promise[p].adopting
           /\ Home(Record(p)) = p
           /\ Home(Wake(p))' = awaits'[p] /\ Home(Adopt(p))' = promise'[p].adopting
           /\ Home(Record(p))' = p
BY DEF Home, Wake, Adopt, Record

(* A listener that waits anywhere, and the ones that wait nowhere: an         *)
(* adoption that is not under way, a failure of a promise not yet made.      *)
Placed(l) == Called(l) \/ \E p \in Promise : Attached(l, p)

(* The fields of a promise have their types. *)
LEMMA PromiseFields ==
    ASSUME SchedulerTyped, NEW p \in Promise
    PROVE  /\ promise[p] \in PromiseRecord
           /\ promise[p].outcome \in Outcome /\ promise[p].claimed \in BOOLEAN
           /\ promise[p].adopting \in Promise \cup {None}
           /\ promise[p].listeners \in Seq(Listener)
           /\ Len(promise[p].listeners) \in Nat
           /\ \A i \in 1 .. Len(promise[p].listeners) : promise[p].listeners[i] \in Listener
<1>1. promise[p] \in PromiseRecord
  BY DEF SchedulerTyped
<1>2. promise[p].listeners \in Seq(Listener)
  BY <1>1 DEF PromiseRecord
<1> QED
  BY <1>1, <1>2, LenProperties, ElementOfSeq DEF PromiseRecord

(* The elements of the queue have their types. *)
LEMMA QueueFields ==
    ASSUME NEW queue \in Seq(Notification)
    PROVE  /\ Len(queue) \in Nat
           /\ \A i \in 1 .. Len(queue) : /\ queue[i] \in Notification
                                         /\ queue[i].listener \in Listener
                                         /\ queue[i].source \in Promise
<1>1. \A i \in 1 .. Len(queue) : queue[i] \in Notification
  BY ElementOfSeq
<1> QED
  BY <1>1, LenProperties DEF Notification

(* What waits nowhere at the moment. *)
LEMMA NowherePlaced ==
    ASSUME SchedulerTyped, ListenersInv, NEW l \in Listener, Home(l) \notin Promise
    PROVE  ~Placed(l)
<1>1. ~Called(l)
  BY QueueFields DEF ListenersInv, Sound, Called, CalledIn, SchedulerTyped
<1>2. \A p \in Promise : ~Attached(l, p)
  BY DEF ListenersInv
<1> QED
  BY <1>1, <1>2 DEF Placed

(* The rest of a sound queue is sound, without the listener of its head. *)
LEMMA RestIsSound ==
    ASSUME SchedulerTyped, ListenersInv, ~Quiet
    PROVE  /\ Tail(notifications) \in Seq(Notification)
           /\ Sound(Tail(notifications))
           /\ Head(notifications) \in Notification
           /\ Head(notifications).source = Home(Head(notifications).listener)
           /\ Settled(Head(notifications).source)
           /\ Called(Head(notifications).listener)
           /\ \A l : CalledIn(l, Tail(notifications)) <=>
                        Called(l) /\ l # Head(notifications).listener
<1> DEFINE q == notifications
<1>1. q \in Seq(Notification) /\ q # <<>>
  BY DEF SchedulerTyped, Quiet
<1>2. /\ Tail(q) \in Seq(Notification) /\ Len(Tail(q)) = Len(q) - 1
      /\ \A i \in 1 .. Len(Tail(q)) : Tail(q)[i] = q[i + 1]
      /\ Head(q) = q[1] /\ Head(q) \in Notification /\ Len(q) \in Nat /\ Len(q) > 0
  <2>1. Len(q) \in Nat /\ Len(q) > 0
    BY <1>1, EmptySeq, LenProperties
  <2> QED
    BY <1>1, <2>1, HeadTailProperties, ElementOfSeq
<1>3. Sound(q)
  BY DEF ListenersInv
<1> HIDE DEF q
<1>4. Sound(Tail(q))
  BY <1>2, <1>3 DEF Sound
<1>5. \A i \in 1 .. Len(q) : i = 1 \/ (i - 1 \in 1 .. Len(Tail(q)) /\ Tail(q)[i - 1] = q[i])
  <2> TAKE i \in 1 .. Len(q)
  <2>1. CASE i = 1
    BY <2>1
  <2>2. CASE i # 1
    <3>1. i - 1 \in 1 .. Len(Tail(q)) /\ (i - 1) + 1 = i
      BY <2>2, <1>2
    <3> QED
      BY <3>1, <1>2
  <2> QED
    BY <2>1, <2>2
<1>6. \A l : CalledIn(l, Tail(q)) <=> CalledIn(l, q) /\ l # Head(q).listener
  <2> TAKE l
  <2>1. ASSUME NEW i \in 1 .. Len(Tail(q)), Tail(q)[i].listener = l
        PROVE  CalledIn(l, q) /\ l # Head(q).listener
    <3>1. i + 1 \in 1 .. Len(q) /\ 1 \in 1 .. Len(q) /\ i + 1 # 1 /\ q[i + 1].listener = l
      BY <1>2, <2>1
    <3> QED
      BY <3>1, <1>2, <1>3 DEF Sound, CalledIn
  <2>2. ASSUME NEW i \in 1 .. Len(q), q[i].listener = l, l # Head(q).listener
        PROVE  CalledIn(l, Tail(q))
    BY <1>2, <1>5, <2>2 DEF CalledIn
  <2> QED
    BY <2>1, <2>2 DEF CalledIn
<1>7. 1 \in 1 .. Len(q)
  BY <1>2
<1>8. Head(q).source = Home(Head(q).listener) /\ Settled(Head(q).source)
      /\ CalledIn(Head(q).listener, q)
  BY <1>2, <1>3, <1>7 DEF Sound, CalledIn
<1> QED
  BY <1>2, <1>4, <1>6, <1>8 DEF q, Called

-----------------------------------------------------------------------------
(* Settlement. *)

(* What a settlement that takes place changes. *)
SettleMoved(p, outcome, rest) ==
    /\ promise' \in [Promise -> PromiseRecord]
    /\ \A q \in Promise : q # p => promise'[q] = promise[q]
    /\ promise'[p].outcome = outcome /\ promise'[p].claimed = TRUE
    /\ promise'[p].adopting = None /\ promise'[p].listeners = <<>>
    /\ pending' = pending \ {p}
    /\ notifications' \in Seq(Notification)
    /\ Len(notifications') = Len(rest) + Len(promise[p].listeners)
    /\ \A i \in 1 .. Len(rest) : notifications'[i] = rest[i]
    /\ \A j \in 1 .. Len(promise[p].listeners) :
          notifications'[Len(rest) + j] =
              [listener |-> promise[p].listeners[j], source |-> p]

(* It changes just that. *)
LEMMA SettleMoves ==
    ASSUME SchedulerTyped, NEW p \in Promise, ~Settled(p), NEW outcome \in Outcome,
           NEW rest \in Seq(Notification), Settle(p, outcome, rest)
    PROVE  SettleMoved(p, outcome, rest)
<1> DEFINE ls == promise[p].listeners
           new == [outcome |-> outcome, claimed |-> TRUE, adopting |-> None,
                   listeners |-> <<>>]
           tail == [i \in 1 .. Len(ls) |-> [listener |-> ls[i], source |-> p]]
<1>1. /\ promise' = [promise EXCEPT ![p] = new]
      /\ pending' = pending \ {p}
      /\ notifications' = rest \o tail
  BY DEF Settle
<1>2. new \in PromiseRecord
  BY EmptySeq DEF PromiseRecord
<1>3. /\ promise' \in [Promise -> PromiseRecord] /\ promise'[p] = new
      /\ \A q \in Promise : q # p => promise'[q] = promise[q]
  <2>1. promise \in [Promise -> PromiseRecord]
    BY DEF SchedulerTyped
  <2> QED
    BY <1>1, <1>2, <2>1
<1>4. Len(ls) \in Nat /\ \A i \in 1 .. Len(ls) : ls[i] \in Listener
  BY PromiseFields
<1> HIDE DEF ls
<1>5. tail \in Seq(Notification) /\ Len(tail) = Len(ls)
      /\ \A j \in 1 .. Len(ls) : tail[j] = [listener |-> ls[j], source |-> p]
  <2>1. \A i \in 1 .. Len(ls) : [listener |-> ls[i], source |-> p] \in Notification
    BY <1>4 DEF Notification
  <2>2. tail \in [1 .. Len(ls) -> Notification]
    BY <2>1
  <2>3. tail \in Seq(Notification)
    BY <2>2, <1>4
  <2>4. Len(tail) \in Nat /\ DOMAIN tail = 1 .. Len(tail) /\ DOMAIN tail = 1 .. Len(ls)
    BY <2>3, LenProperties
  <2> QED
    BY <2>3, <2>4, <1>4
<1> HIDE DEF tail
<1>6. Len(rest) \in Nat
  BY LenProperties
<1>7. /\ notifications' \in Seq(Notification)
      /\ Len(notifications') = Len(rest) + Len(tail)
      /\ \A i \in 1 .. Len(rest) + Len(tail) :
            notifications'[i] = IF i <= Len(rest) THEN rest[i] ELSE tail[i - Len(rest)]
  <2>1. /\ rest \o tail \in Seq(Notification)
        /\ Len(rest \o tail) = Len(rest) + Len(tail)
        /\ \A i \in 1 .. Len(rest) + Len(tail) :
              (rest \o tail)[i] = IF i <= Len(rest) THEN rest[i] ELSE tail[i - Len(rest)]
    <3>1. rest \in Seq(Notification) /\ tail \in Seq(Notification)
      BY <1>5
    <3> QED
      BY <3>1, ConcatProperties, Zenon
  <2> QED
    BY <2>1, <1>1
<1>8. \A i \in 1 .. Len(rest) : notifications'[i] = rest[i]
  BY <1>4, <1>5, <1>6, <1>7
<1>9. \A j \in 1 .. Len(ls) :
         notifications'[Len(rest) + j] = [listener |-> ls[j], source |-> p]
  <2> TAKE j \in 1 .. Len(ls)
  <2>1. /\ Len(rest) + j \in 1 .. Len(rest) + Len(tail)
        /\ ~(Len(rest) + j <= Len(rest)) /\ (Len(rest) + j) - Len(rest) = j
    BY <1>4, <1>5, <1>6
  <2> QED
    BY <2>1, <1>5, <1>7
<1> QED
  BY <1>1, <1>3, <1>5, <1>7, <1>8, <1>9 DEF ls, SettleMoved

(* The first outcome of a promise takes its listeners off and queues them   *)
(* behind the rest, each once.                                              *)
LEMMA SettleQueues ==
    ASSUME SchedulerTyped, PromisesInv, ListenersInv,
           NEW p \in Promise, ~Settled(p), NEW outcome \in Outcome, outcome # Pending,
           NEW rest \in Seq(Notification), Sound(rest),
           ~CalledIn(Adopt(p), rest), \A q \in Promise : ~Attached(Adopt(p), q),
           Settle(p, outcome, rest)
    PROVE  /\ \A q \in Promise : Settled(q)' <=> Settled(q) \/ q = p
           /\ \A q \in Promise, l \in Listener : Attached(l, q)' <=> Attached(l, q) /\ q # p
           /\ \A l \in Listener : Called(l)' <=> CalledIn(l, rest) \/ Attached(l, p)
           /\ \A l \in Listener : CalledIn(l, rest) => ~Attached(l, p)
<1> DEFINE ls == promise[p].listeners
<1>1. /\ \A q \in Promise : q # p => promise'[q] = promise[q]
      /\ promise'[p].outcome = outcome /\ promise'[p].listeners = <<>>
      /\ notifications' \in Seq(Notification)
      /\ Len(notifications') = Len(rest) + Len(ls)
      /\ \A i \in 1 .. Len(rest) : notifications'[i] = rest[i]
      /\ \A j \in 1 .. Len(ls) :
            notifications'[Len(rest) + j] = [listener |-> ls[j], source |-> p]
  <2>1. SettleMoved(p, outcome, rest)
    BY SettleMoves
  <2> QED
    BY <2>1 DEF SettleMoved
<1>2. Len(ls) \in Nat /\ \A j \in 1 .. Len(ls) : ls[j] \in Listener
  BY PromiseFields
<1>3. Len(rest) \in Nat
  BY LenProperties
<1>4. \A q \in Promise : Settled(q)' <=> Settled(q) \/ q = p
  BY <1>1 DEF Settled
<1>5. \A q \in Promise, l \in Listener : Attached(l, q)' <=> Attached(l, q) /\ q # p
  <2>1. 1 .. Len(<<>>) = {}
    BY EmptySeq
  <2> QED
    BY <1>1, <2>1 DEF Attached
<1>6. \A i \in 1 .. Len(notifications') :
         \/ i \in 1 .. Len(rest)
         \/ i > Len(rest) /\ i - Len(rest) \in 1 .. Len(ls) /\ Len(rest) + (i - Len(rest)) = i
  BY <1>1, <1>2, <1>3
<1>7. \A l \in Listener : Called(l)' <=> CalledIn(l, rest) \/ Attached(l, p)
  <2> TAKE l \in Listener
  <2>1. ASSUME NEW i \in 1 .. Len(notifications'), notifications'[i].listener = l
        PROVE  CalledIn(l, rest) \/ Attached(l, p)
    <3>1. CASE i \in 1 .. Len(rest)
      BY <3>1, <2>1, <1>1 DEF CalledIn
    <3>2. CASE i - Len(rest) \in 1 .. Len(ls) /\ Len(rest) + (i - Len(rest)) = i
      <4>1. PICK j \in 1 .. Len(ls) : j = i - Len(rest)
        BY <3>2
      <4>2. notifications'[i] = [listener |-> ls[j], source |-> p]
        BY <4>1, <3>2, <1>1
      <4> QED
        BY <4>2, <2>1 DEF Attached
    <3> QED
      BY <3>1, <3>2, <1>6
  <2>2. ASSUME NEW i \in 1 .. Len(rest), rest[i].listener = l
        PROVE  Called(l)'
    BY <2>2, <1>1, <1>2, <1>3 DEF Called, CalledIn
  <2>3. ASSUME NEW j \in 1 .. Len(ls), ls[j] = l
        PROVE  Called(l)'
    <3>3. notifications'[Len(rest) + j] = [listener |-> ls[j], source |-> p]
      BY <1>1
    <3>1. notifications'[Len(rest) + j].listener = l
      BY <2>3, <3>3
    <3>2. Len(rest) + j \in 1 .. Len(notifications')
      BY <1>1, <1>2, <1>3
    <3> QED
      BY <3>1, <3>2 DEF Called, CalledIn
  <2> QED
    BY <2>1, <2>2, <2>3 DEF Called, CalledIn, Attached
<1>8. \A l \in Listener : CalledIn(l, rest) => ~Attached(l, p)
  BY DEF CalledIn, Sound, ListenersInv
<1> QED
  BY <1>4, <1>5, <1>7, <1>8

(* The queue stays sound, whatever becomes of awaits that nothing answers.  *)
LEMMA SettleKeepsListeners ==
    ASSUME SchedulerTyped, PromisesInv, ListenersInv,
           NEW p \in Promise, ~Settled(p), NEW outcome \in Outcome, outcome # Pending,
           NEW rest \in Seq(Notification), Sound(rest),
           \A l : CalledIn(l, rest) => Called(l),
           ~CalledIn(Adopt(p), rest), \A q \in Promise : ~Attached(Adopt(p), q),
           \A t \in Promise : awaits'[t] = awaits[t] \/ ~Placed(Wake(t)),
           Settle(p, outcome, rest)
    PROVE  /\ ListenersInv'
           /\ \A l \in Listener : (l # Adopt(p) /\ Home(l)' = Home(l) /\ Waits(l)
                                   /\ (Called(l) => CalledIn(l, rest))) => Waits(l)'
<1> DEFINE ls == promise[p].listeners
<1>1. /\ \A q \in Promise : q # p => promise'[q] = promise[q]
      /\ promise'[p].listeners = <<>> /\ promise'[p].adopting = None
      /\ notifications' \in Seq(Notification)
      /\ Len(notifications') = Len(rest) + Len(ls)
      /\ \A i \in 1 .. Len(rest) : notifications'[i] = rest[i]
      /\ \A j \in 1 .. Len(ls) :
            notifications'[Len(rest) + j] = [listener |-> ls[j], source |-> p]
  <2>1. SettleMoved(p, outcome, rest)
    BY SettleMoves
  <2> QED
    BY <2>1 DEF SettleMoved
<1>2. /\ \A q \in Promise : Settled(q)' <=> Settled(q) \/ q = p
      /\ \A q \in Promise, l \in Listener : Attached(l, q)' <=> Attached(l, q) /\ q # p
      /\ \A l \in Listener : Called(l)' <=> CalledIn(l, rest) \/ Attached(l, p)
      /\ \A l \in Listener : CalledIn(l, rest) => ~Attached(l, p)
  BY SettleQueues
<1>3. Len(ls) \in Nat /\ \A j \in 1 .. Len(ls) : ls[j] \in Listener
  BY PromiseFields
<1>4. Len(rest) \in Nat /\ \A i \in 1 .. Len(rest) : rest[i].listener \in Listener
                                                   /\ rest[i].source \in Promise
  BY QueueFields
<1>5. \A l \in Listener : Placed(l) /\ l # Adopt(p) => Home(l)' = Home(l)
  <2> TAKE l \in Listener
  <2>1. CASE l = Wake(l.for)
    BY <2>1, ListenerForms, Homes
  <2>2. CASE l = Record(l.for)
    BY <2>2, ListenerForms, Homes
  <2>3. CASE l = Adopt(l.for) /\ l # Adopt(p)
    BY <2>3, <1>1, ListenerForms, Homes
  <2> QED
    BY <2>1, <2>2, <2>3, ListenerForms
<1>6. \A q \in Promise : Once(promise'[q].listeners)
  <2>1. 1 .. Len(<<>>) = {}
    BY EmptySeq
  <2>2. Once(<<>>)
    BY <2>1 DEF Once
  <2> QED
    BY <1>1, <2>2 DEF ListenersInv
<1>7. \A q \in Promise, l \in Listener : Attached(l, q)' => Home(l)' = q
  BY <1>2, <1>5 DEF Placed, ListenersInv
<1>8. \A i \in 1 .. Len(notifications') :
         \/ i \in 1 .. Len(rest)
         \/ i > Len(rest) /\ i - Len(rest) \in 1 .. Len(ls) /\ Len(rest) + (i - Len(rest)) = i
  BY <1>1, <1>3, <1>4
<1>9. ASSUME NEW i \in 1 .. Len(notifications')
      PROVE  (notifications[i].source = Home(notifications[i].listener)
              /\ Settled(notifications[i].source))'
  <2>1. CASE i \in 1 .. Len(rest)
    <3>1. notifications'[i] = rest[i] /\ CalledIn(rest[i].listener, rest)
      BY <2>1, <1>1 DEF CalledIn
    <3>2. PICK l \in Listener, q \in Promise : l = rest[i].listener /\ q = rest[i].source
      BY <2>1, <1>4
    <3>3. Home(l) = q /\ Settled(q)
      BY <3>2, <2>1 DEF Sound
    <3>4. Home(l)' = q
      BY <3>1, <3>2, <3>3, <1>5 DEF Placed
    <3>5. notifications'[i].listener = l /\ notifications'[i].source = q
      BY <3>1, <3>2
    <3> QED
      BY <3>3, <3>4, <3>5, <1>2
  <2>2. CASE i - Len(rest) \in 1 .. Len(ls) /\ Len(rest) + (i - Len(rest)) = i
    <3>1. PICK j \in 1 .. Len(ls) : j = i - Len(rest)
      BY <2>2
    <3>2. notifications'[i] = [listener |-> ls[j], source |-> p]
      BY <3>1, <2>2, <1>1
    <3>3. PICK l \in Listener : l = ls[j]
      BY <1>3
    <3>4. Attached(l, p)
      BY <3>3 DEF Attached
    <3>5. Home(l)' = Home(l) /\ Home(l) = p
      BY <3>4, <1>5 DEF Placed, ListenersInv
    <3>6. notifications'[i].listener = l /\ notifications'[i].source = p
      BY <3>2, <3>3
    <3> QED
      BY <3>5, <3>6, <1>2
  <2> QED
    BY <2>1, <2>2, <1>8
<1>10. ASSUME NEW i \in 1 .. Len(notifications'), NEW j \in 1 .. Len(notifications'),
              notifications'[i].listener = notifications'[j].listener
       PROVE  i = j
  <2>1. CASE i \in 1 .. Len(rest) /\ j \in 1 .. Len(rest)
    BY <2>1, <1>1, <1>10 DEF Sound
  <2>2. ASSUME NEW a \in 1 .. Len(rest), NEW b \in 1 .. Len(ls)
        PROVE  notifications'[a].listener # notifications'[Len(rest) + b].listener
    <3>1. CalledIn(rest[a].listener, rest) /\ Attached(ls[b], p) /\ ls[b] \in Listener
      BY <1>3 DEF CalledIn, Attached
    <3>2. rest[a].listener # ls[b]
      BY <3>1, <1>2
    <3>4. notifications'[Len(rest) + b] = [listener |-> ls[b], source |-> p]
      BY <1>1
    <3>3. notifications'[Len(rest) + b].listener = ls[b]
      BY <3>4
    <3> QED
      BY <3>2, <3>3, <1>1
  <2>3. CASE i - Len(rest) \in 1 .. Len(ls) /\ j - Len(rest) \in 1 .. Len(ls)
             /\ Len(rest) + (i - Len(rest)) = i /\ Len(rest) + (j - Len(rest)) = j
    <3>1. PICK a \in 1 .. Len(ls), b \in 1 .. Len(ls) :
             a = i - Len(rest) /\ b = j - Len(rest)
      BY <2>3
    <3>2. /\ notifications'[i] = [listener |-> ls[a], source |-> p]
          /\ notifications'[j] = [listener |-> ls[b], source |-> p]
      BY <3>1, <2>3, <1>1
    <3>4. ls[a] = ls[b]
      BY <3>2, <1>10
    <3>3. a = b
      BY <3>4 DEF ListenersInv, Once
    <3> QED
      BY <3>1, <3>3, <2>3
  <2> QED
    BY <2>1, <2>2, <2>3, <1>8, <1>10
<1>11. Sound(notifications)'
  BY <1>9, <1>10 DEF Sound
<1>12. ListenersInv'
  BY <1>6, <1>7, <1>11 DEF ListenersInv
<1>13. ASSUME NEW l \in Listener, l # Adopt(p), Home(l)' = Home(l), Waits(l),
              Called(l) => CalledIn(l, rest)
       PROVE  Waits(l)'
  BY <1>2, <1>13 DEF Waits
<1> QED
  BY <1>12, <1>13
(* A first outcome for p, with rest being what is still to be called of the  *)
(* queue: nothing, or what follows the adoption of p.                       *)
Settles(p, outcome, rest) ==
    /\ ~Settled(p) /\ kind[p] # "free"
    /\ outcome \in Outcome /\ outcome # Pending
    /\ rest \in Seq(Notification) /\ Sound(rest)
    /\ \A l : CalledIn(l, rest) <=> Called(l) /\ l # Adopt(p)
    /\ \A q \in Promise : ~Attached(Adopt(p), q)
    /\ Settle(p, outcome, rest)
    /\ \A t \in Promise :
          awaits'[t] = awaits[t] \/ (awaits'[t] = None /\ ~Placed(Wake(t)))
    /\ UNCHANGED <<kind, dropped, reported, errors, ready>>

(* If p was resolved with a promise, the outcome is that promise's.         *)
SettlesAsReturned(p, outcome) ==
    /\ \A q \in Promise : q # p => returned'[q] = returned[q]
    /\ returned'[p] # None => /\ returned'[p] \in Promise /\ returned'[p] # p
                              /\ outcome = promise[returned'[p]].outcome

(* The effects of a settlement, for the proofs below. *)
SettleEffects(p, outcome, rest) ==
    /\ SettleMoved(p, outcome, rest)
    /\ \A q \in Promise : Settled(q)' <=> Settled(q) \/ q = p
    /\ \A q \in Promise, l \in Listener : Attached(l, q)' <=> Attached(l, q) /\ q # p
    /\ \A l \in Listener : Called(l)' <=> CalledIn(l, rest) \/ Attached(l, p)
    /\ \A l \in Listener : CalledIn(l, rest) => ~Attached(l, p)
    /\ ListenersInv'
    /\ \A l \in Listener : (l # Adopt(p) /\ Home(l)' = Home(l) /\ Waits(l)) => Waits(l)'

(* _settle sets the outcome and queues a notification for every listener. *)
LEMMA SettleHasEffects ==
    ASSUME SchedulerTyped, PromisesInv, ListenersInv, NEW p \in Promise,
           NEW outcome, NEW rest, Settles(p, outcome, rest)
    PROVE  SettleEffects(p, outcome, rest)
<1>1. /\ ~Settled(p) /\ outcome \in Outcome /\ outcome # Pending
      /\ rest \in Seq(Notification) /\ Sound(rest) /\ ~CalledIn(Adopt(p), rest)
      /\ \A l : CalledIn(l, rest) => Called(l)
      /\ \A l : Called(l) /\ l # Adopt(p) => CalledIn(l, rest)
      /\ \A q \in Promise : ~Attached(Adopt(p), q)
      /\ \A t \in Promise : awaits'[t] = awaits[t] \/ ~Placed(Wake(t))
      /\ Settle(p, outcome, rest)
  BY DEF Settles
<1>2. SettleMoved(p, outcome, rest)
  BY <1>1, SettleMoves
<1>3. /\ \A q \in Promise : Settled(q)' <=> Settled(q) \/ q = p
      /\ \A q \in Promise, l \in Listener : Attached(l, q)' <=> Attached(l, q) /\ q # p
      /\ \A l \in Listener : Called(l)' <=> CalledIn(l, rest) \/ Attached(l, p)
      /\ \A l \in Listener : CalledIn(l, rest) => ~Attached(l, p)
  BY <1>1, SettleQueues
<1>4. /\ ListenersInv'
      /\ \A l \in Listener : (l # Adopt(p) /\ Home(l)' = Home(l) /\ Waits(l)
                              /\ (Called(l) => CalledIn(l, rest))) => Waits(l)'
  BY <1>1, SettleKeepsListeners
<1> QED
  BY <1>1, <1>2, <1>3, <1>4 DEF SettleEffects

(* Promises, adopters, adoption chains and failures after a settlement.     *)
LEMMA SettleKeepsPromises ==
    ASSUME SchedulerInv, NEW p \in Promise, NEW outcome, NEW rest,
           Settles(p, outcome, rest)
    PROVE  /\ promise' \in [Promise -> PromiseRecord] /\ pending' \subseteq Promise
           /\ notifications' \in Seq(Notification)
           /\ PromisesInv' /\ ListenersInv' /\ AdoptersInv' /\ NoCircle' /\ FailuresInv'
<1> USE DEF SchedulerInv
<1>1. SettleEffects(p, outcome, rest)
  BY SettleHasEffects
<1>2. SettleMoved(p, outcome, rest)
  BY <1>1 DEF SettleEffects
<1>3. /\ promise' \in [Promise -> PromiseRecord]
      /\ \A q \in Promise : q # p => promise'[q] = promise[q]
      /\ promise'[p].outcome = outcome /\ promise'[p].claimed = TRUE
      /\ promise'[p].adopting = None /\ promise'[p].listeners = <<>>
      /\ pending' = pending \ {p}
      /\ notifications' \in Seq(Notification)
  BY <1>2 DEF SettleMoved
<1>4. \A q \in Promise : Settled(q)' <=> Settled(q) \/ q = p
  BY <1>1 DEF SettleEffects
<1>5. PromisesInv'
  <2>1. kind' = kind /\ dropped' = dropped /\ kind[p] # "free"
    BY DEF Settles
  <2>2. Made' = Made /\ Made \subseteq Promise
    BY <2>1 DEF Made
  <2>3. \A q \in Promise : kind'[q] = "free" => promise'[q] = NewPromise /\ q \notin dropped'
    BY <2>1, <1>3 DEF PromisesInv
  <2>4. \A q \in Promise : Settled(q)' =>
           promise'[q].claimed /\ promise'[q].adopting = None /\ promise'[q].listeners = <<>>
    BY <1>3, <1>4 DEF PromisesInv
  <2>5. \A q \in Promise : ~Settled(q)' =>
           (promise'[q].claimed <=> promise'[q].adopting # None)
    BY <1>3, <1>4 DEF PromisesInv
  <2>6. pending' = {q \in Made' : ~Settled(q)'}
    BY <2>2, <1>3, <1>4 DEF PromisesInv
  <2> QED
    BY <2>3, <2>4, <2>5, <2>6 DEF PromisesInv
<1>6. AdoptersInv'
  <2> SUFFICES ASSUME NEW q \in Promise, promise'[q].adopting # None
               PROVE  Waits(Adopt(q))'
    BY DEF AdoptersInv
  <2>1. q # p /\ promise'[q] = promise[q]
    BY <1>3
  <2>2. /\ Waits(Adopt(q)) /\ Adopt(q) # Adopt(p) /\ Adopt(q) \in Listener
        /\ Home(Adopt(q))' = Home(Adopt(q))
    BY <2>1, ListenerForms, Homes DEF AdoptersInv
  <2> QED
    BY <2>2, <1>1 DEF SettleEffects
<1>7. NoCircle'
  <2> SUFFICES ASSUME NEW circle \in (SUBSET Promise) \ {{}},
                      \A q \in circle : promise'[q].adopting \in circle
               PROVE  FALSE
    BY DEF NoCircle
  <2>1. p \notin circle
    BY <1>3, PromisesAreNamed
  <2>2. \A q \in circle : promise[q].adopting \in circle
    BY <2>1, <1>3
  <2> QED
    BY <2>2 DEF NoCircle
<1>8. FailuresInv'
  <2>1. kind' = kind /\ reported' = reported /\ errors' = errors
    BY DEF Settles
  <2>2. \A q \in Promise : /\ Record(q) \in Listener /\ Record(q) # Adopt(p)
                           /\ Home(Record(q)) = q
    BY ListenerForms, Homes
  <2>3. /\ \A q, x \in Promise : Attached(Record(q), x)' <=> Attached(Record(q), x) /\ x # p
        /\ \A q \in Promise : Called(Record(q))' <=>
                                 Called(Record(q)) \/ Attached(Record(q), p)
        /\ \A q \in Promise : Attached(Record(q), p) => q = p
    BY <2>2, <1>1 DEF SettleEffects, Settles, ListenersInv
  <2>4. \A q \in Promise : kind'[q] = "procedure" /\ ~Settled(q)' => Attached(Record(q), q)'
    BY <2>1, <2>3, <1>4 DEF FailuresInv
  <2>5. \A q \in Promise : kind'[q] = "procedure" /\ Settled(q)' /\ Failed(q)' =>
           Called(Record(q))' \/ Kept(q)' \/ q \in reported'
    <3> TAKE q \in Promise
    <3>1. CASE q = p
      BY <3>1, <2>1, <2>3 DEF FailuresInv, Settles
    <3>2. CASE q # p
      BY <3>2, <2>1, <2>3, <1>3, <1>4 DEF FailuresInv, Failed, Kept
    <3> QED
      BY <3>1, <3>2
  <2>6. \A q \in Promise : Kept(q)' \/ q \in reported' => Settled(q)' /\ ~Called(Record(q))'
    BY <2>1, <2>3, <1>4 DEF FailuresInv, Kept, Settles
  <2>7. (\A q \in Promise : Kept(q)' => q \notin reported') /\ Once(errors')
    BY <2>1 DEF FailuresInv, Kept
  <2> QED
    BY <2>4, <2>5, <2>6, <2>7 DEF FailuresInv
<1> QED
  BY <1>1, <1>3, <1>5, <1>6, <1>7, <1>8 DEF SettleEffects, SchedulerTyped

(* What is delivered after a settlement is what was awaited. *)
LEMMA SettleDelivers ==
    ASSUME SchedulerInv, NEW p \in Promise, NEW outcome, NEW rest,
           Settles(p, outcome, rest), SettlesAsReturned(p, outcome)
    PROVE  DeliveryInv'
<1> USE DEF SchedulerInv
<1>1. SettleEffects(p, outcome, rest)
  BY SettleHasEffects
<1>2. SettleMoved(p, outcome, rest)
  BY <1>1 DEF SettleEffects
<1>3. /\ \A q \in Promise : q # p => promise'[q] = promise[q]
      /\ promise'[p].outcome = outcome /\ promise'[p].claimed = TRUE
  BY <1>2 DEF SettleMoved
<1>4. \A q \in Promise : Settled(q)' <=> Settled(q) \/ q = p
  BY <1>1 DEF SettleEffects
<1>5. outcome # Pending /\ ~Settled(p) /\ promise[p].outcome = Pending
  BY DEF Settles, Settled
<1>6. ASSUME NEW i \in 1 .. Len(ready'), awaits'[ready'[i].task] # None
      PROVE  /\ Settled(awaits[ready[i].task])'
             /\ ready'[i].outcome = promise'[awaits'[ready'[i].task]].outcome
  <2>1. ready' = ready
    BY DEF Settles
  <2>2. PICK t \in Promise : t = ready[i].task
    <3>1. ready \in Seq(ReadyRecord) /\ i \in 1 .. Len(ready)
      BY <2>1 DEF SchedulerTyped
    <3>2. ready[i] \in ReadyRecord
      BY <3>1, ElementOfSeq
    <3> QED
      BY <3>2 DEF ReadyRecord
  <2>3. awaits'[t] = awaits[t] /\ awaits[t] \in Promise
    BY <2>1, <2>2, <1>6 DEF Settles, SchedulerTyped
  <2>4. Settled(awaits[t]) /\ ready[i].outcome = promise[awaits[t]].outcome
    BY <2>1, <2>2, <2>3, <1>6 DEF DeliveryInv
  <2>5. PICK q \in Promise : q = awaits[t]
    BY <2>3
  <2>6. Settled(q)' /\ promise'[q] = promise[q]
    BY <2>4, <2>5, <1>3, <1>4, <1>5
  <2> QED
    BY <2>1, <2>2, <2>3, <2>4, <2>5, <2>6
<1>7. \A q \in Promise : returned'[q] # None =>
         /\ promise'[q].claimed
         /\ ~Settled(q)' => promise'[q].adopting = returned'[q]
  BY <1>3, <1>4 DEF DeliveryInv, SettlesAsReturned
<1>8. ASSUME NEW q \in Promise, returned'[q] # None, Settled(q)'
      PROVE  \/ promise'[q].outcome = promise'[returned'[q]].outcome
             \/ /\ promise'[q].outcome.why = "reset"
                /\ promise'[returned'[q]].outcome.why = "reset"
  <2>1. CASE q = p
    <3>1. returned'[p] \in Promise /\ returned'[p] # p
          /\ outcome = promise[returned'[p]].outcome
      BY <2>1, <1>8 DEF SettlesAsReturned
    <3> QED
      BY <3>1, <2>1, <1>3
  <2>2. CASE q # p
    <3>1. returned'[q] = returned[q] /\ returned[q] \in Promise /\ Settled(q)
          /\ promise'[q] = promise[q]
      BY <2>2, <1>3, <1>4, <1>8 DEF SettlesAsReturned, SchedulerTyped
    <3>2. \/ promise[q].outcome = promise[returned[q]].outcome
          \/ promise[q].outcome.why = "reset" /\ promise[returned[q]].outcome.why = "reset"
      BY <3>1, <1>8 DEF DeliveryInv, AdoptedOutcome
    <3>3. returned[q] # p
      BY <3>1, <3>2, <1>5 DEF Settled, Pending
    <3> QED
      BY <3>1, <3>2, <3>3, <1>3
  <2> QED
    BY <2>1, <2>2
<1>9. AdoptedOutcome'
  BY <1>8 DEF AdoptedOutcome
<1> QED
  BY <1>6, <1>7, <1>9 DEF DeliveryInv
-----------------------------------------------------------------------------
(* A listener is added. *)

(* The listener l, which waited nowhere, now waits for q, which is pending.  *)
Attaches(l, q) ==
    /\ ~Settled(q) /\ ~Placed(l)
    /\ Home(l)' = q
    /\ \A m \in Listener : m # l /\ Placed(m) => Home(m)' = Home(m)
    /\ \A p \in Promise : promise'[p].outcome = promise[p].outcome
    /\ \A p \in Promise : p # q => promise'[p].listeners = promise[p].listeners
    /\ promise'[q].listeners = Append(promise[q].listeners, l)
    /\ notifications' = notifications

AttachEffects(l, q) ==
    /\ \A p \in Promise : Settled(p)' <=> Settled(p)
    /\ \A p \in Promise, m \in Listener : Attached(m, p)' <=>
                                             Attached(m, p) \/ (m = l /\ p = q)
    /\ \A m : Called(m)' <=> Called(m)
    /\ ListenersInv'
    /\ \A m \in Listener : m # l /\ Waits(m) => Waits(m)'
    /\ Waits(l)'

(* A listener is added to a pending promise. *)
LEMMA AttachHasEffects ==
    ASSUME SchedulerTyped, ListenersInv, NEW l \in Listener, NEW q \in Promise,
           Attaches(l, q)
    PROVE  AttachEffects(l, q)
<1> DEFINE ls == promise[q].listeners
<1>1. /\ ls \in Seq(Listener) /\ Len(ls) \in Nat
      /\ \A i \in 1 .. Len(ls) : ls[i] \in Listener
  BY PromiseFields
<1>2. /\ Len(Append(ls, l)) = Len(ls) + 1 /\ Append(ls, l)[Len(ls) + 1] = l
      /\ \A i \in 1 .. Len(ls) : Append(ls, l)[i] = ls[i]
  BY <1>1, AppendProperties
<1>3. \A i \in 1 .. Len(ls) + 1 : i \in 1 .. Len(ls) \/ i = Len(ls) + 1
  BY <1>1
<1>4. PICK long : long = Append(ls, l)
  OBVIOUS
<1>5. /\ promise'[q].listeners = long /\ Len(long) = Len(ls) + 1 /\ long[Len(ls) + 1] = l
      /\ \A i \in 1 .. Len(ls) : long[i] = ls[i] /\ i \in 1 .. Len(long)
      /\ \A i \in 1 .. Len(long) : i \in 1 .. Len(ls) \/ i = Len(ls) + 1
      /\ Len(ls) + 1 \in 1 .. Len(long)
  BY <1>1, <1>2, <1>3, <1>4 DEF Attaches
<1>6. \A p \in Promise : Settled(p)' <=> Settled(p)
  BY DEF Attaches, Settled
<1>7. \A m : Called(m)' <=> Called(m)
  BY DEF Attaches, Called, CalledIn
<1>8. ASSUME NEW m \in Listener
      PROVE  Attached(m, q)' <=> Attached(m, q) \/ m = l
  <2>1. Attached(m, q)' <=> \E i \in 1 .. Len(long) : long[i] = m
    BY <1>5 DEF Attached
  <2>2. Attached(m, q) <=> \E i \in 1 .. Len(ls) : ls[i] = m
    BY DEF Attached
  <2> HIDE DEF ls
  <2> QED
    BY <2>1, <2>2, <1>5
<1>9. \A p \in Promise, m \in Listener : Attached(m, p)' <=>
                                            Attached(m, p) \/ (m = l /\ p = q)
  <2> TAKE p \in Promise, m \in Listener
  <2>1. CASE p = q
    BY <2>1, <1>8
  <2>2. CASE p # q
    BY <2>2 DEF Attaches, Attached
  <2> QED
    BY <2>1, <2>2
<1>10. Once(long)
  <2>1. \A i \in 1 .. Len(ls) : ls[i] # l
    BY DEF Attaches, Placed, Attached
  <2>2. Once(ls)
    BY DEF ListenersInv
  <2> HIDE DEF ls
  <2> QED
    BY <2>1, <2>2, <1>1, <1>5 DEF Once
<1>11. \A p \in Promise : Once(promise'[p].listeners)
  <2> TAKE p \in Promise
  <2>1. CASE p = q
    BY <2>1, <1>5, <1>10
  <2>2. CASE p # q
    BY <2>2 DEF Attaches, ListenersInv
  <2> QED
    BY <2>1, <2>2
<1>12. \A p \in Promise, m \in Listener : Attached(m, p)' => Home(m)' = p
  <2> TAKE p \in Promise, m \in Listener
  <2>1. CASE m = l
    BY <2>1, <1>9 DEF Attaches, Placed
  <2>2. CASE m # l
    BY <2>2, <1>9 DEF Attaches, ListenersInv, Placed
  <2> QED
    BY <2>1, <2>2
<1>13. Sound(notifications)'
  <2>1. notifications' = notifications
    BY DEF Attaches
  <2>2. ASSUME NEW i \in 1 .. Len(notifications')
        PROVE  (notifications[i].source = Home(notifications[i].listener)
                /\ Settled(notifications[i].source))'
    <3>1. notifications \in Seq(Notification) /\ i \in 1 .. Len(notifications)
      BY <2>1 DEF SchedulerTyped
    <3>2. PICK m \in Listener, p \in Promise :
             m = notifications[i].listener /\ p = notifications[i].source
      BY <3>1, QueueFields
    <3>3. Home(m) = p /\ Settled(p) /\ Called(m)
      BY <3>1, <3>2 DEF ListenersInv, Sound, Called, CalledIn
    <3>4. Home(m)' = p /\ Settled(p)'
      BY <3>3, <1>6 DEF Attaches, Placed
    <3> QED
      BY <3>2, <3>4, <2>1
  <2> QED
    BY <2>1, <2>2 DEF Sound, ListenersInv
<1>14. ListenersInv'
  BY <1>11, <1>12, <1>13 DEF ListenersInv
<1>15. \A m \in Listener : m # l /\ Waits(m) => Waits(m)'
  BY <1>6, <1>7, <1>9 DEF Attaches, Waits, Placed
<1>16. Waits(l)'
  BY <1>6, <1>9 DEF Attaches, Waits
<1> QED
  BY <1>6, <1>7, <1>9, <1>14, <1>15, <1>16 DEF AttachEffects

(* Listeners and queue stay as they are, and so does what they wait for.    *)
LinksStay ==
    /\ promise' = promise /\ notifications' = notifications
    /\ \A t \in Promise : awaits'[t] = awaits[t] \/ ~Placed(Wake(t))

(* Where promises and notifications stay, so does what listens to what. *)
LEMMA LinksHaveEffects ==
    ASSUME SchedulerTyped, ListenersInv, LinksStay
    PROVE  /\ \A p : Settled(p)' <=> Settled(p)
           /\ \A m, p : Attached(m, p)' <=> Attached(m, p)
           /\ \A m : Called(m)' <=> Called(m)
           /\ ListenersInv'
           /\ \A m \in Listener : Home(m)' = Home(m) /\ Waits(m) => Waits(m)'
<1>1. promise' = promise /\ notifications' = notifications
  BY DEF LinksStay
<1>2. /\ \A p : Settled(p)' <=> Settled(p)
      /\ \A m, p : Attached(m, p)' <=> Attached(m, p)
      /\ \A m : Called(m)' <=> Called(m)
  BY <1>1 DEF Settled, Attached, Called, CalledIn
<1>3. \A m \in Listener : Placed(m) => Home(m)' = Home(m)
  <2> TAKE m \in Listener
  <2>1. CASE m = Wake(m.for)
    BY <2>1, ListenerForms, Homes DEF LinksStay
  <2>2. CASE m = Record(m.for)
    BY <2>2, ListenerForms, Homes
  <2>3. CASE m = Adopt(m.for)
    BY <2>3, <1>1, ListenerForms, Homes
  <2> QED
    BY <2>1, <2>2, <2>3, ListenerForms
<1>4. Sound(notifications)'
  <2>1. ASSUME NEW i \in 1 .. Len(notifications')
        PROVE  (notifications[i].source = Home(notifications[i].listener)
                /\ Settled(notifications[i].source))'
    <3>1. notifications \in Seq(Notification) /\ i \in 1 .. Len(notifications)
      BY <1>1 DEF SchedulerTyped
    <3>2. PICK m \in Listener, p \in Promise :
             m = notifications[i].listener /\ p = notifications[i].source
      BY <3>1, QueueFields
    <3>3. Home(m) = p /\ Settled(p) /\ Called(m)
      BY <3>1, <3>2 DEF ListenersInv, Sound, Called, CalledIn
    <3>4. Home(m)' = p /\ Settled(p)'
      BY <3>3, <1>2, <1>3 DEF Placed
    <3> QED
      BY <3>2, <3>4, <1>1
  <2> QED
    BY <1>1, <2>1 DEF Sound, ListenersInv
<1>5. ListenersInv'
  BY <1>1, <1>2, <1>3, <1>4 DEF ListenersInv, Placed
<1>6. \A m \in Listener : Home(m)' = Home(m) /\ Waits(m) => Waits(m)'
  BY <1>2 DEF Waits
<1> QED
  BY <1>2, <1>5, <1>6
-----------------------------------------------------------------------------
(* Promises, tasks and frames. *)

(* A nonempty set of numbers has a least one. *)
LEMMA LeastPromise ==
    ASSUME NEW S \in SUBSET Nat, S # {}
    PROVE  \E least \in S : \A x \in S : least <= x
<1>1. PICK least \in S : \A x \in S : ~ (<<x, least>> \in OpToRel(<, Nat))
  BY NatLessThanWellFounded, WFMin, Zenon
<1>2. \A x \in S : ~ (x < least)
  BY <1>1 DEF OpToRel
<1> QED
  BY <1>2

(* The next promise to be made is a free one. *)
LEMMA NextFreeIsFree ==
    ASSUME Free # {}
    PROVE  NextFree \in Promise /\ kind[NextFree] = "free"
<1>1. Free \in SUBSET Nat
  BY PromisesAreNamed DEF Free
<1>2. \E least \in Free : \A x \in Free : least <= x
  BY <1>1, LeastPromise
<1>3. NextFree \in Free
  BY <1>2, Zenon DEF NextFree
<1> QED
  BY <1>3 DEF Free, Made

(* The queue of ready tasks and its elements have their types. *)
LEMMA ReadyFields ==
    ASSUME SchedulerTyped
    PROVE  /\ ready \in Seq(ReadyRecord) /\ Len(ready) \in Nat
           /\ \A i \in 1 .. Len(ready) : /\ ready[i] \in ReadyRecord
                                         /\ ready[i].task \in Promise
                                         /\ ready[i].outcome \in Outcome
<1>1. ready \in Seq(ReadyRecord)
  BY DEF SchedulerTyped
<1>2. Len(ready) \in Nat /\ \A i \in 1 .. Len(ready) : ready[i] \in ReadyRecord
  BY <1>1, LenProperties, ElementOfSeq
<1> QED
  BY <1>1, <1>2 DEF ReadyRecord

(* Wakeups stay in order while the suspended tasks stay suspended and their *)
(* listeners stay where they are or go into the queue.                      *)
LEMMA WakeupsStay ==
    ASSUME SchedulerTyped, WakeupsInv, ready' = ready,
           \A t \in Promise : Suspended(t)' <=> Suspended(t),
           \A t \in Promise : Suspended(t) /\ Waits(Wake(t)) => Waits(Wake(t))',
           \A t, p \in Promise : Attached(Wake(t), p)' => Placed(Wake(t)),
           \A t \in Promise : Called(Wake(t))' => Placed(Wake(t))
    PROVE  WakeupsInv'
<1>1. \A t : IsReady(t)' <=> IsReady(t)
  BY DEF IsReady
<1>2. \A t \in Promise : Suspended(t)' => IsReady(t)' \/ Waits(Wake(t))'
  BY <1>1 DEF WakeupsInv
<1>3. \A i \in 1 .. Len(ready') : Suspended(ready[i].task)'
  <2> TAKE i \in 1 .. Len(ready')
  <2>1. PICK t \in Promise : t = ready[i].task
    BY ReadyFields
  <2>2. Suspended(t)'
    BY <2>1 DEF WakeupsInv
  <2> QED
    BY <2>1, <2>2
<1>4. \A i, j \in 1 .. Len(ready') : ready'[i].task = ready'[j].task => i = j
  BY DEF WakeupsInv
<1>5. \A t \in Promise, p \in Promise :
         Attached(Wake(t), p)' \/ Called(Wake(t))' => Suspended(t)' /\ ~IsReady(t)'
  BY <1>1 DEF WakeupsInv, Placed
<1> QED
  BY <1>2, <1>3, <1>4, <1>5 DEF WakeupsInv

(* The tasks stay sound while frames and kinds stay and no task is claimed. *)
LEMMA TasksStay ==
    ASSUME TasksInv, tasks' = tasks, stack' = stack, dropped' = dropped, kind' = kind,
           \A t \in tasks : promise'[t].claimed = promise[t].claimed
    PROVE  /\ TasksInv'
           /\ \A t : Running(t)' <=> Running(t)
           /\ \A t : Suspended(t)' <=> Suspended(t)
<1>1. \A t : Running(t)' <=> Running(t)
  BY DEF Running
<1>2. \A t : Suspended(t)' <=> Suspended(t)
  BY <1>1 DEF Suspended
<1> QED
  BY <1>1, <1>2 DEF TasksInv

(* The frame that leaves the stack was the only one of its task.            *)
LEMMA PopRuns ==
    ASSUME SchedulerTyped, TasksInv, stack # <<>>, stack' = Pop
    PROVE  /\ stack' \in Seq(Frame)
           /\ Top \in Frame
           /\ \A s \in Promise : Running(s)' <=>
                 Running(s) /\ (Top.kind = "run" => s # Top.task)
           /\ Top.kind = "run" => /\ Top.task \in Promise /\ Running(Top.task)
                                  /\ Top.task \in tasks /\ Top.task \notin dropped
           /\ \A i, j \in 1 .. Len(stack') :
                 stack'[i].kind = "run" /\ stack'[j].kind = "run"
                 /\ stack'[i].task = stack'[j].task => i = j
           /\ \A i \in 1 .. Len(stack') : stack'[i].kind = "run" => stack'[i].task \in Promise
<1>1. stack \in Seq(Frame) /\ Len(stack) \in Nat \ {0}
  BY EmptySeq DEF SchedulerTyped
<1>2. \A i \in 1 .. Len(stack) : stack[i] \in Frame
  BY <1>1, ElementOfSeq
<1>3. PICK n \in Nat : n = Len(stack) - 1
  BY <1>1
<1>4. /\ stack' \in Seq(Frame) /\ Len(stack') = n
      /\ \A i \in 1 .. n : stack'[i] = stack[i]
  <2>1. 1 \in Int /\ n \in Int /\ Pop = SubSeq(stack, 1, n)
    BY <1>3 DEF Pop
  <2>2. \A i \in 1 .. n : stack[i] \in Frame
    BY <1>1, <1>2, <1>3
  <2>3. /\ SubSeq(stack, 1, n) \in Seq(Frame)
        /\ Len(SubSeq(stack, 1, n)) = IF 1 <= n THEN n - 1 + 1 ELSE 0
        /\ \A i \in 1 .. n - 1 + 1 : SubSeq(stack, 1, n)[i] = stack[1 + i - 1]
    BY <2>1, <2>2, SubSeqProperties
  <2>4. \A i \in 1 .. n : i \in 1 .. n - 1 + 1 /\ 1 + i - 1 = i
    OBVIOUS
  <2> QED
    BY <2>1, <2>3, <2>4
<1>5. /\ Top \in Frame /\ Top = stack[n + 1] /\ n + 1 \in 1 .. Len(stack)
      /\ \A i \in 1 .. n : i \in 1 .. Len(stack) /\ i # n + 1
      /\ \A i \in 1 .. Len(stack) : i \in 1 .. n \/ i = n + 1
  BY <1>1, <1>2, <1>3 DEF Top
<1>6. /\ \A i, j \in 1 .. Len(stack') :
            stack'[i].kind = "run" /\ stack'[j].kind = "run"
            /\ stack'[i].task = stack'[j].task => i = j
      /\ \A i \in 1 .. Len(stack') : stack'[i].kind = "run" => stack'[i].task \in Promise
  <2>1. /\ Len(stack') = n
        /\ \A i \in 1 .. n : stack'[i] = stack[i] /\ i \in 1 .. Len(stack)
    BY <1>4, <1>5
  <2>2. /\ \A i, j \in 1 .. Len(stack) :
              stack[i].kind = "run" /\ stack[j].kind = "run"
              /\ stack[i].task = stack[j].task => i = j
        /\ \A i \in 1 .. Len(stack) : stack[i].kind = "run" => stack[i].task \in Promise
    BY DEF TasksInv
  <2>3. ASSUME NEW i \in 1 .. n, NEW j \in 1 .. n,
               stack'[i].kind = "run", stack'[j].kind = "run",
               stack'[i].task = stack'[j].task
        PROVE  i = j
    <3>1. /\ stack'[i] = stack[i] /\ i \in 1 .. Len(stack)
          /\ stack'[j] = stack[j] /\ j \in 1 .. Len(stack)
      BY <2>1
    <3> QED
      BY <2>2, <2>3, <3>1, Zenon
  <2>4. ASSUME NEW i \in 1 .. n, stack'[i].kind = "run"
        PROVE  stack'[i].task \in Promise
    BY <2>1, <2>2, <2>4, Zenon
  <2> QED
    BY <2>1, <2>3, <2>4, Zenon
<1>7. Top.kind = "run" => /\ Top.task \in Promise /\ Running(Top.task)
                          /\ Top.task \in tasks /\ Top.task \notin dropped
  <2> SUFFICES ASSUME Top.kind = "run"
               PROVE  /\ Top.task \in Promise /\ Running(Top.task)
                      /\ Top.task \in tasks /\ Top.task \notin dropped
    OBVIOUS
  <2>1. Top.task \in Promise
    BY <1>5 DEF TasksInv
  <2>2. Top = [kind |-> "run", task |-> Top.task]
    BY <1>5 DEF Frame
  <2>3. Running(Top.task)
    BY <2>2, <1>5 DEF Running
  <2> QED
    BY <2>1, <2>3 DEF TasksInv
<1>8. ASSUME NEW s \in Promise
      PROVE  Running(s)' <=> Running(s) /\ (Top.kind = "run" => s # Top.task)
  <2> DEFINE f == [kind |-> "run", task |-> s]
  <2>1. Running(s)' <=> \E i \in 1 .. n : stack[i] = f
    BY <1>4 DEF Running
  <2>2. Running(s) <=> \E i \in 1 .. n + 1 : stack[i] = f
    BY <1>1, <1>3 DEF Running
  <2>3. f.kind = "run" /\ f.task = s
    OBVIOUS
  <2>4. Top = f <=> Top.kind = "run" /\ Top.task = s
    BY <1>5 DEF Frame
  <2>5. \A i \in 1 .. n : stack[i] = f => Top # f
    BY <1>5, <2>3 DEF TasksInv
  <2> HIDE DEF f
  <2>6. \A i \in 1 .. n + 1 : i \in 1 .. n \/ i = n + 1
    OBVIOUS
  <2>7. (\E i \in 1 .. n : stack[i] = f) => Top # f
    BY <2>5
  <2>8. (\E i \in 1 .. n + 1 : stack[i] = f) <=> (\E i \in 1 .. n : stack[i] = f) \/ Top = f
    BY <1>5, <2>6
  <2> QED
    BY <2>1, <2>2, <2>4, <2>7, <2>8
<1> QED
  BY <1>4, <1>5, <1>6, <1>7, <1>8

(* A frame is put on the stack; it runs a task that no other frame runs.    *)
LEMMA PushRuns ==
    ASSUME SchedulerTyped, TasksInv, NEW f \in Frame, stack' = Append(stack, f),
           f.kind = "run" => f.task \in Promise /\ ~Running(f.task)
    PROVE  /\ stack' \in Seq(Frame)
           /\ \A s \in Promise : Running(s)' <=>
                 Running(s) \/ (f.kind = "run" /\ s = f.task)
           /\ \A i, j \in 1 .. Len(stack') :
                 stack'[i].kind = "run" /\ stack'[j].kind = "run"
                 /\ stack'[i].task = stack'[j].task => i = j
           /\ \A i \in 1 .. Len(stack') : stack'[i].kind = "run" => stack'[i].task \in Promise
<1>1. stack \in Seq(Frame) /\ Len(stack) \in Nat
  BY LenProperties DEF SchedulerTyped
<1>2. PICK n \in Nat : n = Len(stack)
  BY <1>1
<1>3. \A i \in 1 .. n : stack[i] \in Frame
  BY <1>1, <1>2, ElementOfSeq
<1>4. /\ stack' \in Seq(Frame) /\ Len(stack') = n + 1 /\ stack'[n + 1] = f
      /\ \A i \in 1 .. n : stack'[i] = stack[i]
  BY <1>1, <1>2, AppendProperties
<1>5. \A i \in 1 .. n + 1 : i \in 1 .. n \/ i = n + 1
  OBVIOUS
<1>6. \A i \in 1 .. n : stack[i].kind = "run" =>
                           stack[i].task \in Promise /\ Running(stack[i].task)
  <2> SUFFICES ASSUME NEW i \in 1 .. n, stack[i].kind = "run"
               PROVE  stack[i].task \in Promise /\ Running(stack[i].task)
    OBVIOUS
  <2>1. stack[i].task \in Promise
    BY <1>2 DEF TasksInv
  <2>2. stack[i] = [kind |-> "run", task |-> stack[i].task]
    BY <1>3 DEF Frame
  <2> QED
    BY <2>1, <2>2, <1>2 DEF Running
<1>7. ASSUME NEW i \in 1 .. n + 1, NEW j \in 1 .. n + 1,
             stack'[i].kind = "run" /\ stack'[j].kind = "run",
             stack'[i].task = stack'[j].task
      PROVE  i = j
  <2>1. CASE i \in 1 .. n /\ j \in 1 .. n
    BY <2>1, <1>2, <1>4, <1>7 DEF TasksInv
  <2>2. CASE i \in 1 .. n /\ j = n + 1
    BY <2>2, <1>4, <1>6, <1>7
  <2>3. CASE i = n + 1 /\ j \in 1 .. n
    BY <2>3, <1>4, <1>6, <1>7
  <2> QED
    BY <2>1, <2>2, <2>3, <1>5
<1>8. \A i \in 1 .. n + 1 : stack'[i].kind = "run" => stack'[i].task \in Promise
  BY <1>4, <1>5, <1>6
<1>9. ASSUME NEW s \in Promise
      PROVE  Running(s)' <=> Running(s) \/ (f.kind = "run" /\ s = f.task)
  <2> DEFINE g == [kind |-> "run", task |-> s]
  <2>1. Running(s)' <=> \E i \in 1 .. n + 1 : stack'[i] = g
    BY <1>4 DEF Running
  <2>2. Running(s) <=> \E i \in 1 .. n : stack[i] = g
    BY <1>2 DEF Running
  <2>3. f = g <=> f.kind = "run" /\ f.task = s
    BY DEF Frame
  <2> HIDE DEF g
  <2>4. (\E i \in 1 .. n + 1 : stack'[i] = g) <=> (\E i \in 1 .. n : stack[i] = g) \/ f = g
    <3>1. n + 1 \in 1 .. n + 1 /\ \A i \in 1 .. n : i \in 1 .. n + 1
      OBVIOUS
    <3> QED
      BY <3>1, <1>4, <1>5
  <2> QED
    BY <2>1, <2>2, <2>3, <2>4
<1> QED
  BY <1>4, <1>7, <1>8, <1>9
-----------------------------------------------------------------------------
(* Steps that leave promises and queue alone, but for the making of one.    *)

(* A task that runs, is ready or is gone has no listener. *)
LEMMA NoWakeup ==
    ASSUME WakeupsInv, NEW t \in Promise, ~Suspended(t) \/ IsReady(t)
    PROVE  ~Placed(Wake(t))
BY DEF WakeupsInv, Placed

(* Where promises and notifications stay, so do the chains of adoption. *)
LEMMA LinksKeepAdopters ==
    ASSUME SchedulerInv, LinksStay
    PROVE  ListenersInv' /\ AdoptersInv' /\ NoCircle'
<1> USE DEF SchedulerInv
<1>1. promise' = promise /\ notifications' = notifications
  BY DEF LinksStay
<1>2. /\ ListenersInv'
      /\ \A p : Settled(p)' <=> Settled(p)
      /\ \A m \in Listener : Home(m)' = Home(m) /\ Waits(m) => Waits(m)'
  BY LinksHaveEffects
<1>3. AdoptersInv'
  <2> SUFFICES ASSUME NEW q \in Promise, promise'[q].adopting # None
               PROVE  Waits(Adopt(q))'
    BY DEF AdoptersInv
  <2>1. Waits(Adopt(q)) /\ Adopt(q) \in Listener /\ Home(Adopt(q))' = Home(Adopt(q))
    BY <1>1, ListenerForms, Homes DEF AdoptersInv
  <2> QED
    BY <2>1, <1>2
<1>4. NoCircle'
  BY <1>1 DEF NoCircle
<1> QED
  BY <1>2, <1>3, <1>4

(* Nothing new is delivered, and who is answered may forget what it awaited. *)
LEMMA LinksKeep ==
    ASSUME SchedulerInv, LinksStay, returned' = returned,
           \A t \in Promise : awaits'[t] = awaits[t] \/ awaits'[t] = None,
           \A i \in 1 .. Len(ready') : \E j \in 1 .. Len(ready) : ready'[i] = ready[j]
    PROVE  ListenersInv' /\ AdoptersInv' /\ NoCircle' /\ DeliveryInv'
<1> USE DEF SchedulerInv
<1>1. promise' = promise /\ notifications' = notifications
  BY DEF LinksStay
<1>2. \A p : Settled(p)' <=> Settled(p)
  BY LinksHaveEffects
<1>3. ListenersInv' /\ AdoptersInv' /\ NoCircle'
  BY LinksKeepAdopters
<1>5. ASSUME NEW i \in 1 .. Len(ready'), awaits'[ready'[i].task] # None
      PROVE  /\ Settled(awaits[ready[i].task])'
             /\ ready'[i].outcome = promise'[awaits'[ready'[i].task]].outcome
  <2>1. PICK j \in 1 .. Len(ready) : ready'[i] = ready[j]
    OBVIOUS
  <2>2. PICK t \in Promise : t = ready[j].task
    BY ReadyFields
  <2>3. awaits'[t] = awaits[t] /\ awaits[t] # None
    BY <2>1, <2>2, <1>5
  <2>4. Settled(awaits[t]) /\ ready[j].outcome = promise[awaits[t]].outcome
    BY <2>2, <2>3 DEF DeliveryInv
  <2>5. PICK q : q = awaits[t]
    OBVIOUS
  <2>6. Settled(q)'
    BY <2>4, <2>5, <1>2
  <2> QED
    BY <2>1, <2>2, <2>3, <2>4, <2>5, <2>6, <1>1
<1>6. \A p \in Promise : returned'[p] # None =>
         /\ promise'[p].claimed
         /\ ~Settled(p)' => promise'[p].adopting = returned'[p]
  BY <1>1, <1>2 DEF DeliveryInv
<1>7. AdoptedOutcome'
  BY <1>1, <1>2 DEF DeliveryInv, AdoptedOutcome
<1> QED
  BY <1>3, <1>5, <1>6, <1>7 DEF DeliveryInv

(* Only frames, modes and failures move. *)
StandsStill ==
    /\ UNCHANGED <<kind, promise, pending, tasks, notifications, dropped, ready, awaits,
                   returned>>
    /\ \A s \in Promise : Running(s)' <=> Running(s)

(* Where promises, tasks and queues stay, most of the invariant stays. *)
LEMMA StandingKeeps ==
    ASSUME SchedulerInv, StandsStill
    PROVE  /\ PromisesInv' /\ ListenersInv' /\ AdoptersInv' /\ NoCircle' /\ DeliveryInv'
           /\ WakeupsInv'
           /\ errors' = errors /\ reported' = reported => FailuresInv'
<1> USE DEF SchedulerInv
<1>1. LinksStay
  BY DEF StandsStill, LinksStay
<1>2. /\ \A p : Settled(p)' <=> Settled(p)
      /\ \A m, p : Attached(m, p)' <=> Attached(m, p)
      /\ \A m : Called(m)' <=> Called(m)
      /\ \A m \in Listener : Home(m)' = Home(m) /\ Waits(m) => Waits(m)'
  BY <1>1, LinksHaveEffects
<1>3. ListenersInv' /\ AdoptersInv' /\ NoCircle' /\ DeliveryInv'
  BY <1>1, LinksKeep DEF StandsStill
<1>4. PromisesInv'
  BY DEF PromisesInv, StandsStill, Settled, Made
<1>5. WakeupsInv'
  <2>1. \A t \in Promise : Suspended(t)' <=> Suspended(t)
    BY DEF StandsStill, Suspended
  <2>2. \A t \in Promise : Wake(t) \in Listener /\ Home(Wake(t))' = Home(Wake(t))
    BY ListenerForms, Homes DEF StandsStill
  <2> QED
    BY <2>1, <2>2, <1>2, WakeupsStay DEF StandsStill, Placed
<1>6. errors' = errors /\ reported' = reported => FailuresInv'
  BY <1>2 DEF FailuresInv, StandsStill, Kept, Failed
<1> QED
  BY <1>3, <1>4, <1>5, <1>6

(* Where the tasks stay, only what runs matters to them. *)
LEMMA StandingTasks ==
    ASSUME TasksInv, tasks' = tasks, dropped' = dropped, kind' = kind, promise' = promise,
           \A s \in Promise : Running(s)' <=> Running(s),
           \A i, j \in 1 .. Len(stack') :
               stack'[i].kind = "run" /\ stack'[j].kind = "run"
               /\ stack'[i].task = stack'[j].task => i = j,
           \A i \in 1 .. Len(stack') : stack'[i].kind = "run" => stack'[i].task \in Promise
    PROVE  TasksInv'
BY DEF TasksInv

(* A synchronous root (run_inline) enters. *)
LEMMA InlineKeeps == ASSUME SchedulerInv, Inline PROVE SchedulerInv'
<1> USE DEF SchedulerInv
<1> DEFINE f == [kind |-> "inline", task |-> None]
<1>1. f \in Frame /\ f.kind # "run" /\ stack' = Append(stack, f)
  BY DEF Frame, Inline
<1> HIDE DEF f
<1>2. /\ stack' \in Seq(Frame)
      /\ \A s \in Promise : Running(s)' <=> Running(s)
      /\ \A i, j \in 1 .. Len(stack') :
            stack'[i].kind = "run" /\ stack'[j].kind = "run"
            /\ stack'[i].task = stack'[j].task => i = j
      /\ \A i \in 1 .. Len(stack') : stack'[i].kind = "run" => stack'[i].task \in Promise
  BY <1>1, PushRuns
<1>3. StandsStill
  BY <1>2 DEF StandsStill, Inline
<1>4. TasksInv'
  BY <1>2, StandingTasks DEF Inline
<1>5. SchedulerTyped'
  BY <1>2 DEF SchedulerTyped, Inline
<1>6. errors' = errors /\ reported' = reported
  BY DEF Inline
<1> QED
  BY <1>3, <1>4, <1>5, <1>6, StandingKeeps

(* A synchronous root or a finalizer returns. *)
LEMMA LeaveKeeps == ASSUME SchedulerInv, Leave PROVE SchedulerInv'
<1> USE DEF SchedulerInv
<1>1. stack # <<>> /\ stack' = Pop /\ Top.kind # "run"
  BY DEF Leave, Runs
<1>2. /\ stack' \in Seq(Frame)
      /\ \A s \in Promise : Running(s)' <=> Running(s)
      /\ \A i, j \in 1 .. Len(stack') :
            stack'[i].kind = "run" /\ stack'[j].kind = "run"
            /\ stack'[i].task = stack'[j].task => i = j
      /\ \A i \in 1 .. Len(stack') : stack'[i].kind = "run" => stack'[i].task \in Promise
  BY <1>1, PopRuns
<1>3. StandsStill
  BY <1>2 DEF StandsStill, Leave
<1>4. TasksInv'
  BY <1>2, StandingTasks DEF Leave
<1>5. SchedulerTyped'
  BY <1>2 DEF SchedulerTyped, Leave
<1>6. errors' = errors /\ reported' = reported
  BY DEF Leave
<1> QED
  BY <1>3, <1>4, <1>5, <1>6, StandingKeeps

(* Pump, its end, the begin of a reset and every finalizer it runs.         *)
LEMMA DrivingKeeps ==
    ASSUME SchedulerInv, Pump \/ PumpEnds \/ Reset \/ \E t \in Promise : CloseTask(t)
    PROVE  SchedulerInv'
<1> USE DEF SchedulerInv
<1>1. ASSUME Pump \/ PumpEnds \/ Reset
      PROVE  SchedulerInv'
  <2>1. UNCHANGED <<kind, promise, pending, tasks, notifications, dropped, ready, awaits,
                    returned, stack, errors, reported>>
    BY <1>1 DEF Pump, PumpEnds, Reset
  <2>2. StandsStill
    BY <2>1 DEF StandsStill, Running
  <2>3. TasksInv'
    BY <2>1, TasksStay
  <2>4. SchedulerTyped'
    BY <1>1, SchedulerAssumption DEF SchedulerTyped, Pump, PumpEnds, Reset
  <2> QED
    BY <2>1, <2>2, <2>3, <2>4, StandingKeeps
<1>2. ASSUME NEW t \in Promise, CloseTask(t)
      PROVE  SchedulerInv'
  <2> DEFINE f == [kind |-> "close", task |-> t]
  <2>1. f \in Frame /\ f.kind # "run" /\ stack' = Append(stack, f)
    BY <1>2 DEF Frame, CloseTask, Driving
  <2> HIDE DEF f
  <2>2. /\ stack' \in Seq(Frame)
        /\ \A s \in Promise : Running(s)' <=> Running(s)
        /\ \A i, j \in 1 .. Len(stack') :
              stack'[i].kind = "run" /\ stack'[j].kind = "run"
              /\ stack'[i].task = stack'[j].task => i = j
        /\ \A i \in 1 .. Len(stack') : stack'[i].kind = "run" => stack'[i].task \in Promise
    BY <2>1, PushRuns
  <2>3. StandsStill
    BY <1>2, <2>2 DEF StandsStill, CloseTask
  <2>4. TasksInv'
    BY <1>2, <2>2, StandingTasks DEF CloseTask
  <2>5. SchedulerTyped'
    BY <1>2, <2>2 DEF SchedulerTyped, CloseTask
  <2>6. errors' = errors /\ reported' = reported
    BY <1>2 DEF CloseTask
  <2> QED
    BY <2>3, <2>4, <2>5, <2>6, StandingKeeps
<1> QED
  BY <1>1, <1>2

(* The host takes the batch of failures: what was kept is reported.         *)
LEMMA TakeErrorsKeeps == ASSUME SchedulerInv, TakeErrors PROVE SchedulerInv'
<1> USE DEF SchedulerInv
<1>1. UNCHANGED <<kind, promise, pending, tasks, notifications, dropped, ready, awaits,
                  returned, stack, closing, mode, steps>>
      /\ errors' = <<>> /\ reported' = reported \cup {errors[i] : i \in 1 .. Len(errors)}
  BY DEF TakeErrors
<1>2. StandsStill
  BY <1>1 DEF StandsStill, Running
<1>3. TasksInv'
  BY <1>1, TasksStay
<1>4. errors \in Seq(Promise) /\ \A i \in 1 .. Len(errors) : errors[i] \in Promise
  BY ElementOfSeq DEF SchedulerTyped
<1>5. SchedulerTyped'
  BY <1>1, <1>4, EmptySeq DEF SchedulerTyped
<1>6. FailuresInv'
  <2>1. 1 .. Len(errors') = {}
    BY <1>1, EmptySeq
  <2>2. \A p : p \in reported' <=> p \in reported \/ Kept(p)
    BY <1>1 DEF Kept
  <2>3. \A p : ~Kept(p)'
    BY <2>1 DEF Kept
  <2>4. /\ \A p : Settled(p)' <=> Settled(p)
        /\ \A p : Failed(p)' <=> Failed(p)
        /\ \A m, p : Attached(m, p)' <=> Attached(m, p)
        /\ \A m : Called(m)' <=> Called(m)
    BY <1>1 DEF Settled, Failed, Attached, Called, CalledIn
  <2>5. Once(errors')
    BY <2>1 DEF Once
  <2> QED
    BY <1>1, <2>2, <2>3, <2>4, <2>5 DEF FailuresInv
<1> QED
  BY <1>2, <1>3, <1>5, <1>6, StandingKeeps
(* A host exception drops the running task. *)
LEMMA HostErrorKeeps == ASSUME SchedulerInv, HostError PROVE SchedulerInv'
<1> USE DEF SchedulerInv
<1>1. PICK t : t = Top.task
  OBVIOUS
<1>2. /\ stack # <<>> /\ stack' = Pop /\ Top.kind = "run"
      /\ dropped' = dropped \cup {t}
      /\ awaits' = [awaits EXCEPT ![t] = None]
      /\ UNCHANGED <<kind, promise, pending, tasks, ready, notifications, closing, errors,
                     returned, reported>>
  BY <1>1 DEF HostError, Runs
<1>3. /\ stack' \in Seq(Frame)
      /\ \A s \in Promise : Running(s)' <=> Running(s) /\ s # t
      /\ t \in Promise /\ Running(t) /\ t \in tasks /\ t \notin dropped
      /\ \A i, j \in 1 .. Len(stack') :
            stack'[i].kind = "run" /\ stack'[j].kind = "run"
            /\ stack'[i].task = stack'[j].task => i = j
      /\ \A i \in 1 .. Len(stack') : stack'[i].kind = "run" => stack'[i].task \in Promise
  BY <1>1, <1>2, PopRuns
<1>4. ~Placed(Wake(t))
  BY <1>3, NoWakeup DEF Suspended
<1>5. awaits' \in [Promise -> Promise \cup {None}] /\ awaits'[t] = None
      /\ \A s \in Promise : s # t => awaits'[s] = awaits[s]
  BY <1>2, <1>3 DEF SchedulerTyped
<1>6. LinksStay
  BY <1>2, <1>4, <1>5 DEF LinksStay
<1>7. /\ \A p : Settled(p)' <=> Settled(p)
      /\ \A m, p : Attached(m, p)' <=> Attached(m, p)
      /\ \A m : Called(m)' <=> Called(m)
      /\ \A m \in Listener : Home(m)' = Home(m) /\ Waits(m) => Waits(m)'
  BY <1>6, LinksHaveEffects
<1>8. ListenersInv' /\ AdoptersInv' /\ NoCircle' /\ DeliveryInv'
  <2>1. returned' = returned
        /\ \A i \in 1 .. Len(ready') : \E j \in 1 .. Len(ready) : ready'[i] = ready[j]
    BY <1>2
  <2> QED
    BY <2>1, <1>5, <1>6, LinksKeep
<1>9. \A s \in Promise : Suspended(s)' <=> Suspended(s)
  BY <1>2, <1>3 DEF Suspended
<1>10. WakeupsInv'
  <2>1. \A s \in Promise : Suspended(s) /\ Waits(Wake(s)) => Waits(Wake(s))'
    <3> SUFFICES ASSUME NEW s \in Promise, Suspended(s), Waits(Wake(s))
                 PROVE  Waits(Wake(s))'
      OBVIOUS
    <3>1. s # t
      BY <1>3 DEF Suspended
    <3>2. Wake(s) \in Listener /\ Home(Wake(s))' = Home(Wake(s))
      BY <3>1, <1>5, ListenerForms, Homes
    <3> QED
      BY <3>2, <1>7
  <2>2. /\ \A s, p \in Promise : Attached(Wake(s), p)' => Placed(Wake(s))
        /\ \A s \in Promise : Called(Wake(s))' => Placed(Wake(s))
    BY <1>7 DEF Placed
  <2>3. ready' = ready
    BY <1>2
  <2> QED
    BY <2>1, <2>2, <2>3, <1>9, WakeupsStay
<1>11. PromisesInv'
  <2>1. kind[t] # "free"
    BY <1>3 DEF TasksInv
  <2> QED
    BY <2>1, <1>2, <1>7 DEF PromisesInv, Made
<1>12. TasksInv'
  BY <1>2, <1>3 DEF TasksInv
<1>13. FailuresInv'
  BY <1>2, <1>7 DEF FailuresInv, Kept, Failed
<1>14. SchedulerTyped'
  <2>1. mode' \in {"host", "pump", "reset"} /\ steps' \in 0 .. Budget
    BY SchedulerAssumption DEF HostError, SchedulerTyped
  <2> QED
    BY <2>1, <1>2, <1>3, <1>5 DEF SchedulerTyped
<1> QED
  BY <1>8, <1>10, <1>11, <1>12, <1>13, <1>14

(* The head of the queue of ready tasks is always a task that can run.      *)
LEMMA PumpStepKeeps == ASSUME SchedulerInv, PumpStep PROVE SchedulerInv'
<1> USE DEF SchedulerInv
<1>1. PICK t : t = Head(ready).task
  OBVIOUS
<1>2. /\ Len(ready) \in Nat /\ 1 \in 1 .. Len(ready) /\ Head(ready) = ready[1]
      /\ Tail(ready) \in Seq(ReadyRecord) /\ Len(Tail(ready)) = Len(ready) - 1
      /\ \A i \in 1 .. Len(Tail(ready)) : Tail(ready)[i] = ready[i + 1]
  <2>1. ready \in Seq(ReadyRecord) /\ ready # <<>>
    BY DEF SchedulerTyped, PumpStep
  <2>2. Len(ready) \in Nat /\ Len(ready) > 0
    BY <2>1, EmptySeq, LenProperties
  <2> QED
    BY <2>1, <2>2, HeadTailProperties
<1>3. t \in Promise /\ Suspended(t) /\ IsReady(t)
  BY <1>1, <1>2, ReadyFields DEF WakeupsInv, IsReady
<1>4. PICK rest : rest = Tail(ready)
  OBVIOUS
<1>5. /\ stack = <<>> /\ steps < Budget /\ t \in tasks
      /\ ready' = rest /\ steps' = steps + 1
      /\ stack' = <<[kind |-> "run", task |-> t]>>
      /\ awaits' = [awaits EXCEPT ![t] = None]
      /\ UNCHANGED <<kind, promise, pending, tasks, notifications, mode, closing, errors,
                     returned, dropped, reported>>
  BY <1>1, <1>3, <1>4 DEF PumpStep, Driving, Suspended
<1>6. /\ stack' \in Seq(Frame)
      /\ \A s \in Promise : Running(s)' <=> Running(s) \/ s = t
      /\ \A i, j \in 1 .. Len(stack') :
            stack'[i].kind = "run" /\ stack'[j].kind = "run"
            /\ stack'[i].task = stack'[j].task => i = j
      /\ \A i \in 1 .. Len(stack') : stack'[i].kind = "run" => stack'[i].task \in Promise
  <2> DEFINE f == [kind |-> "run", task |-> t]
  <2>1. f \in Frame /\ f.kind = "run" /\ f.task = t /\ stack' = Append(stack, f)
    BY <1>3, <1>5 DEF Frame
  <2> HIDE DEF f
  <2>2. f.kind = "run" => f.task \in Promise /\ ~Running(f.task)
    BY <2>1, <1>3 DEF Suspended
  <2> QED
    BY <2>1, <2>2, PushRuns
<1>7. ~Placed(Wake(t))
  BY <1>3, NoWakeup
<1>8. awaits' \in [Promise -> Promise \cup {None}] /\ awaits'[t] = None
      /\ \A s \in Promise : s # t => awaits'[s] = awaits[s]
  BY <1>3, <1>5 DEF SchedulerTyped
<1>9. LinksStay
  BY <1>5, <1>7, <1>8 DEF LinksStay
<1>10. /\ \A p : Settled(p)' <=> Settled(p)
       /\ \A m, p : Attached(m, p)' <=> Attached(m, p)
       /\ \A m : Called(m)' <=> Called(m)
       /\ \A m \in Listener : Home(m)' = Home(m) /\ Waits(m) => Waits(m)'
  BY <1>9, LinksHaveEffects
<1>11. /\ \A i \in 1 .. Len(ready') : i + 1 \in 1 .. Len(ready) /\ ready'[i] = ready[i + 1]
       /\ \A i \in 1 .. Len(ready) : i = 1 \/ (i - 1 \in 1 .. Len(ready') /\ ready'[i - 1] = ready[i])
  <2>1. \A i \in 1 .. Len(ready) : i # 1 => i - 1 \in 1 .. Len(ready) - 1 /\ (i - 1) + 1 = i
    BY <1>2
  <2> QED
    BY <2>1, <1>2, <1>4, <1>5
<1>12. ListenersInv' /\ AdoptersInv' /\ NoCircle' /\ DeliveryInv'
  <2>1. returned' = returned
        /\ \A i \in 1 .. Len(ready') : \E j \in 1 .. Len(ready) : ready'[i] = ready[j]
    BY <1>5, <1>11
  <2> QED
    BY <2>1, <1>8, <1>9, LinksKeep
<1>13. /\ \A s \in Promise : Suspended(s)' <=> Suspended(s) /\ s # t
       /\ \A s \in Promise : IsReady(s)' <=> IsReady(s) /\ s # t
  <2>1. \A s \in Promise : Suspended(s)' <=> Suspended(s) /\ s # t
    BY <1>3, <1>5, <1>6 DEF Suspended
  <2>2. ASSUME NEW s \in Promise, NEW i \in 1 .. Len(ready'), ready'[i].task = s
        PROVE  IsReady(s) /\ s # t
    <3>1. i + 1 \in 1 .. Len(ready) /\ ready[i + 1].task = s /\ i + 1 # 1
      BY <1>2, <1>11, <2>2
    <3> QED
      BY <3>1, <1>1, <1>2 DEF WakeupsInv, IsReady
  <2>3. ASSUME NEW s \in Promise, NEW i \in 1 .. Len(ready), ready[i].task = s, s # t
        PROVE  IsReady(s)'
    <3>1. i - 1 \in 1 .. Len(ready') /\ ready'[i - 1].task = s
      BY <1>1, <1>2, <1>11, <2>3
    <3> QED
      BY <3>1 DEF IsReady
  <2> QED
    BY <2>1, <2>2, <2>3 DEF IsReady
<1>14. WakeupsInv'
  <2>1. ASSUME NEW s \in Promise, Suspended(s)'
        PROVE  IsReady(s)' \/ Waits(Wake(s))'
    <3>1. Suspended(s) /\ s # t
      BY <2>1, <1>13
    <3>2. Wake(s) \in Listener /\ Home(Wake(s))' = Home(Wake(s))
      BY <3>1, <1>8, ListenerForms, Homes
    <3> QED
      BY <3>1, <3>2, <1>10, <1>13 DEF WakeupsInv
  <2>2. ASSUME NEW i \in 1 .. Len(ready')
        PROVE  Suspended(ready[i].task)'
    <3>1. PICK s \in Promise : s = ready[i + 1].task
      BY <1>11, ReadyFields
    <3>2. ready'[i].task = s /\ Suspended(s) /\ IsReady(s)'
      BY <3>1, <1>11 DEF WakeupsInv, IsReady
    <3>3. Suspended(s)'
      BY <3>2, <1>13
    <3> QED
      BY <3>2, <3>3
  <2>3. ASSUME NEW i \in 1 .. Len(ready'), NEW j \in 1 .. Len(ready'),
               ready'[i].task = ready'[j].task
        PROVE  i = j
    <3>1. i + 1 = j + 1
      BY <2>3, <1>11 DEF WakeupsInv
    <3> QED
      BY <3>1, <1>2
  <2>4. \A s \in Promise, p \in Promise :
           Attached(Wake(s), p)' \/ Called(Wake(s))' => Suspended(s)' /\ ~IsReady(s)'
    <3> SUFFICES ASSUME NEW s \in Promise, NEW p \in Promise,
                        Attached(Wake(s), p) \/ Called(Wake(s))
                 PROVE  Suspended(s)' /\ ~IsReady(s)'
      BY <1>10
    <3>1. s # t
      BY <1>7 DEF Placed
    <3> QED
      BY <3>1, <1>13 DEF WakeupsInv
  <2> QED
    BY <2>1, <2>2, <2>3, <2>4 DEF WakeupsInv
<1>15. PromisesInv'
  BY <1>5, <1>10 DEF PromisesInv, Made
<1>16. TasksInv'
  BY <1>3, <1>5, <1>6 DEF TasksInv, Suspended
<1>17. FailuresInv'
  BY <1>5, <1>10 DEF FailuresInv, Kept, Failed
<1>18. SchedulerTyped'
  BY <1>2, <1>4, <1>5, <1>6, <1>8, SchedulerAssumption DEF SchedulerTyped
<1> QED
  BY <1>12, <1>14, <1>15, <1>16, <1>17, <1>18
-----------------------------------------------------------------------------
(* Resolving and rejecting. *)

(* What a step that settles, adopts or leaves alone the promise p keeps.    *)
PromiseStep(p) ==
    /\ promise' \in [Promise -> PromiseRecord] /\ pending' \subseteq Promise
    /\ notifications' \in Seq(Notification)
    /\ returned' \in [Promise -> Promise \cup {None}]
    /\ PromisesInv' /\ ListenersInv' /\ AdoptersInv' /\ NoCircle' /\ FailuresInv'
    /\ DeliveryInv'
    /\ \A t \in Promise : awaits'[t] = awaits[t] /\ Waits(Wake(t)) => Waits(Wake(t))'
    /\ \A t, x \in Promise : Attached(Wake(t), x)' => Placed(Wake(t))
    /\ \A t \in Promise : Called(Wake(t))' => Placed(Wake(t))
    /\ \A x \in Promise : x # p => promise'[x].claimed = promise[x].claimed
    /\ \A x \in Promise : Settled(x) => promise'[x].outcome = promise[x].outcome

(* An outcome given to a promise that has none. *)
LEMMA SettleIsPromiseStep ==
    ASSUME SchedulerInv, NEW p \in Promise, NEW outcome, NEW rest,
           Settles(p, outcome, rest), SettlesAsReturned(p, outcome),
           returned' \in [Promise -> Promise \cup {None}]
    PROVE  PromiseStep(p)
<1> USE DEF SchedulerInv
<1>1. SettleEffects(p, outcome, rest)
  BY SettleHasEffects
<1>2. SettleMoved(p, outcome, rest)
  BY <1>1 DEF SettleEffects
<1>3. /\ promise' \in [Promise -> PromiseRecord] /\ pending' \subseteq Promise
      /\ notifications' \in Seq(Notification)
      /\ PromisesInv' /\ ListenersInv' /\ AdoptersInv' /\ NoCircle' /\ FailuresInv'
  BY SettleKeepsPromises
<1>4. DeliveryInv'
  BY SettleDelivers
<1>5. \A t \in Promise : awaits'[t] = awaits[t] /\ Waits(Wake(t)) => Waits(Wake(t))'
  BY <1>1, ListenerForms, Homes DEF SettleEffects
<1>6. /\ \A t, x \in Promise : Attached(Wake(t), x)' => Placed(Wake(t))
      /\ \A t \in Promise : Called(Wake(t))' => Placed(Wake(t))
  BY <1>1, ListenerForms DEF SettleEffects, Placed, Settles
<1>7. /\ \A x \in Promise : x # p => promise'[x].claimed = promise[x].claimed
      /\ \A x \in Promise : Settled(x) => promise'[x].outcome = promise[x].outcome
  BY <1>2 DEF SettleMoved, Settles
<1> QED
  BY <1>3, <1>4, <1>5, <1>6, <1>7 DEF PromiseStep

(* A promise adopts another one that is pending and does not depend on it.  *)
Adopts(p, q) ==
    /\ q \in Made /\ ~Settled(q) /\ ~promise[p].claimed /\ p \notin Chain(q)
    /\ kind[p] # "free"
    /\ promise' = [promise EXCEPT ![p].claimed = TRUE,
                                  ![p].adopting = q,
                                  ![q].listeners = Append(@, Adopt(p))]
    /\ returned' = [returned EXCEPT ![p] = q]
    /\ \A t \in Promise :
          awaits'[t] = awaits[t] \/ (awaits'[t] = None /\ ~Placed(Wake(t)))
    /\ UNCHANGED <<pending, notifications, kind, dropped, reported, errors, ready>>

(* Chain(q) holds q and is closed under adopting, so what is not in it can   *)
(* adopt q without a circle.                                                *)
LEMMA ChainWalk ==
    ASSUME NEW p \in Promise, NEW q \in Promise, p \notin Chain(q)
    PROVE  \E walk \in SUBSET Promise :
              /\ q \in walk /\ p \notin walk
              /\ \A x \in walk : promise[x].adopting \in walk \cup {None}
BY DEF Chain

(* A promise is resolved with another, which it then follows. *)
LEMMA AdoptIsPromiseStep ==
    ASSUME SchedulerInv, NEW p \in Promise, NEW q, Adopts(p, q)
    PROVE  PromiseStep(p)
<1> USE DEF SchedulerInv
<1>1. q \in Promise /\ q # None
  BY PromisesAreNamed DEF Adopts, Made
<1>2. PICK walk \in SUBSET Promise :
         /\ q \in walk /\ p \notin walk
         /\ \A x \in walk : promise[x].adopting \in walk \cup {None}
  BY <1>1, ChainWalk DEF Adopts
<1>3. p # q
  BY <1>2
<1>4. ~Settled(p) /\ promise[p].adopting = None
  BY DEF Adopts, PromisesInv
<1>5. promise \in [Promise -> PromiseRecord]
  BY DEF SchedulerTyped
<1>6. PICK ls : ls = Append(promise[q].listeners, Adopt(p))
  OBVIOUS
<1>7. ls \in Seq(Listener)
  BY <1>1, <1>6, PromiseFields, ListenerForms, AppendProperties
<1>8. /\ promise' \in [Promise -> PromiseRecord]
      /\ promise'[p] = [promise[p] EXCEPT !.claimed = TRUE, !.adopting = q]
      /\ promise'[q] = [promise[q] EXCEPT !.listeners = ls]
      /\ \A x \in Promise : x # p /\ x # q => promise'[x] = promise[x]
  <2> DEFINE a == [promise[p] EXCEPT !.claimed = TRUE, !.adopting = q]
             b == [promise[q] EXCEPT !.listeners = ls]
  <2>1. a \in PromiseRecord /\ b \in PromiseRecord
    BY <1>1, <1>5, <1>7 DEF PromiseRecord
  <2>2. promise' = [[promise EXCEPT ![p] = a] EXCEPT ![q] = b]
    BY <1>1, <1>3, <1>5, <1>6 DEF Adopts
  <2> HIDE DEF a, b
  <2>3. /\ promise' \in [Promise -> PromiseRecord] /\ promise'[p] = a /\ promise'[q] = b
        /\ \A x \in Promise : x # p /\ x # q => promise'[x] = promise[x]
    BY <2>1, <2>2, <1>1, <1>3, <1>5
  <2> QED
    BY <2>3 DEF a, b
<1>9. /\ promise'[p].claimed = TRUE /\ promise'[p].adopting = q
      /\ promise'[p].outcome = promise[p].outcome
      /\ promise'[p].listeners = promise[p].listeners
      /\ promise'[q].listeners = ls /\ promise'[q].outcome = promise[q].outcome
      /\ promise'[q].claimed = promise[q].claimed
      /\ promise'[q].adopting = promise[q].adopting
  BY <1>1, <1>5, <1>8 DEF PromiseRecord
<1>10. \A x \in Promise : x # p =>
          promise'[x].adopting = promise[x].adopting
          /\ promise'[x].claimed = promise[x].claimed
  BY <1>8, <1>9
<1>11. \A x \in Promise : promise'[x].outcome = promise[x].outcome
  BY <1>8, <1>9
<1>12. Attaches(Adopt(p), q)
  <2>1. ~Placed(Adopt(p))
    BY <1>4, NowherePlaced, ListenerForms, Homes, PromisesAreNamed
  <2>2. Home(Adopt(p))' = q
    BY <1>9, Homes
  <2>3. \A m \in Listener : m # Adopt(p) /\ Placed(m) => Home(m)' = Home(m)
    <3> TAKE m \in Listener
    <3>1. CASE m = Wake(m.for)
      BY <3>1, ListenerForms, Homes DEF Adopts
    <3>2. CASE m = Record(m.for)
      BY <3>2, ListenerForms, Homes
    <3>3. CASE m = Adopt(m.for)
      BY <3>3, <1>10, ListenerForms, Homes
    <3> QED
      BY <3>1, <3>2, <3>3, ListenerForms
  <2>4. \A x \in Promise : x # q => promise'[x].listeners = promise[x].listeners
    BY <1>8, <1>9
  <2> QED
    BY <2>1, <2>2, <2>3, <2>4, <1>6, <1>9, <1>11 DEF Attaches, Adopts
<1>13. AttachEffects(Adopt(p), q)
  BY <1>1, <1>12, AttachHasEffects, ListenerForms
<1>14. /\ \A x \in Promise : Settled(x)' <=> Settled(x)
       /\ \A x \in Promise, m \in Listener :
             Attached(m, x)' <=> Attached(m, x) \/ (m = Adopt(p) /\ x = q)
       /\ \A m : Called(m)' <=> Called(m)
       /\ ListenersInv'
       /\ \A m \in Listener : m # Adopt(p) /\ Waits(m) => Waits(m)'
       /\ Waits(Adopt(p))'
  BY <1>13 DEF AttachEffects
<1>15. PromisesInv'
  <2>1. Made' = Made /\ pending' = pending /\ Made \subseteq Promise
    BY DEF Adopts, Made
  <2>2. \A x \in Promise : kind'[x] = "free" => promise'[x] = NewPromise /\ x \notin dropped'
    BY <1>8 DEF Adopts, Made, PromisesInv
  <2>3. \A x \in Promise : Settled(x)' =>
           promise'[x].claimed /\ promise'[x].adopting = None /\ promise'[x].listeners = <<>>
    BY <1>4, <1>8, <1>14 DEF Adopts, PromisesInv
  <2>4. \A x \in Promise : ~Settled(x)' =>
           (promise'[x].claimed <=> promise'[x].adopting # None)
    BY <1>1, <1>9, <1>10, <1>14 DEF PromisesInv
  <2>5. pending' = {x \in Made' : ~Settled(x)'}
    BY <2>1, <1>14 DEF PromisesInv
  <2> QED
    BY <2>2, <2>3, <2>4, <2>5 DEF PromisesInv
<1>16. AdoptersInv'
  <2> SUFFICES ASSUME NEW x \in Promise, promise'[x].adopting # None
               PROVE  Waits(Adopt(x))'
    BY DEF AdoptersInv
  <2>1. CASE x = p
    BY <2>1, <1>14
  <2>2. CASE x # p
    BY <2>2, <1>10, <1>14, ListenerForms DEF AdoptersInv
  <2> QED
    BY <2>1, <2>2
<1>17. NoCircle'
  <2> SUFFICES ASSUME NEW circle \in (SUBSET Promise) \ {{}},
                      \A x \in circle : promise'[x].adopting \in circle
               PROVE  FALSE
    BY DEF NoCircle
  <2>1. CASE p \notin circle
    <3>1. \A x \in circle : promise[x].adopting \in circle
      BY <2>1, <1>10
    <3> QED
      BY <3>1 DEF NoCircle
  <2>2. CASE p \in circle
    <3>1. q \in circle
      BY <2>2, <1>9
    <3>2. \A x \in circle \cap walk : promise[x].adopting \in circle \cap walk
      <4> TAKE x \in circle \cap walk
      <4>1. x # p /\ promise[x].adopting \in circle
        BY <1>2, <1>10
      <4>2. promise[x].adopting # None
        BY <4>1, PromisesAreNamed
      <4> QED
        BY <4>1, <4>2, <1>2
    <3>3. circle \cap walk \in (SUBSET Promise) \ {{}}
      BY <3>1, <1>2
    <3> QED
      BY <3>2, <3>3 DEF NoCircle
  <2> QED
    BY <2>1, <2>2
<1>18. FailuresInv'
  <2>1. /\ \A x, y \in Promise : Attached(Record(x), y)' <=> Attached(Record(x), y)
        /\ \A x \in Promise : Called(Record(x))' <=> Called(Record(x))
    BY <1>14, ListenerForms
  <2>2. kind' = kind /\ reported' = reported /\ errors' = errors
    BY DEF Adopts
  <2> QED
    BY <2>1, <2>2, <1>11, <1>14 DEF FailuresInv, Kept, Failed
<1>19. /\ returned' \in [Promise -> Promise \cup {None}] /\ returned'[p] = q
       /\ \A x \in Promise : x # p => returned'[x] = returned[x]
  BY <1>1 DEF Adopts, SchedulerTyped
<1>20. DeliveryInv'
  <2>1. ASSUME NEW i \in 1 .. Len(ready'), awaits'[ready'[i].task] # None
        PROVE  /\ Settled(awaits[ready[i].task])'
               /\ ready'[i].outcome = promise'[awaits'[ready'[i].task]].outcome
    <3>1. ready' = ready
      BY DEF Adopts
    <3>2. PICK t \in Promise : t = ready[i].task
      BY <3>1, ReadyFields
    <3>3. awaits'[t] = awaits[t] /\ awaits[t] \in Promise
      BY <3>1, <3>2, <2>1 DEF Adopts, SchedulerTyped
    <3>4. Settled(awaits[t]) /\ ready[i].outcome = promise[awaits[t]].outcome
      BY <3>1, <3>2, <3>3, <2>1 DEF DeliveryInv
    <3>5. PICK x \in Promise : x = awaits[t]
      BY <3>3
    <3>6. Settled(x)' /\ promise'[x].outcome = promise[x].outcome
      BY <3>4, <3>5, <1>11, <1>14
    <3> QED
      BY <3>1, <3>2, <3>3, <3>4, <3>5, <3>6
  <2>2. \A x \in Promise : returned'[x] # None =>
           /\ promise'[x].claimed
           /\ ~Settled(x)' => promise'[x].adopting = returned'[x]
    BY <1>9, <1>10, <1>14, <1>19 DEF DeliveryInv
  <2>3. AdoptedOutcome'
    <3> SUFFICES ASSUME NEW x \in Promise, returned'[x] # None, Settled(x)'
                 PROVE  \/ promise'[x].outcome = promise'[returned'[x]].outcome
                        \/ /\ promise'[x].outcome.why = "reset"
                           /\ promise'[returned'[x]].outcome.why = "reset"
      BY DEF AdoptedOutcome
    <3>1. x # p /\ returned'[x] = returned[x] /\ returned[x] \in Promise /\ Settled(x)
      BY <1>4, <1>14, <1>19
    <3> QED
      BY <3>1, <1>11 DEF DeliveryInv, AdoptedOutcome
  <2> QED
    BY <2>1, <2>2, <2>3 DEF DeliveryInv
<1>21. /\ \A t \in Promise : awaits'[t] = awaits[t] /\ Waits(Wake(t)) => Waits(Wake(t))'
       /\ \A t, x \in Promise : Attached(Wake(t), x)' => Placed(Wake(t))
       /\ \A t \in Promise : Called(Wake(t))' => Placed(Wake(t))
  BY <1>14, ListenerForms DEF Placed
<1>22. pending' \subseteq Promise /\ notifications' \in Seq(Notification)
  BY DEF Adopts, SchedulerTyped
<1> QED
  BY <1>8, <1>10, <1>11, <1>14, <1>15, <1>16, <1>17, <1>18, <1>19, <1>20, <1>21, <1>22
     DEF PromiseStep
(* What surrounds the settling, adopting or ignoring of a promise. *)
Around ==
    /\ \A t \in Promise :
          awaits'[t] = awaits[t] \/ (awaits'[t] = None /\ ~Placed(Wake(t)))
    /\ UNCHANGED <<kind, dropped, reported, errors, ready>>

(* A promise that is left alone is a step of it, too. *)
LEMMA StayIsPromiseStep ==
    ASSUME SchedulerInv, NEW p \in Promise, Around,
           UNCHANGED <<promise, pending, notifications, returned>>
    PROVE  PromiseStep(p)
<1> USE DEF SchedulerInv
<1>1. LinksStay
  BY DEF LinksStay, Around
<1>2. /\ \A x : Settled(x)' <=> Settled(x)
      /\ \A m, x : Attached(m, x)' <=> Attached(m, x)
      /\ \A m : Called(m)' <=> Called(m)
      /\ \A m \in Listener : Home(m)' = Home(m) /\ Waits(m) => Waits(m)'
  BY <1>1, LinksHaveEffects
<1>3. ListenersInv' /\ AdoptersInv' /\ NoCircle' /\ DeliveryInv'
  BY <1>1, LinksKeep DEF Around
<1>4. PromisesInv'
  BY <1>2 DEF PromisesInv, Made, Around
<1>5. FailuresInv'
  BY <1>2 DEF FailuresInv, Kept, Failed, Around
<1>6. /\ \A t \in Promise : awaits'[t] = awaits[t] /\ Waits(Wake(t)) => Waits(Wake(t))'
      /\ \A t, x \in Promise : Attached(Wake(t), x)' => Placed(Wake(t))
      /\ \A t \in Promise : Called(Wake(t))' => Placed(Wake(t))
  BY <1>2, ListenerForms, Homes DEF Placed
<1>7. /\ promise' \in [Promise -> PromiseRecord] /\ pending' \subseteq Promise
      /\ notifications' \in Seq(Notification)
      /\ returned' \in [Promise -> Promise \cup {None}]
  BY DEF SchedulerTyped
<1> QED
  BY <1>3, <1>4, <1>5, <1>6, <1>7 DEF PromiseStep

(* An unclaimed promise is settled while the queue is empty.                *)
LEMMA QuietSettleIsPromiseStep ==
    ASSUME SchedulerInv, Quiet, Around, NEW p \in Promise, ~promise[p].claimed,
           kind[p] # "free", NEW outcome \in Outcome, outcome # Pending,
           Settle(p, outcome, <<>>), SettlesAsReturned(p, outcome),
           returned' \in [Promise -> Promise \cup {None}]
    PROVE  PromiseStep(p)
<1> USE DEF SchedulerInv
<1>1. ~Settled(p) /\ promise[p].adopting = None
  BY DEF PromisesInv
<1>2. ~Placed(Adopt(p))
  BY <1>1, NowherePlaced, ListenerForms, Homes, PromisesAreNamed
<1>3. <<>> \in Seq(Notification) /\ 1 .. Len(<<>>) = {}
  BY EmptySeq
<1>4. Sound(<<>>) /\ \A l : ~CalledIn(l, <<>>) /\ ~Called(l)
  BY <1>3 DEF Sound, CalledIn, Called, Quiet
<1>5. Settles(p, outcome, <<>>)
  BY <1>1, <1>2, <1>3, <1>4 DEF Settles, Placed, Around
<1> QED
  BY <1>5, SettleIsPromiseStep

(* What a promise may be settled with is an outcome, and is not Pending. *)
LEMMA OutcomesTyped ==
    /\ \A p \in Promise : Value(p) \in Outcome /\ Value(p) # Pending
    /\ \A p \in Promise, why \in {"own", "foreign", "cyclic", "self", "reset"} :
          Error(p, why) \in Outcome /\ Error(p, why) # Pending
BY DEF Value, Error, Outcome, Pending

(* A promise is rejected with its own error. *)
LEMMA RejectIsPromiseStep ==
    ASSUME SchedulerInv, Quiet, Around, NEW p \in Promise, kind[p] # "free", Reject(p)
    PROVE  PromiseStep(p)
<1> USE DEF SchedulerInv
<1>1. returned' = returned
  BY DEF Reject
<1>2. CASE promise[p].claimed
  BY <1>1, <1>2, StayIsPromiseStep DEF Reject
<1>3. CASE ~promise[p].claimed
  <2>1. Settle(p, Error(p, "own"), <<>>)
    BY <1>3 DEF Reject
  <2>2. returned'[p] = None
    BY <1>1, <1>3 DEF DeliveryInv
  <2>3. SettlesAsReturned(p, Error(p, "own"))
    BY <1>1, <2>2 DEF SettlesAsReturned
  <2>4. returned' \in [Promise -> Promise \cup {None}]
    BY <1>1 DEF SchedulerTyped
  <2> QED
    BY <1>3, <2>1, <2>3, <2>4, OutcomesTyped, QuietSettleIsPromiseStep
<1> QED
  BY <1>2, <1>3

(* A promise is resolved: with a value, an error or another promise. *)
LEMMA ResolveIsPromiseStep ==
    ASSUME SchedulerInv, Quiet, Around, NEW p \in Promise, kind[p] # "free",
           NEW q \in Made \cup {None, Foreign}, Resolve(p, q)
    PROVE  PromiseStep(p)
<1> USE DEF SchedulerInv
<1>1. Made \subseteq Promise /\ None \notin Promise /\ Foreign \notin Promise
  BY PromisesAreNamed DEF Made
<1>2. returned \in [Promise -> Promise \cup {None}]
  BY DEF SchedulerTyped
<1>3. CASE promise[p].claimed
  <2>1. UNCHANGED <<promise, pending, notifications, returned>>
    BY <1>3 DEF Resolve, Adopted
  <2> QED
    BY <2>1, StayIsPromiseStep
<1>4. CASE ~promise[p].claimed
  <2>1. returned[p] = None
    BY <1>4 DEF DeliveryInv
  (* What is not an adoption leaves returned as it was. *)
  <2>2. ASSUME ~Adopted(p, q), NEW outcome
        PROVE  SettlesAsReturned(p, outcome) /\ returned' \in [Promise -> Promise \cup {None}]
    <3>1. returned' = returned
      BY <2>2 DEF Resolve
    <3> QED
      BY <3>1, <2>1, <1>2 DEF SettlesAsReturned
  <2>3. CASE q = None
    <3>1. Settle(p, Value(p), <<>>) /\ ~Adopted(p, q)
      BY <1>1, <1>4, <2>3 DEF Resolve, Adopted
    <3> QED
      BY <3>1, <2>2, <1>4, OutcomesTyped, QuietSettleIsPromiseStep
  <2>4. CASE q = Foreign
    <3>1. AdoptPromise(p, q) /\ ~Adopted(p, q)
      BY <1>1, <1>4, <2>4 DEF Resolve, Adopted
    <3>2. Settle(p, Error(p, "foreign"), <<>>)
      BY <3>1, <2>4 DEF AdoptPromise
    <3> QED
      BY <3>1, <3>2, <2>2, <1>4, OutcomesTyped, QuietSettleIsPromiseStep
  <2>5. CASE q \in Made /\ p \in Chain(q)
    <3>1. AdoptPromise(p, q) /\ ~Adopted(p, q) /\ q # Foreign
      BY <1>1, <1>4, <2>5 DEF Resolve, Adopted
    <3>2. Settle(p, Error(p, "cyclic"), <<>>)
      BY <3>1, <2>5 DEF AdoptPromise
    <3> QED
      BY <3>1, <3>2, <2>2, <1>4, OutcomesTyped, QuietSettleIsPromiseStep
  <2>6. CASE q \in Made /\ p \notin Chain(q)
    <3>1. /\ AdoptPromise(p, q) /\ q # Foreign /\ q \in Promise
          /\ returned' = [returned EXCEPT ![p] = q]
      BY <1>1, <1>4, <2>6 DEF Resolve, Adopted
    <3>2. /\ returned' \in [Promise -> Promise \cup {None}] /\ returned'[p] = q
          /\ \A x \in Promise : x # p => returned'[x] = returned[x]
      BY <3>1, <1>2
    <3>3. CASE Settled(q)
      <4>1. Settle(p, promise[q].outcome, <<>>)
        BY <3>1, <3>3, <2>6 DEF AdoptPromise
      <4>2. PICK outcome : outcome = promise[q].outcome
        OBVIOUS
      <4>3. outcome \in Outcome /\ outcome # Pending /\ Settle(p, outcome, <<>>)
        BY <4>1, <4>2, <3>1, <3>3, PromiseFields DEF Settled
      <4>4. q # p
        BY <3>3, <1>4 DEF PromisesInv
      <4>5. SettlesAsReturned(p, outcome)
        BY <4>2, <4>4, <3>1, <3>2 DEF SettlesAsReturned
      <4> QED
        BY <4>3, <4>5, <3>2, <1>4, QuietSettleIsPromiseStep
    <3>4. CASE ~Settled(q)
      <4>1. /\ promise' = [promise EXCEPT ![p].claimed = TRUE,
                                          ![p].adopting = q,
                                          ![q].listeners = Append(@, Adopt(p))]
            /\ UNCHANGED <<pending, notifications>>
        BY <3>1, <3>4, <2>6 DEF AdoptPromise
      <4>2. Adopts(p, q)
        BY <4>1, <3>1, <3>4, <2>6, <1>4 DEF Adopts, Around
      <4> QED
        BY <4>2, AdoptIsPromiseStep
    <3> QED
      BY <3>3, <3>4
  <2> QED
    BY <2>3, <2>4, <2>5, <2>6
<1> QED
  BY <1>3, <1>4

(* A step on a promise that is no task's own. *)
LEMMA PromiseStepKeeps ==
    ASSUME SchedulerInv, NEW p \in Promise, p \notin tasks, PromiseStep(p),
           UNCHANGED <<kind, tasks, ready, stack, mode, steps, closing, errors, awaits,
                       dropped, reported>>
    PROVE  SchedulerInv'
<1> USE DEF SchedulerInv
<1>1. \A t \in tasks : promise'[t].claimed = promise[t].claimed
  BY DEF PromiseStep, SchedulerTyped
<1>2. TasksInv' /\ \A t : Suspended(t)' <=> Suspended(t)
  BY <1>1, TasksStay
<1>3. WakeupsInv'
  <2>1. /\ \A t \in Promise : Waits(Wake(t)) => Waits(Wake(t))'
        /\ \A t, x \in Promise : Attached(Wake(t), x)' => Placed(Wake(t))
        /\ \A t \in Promise : Called(Wake(t))' => Placed(Wake(t))
    BY DEF PromiseStep
  <2> QED
    BY <2>1, <1>2, WakeupsStay
<1>4. SchedulerTyped'
  BY DEF PromiseStep, SchedulerTyped
<1> QED
  BY <1>2, <1>3, <1>4 DEF PromiseStep

(* The owner of a signal settles it, perhaps again. *)
LEMMA SettleSignalKeeps ==
    ASSUME SchedulerInv, NEW p \in Promise, SettleSignal(p)
    PROVE  PromiseStep(p) /\ SchedulerInv'
<1>1. /\ Quiet /\ kind[p] = "signal" /\ Around
      /\ UNCHANGED <<kind, tasks, ready, stack, mode, steps, closing, errors, awaits,
                     dropped, reported>>
  BY DEF SettleSignal, CodeRuns, Around
<1>2. p \notin tasks
  BY <1>1 DEF SchedulerInv, TasksInv
<1>3. CASE Reject(p)
  BY <1>1, <1>2, <1>3, RejectIsPromiseStep, PromiseStepKeeps
<1>4. ASSUME NEW q \in Made \cup {None, Foreign}, Resolve(p, q)
      PROVE  PromiseStep(p) /\ SchedulerInv'
  <2>1. PromiseStep(p)
    BY <1>1, <1>4, ResolveIsPromiseStep
  <2> QED
    BY <1>1, <1>2, <2>1, PromiseStepKeeps
<1> QED
  BY <1>3, <1>4 DEF SettleSignal

(* The body of a task ends: the task is no longer one, and settles.         *)
LEMMA FinishKeeps ==
    ASSUME SchedulerInv, Finish
    PROVE  PromiseStep(Top.task) /\ SchedulerInv'
<1> USE DEF SchedulerInv
<1>1. PICK t : t = Top.task
  OBVIOUS
<1>2. /\ Quiet /\ stack # <<>> /\ stack' = Pop /\ Top.kind = "run"
      /\ tasks' = tasks \ {t}
      /\ awaits' = [awaits EXCEPT ![t] = None]
      /\ UNCHANGED <<kind, ready, mode, steps, closing, errors, dropped, reported>>
  BY <1>1 DEF Finish, Runs
<1>3. /\ stack' \in Seq(Frame)
      /\ \A s \in Promise : Running(s)' <=> Running(s) /\ s # t
      /\ t \in Promise /\ Running(t) /\ t \in tasks /\ t \notin dropped
      /\ \A i, j \in 1 .. Len(stack') :
            stack'[i].kind = "run" /\ stack'[j].kind = "run"
            /\ stack'[i].task = stack'[j].task => i = j
      /\ \A i \in 1 .. Len(stack') : stack'[i].kind = "run" => stack'[i].task \in Promise
  BY <1>1, <1>2, PopRuns
<1>4. ~Placed(Wake(t)) /\ kind[t] # "free"
  BY <1>3, NoWakeup DEF Suspended, TasksInv
<1>5. awaits' \in [Promise -> Promise \cup {None}] /\ awaits'[t] = None
      /\ \A s \in Promise : s # t => awaits'[s] = awaits[s]
  BY <1>2, <1>3 DEF SchedulerTyped
<1>6. Around
  BY <1>2, <1>4, <1>5 DEF Around
<1>7. PromiseStep(t)
  <2>1. CASE Reject(t)
    BY <2>1, <1>2, <1>3, <1>4, <1>6, RejectIsPromiseStep
  <2>2. ASSUME NEW q \in Made \cup {None, Foreign}, Resolve(t, q)
        PROVE  PromiseStep(t)
    BY <2>2, <1>2, <1>3, <1>4, <1>6, ResolveIsPromiseStep
  <2>3. Reject(t) \/ \E q \in Made \cup {None, Foreign} : Resolve(t, q)
    BY <1>1 DEF Finish
  <2> QED
    BY <2>1, <2>2, <2>3
<1>8. \A s \in Promise : Suspended(s)' <=> Suspended(s)
  BY <1>2, <1>3 DEF Suspended
<1>9. WakeupsInv'
  <2>1. \A s \in Promise : Suspended(s) /\ Waits(Wake(s)) => Waits(Wake(s))'
    <3> SUFFICES ASSUME NEW s \in Promise, Suspended(s), Waits(Wake(s))
                 PROVE  Waits(Wake(s))'
      OBVIOUS
    <3>1. s # t
      BY <1>3 DEF Suspended
    <3> QED
      BY <3>1, <1>5, <1>7 DEF PromiseStep
  <2>2. /\ \A s, x \in Promise : Attached(Wake(s), x)' => Placed(Wake(s))
        /\ \A s \in Promise : Called(Wake(s))' => Placed(Wake(s))
    BY <1>7 DEF PromiseStep
  <2>3. ready' = ready
    BY <1>2
  <2> QED
    BY <2>1, <2>2, <2>3, <1>8, WakeupsStay
<1>10. TasksInv'
  <2>1. \A s \in tasks' : kind'[s] \in {"function", "procedure"} /\ ~promise'[s].claimed
    BY <1>2, <1>7 DEF PromiseStep, TasksInv, SchedulerTyped
  <2>2. \A s \in Promise : Running(s)' => s \in tasks' /\ s \notin dropped'
    BY <1>2, <1>3 DEF TasksInv
  <2> QED
    BY <2>1, <2>2, <1>3 DEF TasksInv
<1>11. SchedulerTyped'
  BY <1>2, <1>3, <1>5, <1>7 DEF SchedulerTyped, PromiseStep
<1> QED
  BY <1>1, <1>7, <1>9, <1>10, <1>11 DEF PromiseStep
-----------------------------------------------------------------------------
(* The drain of the queue. *)

(* A notification reaches a promise that follows the settled one. *)
LEMMA NotifyAdopts ==
    ASSUME SchedulerInv, Notify, Head(notifications).listener.does = "adopt"
    PROVE  /\ PromiseStep(Head(notifications).listener.for)
           /\ SchedulerInv'
<1> USE DEF SchedulerInv
<1>1. PICK l, source, rest : /\ l = Head(notifications).listener
                             /\ source = Head(notifications).source
                             /\ rest = Tail(notifications)
  OBVIOUS
<1>2. ~Quiet
  BY DEF Notify
<1>3. /\ rest \in Seq(Notification) /\ Sound(rest)
      /\ l \in Listener /\ source \in Promise
      /\ source = Home(l) /\ Settled(source) /\ Called(l)
      /\ \A m : CalledIn(m, rest) <=> Called(m) /\ m # l
  BY <1>1, <1>2, RestIsSound DEF Notification
<1>4. PICK p \in Promise : l = Adopt(p) /\ l.for = p
  BY <1>1, <1>3, ListenerForms
<1>5. promise[p].adopting = source /\ source # None
  BY <1>3, <1>4, Homes, PromisesAreNamed
<1>6. ~Settled(p) /\ source # p
  BY <1>3, <1>5 DEF PromisesInv
<1>7. PICK outcome : outcome = promise[source].outcome
  OBVIOUS
<1>8. outcome \in Outcome /\ outcome # Pending
  BY <1>3, <1>7, PromiseFields DEF Settled
<1>9. Settle(p, outcome, rest)
      /\ UNCHANGED <<kind, tasks, ready, stack, mode, steps, closing, errors, awaits,
                     returned, dropped, reported>>
  BY <1>1, <1>4, <1>7, ListenerForms DEF Notify
<1>10. \A q \in Promise : ~Attached(Adopt(p), q)
  <2>1. 1 .. Len(<<>>) = {}
    BY EmptySeq
  <2>2. \A q \in Promise : Attached(Adopt(p), q) => q = source
    BY <1>3, <1>4 DEF ListenersInv
  <2>3. promise[source].listeners = <<>>
    BY <1>3 DEF PromisesInv
  <2> QED
    BY <2>1, <2>2, <2>3 DEF Attached
<1>11. kind[p] # "free"
  BY <1>5 DEF PromisesInv, NewPromise
<1>12. Settles(p, outcome, rest)
  BY <1>3, <1>4, <1>6, <1>8, <1>9, <1>10, <1>11 DEF Settles
<1>13. SettlesAsReturned(p, outcome)
  BY <1>3, <1>5, <1>6, <1>7, <1>9 DEF SettlesAsReturned, DeliveryInv
<1>14. returned' \in [Promise -> Promise \cup {None}]
  BY <1>9 DEF SchedulerTyped
<1>15. PromiseStep(p)
  BY <1>12, <1>13, <1>14, SettleIsPromiseStep
<1>16. p \notin tasks
  BY <1>5, <1>6 DEF TasksInv, PromisesInv
<1> QED
  BY <1>1, <1>4, <1>9, <1>15, <1>16, PromiseStepKeeps

(* The head of the queue is called and the rest stays. *)
DrainEffects(l) ==
    /\ \A p : Settled(p)' <=> Settled(p)
    /\ \A m, p : Attached(m, p)' <=> Attached(m, p)
    /\ \A m : Called(m)' <=> Called(m) /\ m # l
    /\ PromisesInv' /\ ListenersInv' /\ NoCircle'
    /\ l.does # "adopt" => AdoptersInv'
    /\ \A m \in Listener : m # l /\ Waits(m) => Waits(m)'

(* A notification is taken off the queue. *)
LEMMA DrainHasEffects ==
    ASSUME SchedulerInv, ~Quiet, notifications' = Tail(notifications),
           UNCHANGED <<promise, pending, kind, awaits, dropped>>
    PROVE  DrainEffects(Head(notifications).listener) /\ notifications' \in Seq(Notification)
<1> USE DEF SchedulerInv
<1>1. PICK l, rest : l = Head(notifications).listener /\ rest = Tail(notifications)
  OBVIOUS
<1>2. /\ rest \in Seq(Notification) /\ Sound(rest)
      /\ \A m : CalledIn(m, rest) <=> Called(m) /\ m # l
  BY <1>1, RestIsSound
<1>3. notifications' = rest /\ promise' = promise /\ awaits' = awaits
  BY <1>1
<1>4. /\ \A p : Settled(p)' <=> Settled(p)
      /\ \A m, p : Attached(m, p)' <=> Attached(m, p)
      /\ \A m : Home(m)' = Home(m)
  BY <1>3 DEF Settled, Attached, Home
<1>5. \A m : Called(m)' <=> Called(m) /\ m # l
  BY <1>2, <1>3 DEF Called, CalledIn
<1>6. PromisesInv' /\ NoCircle'
  BY <1>4 DEF PromisesInv, NoCircle, Made
<1>7. Sound(notifications)'
  <2>1. ASSUME NEW i \in 1 .. Len(notifications')
        PROVE  (notifications[i].source = Home(notifications[i].listener)
                /\ Settled(notifications[i].source))'
    <3>1. PICK m, q : m = rest[i].listener /\ q = rest[i].source
      OBVIOUS
    <3>2. Home(m) = q /\ Settled(q)
      BY <3>1, <1>2, <1>3 DEF Sound
    <3>3. Home(m)' = q /\ Settled(q)'
      BY <3>2, <1>4
    <3> QED
      BY <3>1, <3>3, <1>3
  <2> QED
    BY <2>1, <1>2, <1>3 DEF Sound
<1>8. ListenersInv'
  BY <1>3, <1>4, <1>7 DEF ListenersInv
<1>9. \A m \in Listener : m # l /\ Waits(m) => Waits(m)'
  BY <1>4, <1>5 DEF Waits
<1>10. l.does # "adopt" => AdoptersInv'
  BY <1>3, <1>9, ListenerForms DEF AdoptersInv
<1> QED
  BY <1>1, <1>2, <1>3, <1>4, <1>5, <1>6, <1>8, <1>9, <1>10 DEF DrainEffects

(* A task that was not ready is put behind the ready ones. *)
ReadyGrows(t, outcome) ==
    /\ ready' \in Seq(ReadyRecord)
    /\ \A s \in Promise : IsReady(s)' <=> IsReady(s) \/ s = t
    /\ \A i \in 1 .. Len(ready') :
          \/ i \in 1 .. Len(ready) /\ ready'[i] = ready[i] /\ ready[i].task # t
          \/ ready'[i] = [task |-> t, outcome |-> outcome]
    /\ \A i, j \in 1 .. Len(ready') : ready'[i].task = ready'[j].task => i = j

(* A task is put at the end of the ready queue. *)
LEMMA AppendGrowsReady ==
    ASSUME SchedulerTyped, WakeupsInv, NEW t \in Promise, NEW outcome \in Outcome,
           ~IsReady(t), ready' = Append(ready, [task |-> t, outcome |-> outcome])
    PROVE  ReadyGrows(t, outcome)
<1> DEFINE r == [task |-> t, outcome |-> outcome]
<1>1. ready \in Seq(ReadyRecord) /\ Len(ready) \in Nat
      /\ \A i \in 1 .. Len(ready) : ready[i].task \in Promise
  BY ReadyFields
<1>2. r \in ReadyRecord /\ r.task = t
  BY DEF ReadyRecord
<1> HIDE DEF r
<1>3. PICK n \in Nat : n = Len(ready)
  BY <1>1
<1>4. /\ ready' \in Seq(ReadyRecord) /\ Len(ready') = n + 1 /\ ready'[n + 1] = r
      /\ \A i \in 1 .. n : ready'[i] = ready[i]
  <2>1. ready' = Append(ready, r)
    BY DEF r
  <2> QED
    BY <2>1, <1>1, <1>2, <1>3, AppendProperties
<1>5. /\ \A i \in 1 .. n + 1 : i \in 1 .. n \/ i = n + 1
      /\ \A i \in 1 .. n : i \in 1 .. n + 1 /\ i # n + 1
      /\ n + 1 \in 1 .. n + 1
  OBVIOUS
<1>6. \A i \in 1 .. n : ready[i].task # t
  BY <1>3 DEF IsReady
<1>7. \A s \in Promise : IsReady(s)' <=> IsReady(s) \/ s = t
  <2> TAKE s \in Promise
  <2>1. IsReady(s)' <=> \E i \in 1 .. n + 1 : ready'[i].task = s
    BY <1>4 DEF IsReady
  <2>2. IsReady(s) <=> \E i \in 1 .. n : ready[i].task = s
    BY <1>3 DEF IsReady
  <2> QED
    BY <2>1, <2>2, <1>2, <1>4, <1>5
<1>8. \A i \in 1 .. Len(ready') :
         \/ i \in 1 .. Len(ready) /\ ready'[i] = ready[i] /\ ready[i].task # t
         \/ ready'[i] = r
  BY <1>3, <1>4, <1>5, <1>6
<1>9. \A i, j \in 1 .. Len(ready') : ready'[i].task = ready'[j].task => i = j
  <2> SUFFICES ASSUME NEW i \in 1 .. n + 1, NEW j \in 1 .. n + 1,
                      ready'[i].task = ready'[j].task
               PROVE  i = j
    BY <1>4
  <2>1. CASE i \in 1 .. n /\ j \in 1 .. n
    BY <2>1, <1>3, <1>4 DEF WakeupsInv
  <2>2. CASE i = n + 1 \/ j = n + 1
    BY <2>2, <1>2, <1>4, <1>5, <1>6
  <2> QED
    BY <2>1, <2>2, <1>5
<1> QED
  BY <1>4, <1>7, <1>8, <1>9 DEF ReadyGrows, r

(* A notification wakes the task that awaits the promise. *)
LEMMA NotifyWakes ==
    ASSUME SchedulerInv, Notify, Head(notifications).listener.does = "wake"
    PROVE  SchedulerInv'
<1> USE DEF SchedulerInv
<1>1. PICK l, source, outcome : /\ l = Head(notifications).listener
                                /\ source = Head(notifications).source
                                /\ outcome = promise[source].outcome
  OBVIOUS
<1>2. ~Quiet
  BY DEF Notify
<1>3. /\ l \in Listener /\ source \in Promise /\ source = Home(l) /\ Settled(source)
      /\ Called(l)
  BY <1>1, <1>2, RestIsSound DEF Notification
<1>4. PICK t \in Promise : l = Wake(t) /\ l.for = t
  BY <1>1, <1>3, ListenerForms
<1>5. /\ ready' = Append(ready, [task |-> t, outcome |-> outcome])
      /\ notifications' = Tail(notifications)
      /\ UNCHANGED <<promise, pending, errors, kind, tasks, stack, mode, steps, closing,
                     awaits, returned, dropped, reported>>
  BY <1>1, <1>4 DEF Notify
<1>6. DrainEffects(l) /\ notifications' \in Seq(Notification)
  BY <1>1, <1>2, <1>5, DrainHasEffects
<1>7. l.does = "wake" /\ awaits[t] = source /\ outcome \in Outcome
  BY <1>1, <1>3, <1>4, Homes, PromiseFields
<1>8. Suspended(t) /\ ~IsReady(t)
  BY <1>3, <1>4 DEF WakeupsInv
<1>9. ReadyGrows(t, outcome)
  BY <1>5, <1>7, <1>8, AppendGrowsReady
<1>10. /\ ready' \in Seq(ReadyRecord)
       /\ \A s \in Promise : IsReady(s)' <=> IsReady(s) \/ s = t
       /\ \A i \in 1 .. Len(ready') :
             \/ i \in 1 .. Len(ready) /\ ready'[i] = ready[i] /\ ready[i].task # t
             \/ ready'[i] = [task |-> t, outcome |-> outcome]
       /\ \A i, j \in 1 .. Len(ready') : ready'[i].task = ready'[j].task => i = j
  BY <1>9 DEF ReadyGrows
<1>11. TasksInv' /\ \A s : Suspended(s)' <=> Suspended(s)
  BY <1>5, TasksStay
<1>12. WakeupsInv'
  <2>1. \A s \in Promise : Suspended(s)' => IsReady(s)' \/ Waits(Wake(s))'
    BY <1>4, <1>6, <1>10, <1>11, ListenerForms DEF WakeupsInv, DrainEffects
  <2>2. \A i \in 1 .. Len(ready') : Suspended(ready[i].task)'
    <3> TAKE i \in 1 .. Len(ready')
    <3>1. Suspended(ready'[i].task)
      BY <1>8, <1>10 DEF WakeupsInv
    <3>2. PICK s : s = ready'[i].task
      OBVIOUS
    <3>3. Suspended(s)'
      BY <3>1, <3>2, <1>11
    <3> QED
      BY <3>2, <3>3
  <2>3. \A s \in Promise, p \in Promise :
           Attached(Wake(s), p)' \/ Called(Wake(s))' => Suspended(s)' /\ ~IsReady(s)'
    <3> SUFFICES ASSUME NEW s \in Promise, NEW p \in Promise,
                        Attached(Wake(s), p)' \/ Called(Wake(s))'
                 PROVE  Suspended(s)' /\ ~IsReady(s)'
      OBVIOUS
    <3>1. (Attached(Wake(s), p) \/ Called(Wake(s))) /\ (Called(Wake(s))' => Wake(s) # l)
      BY <1>6 DEF DrainEffects
    <3>2. Suspended(s) /\ ~IsReady(s)
      BY <3>1 DEF WakeupsInv
    <3>3. s # t
      <4>1. CASE Called(Wake(s))'
        BY <4>1, <3>1, <1>4
      <4>2. CASE Attached(Wake(s), p)'
        <5>1. Attached(Wake(s), p) /\ Wake(s) \in Listener
          BY <4>2, <1>6, ListenerForms DEF DrainEffects
        <5>2. Home(Wake(s)) = p
          BY <5>1 DEF ListenersInv
        <5>3. 1 .. Len(<<>>) = {}
          BY EmptySeq
        <5>4. p # source
          BY <5>1, <5>3, <1>3 DEF PromisesInv, Attached
        <5> QED
          BY <5>2, <5>4, <1>7, Homes
      <4> QED
        BY <4>1, <4>2
    <3> QED
      BY <3>2, <3>3, <1>10, <1>11
  <2> QED
    BY <2>1, <2>2, <2>3, <1>10 DEF WakeupsInv
<1>13. DeliveryInv'
  <2>1. ASSUME NEW i \in 1 .. Len(ready'), awaits'[ready'[i].task] # None
        PROVE  /\ Settled(awaits[ready[i].task])'
               /\ ready'[i].outcome = promise'[awaits'[ready'[i].task]].outcome
    <3>1. /\ Settled(awaits[ready'[i].task])
          /\ ready'[i].outcome = promise[awaits[ready'[i].task]].outcome
      <4>1. CASE ready'[i] = [task |-> t, outcome |-> outcome]
        BY <4>1, <1>1, <1>3, <1>7
      <4>2. CASE i \in 1 .. Len(ready) /\ ready'[i] = ready[i]
        BY <4>2, <2>1, <1>5 DEF DeliveryInv
      <4> QED
        BY <4>1, <4>2, <1>10
    <3>2. PICK q : q = awaits[ready'[i].task]
      OBVIOUS
    <3>3. Settled(q)'
      BY <3>1, <3>2, <1>6 DEF DrainEffects
    <3> QED
      BY <3>1, <3>2, <3>3, <1>5
  <2>2. \A p \in Promise : returned'[p] # None =>
           /\ promise'[p].claimed
           /\ ~Settled(p)' => promise'[p].adopting = returned'[p]
    BY <1>5, <1>6 DEF DeliveryInv, DrainEffects
  <2>3. AdoptedOutcome'
    BY <1>5, <1>6 DEF DeliveryInv, AdoptedOutcome, DrainEffects
  <2> QED
    BY <2>1, <2>2, <2>3 DEF DeliveryInv
<1>14. FailuresInv'
  <2>1. \A p \in Promise : Record(p) # l
    BY <1>4, ListenerForms
  <2> QED
    BY <2>1, <1>5, <1>6 DEF FailuresInv, Kept, Failed, DrainEffects
<1>15. SchedulerTyped'
  BY <1>5, <1>6, <1>10 DEF SchedulerTyped
<1> QED
  BY <1>6, <1>7, <1>11, <1>12, <1>13, <1>14, <1>15 DEF DrainEffects

(* A notification records the failure of a procedure. *)
LEMMA NotifyRecords ==
    ASSUME SchedulerInv, Notify, Head(notifications).listener.does = "record"
    PROVE  SchedulerInv'
<1> USE DEF SchedulerInv
<1>1. PICK l, source, outcome : /\ l = Head(notifications).listener
                                /\ source = Head(notifications).source
                                /\ outcome = promise[source].outcome
  OBVIOUS
<1>2. ~Quiet
  BY DEF Notify
<1>3. /\ l \in Listener /\ source \in Promise /\ source = Home(l) /\ Settled(source)
      /\ Called(l)
  BY <1>1, <1>2, RestIsSound DEF Notification
<1>4. PICK t \in Promise : l = Record(t) /\ l.for = t
  BY <1>1, <1>3, ListenerForms
<1>5. /\ errors' = IF outcome.state = "rejected" THEN Append(errors, t) ELSE errors
      /\ notifications' = Tail(notifications)
      /\ UNCHANGED <<promise, pending, ready, kind, tasks, stack, mode, steps, closing,
                     awaits, returned, dropped, reported>>
  BY <1>1, <1>4 DEF Notify
<1>6. DrainEffects(l) /\ notifications' \in Seq(Notification)
  BY <1>1, <1>2, <1>5, DrainHasEffects
<1>7. l.does = "record" /\ t = source /\ Settled(t) /\ outcome = promise[t].outcome
  BY <1>1, <1>3, <1>4, Homes
<1>8. ~Kept(t) /\ t \notin reported
  BY <1>3, <1>4 DEF FailuresInv
<1>9. TasksInv' /\ \A s : Suspended(s)' <=> Suspended(s)
  BY <1>5, TasksStay
<1>10. \A s \in Promise : Wake(s) # l /\ Wake(s) \in Listener
  BY <1>4, ListenerForms
<1>11. WakeupsInv'
  <2>1. /\ \A s \in Promise : Waits(Wake(s)) => Waits(Wake(s))'
        /\ \A s, x \in Promise : Attached(Wake(s), x)' => Placed(Wake(s))
        /\ \A s \in Promise : Called(Wake(s))' => Placed(Wake(s))
    BY <1>6, <1>10 DEF DrainEffects, Placed
  <2> QED
    BY <2>1, <1>5, <1>9, WakeupsStay
<1>12. DeliveryInv'
  BY <1>5, <1>6 DEF DeliveryInv, AdoptedOutcome, DrainEffects, Settled
<1>13. /\ errors' \in Seq(Promise) /\ Once(errors')
       /\ \A p \in Promise : Kept(p)' <=> Kept(p) \/ (p = t /\ outcome.state = "rejected")
  <2>1. errors \in Seq(Promise) /\ Len(errors) \in Nat
    BY LenProperties DEF SchedulerTyped
  <2>2. CASE outcome.state # "rejected"
    BY <2>1, <2>2, <1>5 DEF FailuresInv, Kept
  <2>3. CASE outcome.state = "rejected"
    <3>1. PICK n \in Nat : n = Len(errors)
      BY <2>1
    <3>2. /\ errors' \in Seq(Promise) /\ Len(errors') = n + 1 /\ errors'[n + 1] = t
          /\ \A i \in 1 .. n : errors'[i] = errors[i]
      BY <3>1, <2>1, <2>3, <1>5, AppendProperties
    <3>3. /\ \A i \in 1 .. n + 1 : i \in 1 .. n \/ i = n + 1
          /\ \A i \in 1 .. n : i \in 1 .. n + 1 /\ i # n + 1
          /\ n + 1 \in 1 .. n + 1
      OBVIOUS
    <3>4. \A i \in 1 .. n : errors[i] # t
      BY <3>1, <1>8 DEF Kept
    <3>5. Once(errors')
      BY <3>1, <3>2, <3>3, <3>4 DEF FailuresInv, Once
    <3>6. \A p \in Promise : Kept(p)' <=> Kept(p) \/ p = t
      <4> TAKE p \in Promise
      <4>1. Kept(p)' <=> \E i \in 1 .. n + 1 : errors'[i] = p
        BY <3>2 DEF Kept
      <4>2. Kept(p) <=> \E i \in 1 .. n : errors[i] = p
        BY <3>1 DEF Kept
      <4> QED
        BY <4>1, <4>2, <3>2, <3>3
    <3> QED
      BY <3>2, <3>5, <3>6, <2>3
  <2> QED
    BY <2>2, <2>3
<1>14. FailuresInv'
  <2>1. \A p \in Promise : Called(Record(p))' <=> Called(Record(p)) /\ p # t
    BY <1>4, <1>6, ListenerForms DEF DrainEffects
  <2>2. \A p \in Promise : Failed(p)' <=> Failed(p)
    BY <1>5 DEF Failed
  <2>3. Failed(t) => outcome.state = "rejected"
    BY <1>7 DEF Failed
  <2> QED
    BY <2>1, <2>2, <2>3, <1>5, <1>6, <1>7, <1>8, <1>13 DEF FailuresInv, DrainEffects
<1>15. SchedulerTyped'
  BY <1>5, <1>6, <1>13 DEF SchedulerTyped
<1> QED
  BY <1>6, <1>7, <1>9, <1>11, <1>12, <1>14, <1>15 DEF DrainEffects

(* Whatever the listener does, the invariant holds after it. *)
LEMMA NotifyKeeps == ASSUME SchedulerInv, Notify PROVE SchedulerInv'
BY NotifyAdopts, NotifyWakes, NotifyRecords DEF Notify
-----------------------------------------------------------------------------
(* Making and awaiting a promise. *)

(* A new promise disturbs none of the others. *)
LEMMA MakingKeepsPromises ==
    ASSUME SchedulerTyped, PromisesInv, NEW n \in Promise, kind[n] = "free",
           NEW k \in {"signal", "function", "procedure"},
           kind' = [kind EXCEPT ![n] = k], pending' = pending \cup {n}, dropped' = dropped,
           \A p \in Promise : p # n => promise'[p] = promise[p],
           promise'[n].outcome = Pending, promise'[n].claimed = FALSE,
           promise'[n].adopting = None
    PROVE  /\ PromisesInv' /\ kind' \in [Promise -> Kinds] /\ kind'[n] = k
           /\ \A p \in Promise : p # n => kind'[p] = kind[p]
           /\ pending' \subseteq Promise
<1>1. /\ kind' \in [Promise -> Kinds] /\ kind'[n] = k
      /\ \A p \in Promise : p # n => kind'[p] = kind[p]
  BY DEF SchedulerTyped, Kinds
<1>2. \A p \in Promise : Settled(p)' <=> Settled(p) /\ p # n
  BY DEF Settled
<1>3. promise[n] = NewPromise /\ ~Settled(n)
  <2>1. promise[n] = NewPromise
    BY DEF PromisesInv
  <2> QED
    BY <2>1 DEF NewPromise, Settled
<1>4. \A p \in Promise : p \in Made' <=> p \in Made \/ p = n
  BY <1>1 DEF Made
<1>5. Made' \subseteq Promise /\ Made \subseteq Promise
  BY DEF Made
<1>6. pending' = {p \in Made' : ~Settled(p)'}
  BY <1>2, <1>3, <1>4, <1>5 DEF PromisesInv
<1>7. \A p \in Promise : kind'[p] = "free" => promise'[p] = NewPromise /\ p \notin dropped'
  BY <1>1 DEF PromisesInv
<1>8. \A p \in Promise : Settled(p)' =>
         promise'[p].claimed /\ promise'[p].adopting = None /\ promise'[p].listeners = <<>>
  BY <1>2 DEF PromisesInv
<1>9. \A p \in Promise : ~Settled(p)' =>
         (promise'[p].claimed <=> promise'[p].adopting # None)
  BY <1>2 DEF PromisesInv
<1> QED
  BY <1>1, <1>5, <1>6, <1>7, <1>8, <1>9 DEF PromisesInv

(* A signal is made. *)
LEMMA NewPendingKeeps == ASSUME SchedulerInv, NewPending PROVE SchedulerInv'
<1> USE DEF SchedulerInv
<1>1. PICK n : n = NextFree
  OBVIOUS
<1>2. /\ kind' = [kind EXCEPT ![n] = "signal"] /\ pending' = pending \cup {n}
      /\ UNCHANGED <<promise, tasks, ready, notifications, stack, mode, steps, closing,
                     errors, awaits, returned, dropped, reported>>
  BY <1>1 DEF NewPending
<1>3. n \in Promise /\ kind[n] = "free"
  BY <1>1, NextFreeIsFree DEF NewPending
<1>4. promise[n] = NewPromise
  BY <1>3 DEF PromisesInv
<1>5. /\ PromisesInv' /\ kind' \in [Promise -> Kinds] /\ kind'[n] = "signal"
      /\ \A p \in Promise : p # n => kind'[p] = kind[p]
      /\ pending' \subseteq Promise
  <2>1. /\ \A p \in Promise : p # n => promise'[p] = promise[p]
        /\ promise'[n].outcome = Pending /\ promise'[n].claimed = FALSE
        /\ promise'[n].adopting = None
    BY <1>2, <1>4 DEF NewPromise
  <2> QED
    BY <2>1, <1>2, <1>3, MakingKeepsPromises
<1>6. LinksStay
  BY <1>2 DEF LinksStay
<1>7. /\ \A p : Settled(p)' <=> Settled(p)
      /\ \A m, p : Attached(m, p)' <=> Attached(m, p)
      /\ \A m : Called(m)' <=> Called(m)
      /\ \A m \in Listener : Home(m)' = Home(m) /\ Waits(m) => Waits(m)'
  BY <1>6, LinksHaveEffects
<1>8. ListenersInv' /\ AdoptersInv' /\ NoCircle' /\ DeliveryInv'
  BY <1>2, <1>6, LinksKeep
<1>9. /\ \A t : Running(t)' <=> Running(t)
      /\ \A t : Suspended(t)' <=> Suspended(t)
  BY <1>2 DEF Running, Suspended
<1>10. WakeupsInv'
  <2>1. /\ \A s \in Promise : Waits(Wake(s)) => Waits(Wake(s))'
        /\ \A s, x \in Promise : Attached(Wake(s), x)' => Placed(Wake(s))
        /\ \A s \in Promise : Called(Wake(s))' => Placed(Wake(s))
    BY <1>2, <1>7, ListenerForms, Homes DEF Placed
  <2> QED
    BY <2>1, <1>2, <1>9, WakeupsStay
<1>11. TasksInv'
  <2>1. \A t \in tasks : t # n /\ t \in Promise
    BY <1>3 DEF TasksInv, SchedulerTyped
  <2> QED
    BY <2>1, <1>2, <1>5, <1>9 DEF TasksInv
<1>12. FailuresInv'
  <2>1. \A p \in Promise : kind'[p] = "procedure" <=> kind[p] = "procedure"
    BY <1>3, <1>5
  <2> QED
    BY <2>1, <1>2, <1>7 DEF FailuresInv, Kept, Failed
<1>13. SchedulerTyped'
  BY <1>2, <1>5 DEF SchedulerTyped
<1> QED
  BY <1>5, <1>8, <1>10, <1>11, <1>12, <1>13

(* A listener added leaves claims, outcomes and adoptions as they were.     *)
AddEffects(l, q) ==
    /\ promise' \in [Promise -> PromiseRecord]
    /\ \A p \in Promise : /\ promise'[p].outcome = promise[p].outcome
                          /\ promise'[p].claimed = promise[p].claimed
                          /\ promise'[p].adopting = promise[p].adopting
                          /\ p # q => promise'[p] = promise[p]
    /\ AttachEffects(l, q)
    /\ NoCircle' /\ AdoptersInv'

(* A listener that was nowhere is added to its promise. *)
LEMMA AddHasEffects ==
    ASSUME SchedulerInv, NEW l \in Listener, l.does # "adopt", NEW q \in Promise,
           ~Settled(q), ~Placed(l), AddListener(q, l), notifications' = notifications,
           Home(l)' = q, \A t \in Promise : Wake(t) # l => awaits'[t] = awaits[t]
    PROVE  AddEffects(l, q)
<1> USE DEF SchedulerInv
<1>1. promise \in [Promise -> PromiseRecord]
  BY DEF SchedulerTyped
<1>2. PICK ls : ls = Append(promise[q].listeners, l)
  OBVIOUS
<1>3. ls \in Seq(Listener)
  BY <1>2, PromiseFields, AppendProperties
<1>4. /\ promise' \in [Promise -> PromiseRecord]
      /\ promise'[q] = [promise[q] EXCEPT !.listeners = ls]
      /\ \A x \in Promise : x # q => promise'[x] = promise[x]
  <2> DEFINE b == [promise[q] EXCEPT !.listeners = ls]
  <2>1. b \in PromiseRecord
    BY <1>1, <1>3 DEF PromiseRecord
  <2>2. promise' = [promise EXCEPT ![q] = b]
    BY <1>1, <1>2 DEF AddListener
  <2> HIDE DEF b
  <2>3. /\ promise' \in [Promise -> PromiseRecord] /\ promise'[q] = b
        /\ \A x \in Promise : x # q => promise'[x] = promise[x]
    BY <2>1, <2>2, <1>1
  <2> QED
    BY <2>3 DEF b
<1>5. /\ promise'[q].listeners = ls /\ promise'[q].outcome = promise[q].outcome
      /\ promise'[q].claimed = promise[q].claimed
      /\ promise'[q].adopting = promise[q].adopting
  BY <1>1, <1>4 DEF PromiseRecord
<1>6. \A p \in Promise : /\ promise'[p].outcome = promise[p].outcome
                         /\ promise'[p].claimed = promise[p].claimed
                         /\ promise'[p].adopting = promise[p].adopting
                         /\ p # q => promise'[p] = promise[p]
  BY <1>4, <1>5
<1>7. \A m \in Listener : m # l /\ Placed(m) => Home(m)' = Home(m)
  <2> TAKE m \in Listener
  <2>1. CASE m = Wake(m.for)
    BY <2>1, ListenerForms, Homes
  <2>2. CASE m = Record(m.for)
    BY <2>2, ListenerForms, Homes
  <2>3. CASE m = Adopt(m.for)
    BY <2>3, <1>6, ListenerForms, Homes
  <2> QED
    BY <2>1, <2>2, <2>3, ListenerForms
<1>8. Attaches(l, q)
  BY <1>2, <1>5, <1>6, <1>7 DEF Attaches
<1>9. AttachEffects(l, q)
  BY <1>8, AttachHasEffects
<1>10. NoCircle'
  BY <1>6 DEF NoCircle
<1>11. AdoptersInv'
  <2>1. \A p \in Promise : Adopt(p) \in Listener /\ Adopt(p) # l
    BY ListenerForms
  <2> QED
    BY <2>1, <1>6, <1>9 DEF AdoptersInv, AttachEffects
<1> QED
  BY <1>4, <1>6, <1>9, <1>10, <1>11 DEF AddEffects

(* Outcomes, claims and adoptions stay, and what is ready is as awaited.    *)
LEMMA DeliveryStays ==
    ASSUME DeliveryInv, returned' = returned,
           returned \in [Promise -> Promise \cup {None}],
           \A p \in Promise : /\ promise'[p].outcome = promise[p].outcome
                              /\ promise'[p].claimed = promise[p].claimed
                              /\ promise'[p].adopting = promise[p].adopting,
           \A i \in 1 .. Len(ready') : awaits'[ready'[i].task] # None =>
              /\ awaits'[ready'[i].task] \in Promise
              /\ Settled(awaits'[ready'[i].task])
              /\ ready'[i].outcome = promise[awaits'[ready'[i].task]].outcome
    PROVE  DeliveryInv'
<1>1. \A p \in Promise : Settled(p)' <=> Settled(p)
  BY DEF Settled
<1>2. ASSUME NEW i \in 1 .. Len(ready'), awaits'[ready'[i].task] # None
      PROVE  /\ Settled(awaits[ready[i].task])'
             /\ ready'[i].outcome = promise'[awaits'[ready'[i].task]].outcome
  <2>1. PICK q \in Promise : q = awaits'[ready'[i].task]
    BY <1>2
  <2>2. Settled(q) /\ ready'[i].outcome = promise[q].outcome
    BY <2>1, <1>2
  <2>3. Settled(q)'
    BY <2>2, <1>1
  <2> QED
    BY <2>1, <2>2, <2>3
<1>3. \A p \in Promise : returned'[p] # None =>
         /\ promise'[p].claimed
         /\ ~Settled(p)' => promise'[p].adopting = returned'[p]
  BY <1>1 DEF DeliveryInv
<1>4. AdoptedOutcome'
  BY <1>1 DEF DeliveryInv, AdoptedOutcome
<1> QED
  BY <1>2, <1>3, <1>4 DEF DeliveryInv
(* A task is made and runs at once; a procedure records its failure. *)
LEMMA StartKeeps ==
    ASSUME SchedulerInv, NEW k \in {"function", "procedure"}, Start(k)
    PROVE  SchedulerInv'
<1> USE DEF SchedulerInv
<1>1. PICK n : n = NextFree
  OBVIOUS
<1>2. /\ kind' = [kind EXCEPT ![n] = k] /\ pending' = pending \cup {n}
      /\ tasks' = tasks \cup {n}
      /\ IF k = "procedure" THEN AddListener(n, Record(n)) ELSE UNCHANGED promise
      /\ stack' = Append(stack, [kind |-> "run", task |-> n])
      /\ UNCHANGED <<ready, notifications, mode, steps, closing, errors, awaits,
                     returned, dropped, reported>>
  BY <1>1 DEF Start
<1>3. n \in Promise /\ kind[n] = "free"
  BY <1>1, NextFreeIsFree DEF Start
<1>4. promise[n] = NewPromise /\ n \notin dropped
  BY <1>3 DEF PromisesInv
<1>5. /\ promise[n].outcome = Pending /\ promise[n].claimed = FALSE
      /\ promise[n].adopting = None /\ promise[n].listeners = <<>> /\ ~Settled(n)
  BY <1>4 DEF NewPromise, Settled
<1>6. n \notin tasks /\ ~Running(n)
  BY <1>3 DEF TasksInv
<1>7. /\ stack' \in Seq(Frame)
      /\ \A s \in Promise : Running(s)' <=> Running(s) \/ s = n
      /\ \A i, j \in 1 .. Len(stack') :
            stack'[i].kind = "run" /\ stack'[j].kind = "run"
            /\ stack'[i].task = stack'[j].task => i = j
      /\ \A i \in 1 .. Len(stack') : stack'[i].kind = "run" => stack'[i].task \in Promise
  <2> DEFINE f == [kind |-> "run", task |-> n]
  <2>1. f \in Frame /\ f.kind = "run" /\ f.task = n /\ stack' = Append(stack, f)
    BY <1>2, <1>3 DEF Frame
  <2> HIDE DEF f
  <2> QED
    BY <2>1, <1>3, <1>6, PushRuns
<1>8. /\ promise' \in [Promise -> PromiseRecord]
      /\ \A p \in Promise : /\ promise'[p].outcome = promise[p].outcome
                            /\ promise'[p].claimed = promise[p].claimed
                            /\ promise'[p].adopting = promise[p].adopting
                            /\ p # n => promise'[p] = promise[p]
      /\ \A p \in Promise : Settled(p)' <=> Settled(p)
      /\ \A m \in Listener, p \in Promise :
            Attached(m, p)' <=> Attached(m, p) \/ (k = "procedure" /\ m = Record(n) /\ p = n)
      /\ \A m : Called(m)' <=> Called(m)
      /\ \A m \in Listener : m # Record(n) /\ Waits(m) => Waits(m)'
      /\ ListenersInv' /\ AdoptersInv' /\ NoCircle'
  <2>1. CASE k = "function"
    <3>1. promise' = promise
      BY <2>1, <1>2
    <3>2. LinksStay
      BY <3>1, <1>2 DEF LinksStay
    <3>3. /\ \A p : Settled(p)' <=> Settled(p)
          /\ \A m, p : Attached(m, p)' <=> Attached(m, p)
          /\ \A m : Called(m)' <=> Called(m)
          /\ \A m \in Listener : Home(m)' = Home(m) /\ Waits(m) => Waits(m)'
      BY <3>2, LinksHaveEffects
    <3>4. ListenersInv' /\ AdoptersInv' /\ NoCircle'
      BY <3>2, LinksKeepAdopters
    <3>5. \A m : Home(m)' = Home(m)
      BY <3>1, <1>2 DEF Home
    <3> QED
      BY <2>1, <3>1, <3>3, <3>4, <3>5 DEF SchedulerTyped
  <2>2. CASE k = "procedure"
    <3>1. Record(n) \in Listener /\ Record(n).does = "record" /\ Home(Record(n))' = n
          /\ Home(Record(n)) = n /\ \A t \in Promise : Wake(t) # Record(n)
      BY <1>3, ListenerForms, Homes
    <3>2. ~Placed(Record(n))
      <4>1. 1 .. Len(<<>>) = {}
        BY EmptySeq
      <4>2. ~Attached(Record(n), n)
        BY <4>1, <1>5 DEF Attached
      <4>3. ~Called(Record(n))
        BY <3>1, <1>5 DEF ListenersInv, Sound, Called, CalledIn
      <4> QED
        BY <4>2, <4>3, <3>1 DEF Placed, ListenersInv
    <3>3. AddEffects(Record(n), n)
      BY <2>2, <3>1, <3>2, <1>2, <1>3, <1>5, AddHasEffects
    <3> QED
      BY <2>2, <3>3 DEF AddEffects, AttachEffects
  <2> QED
    BY <2>1, <2>2
<1>9. /\ PromisesInv' /\ kind' \in [Promise -> Kinds] /\ kind'[n] = k
      /\ \A p \in Promise : p # n => kind'[p] = kind[p]
      /\ pending' \subseteq Promise
  BY <1>2, <1>3, <1>5, <1>8, MakingKeepsPromises
<1>10. \A s \in Promise : Suspended(s)' <=> Suspended(s)
  BY <1>2, <1>6, <1>7 DEF Suspended
<1>11. WakeupsInv'
  <2>1. /\ \A s \in Promise : Waits(Wake(s)) => Waits(Wake(s))'
        /\ \A s, x \in Promise : Attached(Wake(s), x)' => Placed(Wake(s))
        /\ \A s \in Promise : Called(Wake(s))' => Placed(Wake(s))
    BY <1>8, ListenerForms DEF Placed
  <2> QED
    BY <2>1, <1>2, <1>10, WakeupsStay
<1>12. DeliveryInv'
  <2>1. \A i \in 1 .. Len(ready') : awaits'[ready'[i].task] # None =>
           /\ awaits'[ready'[i].task] \in Promise
           /\ Settled(awaits'[ready'[i].task])
           /\ ready'[i].outcome = promise[awaits'[ready'[i].task]].outcome
    BY <1>2, ReadyFields DEF DeliveryInv, SchedulerTyped
  <2> QED
    BY <2>1, <1>2, <1>8, DeliveryStays DEF SchedulerTyped
<1>13. TasksInv'
  <2>1. \A t \in tasks' : kind'[t] \in {"function", "procedure"} /\ ~promise'[t].claimed
    BY <1>2, <1>3, <1>5, <1>6, <1>8, <1>9 DEF TasksInv, SchedulerTyped
  <2>2. \A t \in Promise : Running(t)' => t \in tasks' /\ t \notin dropped'
    BY <1>2, <1>4, <1>7 DEF TasksInv
  <2> QED
    BY <2>1, <2>2, <1>7 DEF TasksInv
<1>14. FailuresInv'
  <2>1. \A p \in Promise : kind'[p] = "procedure" /\ ~Settled(p)' => Attached(Record(p), p)'
    BY <1>3, <1>8, <1>9, ListenerForms DEF FailuresInv
  <2>2. \A p \in Promise : kind'[p] = "procedure" /\ Settled(p)' /\ Failed(p)' =>
           Called(Record(p))' \/ Kept(p)' \/ p \in reported'
    BY <1>2, <1>5, <1>8, <1>9 DEF FailuresInv, Failed, Kept
  <2>3. /\ \A p \in Promise : Kept(p)' \/ p \in reported' => Settled(p)' /\ ~Called(Record(p))'
        /\ \A p \in Promise : Kept(p)' => p \notin reported'
        /\ Once(errors')
    BY <1>2, <1>8 DEF FailuresInv, Kept
  <2> QED
    BY <2>1, <2>2, <2>3 DEF FailuresInv
<1>15. SchedulerTyped'
  BY <1>2, <1>3, <1>7, <1>8, <1>9 DEF SchedulerTyped
<1> QED
  BY <1>8, <1>9, <1>11, <1>12, <1>13, <1>14, <1>15

(* A running task yields: it is suspended with its listener, or ready.      *)
LEMMA AwaitKeeps == ASSUME SchedulerInv, Await PROVE SchedulerInv'
<1> USE DEF SchedulerInv
<1>1. PICK t : t = Top.task
  OBVIOUS
<1>2. PICK q \in Made \cup {None, Foreign} :
         /\ AwaitPending(t, q) \/ AwaitReady(t, q)
         /\ awaits' = [awaits EXCEPT ![t] = IF q \in Made \ {t} THEN q ELSE None]
  BY <1>1 DEF Await
<1>3. /\ stack # <<>> /\ stack' = Pop /\ Top.kind = "run"
      /\ UNCHANGED <<kind, pending, tasks, notifications, mode, steps, closing, errors,
                     returned, dropped, reported>>
  BY DEF Await, Runs
<1>4. /\ stack' \in Seq(Frame)
      /\ \A s \in Promise : Running(s)' <=> Running(s) /\ s # t
      /\ t \in Promise /\ Running(t) /\ t \in tasks /\ t \notin dropped
      /\ \A i, j \in 1 .. Len(stack') :
            stack'[i].kind = "run" /\ stack'[j].kind = "run"
            /\ stack'[i].task = stack'[j].task => i = j
      /\ \A i \in 1 .. Len(stack') : stack'[i].kind = "run" => stack'[i].task \in Promise
  BY <1>1, <1>3, PopRuns
<1>5. Made \subseteq Promise /\ None \notin Promise /\ Foreign \notin Promise
  BY PromisesAreNamed DEF Made
<1>6. ~Suspended(t) /\ ~Placed(Wake(t)) /\ ~IsReady(t)
  BY <1>4, NoWakeup DEF Suspended, WakeupsInv, IsReady
<1>7. \A s \in Promise : Suspended(s)' <=> Suspended(s) \/ s = t
  BY <1>3, <1>4 DEF Suspended
<1>8. /\ awaits' \in [Promise -> Promise \cup {None}]
      /\ awaits'[t] = IF q \in Made \ {t} THEN q ELSE None
      /\ \A s \in Promise : s # t => awaits'[s] = awaits[s]
  <2>1. (IF q \in Made \ {t} THEN q ELSE None) \in Promise \cup {None}
    BY <1>5
  <2> QED
    BY <2>1, <1>2, <1>4 DEF SchedulerTyped
<1>9. /\ Wake(t) \in Listener /\ Wake(t).does # "adopt" /\ Home(Wake(t))' = awaits'[t]
      /\ \A s \in Promise : Wake(s) \in Listener /\ (Wake(s) = Wake(t) => s = t)
  BY <1>4, ListenerForms, Homes
<1>10. ASSUME AwaitPending(t, q)
       PROVE  SchedulerInv'
  <2>1. /\ q \in Made \ {t} /\ q \in Promise /\ ~Settled(q) /\ AddListener(q, Wake(t))
        /\ ready' = ready /\ awaits'[t] = q
    BY <1>10, <1>5, <1>8 DEF AwaitPending
  <2>2. AddEffects(Wake(t), q)
    BY <2>1, <1>3, <1>6, <1>8, <1>9, AddHasEffects
  <2>3. AttachEffects(Wake(t), q)
    BY <2>2 DEF AddEffects
  <2>4. /\ \A p \in Promise : Settled(p)' <=> Settled(p)
        /\ \A p \in Promise, m \in Listener :
              Attached(m, p)' <=> Attached(m, p) \/ (m = Wake(t) /\ p = q)
        /\ \A m : Called(m)' <=> Called(m)
        /\ ListenersInv'
        /\ \A m \in Listener : m # Wake(t) /\ Waits(m) => Waits(m)'
        /\ Waits(Wake(t))'
    BY <2>3 DEF AttachEffects
  <2>5. /\ promise' \in [Promise -> PromiseRecord]
        /\ \A p \in Promise : /\ promise'[p].outcome = promise[p].outcome
                              /\ promise'[p].claimed = promise[p].claimed
                              /\ promise'[p].adopting = promise[p].adopting
                              /\ p # q => promise'[p] = promise[p]
        /\ NoCircle' /\ AdoptersInv'
    BY <2>2 DEF AddEffects
  <2>6. \A s : IsReady(s)' <=> IsReady(s)
    BY <2>1 DEF IsReady
  <2>7. WakeupsInv'
    <3>1. \A s \in Promise : Suspended(s)' => IsReady(s)' \/ Waits(Wake(s))'
      BY <2>4, <2>6, <1>7, <1>9 DEF WakeupsInv
    <3>2. \A i \in 1 .. Len(ready') : Suspended(ready[i].task)'
      <4> TAKE i \in 1 .. Len(ready')
      <4>1. PICK s \in Promise : s = ready[i].task
        BY <2>1, ReadyFields
      <4>2. Suspended(s)'
        BY <4>1, <2>1, <1>7 DEF WakeupsInv
      <4> QED
        BY <4>1, <4>2, <2>1
    <3>3. \A i, j \in 1 .. Len(ready') : ready'[i].task = ready'[j].task => i = j
      BY <2>1 DEF WakeupsInv
    <3>4. \A s \in Promise, p \in Promise :
             Attached(Wake(s), p)' \/ Called(Wake(s))' => Suspended(s)' /\ ~IsReady(s)'
      BY <2>4, <2>6, <1>6, <1>7, <1>9 DEF WakeupsInv
    <3> QED
      BY <3>1, <3>2, <3>3, <3>4 DEF WakeupsInv
  <2>8. DeliveryInv'
    <3>1. ASSUME NEW i \in 1 .. Len(ready'), awaits'[ready'[i].task] # None
          PROVE  /\ awaits'[ready'[i].task] \in Promise
                 /\ Settled(awaits'[ready'[i].task])
                 /\ ready'[i].outcome = promise[awaits'[ready'[i].task]].outcome
      <4>1. PICK s \in Promise : s = ready[i].task
        BY <2>1, ReadyFields
      <4>2. s # t
        BY <4>1, <2>1, <1>6 DEF IsReady
      <4>3. awaits'[s] = awaits[s] /\ awaits[s] \in Promise
        BY <4>1, <4>2, <3>1, <2>1, <1>8
      <4> QED
        BY <4>1, <4>3, <3>1, <2>1 DEF DeliveryInv
    <3> QED
      BY <3>1, <2>5, <1>3, DeliveryStays DEF SchedulerTyped
  <2>9. PromisesInv'
    <3>1. Made' = Made
      BY <1>3 DEF Made
    <3>2. kind[q] # "free"
      BY <2>1 DEF Made
    <3>3. \A p \in Promise : Settled(p) => p # q
      BY <2>1
    <3>4. \A p \in Promise : kind'[p] = "free" => promise'[p] = NewPromise /\ p \notin dropped'
      BY <3>2, <2>5, <1>3 DEF PromisesInv
    <3>5. \A p \in Promise : Settled(p)' =>
             promise'[p].claimed /\ promise'[p].adopting = None /\ promise'[p].listeners = <<>>
      BY <3>3, <2>4, <2>5 DEF PromisesInv
    <3>6. \A p \in Promise : ~Settled(p)' =>
             (promise'[p].claimed <=> promise'[p].adopting # None)
      BY <2>4, <2>5 DEF PromisesInv
    <3>7. pending' = {p \in Made' : ~Settled(p)'}
      BY <3>1, <2>4, <1>3, <1>5 DEF PromisesInv
    <3> QED
      BY <3>4, <3>5, <3>6, <3>7 DEF PromisesInv
  <2>10. TasksInv'
    <3>1. \A s \in tasks' : kind'[s] \in {"function", "procedure"} /\ ~promise'[s].claimed
      BY <2>5, <1>3 DEF TasksInv, SchedulerTyped
    <3>2. \A s \in Promise : Running(s)' => s \in tasks' /\ s \notin dropped'
      BY <1>3, <1>4 DEF TasksInv
    <3> QED
      BY <3>1, <3>2, <1>4 DEF TasksInv
  <2>11. FailuresInv'
    <3>1. \A p, x \in Promise : Attached(Record(p), x)' <=> Attached(Record(p), x)
      BY <2>4, ListenerForms
    <3> QED
      BY <3>1, <2>4, <2>5, <1>3 DEF FailuresInv, Kept, Failed
  <2>12. SchedulerTyped'
    BY <2>1, <2>5, <1>3, <1>4, <1>8 DEF SchedulerTyped
  <2> QED
    BY <2>4, <2>5, <2>7, <2>8, <2>9, <2>10, <2>11, <2>12
<1>11. ASSUME AwaitReady(t, q)
       PROVE  SchedulerInv'
  <2>1. PICK outcome :
           outcome = IF q = t THEN Error(t, "self")
                     ELSE IF q = Foreign THEN Error(t, "foreign")
                     ELSE IF q = None THEN Value(t)
                     ELSE promise[q].outcome
    OBVIOUS
  <2>2. /\ q \in {t, None, Foreign} \/ (q \in Made /\ Settled(q))
        /\ ready' = Append(ready, [task |-> t, outcome |-> outcome])
        /\ promise' = promise
    BY <1>11, <2>1 DEF AwaitReady
  <2>3. outcome \in Outcome
    <3>1. Error(t, "self") \in Outcome /\ Error(t, "foreign") \in Outcome
          /\ Value(t) \in Outcome
      BY <1>4, OutcomesTyped
    <3>2. CASE q \in {t, None, Foreign}
      BY <3>1, <3>2, <2>1
    <3>3. CASE q \notin {t, None, Foreign}
      <4>1. q \in Promise /\ outcome = promise[q].outcome
        BY <3>3, <2>1, <1>2, <1>5
      <4> QED
        BY <4>1, PromiseFields
    <3> QED
      BY <3>2, <3>3
  <2>4. q \in Made \ {t} => Settled(q) /\ q \in Promise /\ outcome = promise[q].outcome
    BY <2>1, <2>2, <1>5
  <2>5. ReadyGrows(t, outcome)
    BY <2>2, <2>3, <1>4, <1>6, AppendGrowsReady
  <2>6. /\ ready' \in Seq(ReadyRecord)
        /\ \A s \in Promise : IsReady(s)' <=> IsReady(s) \/ s = t
        /\ \A i \in 1 .. Len(ready') :
              \/ i \in 1 .. Len(ready) /\ ready'[i] = ready[i] /\ ready[i].task # t
              \/ ready'[i] = [task |-> t, outcome |-> outcome]
        /\ \A i, j \in 1 .. Len(ready') : ready'[i].task = ready'[j].task => i = j
    BY <2>5 DEF ReadyGrows
  <2>7. LinksStay
    BY <2>2, <1>3, <1>6, <1>8 DEF LinksStay
  <2>8. /\ \A p : Settled(p)' <=> Settled(p)
        /\ \A m, p : Attached(m, p)' <=> Attached(m, p)
        /\ \A m : Called(m)' <=> Called(m)
        /\ \A m \in Listener : Home(m)' = Home(m) /\ Waits(m) => Waits(m)'
    BY <2>7, LinksHaveEffects
  <2>9. ListenersInv' /\ AdoptersInv' /\ NoCircle'
    BY <2>7, LinksKeepAdopters
  <2>10. WakeupsInv'
    <3>1. ASSUME NEW s \in Promise, Suspended(s)'
          PROVE  IsReady(s)' \/ Waits(Wake(s))'
      <4>1. CASE s = t
        BY <4>1, <2>6
      <4>2. CASE s # t
        <5>1. Home(Wake(s))' = Home(Wake(s)) /\ Suspended(s)
          BY <4>2, <3>1, <1>7, <1>8, Homes
        <5> QED
          BY <5>1, <2>6, <2>8, <1>9 DEF WakeupsInv
      <4> QED
        BY <4>1, <4>2
    <3>2. \A i \in 1 .. Len(ready') : Suspended(ready[i].task)'
      <4> TAKE i \in 1 .. Len(ready')
      <4>1. PICK s : s = ready'[i].task
        OBVIOUS
      <4>2. s \in Promise /\ (s = t \/ Suspended(s))
        <5>1. CASE ready'[i] = [task |-> t, outcome |-> outcome]
          BY <5>1, <4>1, <1>4
        <5>2. CASE i \in 1 .. Len(ready) /\ ready'[i] = ready[i]
          BY <5>2, <4>1, ReadyFields DEF WakeupsInv
        <5> QED
          BY <5>1, <5>2, <2>6
      <4>3. Suspended(s)'
        BY <4>2, <1>7
      <4> QED
        BY <4>1, <4>3
    <3>3. \A s \in Promise, p \in Promise :
             Attached(Wake(s), p)' \/ Called(Wake(s))' => Suspended(s)' /\ ~IsReady(s)'
      <4> SUFFICES ASSUME NEW s \in Promise, NEW p \in Promise,
                          Attached(Wake(s), p) \/ Called(Wake(s))
                   PROVE  Suspended(s)' /\ ~IsReady(s)'
        BY <2>8
      <4>1. s # t
        BY <1>6 DEF Placed
      <4> QED
        BY <4>1, <2>6, <1>7 DEF WakeupsInv
    <3> QED
      BY <3>1, <3>2, <3>3, <2>6 DEF WakeupsInv
  <2>11. DeliveryInv'
    <3>1. ASSUME NEW i \in 1 .. Len(ready'), awaits'[ready'[i].task] # None
          PROVE  /\ awaits'[ready'[i].task] \in Promise
                 /\ Settled(awaits'[ready'[i].task])
                 /\ ready'[i].outcome = promise[awaits'[ready'[i].task]].outcome
      <4>1. CASE ready'[i] = [task |-> t, outcome |-> outcome]
        <5>1. ready'[i].task = t /\ ready'[i].outcome = outcome
          BY <4>1
        <5>2. q \in Made \ {t} /\ awaits'[t] = q
          BY <5>1, <3>1, <1>8
        <5> QED
          BY <5>1, <5>2, <2>4
      <4>2. CASE i \in 1 .. Len(ready) /\ ready'[i] = ready[i] /\ ready[i].task # t
        <5>1. PICK s \in Promise : s = ready[i].task
          BY <4>2, ReadyFields
        <5>2. awaits'[s] = awaits[s] /\ awaits[s] \in Promise
          BY <4>2, <5>1, <3>1, <1>8
        <5> QED
          BY <5>1, <5>2, <4>2, <3>1 DEF DeliveryInv
      <4> QED
        BY <4>1, <4>2, <2>6
    <3> QED
      BY <3>1, <2>2, <1>3, DeliveryStays DEF SchedulerTyped
  <2>12. PromisesInv'
    BY <2>2, <2>8, <1>3 DEF PromisesInv, Made
  <2>13. TasksInv'
    <3>1. \A s \in Promise : Running(s)' => s \in tasks' /\ s \notin dropped'
      BY <1>3, <1>4 DEF TasksInv
    <3> QED
      BY <3>1, <2>2, <1>3, <1>4 DEF TasksInv
  <2>14. FailuresInv'
    BY <2>2, <2>8, <1>3 DEF FailuresInv, Kept, Failed
  <2>15. SchedulerTyped'
    BY <2>2, <2>6, <1>3, <1>4, <1>8 DEF SchedulerTyped
  <2> QED
    BY <2>9, <2>10, <2>11, <2>12, <2>13, <2>14, <2>15
<1> QED
  BY <1>2, <1>10, <1>11
-----------------------------------------------------------------------------
(* The end of a reset. *)

(* A reset that ends leaves nothing to run and every promise settled. *)
LEMMA ResetEndsKeeps ==
    ASSUME SchedulerInv, ResetEnds
    PROVE  /\ SchedulerInv'
           /\ \A p \in Promise : Settled(p) => promise'[p].outcome = promise[p].outcome
<1> USE DEF SchedulerInv
<1>1. /\ Quiet /\ stack = <<>> /\ tasks' = {} /\ ready' = <<>> /\ notifications' = <<>>
      /\ promise' = [p \in Promise |-> IF p \in pending THEN Cancelled(p) ELSE promise[p]]
      /\ pending' = {} /\ errors' = <<>>
      /\ reported' = reported \cup {errors[i] : i \in 1 .. Len(errors)}
      /\ awaits' = [t \in Promise |-> None]
      /\ mode' = "host"
      /\ UNCHANGED <<kind, stack, steps, closing, returned, dropped>>
  BY DEF ResetEnds, Driving
<1>2. 1 .. Len(<<>>) = {} /\ \A S : <<>> \in Seq(S)
  BY EmptySeq
<1>3. \A p \in Promise : /\ Cancelled(p) \in PromiseRecord
                         /\ Cancelled(p).outcome = Error(p, "reset")
                         /\ Cancelled(p).outcome.why = "reset"
                         /\ Cancelled(p).outcome # Pending
                         /\ Cancelled(p).claimed = TRUE
                         /\ Cancelled(p).adopting = None /\ Cancelled(p).listeners = <<>>
  BY <1>2, OutcomesTyped DEF Cancelled, PromiseRecord, Error
<1>4. /\ promise' \in [Promise -> PromiseRecord]
      /\ \A p \in pending : promise'[p] = Cancelled(p)
      /\ \A p \in Promise : p \notin pending => promise'[p] = promise[p]
  BY <1>1, <1>3 DEF SchedulerTyped
<1>5. \A p \in Promise : p \in pending <=> kind[p] # "free" /\ ~Settled(p)
  BY DEF PromisesInv, Made
<1>6. \A p \in Promise : p \notin pending =>
         /\ promise[p].adopting = None /\ promise[p].listeners = <<>>
         /\ kind[p] # "free" => Settled(p)
         /\ Settled(p) => promise[p].claimed
         /\ ~Settled(p) => kind[p] = "free" /\ promise[p] = NewPromise
  <2> TAKE p \in Promise
  <2> HAVE p \notin pending
  <2>1. CASE kind[p] = "free"
    <3>1. promise[p] = NewPromise
      BY <2>1 DEF PromisesInv
    <3>2. promise[p].adopting = None /\ promise[p].listeners = <<>> /\ ~Settled(p)
      BY <3>1 DEF NewPromise, Settled
    <3> QED
      BY <2>1, <3>1, <3>2
  <2>2. CASE kind[p] # "free"
    BY <2>2, <1>5 DEF PromisesInv
  <2> QED
    BY <2>1, <2>2
<1>7. \A p \in Promise : /\ promise'[p].adopting = None /\ promise'[p].listeners = <<>>
                         /\ Settled(p)' <=> Settled(p) \/ p \in pending
  BY <1>3, <1>4, <1>6 DEF Settled
<1>8. \A l, p : p \in Promise => ~Attached(l, p)'
  BY <1>2, <1>7 DEF Attached
<1>9. (\A l : ~Called(l)') /\ \A l : ~Called(l)
  BY <1>1, <1>2 DEF Called, CalledIn, Quiet
<1>10. PromisesInv'
  <2>1. \A p \in Promise : kind'[p] = "free" => promise'[p] = NewPromise /\ p \notin dropped'
    BY <1>1, <1>4, <1>5 DEF PromisesInv
  <2>2. \A p \in Promise : Settled(p)' =>
           promise'[p].claimed /\ promise'[p].adopting = None /\ promise'[p].listeners = <<>>
    BY <1>3, <1>4, <1>6, <1>7
  <2>3. \A p \in Promise : ~Settled(p)' =>
           (promise'[p].claimed <=> promise'[p].adopting # None)
    BY <1>4, <1>6, <1>7 DEF NewPromise
  <2>4. Made' = Made /\ Made \subseteq Promise
    BY <1>1 DEF Made
  <2>5. pending' = {p \in Made' : ~Settled(p)'}
    BY <2>4, <1>1, <1>5, <1>7 DEF Made
  <2> QED
    BY <2>1, <2>2, <2>3, <2>5 DEF PromisesInv
<1>11. ListenersInv'
  <2>1. Once(<<>>)
    BY <1>2 DEF Once
  <2>2. Sound(notifications)'
    BY <1>1, <1>2 DEF Sound
  <2> QED
    BY <2>1, <2>2, <1>7, <1>8 DEF ListenersInv
<1>12. AdoptersInv'
  BY <1>7 DEF AdoptersInv
<1>13. NoCircle'
  <2> SUFFICES ASSUME NEW circle, circle \in SUBSET Promise, circle # {}
               PROVE  \E p \in circle : promise'[p].adopting \notin circle
    BY DEF NoCircle
  <2>1. \E p \in Promise : p \in circle
    <3>1. circle \subseteq Promise /\ circle # {}
      OBVIOUS
    <3> QED
      BY <3>1
  <2> QED
    BY <2>1, <1>7, PromisesAreNamed
<1>14. TasksInv'
  <2>1. \A s : ~Running(s)'
    BY <1>1, <1>2 DEF Running
  <2> QED
    BY <2>1, <1>1, <1>2 DEF TasksInv
<1>15. WakeupsInv'
  <2>1. \A s : ~Suspended(s)'
    BY <1>1 DEF Suspended
  <2> QED
    BY <2>1, <1>1, <1>2, <1>8, <1>9 DEF WakeupsInv
<1>16. DeliveryInv'
  <2>1. ASSUME NEW p \in Promise, returned[p] # None
        PROVE  /\ promise'[p].claimed /\ Settled(p)'
               /\ \/ promise'[p].outcome = promise'[returned[p]].outcome
                  \/ /\ promise'[p].outcome.why = "reset"
                     /\ promise'[returned[p]].outcome.why = "reset"
    <3>1. PICK source \in Promise : source = returned[p]
      BY <2>1 DEF SchedulerTyped
    <3>2. CASE p \in pending
      <4>1. promise[p].adopting = source /\ source # None
        BY <3>1, <3>2, <2>1, <1>5 DEF DeliveryInv
      <4>2. Waits(Adopt(p))
        BY <4>1 DEF AdoptersInv
      <4>3. ~Settled(source) /\ Attached(Adopt(p), source)
        BY <4>1, <4>2, <1>9, Homes DEF Waits
      <4>4. source \in pending
        BY <4>3, <1>2, <1>6 DEF Attached
      <4> QED
        BY <3>1, <3>2, <4>4, <1>3, <1>4, <1>7
    <3>3. CASE p \notin pending
      <4>1. promise[p].claimed /\ Settled(p)
        BY <3>3, <2>1, <1>6 DEF DeliveryInv, NewPromise
      <4>2. \/ promise[p].outcome = promise[source].outcome
            \/ promise[p].outcome.why = "reset" /\ promise[source].outcome.why = "reset"
        BY <4>1, <3>1, <2>1 DEF DeliveryInv, AdoptedOutcome
      <4>3. Settled(source)
        BY <4>1, <4>2 DEF Settled, Pending
      <4>4. source \notin pending
        BY <4>3, <1>5
      <4> QED
        BY <3>1, <3>3, <4>1, <4>2, <4>4, <1>4, <1>7
    <3> QED
      BY <3>2, <3>3
  <2>2. AdoptedOutcome'
    BY <2>1, <1>1 DEF AdoptedOutcome
  <2>3. \A p \in Promise : returned'[p] # None =>
           /\ promise'[p].claimed
           /\ ~Settled(p)' => promise'[p].adopting = returned'[p]
    BY <2>1, <1>1
  <2> QED
    BY <2>2, <2>3, <1>1, <1>2 DEF DeliveryInv
<1>17. errors \in Seq(Promise) /\ \A i \in 1 .. Len(errors) : errors[i] \in Promise
  BY ElementOfSeq DEF SchedulerTyped
<1>18. FailuresInv'
  <2>1. /\ \A p : p \in reported' <=> p \in reported \/ Kept(p)
        /\ \A p : ~Kept(p)'
        /\ Once(errors')
    BY <1>1, <1>2 DEF Kept, Once
  <2>2. \A p \in Promise : kind'[p] = "procedure" /\ ~Settled(p)' => Attached(Record(p), p)'
    BY <1>1, <1>6, <1>7
  <2>3. \A p \in Promise : kind'[p] = "procedure" /\ Settled(p)' /\ Failed(p)' =>
           p \in reported'
    <3> SUFFICES ASSUME NEW p \in Promise, kind[p] = "procedure", Settled(p)', Failed(p)'
                 PROVE  p \in reported'
      BY <1>1
    <3>1. p \notin pending
      BY <1>3, <1>4 DEF Failed
    <3>2. Settled(p) /\ Failed(p)
      BY <3>1, <1>4, <1>7 DEF Failed
    <3> QED
      BY <3>2, <2>1, <1>9 DEF FailuresInv
  <2>4. \A p \in Promise : p \in reported' => Settled(p)' /\ ~Called(Record(p))'
    BY <2>1, <1>7, <1>9 DEF FailuresInv
  <2> QED
    BY <2>1, <2>2, <2>3, <2>4 DEF FailuresInv
<1>19. SchedulerTyped'
  <2>1. awaits' \in [Promise -> Promise \cup {None}]
    BY <1>1
  <2> QED
    BY <2>1, <1>1, <1>2, <1>4, <1>17 DEF SchedulerTyped
<1>20. \A p \in Promise : Settled(p) => promise'[p].outcome = promise[p].outcome
  BY <1>4, <1>5
<1> QED
  BY <1>10, <1>11, <1>12, <1>13, <1>14, <1>15, <1>16, <1>18, <1>19, <1>20

-----------------------------------------------------------------------------
(* The theorems. *)

(* An empty scheduler satisfies the invariant. *)
LEMMA InitIsSound == ASSUME Init PROVE SchedulerInv
<1>1. 1 .. Len(<<>>) = {} /\ \A S : <<>> \in Seq(S)
  BY EmptySeq
<1>2. NewPromise \in PromiseRecord
  BY <1>1 DEF NewPromise, PromiseRecord, Outcome, Pending
<1>3. \A p \in Promise : /\ kind[p] = "free" /\ promise[p] = NewPromise
                         /\ awaits[p] = None /\ returned[p] = None
  BY DEF Init
<1>4. \A p \in Promise : /\ promise[p].outcome = Pending /\ promise[p].claimed = FALSE
                         /\ promise[p].adopting = None /\ promise[p].listeners = <<>>
                         /\ ~Settled(p)
  BY <1>3 DEF NewPromise, Settled
<1>5. /\ pending = {} /\ tasks = {} /\ ready = <<>> /\ notifications = <<>> /\ stack = <<>>
      /\ errors = <<>> /\ dropped = {} /\ reported = {}
  BY DEF Init
<1>6. SchedulerTyped
  BY <1>1, <1>2, SchedulerAssumption DEF Init, SchedulerTyped, Kinds
<1>7. PromisesInv
  <2>1. pending = {p \in Made : ~Settled(p)}
    BY <1>3, <1>5 DEF Made
  <2> QED
    BY <2>1, <1>3, <1>4, <1>5 DEF PromisesInv
<1>8. TasksInv
  BY <1>1, <1>5 DEF TasksInv, Running
<1>9. (\A l, p : p \in Promise => ~Attached(l, p)) /\ \A l : ~Called(l)
  BY <1>1, <1>4, <1>5 DEF Attached, Called, CalledIn
<1>10. ListenersInv
  <2>1. Once(<<>>) /\ Sound(notifications)
    BY <1>1, <1>5 DEF Once, Sound
  <2> QED
    BY <2>1, <1>4, <1>9 DEF ListenersInv
<1>11. AdoptersInv
  BY <1>4 DEF AdoptersInv
<1>12. WakeupsInv
  BY <1>1, <1>5, <1>9 DEF WakeupsInv, Suspended
<1>13. DeliveryInv
  BY <1>1, <1>3, <1>5 DEF DeliveryInv, AdoptedOutcome
<1>14. NoCircle
  <2>1. ASSUME NEW circle, circle \subseteq Promise, circle # {}
        PROVE  \E p \in circle : promise[p].adopting \notin circle
    <3>1. PICK p \in Promise : p \in circle
      BY <2>1
    <3> QED
      BY <2>1, <3>1, <1>4, PromisesAreNamed
  <2>2. \A circle \in (SUBSET Promise) \ {{}} : circle \subseteq Promise /\ circle # {}
    OBVIOUS
  <2> QED
    BY <2>1, <2>2 DEF NoCircle
<1>15. FailuresInv
  BY <1>1, <1>3, <1>4, <1>5, <1>9 DEF FailuresInv, Kept, Once
<1> QED
  BY <1>6, <1>7, <1>8, <1>10, <1>11, <1>12, <1>13, <1>14, <1>15 DEF SchedulerInv

(* Every step keeps the invariant, and no step changes an outcome. *)
LEMMA StepKeeps ==
    ASSUME SchedulerInv, [Next]_vars
    PROVE  /\ SchedulerInv'
           /\ \A p \in Promise : Settled(p) => promise'[p].outcome = promise[p].outcome
<1> DEFINE Final == \A p \in Promise : Settled(p) => promise'[p].outcome = promise[p].outcome
<1>1. CASE Notify
  <2>1. SchedulerInv'
    BY <1>1, NotifyKeeps
  <2>2. CASE Head(notifications).listener.does = "adopt"
    <3>1. PICK p : p = Head(notifications).listener.for
      OBVIOUS
    <3>2. PromiseStep(p)
      BY <1>1, <2>2, <3>1, NotifyAdopts
    <3> QED
      BY <2>1, <3>2 DEF PromiseStep
  <2>3. CASE Head(notifications).listener.does # "adopt"
    <3>1. promise' = promise
      BY <1>1, <2>3 DEF Notify
    <3> QED
      BY <2>1, <3>1
  <2> QED
    BY <2>2, <2>3
<1>2. CASE NewPending
  BY <1>2, NewPendingKeeps DEF NewPending
<1>3. ASSUME NEW p \in Promise, SettleSignal(p)
      PROVE  SchedulerInv' /\ Final
  BY <1>3, SettleSignalKeeps DEF PromiseStep
<1>4. ASSUME NEW k \in {"function", "procedure"}, Start(k)
      PROVE  SchedulerInv' /\ Final
  <2>1. PICK n : n = NextFree
    OBVIOUS
  <2>2. n \in Promise /\ kind[n] = "free"
    BY <1>4, <2>1, NextFreeIsFree DEF Start
  <2>3. ~Settled(n)
    <3>1. promise[n] = NewPromise
      BY <2>2 DEF SchedulerInv, PromisesInv
    <3> QED
      BY <3>1 DEF NewPromise, Settled
  <2>4. \A p \in Promise : p # n => promise'[p] = promise[p]
    BY <1>4, <2>1 DEF Start, AddListener, SchedulerInv, SchedulerTyped
  <2> QED
    BY <1>4, <2>3, <2>4, StartKeeps
<1>5. CASE Await
  <2>1. SchedulerInv'
    BY <1>5, AwaitKeeps
  <2>2. PICK t, q : AwaitPending(t, q) \/ AwaitReady(t, q)
    BY <1>5 DEF Await
  <2>3. CASE AwaitReady(t, q)
    BY <2>1, <2>3 DEF AwaitReady
  <2>4. CASE AwaitPending(t, q)
    <3>1. ~Settled(q) /\ AddListener(q, Wake(t))
      BY <2>4 DEF AwaitPending
    <3>2. \A p \in Promise : p # q => promise'[p] = promise[p]
      BY <3>1 DEF AddListener, SchedulerInv, SchedulerTyped
    <3> QED
      BY <2>1, <3>1, <3>2
  <2> QED
    BY <2>2, <2>3, <2>4
<1>6. CASE Finish
  BY <1>6, FinishKeeps DEF PromiseStep
<1>7. CASE HostError
  BY <1>7, HostErrorKeeps DEF HostError
<1>8. CASE Leave
  BY <1>8, LeaveKeeps DEF Leave
<1>9. CASE Inline
  BY <1>9, InlineKeeps DEF Inline
<1>10. CASE Pump \/ PumpEnds \/ Reset \/ \E t \in Promise : CloseTask(t)
  <2>1. SchedulerInv'
    BY <1>10, DrivingKeeps
  <2>2. promise' = promise
    BY <1>10 DEF Pump, PumpEnds, Reset, CloseTask
  <2> QED
    BY <2>1, <2>2
<1>11. CASE PumpStep
  BY <1>11, PumpStepKeeps DEF PumpStep
<1>12. CASE TakeErrors
  BY <1>12, TakeErrorsKeeps DEF TakeErrors
<1>13. CASE ResetEnds
  BY <1>13, ResetEndsKeeps
<1>14. CASE UNCHANGED vars
  <2>1. UNCHANGED <<kind, promise, pending, tasks, ready, notifications, stack, mode, steps,
                    closing, errors, awaits, returned, dropped, reported>>
    BY <1>14 DEF vars
  <2>2. StandsStill
    BY <2>1 DEF StandsStill, Running
  <2>3. TasksInv'
    BY <2>1, TasksStay DEF SchedulerInv
  <2>4. SchedulerTyped'
    BY <2>1 DEF SchedulerInv, SchedulerTyped
  <2> QED
    BY <2>1, <2>2, <2>3, <2>4, StandingKeeps DEF SchedulerInv
<1> QED
  BY <1>1, <1>2, <1>3, <1>4, <1>5, <1>6, <1>7, <1>8, <1>9, <1>10, <1>11, <1>12, <1>13, <1>14
     DEF Next, FrameEnds, PumpGoesOn, ResetGoesOn

(* The scheduler keeps its invariant: every listener is where the promise it *)
(* waits for says, once.                                                    *)
THEOREM SchedulerInvariant == Spec => []SchedulerInv
<1>1. Init => SchedulerInv
  BY InitIsSound
<1>2. SchedulerInv /\ [Next]_vars => SchedulerInv'
  BY StepKeeps
<1> QED
  BY <1>1, <1>2, PTL DEF Spec

(* Promises, queues and frames keep their types. *)
THEOREM SchedulerStaysTyped == Spec => []TypeOK
<1>1. ASSUME SchedulerInv PROVE TypeOK
  <2>1. SchedulerTyped
    BY <1>1 DEF SchedulerInv
  <2>2. \A p \in Promise :
           /\ promise[p].outcome \in Outcome
           /\ promise[p].claimed \in BOOLEAN
           /\ promise[p].adopting \in Promise \cup {None}
           /\ \A i \in 1 .. Len(promise[p].listeners) : promise[p].listeners[i] \in Listener
    BY <2>1, PromiseFields
  <2>3. \A i \in 1 .. Len(ready) : ready[i] \in [task : Promise, outcome : Outcome]
    BY <2>1, ReadyFields DEF ReadyRecord
  <2>4. \A i \in 1 .. Len(notifications) :
           notifications[i] \in [listener : Listener, source : Promise]
    <3>1. notifications \in Seq(Notification)
      BY <2>1 DEF SchedulerTyped
    <3> QED
      BY <3>1, QueueFields DEF Notification
  <2>5. \A i \in 1 .. Len(stack) : stack[i] \in Frame
    <3>1. stack \in Seq(Frame)
      BY <2>1 DEF SchedulerTyped
    <3> QED
      BY <3>1, ElementOfSeq
  <2>6. \A i \in 1 .. Len(errors) : errors[i] \in Promise
    <3>1. errors \in Seq(Promise)
      BY <2>1 DEF SchedulerTyped
    <3> QED
      BY <3>1, ElementOfSeq
  <2> QED
    BY <2>1, <2>2, <2>3, <2>4, <2>5, <2>6 DEF TypeOK, SchedulerTyped
<1> QED
  BY <1>1, SchedulerInvariant, PTL

(* An outcome, once given, stays: no claim, repeated signal, adoption or     *)
(* reset replaces it.                                                       *)
THEOREM OutcomesStayFinal == Spec => OutcomesAreFinal
<1>1. SchedulerInv /\ [Next]_vars =>
         [\A p \in Promise : Settled(p) => promise'[p].outcome = promise[p].outcome]_vars
  BY StepKeeps
<1> QED
  BY <1>1, SchedulerInvariant, PTL DEF Spec, OutcomesAreFinal

(* What is delivered is the outcome of what was awaited, and who was         *)
(* resolved with a promise ends with that promise's outcome.                *)
THEOREM OutcomesKeepArriving == Spec => []OutcomesArrive
<1>1. SchedulerInv => OutcomesArrive
  BY DEF SchedulerInv, DeliveryInv, OutcomesArrive, DeliversWhatWasAwaited
<1> QED
  BY <1>1, SchedulerInvariant, PTL

-----------------------------------------------------------------------------
(* Counting listeners. *)

(* The number of elements of a set without any. *)
LEMMA CountNone == ASSUME NEW S, \A x \in S : FALSE PROVE Cardinality(S) = 0
<1>1. S = {}
  OBVIOUS
<1> QED
  BY <1>1, FS_EmptySet

(* The number of elements of a set of one. *)
LEMMA CountOne ==
    ASSUME NEW S, NEW x \in S, \A y \in S : y = x
    PROVE  Cardinality(S) = 1
<1>1. S = {x}
  OBVIOUS
<1> QED
  BY <1>1, FS_Singleton

(* How often a listener waits in a queue that holds it at most once. *)
LEMMA CountCalled ==
    ASSUME ListenersInv, NEW l
    PROVE  Cardinality(Queued(l)) = IF Called(l) THEN 1 ELSE 0
<1>1. CASE Called(l)
  <2>1. PICK i \in Queued(l) : TRUE
    BY <1>1 DEF Called, CalledIn, Queued
  <2>2. \A j \in Queued(l) : j = i
    BY DEF ListenersInv, Sound, Queued
  <2> QED
    BY <1>1, <2>2, CountOne
<1>2. CASE ~Called(l)
  <2>1. \A j \in Queued(l) : FALSE
    BY <1>2 DEF Called, CalledIn, Queued
  <2> QED
    BY <1>2, <2>1, CountNone
<1> QED
  BY <1>1, <1>2

(* A listener waits on one promise at most, once. *)
LEMMA CountAttached ==
    ASSUME ListenersInv, NEW l \in Listener
    PROVE  Cardinality(Waiting(l)) = IF \E p \in Promise : Attached(l, p) THEN 1 ELSE 0
<1> DEFINE Spots(p) == {p} \X {i \in 1 .. Len(promise[p].listeners) :
                                  promise[p].listeners[i] = l}
<1>1. \A x : x \in Waiting(l) <=>
         \E p \in Promise : \E i \in 1 .. Len(promise[p].listeners) :
            x = <<p, i>> /\ promise[p].listeners[i] = l
  BY DEF Waiting
<1>2. ASSUME NEW p \in Promise, Attached(l, p)
      PROVE  Cardinality(Waiting(l)) = 1
  <2>1. PICK i \in 1 .. Len(promise[p].listeners) : promise[p].listeners[i] = l
    BY <1>2 DEF Attached
  <2>2. <<p, i>> \in Waiting(l)
    BY <2>1, <1>1
  <2>3. ASSUME NEW y \in Waiting(l)
        PROVE  y = <<p, i>>
    <3>1. PICK q, j : /\ q \in Promise /\ j \in 1 .. Len(promise[q].listeners)
                     /\ y = <<q, j>> /\ promise[q].listeners[j] = l
      BY <1>1
    <3>2. Home(l) = q /\ Home(l) = p
      BY <3>1, <1>2 DEF ListenersInv, Attached
    <3>3. i = j
      BY <3>1, <3>2, <2>1 DEF ListenersInv, Once
    <3> QED
      BY <3>1, <3>2, <3>3
  <2> QED
    BY <2>2, <2>3, CountOne
<1>3. CASE \A p \in Promise : ~Attached(l, p)
  <2>1. \A x \in Waiting(l) : FALSE
    BY <1>1, <1>3 DEF Attached
  <2> QED
    BY <1>3, <2>1, CountNone
<1> QED
  BY <1>2, <1>3

(* A listener that waits is there once, and one that waits nowhere is not.  *)
LEMMA CountCalls ==
    ASSUME SchedulerInv, NEW l \in Listener
    PROVE  /\ Waits(l) => Calls(l) = 1
           /\ ~Placed(l) => Calls(l) = 0
<1> USE DEF SchedulerInv
<1>1. /\ Cardinality(Queued(l)) = IF Called(l) THEN 1 ELSE 0
      /\ Cardinality(Waiting(l)) = IF \E p \in Promise : Attached(l, p) THEN 1 ELSE 0
  BY CountCalled, CountAttached
<1>2. ASSUME Waits(l)
      PROVE  Calls(l) = 1
  <2>1. PICK h \in Promise : h = Home(l)
    BY <1>2 DEF Waits
  <2>2. CASE Settled(h)
    <3>1. Called(l)
      BY <1>2, <2>1, <2>2 DEF Waits
    <3>2. 1 .. Len(<<>>) = {} /\ promise[h].listeners = <<>>
      BY <2>2, EmptySeq DEF PromisesInv
    <3>3. \A p \in Promise : ~Attached(l, p)
      BY <2>1, <3>2 DEF ListenersInv, Attached
    <3> QED
      BY <3>1, <3>3, <1>1 DEF Calls
  <2>3. CASE ~Settled(h)
    <3>1. Attached(l, h)
      BY <1>2, <2>1, <2>3 DEF Waits
    <3>2. ~Called(l)
      BY <2>1, <2>3 DEF ListenersInv, Sound, Called, CalledIn
    <3> QED
      BY <3>1, <3>2, <1>1 DEF Calls
  <2> QED
    BY <2>2, <2>3
<1>3. ~Placed(l) => Calls(l) = 0
  BY <1>1 DEF Placed, Calls
<1> QED
  BY <1>2, <1>3

(* A suspended task has exactly one wakeup ahead of it, and no other task   *)
(* has any: no await is lost or answered twice.                             *)
THEOREM WakeupsStaySingle == Spec => []OneWakeup
<1>1. ASSUME SchedulerInv, NEW t \in Promise
      PROVE  Calls(Wake(t)) + Cardinality(InReady(t)) =
                IF t \in tasks /\ ~Running(t) /\ t \notin dropped THEN 1 ELSE 0
  <2> USE DEF SchedulerInv
  <2>1. Wake(t) \in Listener
    BY ListenerForms
  <2>2. Cardinality(InReady(t)) = IF IsReady(t) THEN 1 ELSE 0
    <3>1. CASE IsReady(t)
      <4>1. PICK i \in InReady(t) : TRUE
        BY <3>1 DEF IsReady, InReady
      <4>2. \A j \in InReady(t) : j = i
        BY <1>1 DEF WakeupsInv, InReady
      <4> QED
        BY <3>1, <4>2, CountOne
    <3>2. CASE ~IsReady(t)
      <4>1. \A j \in InReady(t) : FALSE
        BY <3>2 DEF IsReady, InReady
      <4> QED
        BY <3>2, <4>1, CountNone
    <3> QED
      BY <3>1, <3>2
  <2>3. CASE IsReady(t)
    <3>1. Suspended(t)
      BY <1>1, <2>3 DEF WakeupsInv, IsReady
    <3>2. Calls(Wake(t)) = 0
      BY <1>1, <2>1, <2>3, NoWakeup, CountCalls
    <3> QED
      BY <2>2, <2>3, <3>1, <3>2 DEF Suspended
  <2>4. CASE ~IsReady(t) /\ Suspended(t)
    <3>1. Waits(Wake(t))
      BY <1>1, <2>4 DEF WakeupsInv
    <3>2. Calls(Wake(t)) = 1
      BY <1>1, <2>1, <3>1, CountCalls
    <3> QED
      BY <2>2, <2>4, <3>2 DEF Suspended
  <2>5. CASE ~IsReady(t) /\ ~Suspended(t)
    <3>1. Calls(Wake(t)) = 0
      BY <1>1, <2>1, <2>5, NoWakeup, CountCalls
    <3> QED
      BY <2>2, <2>5, <3>1 DEF Suspended
  <2> QED
    BY <2>3, <2>4, <2>5
<1>2. SchedulerInv => OneWakeup
  BY <1>1 DEF OneWakeup
<1> QED
  BY <1>2, SchedulerInvariant, PTL

(* Who waits, waits with one listener for something still to come, never in *)
(* a circle, and what is pending is what is not settled.                    *)
THEOREM PromisesKeepWaitingSoundly == Spec => []PromisesWaitSoundly
<1>1. ASSUME SchedulerInv PROVE AdoptionCompletes
  <2> USE <1>1 DEF SchedulerInv
  <2>1. \A circle \in (SUBSET Promise) \ {{}} :
           \E p \in circle : promise[p].adopting \notin circle
    BY DEF NoCircle
  <2>2. ASSUME NEW p \in Promise
        PROVE  Calls(Adopt(p)) = IF promise[p].adopting # None THEN 1 ELSE 0
    <3>1. Adopt(p) \in Listener /\ Home(Adopt(p)) = promise[p].adopting
      BY ListenerForms, Homes
    <3>2. CASE promise[p].adopting # None
      BY <3>1, <3>2, CountCalls DEF AdoptersInv
    <3>3. CASE promise[p].adopting = None
      <4>1. ~Placed(Adopt(p))
        BY <3>1, <3>3, NowherePlaced, PromisesAreNamed
      <4> QED
        BY <3>1, <3>3, <4>1, CountCalls
    <3> QED
      BY <3>2, <3>3
  <2>3. \A p \in Promise : promise[p].claimed /\ ~Settled(p) <=> promise[p].adopting # None
    BY DEF PromisesInv
  <2> QED
    BY <2>1, <2>2, <2>3 DEF AdoptionCompletes
<1>2. ASSUME SchedulerInv PROVE PendingIsExact
  <2>1. \A t \in tasks : t \in pending
    <3> SUFFICES ASSUME NEW t \in tasks PROVE t \in pending
      OBVIOUS
    <3>1. t \in Promise /\ kind[t] # "free" /\ ~promise[t].claimed
      BY <1>2 DEF SchedulerInv, SchedulerTyped, TasksInv
    <3> QED
      BY <3>1, <1>2 DEF SchedulerInv, PromisesInv, Made
  <2> QED
    BY <2>1, <1>2 DEF SchedulerInv, PromisesInv, PendingIsExact
<1>3. SchedulerInv => PromisesWaitSoundly
  BY <1>1, <1>2 DEF PromisesWaitSoundly
<1> QED
  BY <1>3, SchedulerInvariant, PTL

(* A procedure's failure is in the queue, in the batch or reported, in one   *)
(* of them and once.                                                        *)
THEOREM FailuresStayReportedOnce == Spec => []FailuresReportedOnce
<1>1. ASSUME SchedulerInv, NEW p \in Promise, kind[p] = "procedure",
             promise[p].outcome.state = "rejected", promise[p].outcome.why # "reset"
      PROVE  Cardinality(Queued(Record(p)))
             + Cardinality({i \in 1 .. Len(errors) : errors[i] = p})
             + (IF p \in reported THEN 1 ELSE 0) = 1
  <2> DEFINE Spots == {i \in 1 .. Len(errors) : errors[i] = p}
  <2> USE DEF SchedulerInv
  <2>1. Settled(p) /\ Failed(p)
    BY <1>1 DEF Settled, Pending, Failed
  <2>2. Cardinality(Queued(Record(p))) = IF Called(Record(p)) THEN 1 ELSE 0
    BY <1>1, CountCalled
  <2>3. Cardinality(Spots) = IF Kept(p) THEN 1 ELSE 0
    <3>1. CASE Kept(p)
      <4>1. PICK i \in Spots : TRUE
        BY <3>1 DEF Kept
      <4>2. \A j \in Spots : j = i
        BY <1>1 DEF FailuresInv, Once
      <4> QED
        BY <3>1, <4>2, CountOne
    <3>2. CASE ~Kept(p)
      <4>1. \A j \in Spots : FALSE
        BY <3>2 DEF Kept
      <4> QED
        BY <3>2, <4>1, CountNone
    <3> QED
      BY <3>1, <3>2
  <2> HIDE DEF Spots
  <2>4. /\ Called(Record(p)) \/ Kept(p) \/ p \in reported
        /\ Kept(p) \/ p \in reported => ~Called(Record(p))
        /\ Kept(p) => p \notin reported
    BY <1>1, <2>1 DEF FailuresInv
  <2>5. Cardinality(Queued(Record(p))) + Cardinality(Spots)
        + (IF p \in reported THEN 1 ELSE 0) = 1
    BY <2>2, <2>3, <2>4
  <2> QED
    BY <2>5 DEF Spots
<1>2. SchedulerInv => FailuresReportedOnce
  BY <1>1 DEF FailuresReportedOnce
<1> QED
  BY <1>2, SchedulerInvariant, PTL
=============================================================================
