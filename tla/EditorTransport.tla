---------------------------- MODULE EditorTransport ----------------------------
(***************************************************************************)
(* The way of one editor event: the renderer's client (client.mjs), the    *)
(* handler threads and the bridge of the local server (local_app.py), the  *)
(* worker thread that owns the pipes, and the session of the child process *)
(* (editor_protocol.py, editor_stdio.py) that applies the event.           *)
(*                                                                         *)
(* A page is one load of the renderer; opening another one is a second tab *)
(* or, when the first makes no more requests, a reload.  A call is one     *)
(* request of a page with the handler thread that serves it.  What an      *)
(* event does to the form is left out: it ends well or badly, and its      *)
(* snapshot can be taken or not.                                           *)
(***************************************************************************)
EXTENDS Integers, Sequences, FiniteSets

CONSTANTS
    Page,      \* loads of the renderer
    MaxCalls,  \* bound: requests ever made
    Limit,     \* the 4096 requests of a bridge and of a session
    MaxFaults  \* bound: lost connections, ends of the child, Ctrl+C

ASSUME TransportAssumption ==
    /\ MaxCalls \in Nat /\ MaxFaults \in Nat
    /\ Limit \in Nat \ {0}

VARIABLES
    pages,    \* each page's EditorClient
    calls,    \* the requests made so far, and their handlers
    bridge,   \* gate, counter, started, failed, _closed
    wire,     \* _requests, _replies, and the child's stdin and stdout
    worker,   \* _pipe_worker: where it is and the line it holds
    child,    \* the CatalogEditorSession and its process
    server,   \* where main of the server is, and how it stopped the child
    faults,   \* faults so far
    handled   \* history: every request the session answered

behind == <<wire, worker, child, handled>>
around == <<server, faults>>
vars == <<pages, calls, bridge, behind, around>>

Free == 0            \* the gate is nobody's
Main == -1           \* the gate is close()'s
NoCall == 0
Unseen == -1         \* a client without a snapshot
Call == DOMAIN calls
Events == {"edit", "close"}
Methods == Events \cup {"hello", "snapshot"}
Refused == {"rejected", "busy", "unavailable"}
Phases == {"sent", "entered", "checked", "waiting", "answered", "over"} \cup Refused

Line == [call : Nat, id : Nat, method : Methods \cup {"none"}, base : Int]
Stop == [call |-> NoCall, id |-> 0, method |-> "none", base |-> Unseen]

(* A reply: of which call, the id on the wire, result or error, whether it *)
(* carries a snapshot, and the snapshot's revision and closed state.       *)
Reply == [call : Nat, id : Nat, kind : {"result", "error", "none"},
          snapshot : BOOLEAN, revision : Int, closed : BOOLEAN]
EOF == [call |-> NoCall, id |-> 0, kind |-> "none", snapshot |-> FALSE,
        revision |-> Unseen, closed |-> FALSE]

NewPage == [open |-> FALSE, call |-> NoCall, seen |-> Unseen, uncertain |-> FALSE]

Fault == faults < MaxFaults /\ faults' = faults + 1

-----------------------------------------------------------------------------
(* The renderer. *)

Idle(p) == pages[p].open /\ pages[p].call = NoCall

(* EditorClient.request: the next call of a page.  Once the server is       *)
(* closing, no connection is accepted and nothing follows from a request.  *)
Request(p, page, method) ==
    /\ Len(calls) < MaxCalls
    /\ server.at \in {"serving", "asked"}
    /\ pages' = [pages EXCEPT ![p] = [page EXCEPT !.call = Len(calls) + 1]]
    /\ calls' = Append(calls,
           [page |-> p, method |-> method, id |-> 0,
            base |-> IF method \in Events THEN page.seen ELSE Unseen,
            lost |-> FALSE, reply |-> EOF, phase |-> "sent"])
    /\ UNCHANGED <<bridge, behind, around>>

Open(p) ==
    /\ ~pages[p].open
    /\ Request(p, [pages[p] EXCEPT !.open = TRUE], "hello")

(* An uncertain page resynchronizes, or its launch URL is entered again. *)
Resync(p) ==
    /\ Idle(p) /\ pages[p].uncertain
    /\ \E method \in {"snapshot", "hello"} : Request(p, pages[p], method)

Event(p, method) ==
    /\ Idle(p) /\ pages[p].seen # Unseen /\ ~pages[p].uncertain
    /\ Request(p, pages[p], method)

(* fetch fails while the handler is still at work. *)
ConnectionLost(p) ==
    LET c == pages[p].call IN
    /\ c # NoCall /\ Fault
    /\ pages' = [pages EXCEPT ![p].call = NoCall, ![p].uncertain = TRUE]
    /\ calls' = [calls EXCEPT ![c].lost = (calls[c].phase = "sent")]
    /\ UNCHANGED <<bridge, behind, server>>

ReceivedCertain(page, call) == \* mutant: a failed fetch leaves the page certain
    LET r == call.reply
        fresh == call.phase = "answered" /\ r.snapshot /\ r.revision >= page.seen
    IN  [page EXCEPT !.call = NoCall,
                     !.seen = IF fresh THEN r.revision ELSE @,
                     !.uncertain = (call.phase = "answered" /\ ~fresh)]

(* EditorClient.request, after the await. *)
Received(page, call) ==
    LET r == call.reply
        fresh == call.phase = "answered" /\ r.snapshot /\ r.revision >= page.seen
    IN  [page EXCEPT !.call = NoCall,
                     !.seen = IF fresh THEN r.revision ELSE @,
                     !.uncertain = ~fresh]

(* Of a call that is over only its history is kept. *)
Receive(p) ==
    LET c == pages[p].call IN
    /\ c # NoCall
    /\ calls[c].phase \in Refused \cup {"answered"}
    /\ pages' = [pages EXCEPT ![p] = Received(pages[p], calls[c])]
    /\ calls' = [calls EXCEPT ![c] = [@ EXCEPT !.phase = "over", !.id = 0, !.reply = EOF]]
    /\ UNCHANGED <<bridge, behind, around>>

-----------------------------------------------------------------------------
(* A handler thread: do_POST and RuntimeBridge.exchange. *)

Phase(c, phase) == calls' = [calls EXCEPT ![c].phase = phase]

(* The body does not arrive, or the connections are used up. *)
Reject(c) ==
    /\ calls[c].phase = "sent" /\ Fault
    /\ Phase(c, "rejected")
    /\ UNCHANGED <<pages, bridge, behind, server>>

Busy(c) ==
    /\ calls[c].phase = "sent" /\ bridge.gate # Free
    /\ Phase(c, "busy")
    /\ UNCHANGED <<pages, bridge, behind, around>>

Enter(c) ==
    /\ calls[c].phase = "sent" /\ bridge.gate = Free
    /\ Phase(c, "entered")
    /\ bridge' = [bridge EXCEPT !.gate = c]
    /\ UNCHANGED <<pages, behind, around>>

(* The except clause, and the gate is released. *)
Fail(c) ==
    /\ Phase(c, "unavailable")
    /\ bridge' = [bridge EXCEPT !.failed = TRUE, !.gate = Free]

Unusable == bridge.closed \/ bridge.failed \/ bridge.counter >= Limit

CheckFails(c) ==
    /\ calls[c].phase = "entered" /\ Unusable
    /\ Fail(c)
    /\ UNCHANGED <<pages, behind, around>>

Check(c) ==
    /\ calls[c].phase = "entered" /\ ~Unusable
    /\ calls' = [calls EXCEPT ![c].phase = "checked", ![c].id = bridge.counter + 1]
    /\ bridge' = [bridge EXCEPT !.counter = @ + 1]
    /\ UNCHANGED <<pages, behind, around>>

(* A renderer that opens again reads the state: its hello becomes a snapshot. *)
Forwarded(c) ==
    [call |-> c, id |-> calls[c].id, base |-> calls[c].base,
     method |-> IF calls[c].method = "hello" /\ bridge.started
                THEN "snapshot" ELSE calls[c].method]

PutBlind(c) == \* mutant: the queue is not bounded
    /\ calls[c].phase = "checked"
    /\ Phase(c, "waiting")
    /\ wire' = [wire EXCEPT !.requests = Append(@, Forwarded(c))]
    /\ UNCHANGED <<pages, bridge, worker, child, handled, around>>

Put(c) ==
    /\ calls[c].phase = "checked" /\ wire.requests = <<>>
    /\ Phase(c, "waiting")
    /\ wire' = [wire EXCEPT !.requests = <<Forwarded(c)>>]
    /\ UNCHANGED <<pages, bridge, worker, child, handled, around>>

(* close() has put its None before. *)
PutFails(c) ==
    /\ calls[c].phase = "checked" /\ wire.requests # <<>>
    /\ Fail(c)
    /\ UNCHANGED <<pages, behind, around>>

TimeoutNever(c) == \* mutant: get() without a timeout
    FALSE /\ calls[c].phase = "waiting" /\ UNCHANGED vars

Timeout(c) ==
    /\ calls[c].phase = "waiting" /\ wire.replies = <<>>
    /\ Phase(c, "unavailable")
    /\ bridge' = [bridge EXCEPT !.failed = TRUE, !.gate = Free, !.timedOut = TRUE]
    /\ UNCHANGED <<pages, behind, around>>

Replied(c) ==
    /\ calls[c].phase = "waiting" /\ wire.replies # <<>>
    /\ wire' = [wire EXCEPT !.replies = <<>>]
    /\ UNCHANGED <<pages, worker, child, handled>>

AnsweredAnyhow(c, reply, phase) == \* mutant: an error also starts the session
    /\ Replied(c)
    /\ reply.id = bridge.counter
    /\ calls' = [calls EXCEPT ![c].phase = phase, ![c].reply = reply]
    /\ bridge' = [bridge EXCEPT !.gate = Free,
                                !.started = @ \/ calls[c].method = "hello"]

(* The exchange succeeds: the gate is free again and the id is the call's.  *)
Answered(c, reply, phase) ==
    /\ Replied(c)
    /\ reply.id = bridge.counter
    /\ calls' = [calls EXCEPT ![c].phase = phase, ![c].reply = reply]
    /\ bridge' = [bridge EXCEPT
           !.gate = Free,
           !.started = @ \/ (calls[c].method = "hello" /\ reply.kind = "result")]

(* The reply is written; a closed database stops the server. *)
Accept(c) ==
    LET reply == Head(wire.replies) IN
    /\ Answered(c, reply, "answered")
    /\ server' = IF server.at = "serving" /\ reply.kind = "result" /\ reply.closed
                 THEN [server EXCEPT !.at = "asked"] ELSE server
    /\ UNCHANGED faults

(* The renderer is no longer there to read it. *)
AcceptUnread(c) ==
    Answered(c, Head(wire.replies), "rejected") /\ Fault /\ UNCHANGED server

(* The pipe broke, or the reply has another id. *)
AcceptFails(c) ==
    /\ Replied(c)
    /\ Head(wire.replies).id # bridge.counter
    /\ Fail(c)
    /\ UNCHANGED around

Handler(c) ==
    \/ Reject(c) \/ Busy(c) \/ Enter(c)
    \/ CheckFails(c) \/ Check(c) \/ PutFails(c) \/ Put(c)
    \/ Timeout(c) \/ Accept(c) \/ AcceptUnread(c) \/ AcceptFails(c)

-----------------------------------------------------------------------------
(* The worker thread. *)

At(place) == worker' = [at |-> place, line |-> Stop]

WorkerLoops ==
    /\ worker.at = "check"
    /\ At(IF bridge.closed THEN "dead" ELSE "get")
    /\ UNCHANGED <<pages, calls, bridge, wire, child, handled, around>>

WorkerTakes ==
    LET line == Head(wire.requests) IN
    /\ worker.at = "get" /\ wire.requests # <<>>
    /\ IF line = Stop \/ bridge.closed
       THEN At("dead")
       ELSE worker' = [at |-> "write", line |-> line]
    /\ wire' = [wire EXCEPT !.requests = <<>>]
    /\ UNCHANGED <<pages, calls, bridge, child, handled, around>>

WorkerWrites ==
    /\ worker.at = "write" /\ child.alive
    /\ wire' = [wire EXCEPT !.stdin = Append(@, worker.line)]
    /\ At("read")
    /\ UNCHANGED <<pages, calls, bridge, child, handled, around>>

(* The worker returns on a full queue and on a bad reply. *)
PutReply(reply, stdout) ==
    /\ wire' = [wire EXCEPT !.stdout = stdout,
                            !.replies = IF @ = <<>> THEN <<reply>> ELSE @]
    /\ At(IF wire.replies # <<>> \/ reply = EOF THEN "dead" ELSE "check")
    /\ UNCHANGED <<pages, calls, bridge, child, handled, around>>

WorkerReads ==
    /\ worker.at = "read" /\ wire.stdout # <<>>
    /\ PutReply(Head(wire.stdout), Tail(wire.stdout))

WorkerBreaks ==
    /\ ~child.alive
    /\ worker.at = "write" \/ (worker.at = "read" /\ wire.stdout = <<>>)
    /\ PutReply(EOF, wire.stdout)

-----------------------------------------------------------------------------
(* The child process: CatalogEditorSession.exchange in the loop of main. *)

(* The refusals, before and after the request is counted. *)
Uncounted(m) == m.id <= child.last \/ child.requests >= Limit
WrongHello(m) == (m.method = "hello") = child.hello
NeverStale(m) == m.method = "none" \* mutant: baseRevision is not compared

Stale(m) == m.method \in Events /\ m.base # child.revision
Refuses(m) == Uncounted(m) \/ WrongHello(m) \/ Stale(m)

Admits(m) == m.method \in Events /\ ~Refuses(m)
Dispatches(m) == Admits(m) /\ ~child.closed

(* The event or the snapshot succeeds; or it fails, and the error carries a *)
(* snapshot or not.                                                        *)
Outcomes == {"done", "failed", "unavailable"}

Succeeds(m, outcome) ==
    outcome = "done" /\ ~Refuses(m) /\ (Admits(m) => ~child.closed)

(* An admitted event advances the revision even when it fails. *)
Session(m, outcome, closes) ==
    LET counted == IF Uncounted(m) THEN child
                   ELSE [child EXCEPT !.last = m.id, !.requests = @ + 1]
    IN  [counted EXCEPT
            !.hello = @ \/ (m.method = "hello" /\ Succeeds(m, outcome)),
            !.revision = IF Admits(m) THEN @ + 1 ELSE @,
            !.closed = @ \/ (Dispatches(m) /\ closes)]

(* Errors carry a snapshot too, once the handshake is made. *)
ReplyTo(m, outcome, session) ==
    [call |-> m.call, id |-> m.id,
     kind |-> IF Succeeds(m, outcome) THEN "result" ELSE "error",
     snapshot |-> Succeeds(m, outcome) \/ (child.hello /\ outcome = "failed"),
     revision |-> session.revision, closed |-> session.closed]

ChildHandles(outcome, closes) ==
    LET m == Head(wire.stdin) IN
    /\ child.alive /\ wire.stdin # <<>>
    /\ closes => m.method = "close"
    /\ child' = Session(m, outcome, closes)
    /\ wire' = [wire EXCEPT !.stdin = Tail(@),
                            !.stdout = Append(@, ReplyTo(m, outcome, child'))]
    /\ handled' = handled \cup
           {[call |-> m.call, revision |-> child.revision,
             dispatched |-> Dispatches(m), late |-> bridge.failed]}
    /\ UNCHANGED <<pages, calls, bridge, worker, around>>

(* A crash, a signal, or the end of its stdin; an answer that is not yet    *)
(* written is lost.                                                        *)
ChildExits ==
    /\ child.alive /\ Fault
    /\ child' = [child EXCEPT !.alive = FALSE]
    /\ \E stdout \in {wire.stdout, <<>>} :
           wire' = [wire EXCEPT !.stdin = <<>>, !.stdout = stdout]
    /\ UNCHANGED <<pages, calls, bridge, worker, handled, server>>

-----------------------------------------------------------------------------
(* main of the server, and RuntimeBridge.close. *)

ServerAt(from, to) == server.at = from /\ server' = [server EXCEPT !.at = to]

CloseStarts ==
    /\ bridge' = [bridge EXCEPT !.closed = TRUE]
    /\ UNCHANGED <<pages, calls, behind>>

ServerEnds == ServerAt("asked", "flagged") /\ CloseStarts /\ UNCHANGED faults

(* Ctrl+C. *)
Interrupted == ServerAt("serving", "flagged") /\ Fault /\ CloseStarts

(* The gate, if it is free; the call that holds it goes on otherwise. *)
CloseGates ==
    /\ ServerAt("flagged", "gated")
    /\ bridge' = [bridge EXCEPT !.gate = IF @ = Free THEN Main ELSE @]
    /\ UNCHANGED <<pages, calls, behind, faults>>

(* Its stdin is closed; or it is terminated, when a call is inside or the   *)
(* bridge failed.                                                          *)
CloseStops ==
    /\ server.at = "gated"
    /\ server' = [at |-> "stopping",
                  stdinClosed |-> child.alive /\ bridge.gate = Main /\ ~bridge.failed]
    /\ UNCHANGED <<pages, calls, bridge, behind, faults>>

CloseReapsOnly == \* mutant: the worker is not told
    /\ ServerAt("stopping", "done")
    /\ child' = [child EXCEPT !.alive = FALSE]
    /\ wire' = [wire EXCEPT !.stdin = <<>>]
    /\ bridge' = [bridge EXCEPT !.gate = IF @ = Main THEN Free ELSE @]
    /\ UNCHANGED <<pages, calls, worker, handled, faults>>

(* wait, kill after five seconds, and the worker is told to return. *)
CloseReaps ==
    /\ ServerAt("stopping", "done")
    /\ child' = [child EXCEPT !.alive = FALSE]
    /\ \E stdout \in {wire.stdout, <<>>} :
           wire' = [wire EXCEPT !.stdin = <<>>, !.stdout = stdout,
                            !.requests = IF @ = <<>> THEN <<Stop>> ELSE @]
    /\ bridge' = [bridge EXCEPT !.gate = IF @ = Main THEN Free ELSE @]
    /\ UNCHANGED <<pages, calls, worker, handled, faults>>

-----------------------------------------------------------------------------

Init ==
    /\ pages = [p \in Page |-> NewPage]
    /\ calls = <<>>
    /\ bridge = [gate |-> Free, counter |-> 0, started |-> FALSE, failed |-> FALSE,
                 closed |-> FALSE, timedOut |-> FALSE]
    /\ wire = [requests |-> <<>>, replies |-> <<>>, stdin |-> <<>>, stdout |-> <<>>]
    /\ worker = [at |-> "check", line |-> Stop]
    /\ child = [alive |-> TRUE, hello |-> FALSE, revision |-> 0, last |-> 0,
                requests |-> 0, closed |-> FALSE]
    /\ server = [at |-> "serving", stdinClosed |-> FALSE]
    /\ faults = 0
    /\ handled = {}

Renderer(p) ==
    \/ Open(p) \/ Resync(p)
    \/ \E method \in Events : Event(p, method)
    \/ ConnectionLost(p) \/ Receive(p)

Worker == WorkerLoops \/ WorkerTakes \/ WorkerWrites \/ WorkerReads \/ WorkerBreaks

Child ==
    \/ \E outcome \in Outcomes, closes \in BOOLEAN : ChildHandles(outcome, closes)
    \/ ChildExits

Closing == ServerEnds \/ CloseGates \/ CloseStops \/ CloseReaps

Next ==
    \/ \E p \in Page : Renderer(p)
    \/ \E c \in Call : Handler(c)
    \/ Worker \/ Child \/ Closing \/ Interrupted

Spec == Init /\ [][Next]_vars

(* Threads that can go on do; a get() with a timeout ends.  Nothing is      *)
(* assumed of the renderer, of the child, or of a write to it.             *)
Fairness ==
    /\ \A c \in 1 .. MaxCalls : WF_vars(c \in Call /\ Handler(c))
    /\ WF_vars(WorkerLoops \/ WorkerTakes \/ WorkerReads \/ WorkerBreaks)
    /\ WF_vars(Closing)

FairSpec == Spec /\ Fairness

-----------------------------------------------------------------------------
(* Properties. *)

(* Types: every record and queue holds what its code may put there, and the *)
(* two queues never hold more than one line (Queue(maxsize=1)).            *)
TransportTypeOK ==
    /\ pages \in [Page -> [open : BOOLEAN, call : Nat, seen : Int,
                           uncertain : BOOLEAN]]
    /\ calls \in Seq([page : Page, method : Methods, base : Int, id : Nat,
                      lost : BOOLEAN, reply : Reply, phase : Phases])
    /\ bridge \in [gate : Nat \cup {Main}, counter : 0 .. Limit, started : BOOLEAN,
                   failed : BOOLEAN, closed : BOOLEAN, timedOut : BOOLEAN]
    /\ wire \in [requests : Seq(Line), replies : Seq(Reply),
                 stdin : Seq(Line), stdout : Seq(Reply)]
    /\ Len(wire.requests) <= 1 /\ Len(wire.replies) <= 1
    /\ worker \in [at : {"check", "get", "write", "read", "dead"}, line : Line]
    /\ child \in [alive : BOOLEAN, hello : BOOLEAN, revision : Nat, last : Nat,
                  requests : 0 .. Limit, closed : BOOLEAN]
    /\ server \in [at : {"serving", "asked", "flagged", "gated", "stopping", "done"},
                   stdinClosed : BOOLEAN]
    /\ faults \in 0 .. MaxFaults
    /\ handled \subseteq [call : Nat, revision : Nat, dispatched : BOOLEAN, late : BOOLEAN]

(* An event takes effect at most once, and on the very revision its page    *)
(* showed when it was sent, however requests of other pages, reloads and    *)
(* lost answers fall in between; so of two events sent on one view of the   *)
(* form (a Save repeated after a lost answer) at most one takes effect.     *)
AppliedAsSeen ==
    LET applied == {h \in handled : h.dispatched} IN
    /\ \A h \in applied : h.revision = calls[h.call].base
    /\ \A h, g \in applied : calls[h.call].base = calls[g.call].base => h = g

(* An answer that reaches a page is the answer to its own request: a late   *)
(* reply is never taken for the reply to a later request.                   *)
AnswersMatch ==
    \A c \in Call : calls[c].phase = "answered" => calls[c].reply.call = c

(* Once the bridge has failed, the child still handles at most the request  *)
(* that was on its way: nothing follows an exchange of unknown outcome.     *)
OneLateRequest == Cardinality({h \in handled : h.late}) <= 1

(* The exchange as a page sees it: right event, right view, right answer.   *)
ExchangesMatch == AppliedAsSeen /\ AnswersMatch /\ OneLateRequest

(* The bridge fails only for a cause: a timeout, the child's end, close()   *)
(* or the limit.  Neither a busy bridge, nor a renderer that opens again,   *)
(* nor an error of the session makes it unusable.  (Pages send well-formed  *)
(* requests; the answer to another has no id, and the bridge would fail.)   *)
FailsForCause ==
    bridge.failed => \/ bridge.timedOut \/ ~child.alive \/ bridge.closed
                     \/ bridge.counter = Limit

(* Between exchanges a usable bridge and its session agree: on the          *)
(* handshake, on the last id and on the number of requests, with nothing    *)
(* left in a queue or a pipe.  The session then never refuses a request for *)
(* its sequence, its limit or a repeated handshake.                         *)
SessionInStep ==
    (bridge.gate = Free /\ ~bridge.failed /\ ~bridge.closed /\ child.alive) =>
        /\ bridge.started = child.hello
        /\ child.last = bridge.counter /\ child.requests = bridge.counter
        /\ \A queue \in DOMAIN wire : wire[queue] = <<>>

(* A page that may edit has seen every event of its own that took effect:   *)
(* an event whose outcome it does not know leaves it uncertain until it has *)
(* read the state again.  The one exception is a connection lost before its *)
(* handler entered the bridge: the request may be handled later.            *)
KnowsItsEvents ==
    \A p \in Page : (Idle(p) /\ pages[p].seen # Unseen /\ ~pages[p].uncertain) =>
        \A h \in handled :
            (h.dispatched /\ calls[h.call].page = p /\ ~calls[h.call].lost) =>
                h.revision < pages[p].seen

(* close() closes the child's stdin only when the worker is not writing and *)
(* no request is unanswered (the comment of local_app.py:106).              *)
StdinClosedQuietly ==
    server.stdinClosed => /\ worker.at \notin {"write", "read"}
                          /\ wire.stdin = <<>> /\ wire.stdout = <<>>

(* Failure and end: with a cause, known to the pages, and in good order.    *)
EndsInOrder == FailsForCause /\ KnowsItsEvents /\ StdinClosedQuietly

(* docs/catalog-editor.md: "Use Resynchronize while the same child is       *)
(* alive".  The bridge does not refuse a Resynchronize, short of the limit, *)
(* while the child lives and its answers have all come back.               *)
ResynchronizeReachesChild ==
    [][\A c \in Call :
         (calls[c].method = "snapshot" /\ calls[c].phase = "entered"
            /\ calls'[c].phase = "unavailable") =>
               \/ ~child.alive \/ bridge.closed \/ bridge.counter = Limit
               \/ wire.requests # <<>> \/ worker.at \notin {"check", "get"}]_vars

(* Every request ends, in an answer or a refusal, or the server has ended:  *)
(* no handler waits for ever on the gate, on a queue or on the child.       *)
ExchangesEnd ==
    \A c \in 1 .. MaxCalls :
        (c \in Call) ~>
            \/ server.at = "done"
            \/ c \in Call /\ calls[c].phase \in Refused \cup {"answered", "over"}

(* Close database ends the server, and the end of the server ends the       *)
(* worker: neither a full queue nor a blocked pipe keeps close() or the     *)
(* worker.                                                                  *)
ServerStops ==
    (server.at # "serving" \/ \E c \in Call : calls[c].phase = "answered"
                             /\ calls[c].reply.kind = "result" /\ calls[c].reply.closed)
        ~> (server.at = "done" /\ worker.at = "dead")
=============================================================================
