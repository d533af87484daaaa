------------------------- MODULE EditorTransport_proofs ------------------------
(***************************************************************************)
(* Proofs about EditorTransport for any number of pages and requests, any   *)
(* limit and any number of faults.  The invariant follows the one line that *)
(* is between the bridge and the session: through the request queue, the    *)
(* worker, the child's pipes and the reply queue.                           *)
(***************************************************************************)
EXTENDS EditorTransport, SequenceTheorems, FiniteSetTheorems, TLAPS

USE TransportAssumption

-----------------------------------------------------------------------------
(* The invariant. *)

OneOf(S) == {<<>>} \cup {<<x>> : x \in S}

PageRecord == [open : BOOLEAN, call : Nat, seen : Int, uncertain : BOOLEAN]
CallRecord == [page : Page, method : Methods, base : Int, id : Nat,
               lost : BOOLEAN, reply : Reply, phase : Phases]

TransportTyped ==
    /\ pages \in [Page -> PageRecord]
    /\ calls \in Seq(CallRecord)
    /\ bridge \in [gate : Nat \cup {Main}, counter : 0 .. Limit, started : BOOLEAN,
                   failed : BOOLEAN, closed : BOOLEAN, timedOut : BOOLEAN]
    /\ wire \in [requests : OneOf(Line), replies : OneOf(Reply),
                 stdin : OneOf(Line), stdout : OneOf(Reply)]
    /\ worker \in [at : {"check", "get", "write", "read", "dead"}, line : Line]
    /\ child \in [alive : BOOLEAN, hello : BOOLEAN, revision : Nat, last : Nat,
                  requests : 0 .. Limit, closed : BOOLEAN]
    /\ server \in [at : {"serving", "asked", "flagged", "gated", "stopping", "done"},
                   stdinClosed : BOOLEAN]
    /\ faults \in 0 .. MaxFaults
    /\ handled \subseteq [call : Nat, revision : Nat, dispatched : BOOLEAN, late : BOOLEAN]

(* One call at a time is inside the bridge, and it holds the gate. *)
Inside == {"entered", "checked", "waiting"}
Sending == {"checked", "waiting"}
GateInv ==
    /\ bridge.gate \in Call \cup {Free, Main}
    /\ \A c \in Call : calls[c].phase \in Inside <=> bridge.gate = c
    /\ \A c \in Call : calls[c].phase \in Sending =>
          calls[c].id = bridge.counter /\ bridge.counter > 0 /\ ~bridge.failed

NoRequest == wire.requests \in {<<>>, <<Stop>>}
Working == worker.at \in {"write", "read"}

(* The lines that the child has not handled, and the answers that the call  *)
(* has not taken: together there is at most one.                            *)
Unhandled(m) ==
    \/ wire.requests = <<m>> /\ m # Stop
    \/ worker.at = "write" /\ m = worker.line
    \/ wire.stdin = <<m>>
Untaken(r) ==
    \/ wire.stdout = <<r>>
    \/ wire.replies = <<r>> /\ r # EOF

PipelineInv ==
    /\ Working => NoRequest /\ wire.replies = <<>>
    /\ worker.at # "read" => wire.stdin = <<>> /\ wire.stdout = <<>>
    /\ wire.stdin = <<>> \/ wire.stdout = <<>>
    /\ wire.replies # <<>> => NoRequest
    /\ ~child.alive => wire.stdin = <<>>
    /\ wire.requests = <<Stop>> => bridge.closed
    /\ wire.replies = <<EOF>> => ~child.alive
    /\ worker.at = "write" => worker.line # Stop

(* A page that left its call while the handler was at work is uncertain     *)
(* until an answer reaches it.                                              *)
PageWaits(d) ==
    LET p == calls[d].page IN
    \/ calls[d].lost
    \/ pages[p].call = d
    \/ /\ pages[p].uncertain
       /\ pages[p].call # NoCall => calls[pages[p].call].phase # "answered"

LineSound(m) ==
    /\ m \in Line /\ m.call \in Call
    /\ m.base = calls[m.call].base
    /\ calls[m.call].phase \in {"waiting", "unavailable", "over"}
    /\ PageWaits(m.call)
ReplySound(r) ==
    /\ r \in Reply /\ r.call \in Call /\ r.call # NoCall
    /\ r.revision = child.revision

LinesInv ==
    /\ \A m \in Line : Unhandled(m) => LineSound(m)
    /\ \A r \in Reply : Untaken(r) => ReplySound(r)

(* While the bridge works, the line belongs to the call inside, and the     *)
(* session has counted what it has handled.                                 *)
InStep(n) ==
    child.last = n /\ child.requests = n
Agrees(started) == child.hello = started

UseInv ==
    ~bridge.failed =>
      /\ (Working \/ ~NoRequest \/ wire.replies # <<>>) =>
            bridge.gate \in Call /\ calls[bridge.gate].phase = "waiting"
      /\ \A m \in Line : Unhandled(m) =>
            /\ m.call = bridge.gate /\ m.id = bridge.counter
            /\ m.method = IF calls[bridge.gate].method = "hello" /\ bridge.started
                          THEN "snapshot" ELSE calls[bridge.gate].method
            /\ InStep(bridge.counter - 1) /\ Agrees(bridge.started)
      /\ \A r \in Reply : Untaken(r) =>
            /\ r.call = bridge.gate /\ r.id = bridge.counter
            /\ InStep(bridge.counter)
            /\ Agrees(bridge.started \/ (calls[bridge.gate].method = "hello"
                                           /\ r.kind = "result"))
      /\ (bridge.gate \notin Call \/ calls[bridge.gate].phase = "entered") =>
            InStep(bridge.counter) /\ Agrees(bridge.started)
      /\ (bridge.gate \in Call /\ calls[bridge.gate].phase = "checked") =>
            InStep(bridge.counter - 1) /\ Agrees(bridge.started)

(* What the session did. *)
HistoryInv ==
    /\ \A h \in handled : h.call \in Call
    /\ \A h \in handled : h.dispatched =>
          h.revision < child.revision /\ h.revision = calls[h.call].base
    /\ \A h, g \in handled :
          h.dispatched /\ g.dispatched /\ h.revision = g.revision => h = g
    /\ \A h, g \in handled : h.late /\ g.late => h = g
    /\ \A h \in handled : h.late =>
          bridge.failed /\ \A m \in Line : ~Unhandled(m)

(* What the pages know of it. *)
Ours(h, p) == h.dispatched /\ calls[h.call].page = p /\ ~calls[h.call].lost

PagesInv ==
    /\ \A p \in Page : pages[p].call # NoCall =>
          pages[p].call \in Call /\ calls[pages[p].call].page = p
    /\ \A d \in Call : pages[calls[d].page].open
    /\ \A d \in Call : calls[d].phase = "sent" =>
          calls[d].lost \/ pages[calls[d].page].call = d
    /\ \A d \in Call : calls[d].phase \in {"entered", "checked"} => PageWaits(d)
    /\ \A p \in Page : pages[p].seen # Unseen /\ ~pages[p].uncertain =>
          \A h \in handled : Ours(h, p) /\ h.call # pages[p].call =>
              h.revision < pages[p].seen
    /\ \A p \in Page :
          pages[p].call # NoCall /\ calls[pages[p].call].phase = "answered"
          /\ calls[pages[p].call].reply.snapshot =>
              \A h \in handled : Ours(h, p) =>
                  h.revision < calls[pages[p].call].reply.revision

EndInv ==
    /\ server.at \notin {"serving", "asked"} => bridge.closed
    /\ server.stdinClosed =>
          /\ bridge.closed /\ NoRequest /\ ~Working
          /\ \A c \in Call : calls[c].phase \notin Sending

TransportInv ==
    /\ TransportTyped /\ GateInv /\ PipelineInv /\ LinesInv /\ UseInv
    /\ HistoryInv /\ PagesInv /\ EndInv
    /\ FailsForCause /\ AnswersMatch

-----------------------------------------------------------------------------
(* Sequences and queues. *)

(* What the type of the calls says of each of them. *)
LEMMA CallsFacts ==
    ASSUME TransportTyped
    PROVE  /\ Call = 1 .. Len(calls) /\ Len(calls) \in Nat
           /\ \A c \in Call : calls[c] \in CallRecord /\ c \in Nat \ {0}
           /\ NoCall \notin Call /\ Free \notin Call /\ Main \notin Call
<1>1. calls \in Seq(CallRecord)
  BY DEF TransportTyped
<1>2. /\ Len(calls) \in Nat /\ calls \in [1 .. Len(calls) -> CallRecord]
      /\ DOMAIN calls = 1 .. Len(calls)
  BY <1>1, LenProperties
<1> QED
  BY <1>2 DEF Call, NoCall, Free, Main

(* One call is changed in place. *)
LEMMA CallChanged ==
    ASSUME TransportTyped, NEW c \in Call, NEW new \in CallRecord,
           calls' = [calls EXCEPT ![c] = new]
    PROVE  /\ calls' \in Seq(CallRecord)
           /\ Call' = Call
           /\ calls'[c] = new
           /\ \A d \in Call \ {c} : calls'[d] = calls[d]
<1>1. calls \in Seq(CallRecord) /\ c \in 1 .. Len(calls)
  BY CallsFacts DEF TransportTyped
<1>2. /\ calls' \in Seq(CallRecord) /\ Len(calls') = Len(calls)
      /\ \A d \in 1 .. Len(calls) : calls'[d] = IF d = c THEN new ELSE calls[d]
  BY <1>1, ExceptSeq
<1>3. DOMAIN calls' = 1 .. Len(calls)
  BY <1>2, LenProperties
<1> QED
  BY <1>2, <1>3, CallsFacts DEF Call

(* A page makes its next call. *)
LEMMA CallAppended ==
    ASSUME TransportTyped, NEW new \in CallRecord, calls' = Append(calls, new)
    PROVE  /\ calls' \in Seq(CallRecord)
           /\ Call' = Call \cup {Len(calls) + 1}
           /\ Len(calls) + 1 \notin Call
           /\ calls'[Len(calls) + 1] = new
           /\ \A d \in Call : calls'[d] = calls[d]
<1>1. calls \in Seq(CallRecord)
  BY DEF TransportTyped
<1>2. /\ calls' \in Seq(CallRecord) /\ Len(calls') = Len(calls) + 1
      /\ \A d \in 1 .. Len(calls) : calls'[d] = calls[d]
      /\ calls'[Len(calls) + 1] = new
  BY <1>1, AppendProperties
<1>3. DOMAIN calls' = 1 .. Len(calls) + 1
  BY <1>2, LenProperties
<1> QED
  BY <1>2, <1>3, CallsFacts DEF Call

(* What the renderer's updates of a page make of it. *)
PageOf(open, call, seen, uncertain) ==
    [open |-> open, call |-> call, seen |-> seen, uncertain |-> uncertain]

(* What a page's record becomes when its call or its state changes. *)
LEMMA PageRebuilt ==
    ASSUME NEW r \in PageRecord, NEW i \in Nat
    PROVE  /\ [[r EXCEPT !.open = TRUE] EXCEPT !.call = i]
                = PageOf(TRUE, i, r.seen, r.uncertain)
           /\ \A u \in BOOLEAN : [r EXCEPT !.call = i, !.uncertain = u]
                                  = PageOf(r.open, i, r.seen, u)
           /\ \A s \in Int, u \in BOOLEAN :
                 [r EXCEPT !.call = i, !.seen = s, !.uncertain = u]
                   = PageOf(r.open, i, s, u)
<1>1. \A x \in PageRecord : x = PageOf(x.open, x.call, x.seen, x.uncertain)
  BY DEF PageRecord, PageOf
<1>2. ASSUME NEW x, x = [[r EXCEPT !.open = TRUE] EXCEPT !.call = i]
      PROVE  x = PageOf(TRUE, i, r.seen, r.uncertain)
  <2>1. x \in PageRecord /\ x.open = TRUE /\ x.call = i /\ x.seen = r.seen
        /\ x.uncertain = r.uncertain
    BY <1>2 DEF PageRecord
  <2> QED BY <1>1, <2>1
<1>3. ASSUME NEW u \in BOOLEAN, NEW x, x = [r EXCEPT !.call = i, !.uncertain = u]
      PROVE  x = PageOf(r.open, i, r.seen, u)
  <2>1. x \in PageRecord /\ x.open = r.open /\ x.call = i /\ x.seen = r.seen
        /\ x.uncertain = u
    BY <1>3 DEF PageRecord
  <2> QED BY <1>1, <2>1
<1>4. ASSUME NEW s \in Int, NEW u \in BOOLEAN,
             NEW x, x = [r EXCEPT !.call = i, !.seen = s, !.uncertain = u]
      PROVE  x = PageOf(r.open, i, s, u)
  <2>1. x \in PageRecord /\ x.open = r.open /\ x.call = i /\ x.seen = s
        /\ x.uncertain = u
    BY <1>4 DEF PageRecord
  <2> QED BY <1>1, <2>1
<1> QED BY <1>2, <1>3, <1>4

(* A queue of at most one element. *)
LEMMA OneOfFacts ==
    ASSUME NEW S, NEW q \in OneOf(S)
    PROVE  /\ q \in Seq(S) /\ Len(q) <= 1
           /\ q # <<>> => q = <<Head(q)>> /\ Head(q) \in S /\ Tail(q) = <<>>
           /\ \A x \in S : <<x>> \in OneOf(S) /\ <<x>> # <<>> /\ Head(<<x>>) = x
           /\ <<>> \in OneOf(S)
<1>1. \A x \in S : <<x>> \in OneOf(S) /\ <<x>> # <<>> /\ Head(<<x>>) = x
  BY DEF OneOf
<1>2. <<>> \in OneOf(S)
  BY DEF OneOf
<1>3. CASE q = <<>>
  BY <1>1, <1>2, <1>3
<1>4. CASE q # <<>>
  <2>1. PICK x \in S : q = <<x>>
    BY <1>4 DEF OneOf
  <2>2. q \in Seq(S) /\ Len(q) = 1 /\ Head(q) = x /\ Tail(q) = <<>>
    BY <2>1
  <2> QED BY <1>1, <1>2, <2>1, <2>2
<1> QED BY <1>3, <1>4

(* A queue of one. *)
LEMMA AppendToEmpty == \A x : Append(<<>>, x) = <<x>>
OBVIOUS

(* The line that stops the worker, and the reply that ends the output. *)
LEMMA StopTyped == Stop \in Line /\ EOF \in Reply
BY DEF Stop, Line, EOF, Reply, NoCall, Unseen

(* What the type of the bridge and of the queues says. *)
LEMMA BridgeFacts ==
    ASSUME TransportTyped
    PROVE  /\ bridge.gate \in Nat \cup {Main} /\ bridge.counter \in 0 .. Limit
           /\ bridge.started \in BOOLEAN /\ bridge.failed \in BOOLEAN
           /\ bridge.closed \in BOOLEAN /\ bridge.timedOut \in BOOLEAN
           /\ wire.requests \in OneOf(Line) /\ wire.replies \in OneOf(Reply)
           /\ wire.stdin \in OneOf(Line) /\ wire.stdout \in OneOf(Reply)
           /\ worker.at \in {"check", "get", "write", "read", "dead"}
           /\ worker.line \in Line
           /\ child.alive \in BOOLEAN /\ child.hello \in BOOLEAN
           /\ child.revision \in Nat /\ child.last \in Nat
           /\ child.requests \in 0 .. Limit /\ child.closed \in BOOLEAN
BY DEF TransportTyped

-----------------------------------------------------------------------------
(* The handler's steps that touch neither a queue nor a page: the call c    *)
(* becomes new, and the gate is taken, kept or given back by it.            *)
SameCall(new, c) ==
    /\ new.page = calls[c].page /\ new.method = calls[c].method
    /\ new.base = calls[c].base /\ new.lost = calls[c].lost

(* A page still waits when another call, or the state of its own, changes. *)
LEMMA PageWaitsKept ==
    ASSUME TransportTyped, PagesInv, NEW c \in Call, NEW new \in CallRecord,
           calls' = [calls EXCEPT ![c] = new], SameCall(new, c),
           new.phase # "answered", pages' = pages,
           NEW d \in Call, PageWaits(d)
    PROVE  PageWaits(d)'
<1> DEFINE p == calls[d].page
<1>1. /\ calls'[c] = new /\ \A x \in Call \ {c} : calls'[x] = calls[x]
  BY CallChanged
<1>2. calls'[d].page = p /\ calls'[d].lost = calls[d].lost /\ p \in Page
  BY <1>1, CallsFacts DEF SameCall, CallRecord
<1>3. pages[p].call # NoCall => pages[p].call \in Call
  BY <1>2 DEF PagesInv
<1>4. pages[p].call # NoCall /\ calls[pages[p].call].phase # "answered"
        => calls'[pages[p].call].phase # "answered"
  BY <1>1, <1>3
<1> QED
  BY <1>2, <1>4 DEF PageWaits

(* The pages stay in step while a call is on its way. *)
LEMMA PagesKept ==
    ASSUME TransportTyped, PagesInv, HistoryInv,
           NEW c \in Call, NEW new \in CallRecord,
           calls' = [calls EXCEPT ![c] = new], SameCall(new, c),
           new.phase # "answered", new.phase # "sent",
           new.phase \in {"entered", "checked"} => PageWaits(c),
           pages' = pages, handled' = handled
    PROVE  PagesInv'
<1>1. /\ Call' = Call /\ calls'[c] = new
      /\ \A d \in Call \ {c} : calls'[d] = calls[d]
  BY CallChanged
<1>2. \A d \in Call : SameCall(calls'[d], d)
  BY <1>1 DEF SameCall
<1>3. \A p \in Page : pages[p].call # NoCall =>
          pages[p].call \in Call' /\ calls'[pages[p].call].page = p
  BY <1>1, <1>2 DEF PagesInv, SameCall
<1>4. \A d \in Call : calls'[d].phase = "sent" =>
          calls'[d].lost \/ pages[calls'[d].page].call = d
  BY <1>1 DEF PagesInv
<1>5. ASSUME NEW d \in Call, calls'[d].phase \in {"entered", "checked"}
      PROVE  PageWaits(d)'
  <2>1. PageWaits(d)
    BY <1>1, <1>5 DEF PagesInv
  <2> QED BY <2>1, PageWaitsKept
<1>6. \A h \in handled, p \in Page : Ours(h, p)' <=> Ours(h, p)
  BY <1>2 DEF HistoryInv, Ours, SameCall
<1>7. ASSUME NEW p \in Page, pages[p].call # NoCall,
             calls'[pages[p].call].phase = "answered",
             calls'[pages[p].call].reply.snapshot,
             NEW h \in handled, Ours(h, p)
      PROVE  h.revision < calls'[pages[p].call].reply.revision
  <2>1. pages[p].call \in Call \ {c}
    BY <1>1, <1>7 DEF PagesInv
  <2> QED BY <1>1, <1>7, <2>1 DEF PagesInv
<1>8. \A d \in Call : pages[calls'[d].page].open
  BY <1>2 DEF PagesInv, SameCall
<1> QED BY <1>1, <1>3, <1>4, <1>5, <1>6, <1>7, <1>8 DEF PagesInv

(* A handler moves its call on; pages, server and child stay. *)
LEMMA HandlerMoves ==
    ASSUME TransportInv, NEW c \in Call, NEW new \in CallRecord,
           calls' = [calls EXCEPT ![c] = new], SameCall(new, c),
           new.phase # "answered",
           new.phase # "sent",
           calls[c].phase \in {"waiting", "unavailable", "over"} =>
               new.phase \in {"waiting", "unavailable", "over"},
           new.phase \in {"entered", "checked"} => PageWaits(c),
           new.phase \in Sending =>
               /\ new.id = bridge'.counter /\ bridge'.counter > 0 /\ ~bridge'.failed
               /\ ~server.stdinClosed,
           pages' = pages,
           UNCHANGED <<behind, server>>, faults' \in 0 .. MaxFaults,
           bridge' \in [gate : Nat \cup {Main}, counter : 0 .. Limit, started : BOOLEAN,
                        failed : BOOLEAN, closed : BOOLEAN, timedOut : BOOLEAN],
           bridge'.closed = bridge.closed,
           bridge.failed => bridge'.failed,
           \/ bridge' = bridge
           \/ bridge.gate \in {c, Free} /\ bridge'.gate \in {c, Free},
           new.phase \in Inside <=> bridge'.gate = c,
           UseInv', FailsForCause'
    PROVE  TransportInv'
<1>1. /\ calls' \in Seq(CallRecord) /\ Call' = Call /\ calls'[c] = new
      /\ \A d \in Call \ {c} : calls'[d] = calls[d]
  BY CallChanged DEF TransportInv
<1>2. /\ wire' = wire /\ worker' = worker /\ child' = child /\ handled' = handled
      /\ server' = server
  BY DEF behind
<1>3. /\ TransportTyped /\ GateInv /\ PipelineInv /\ LinesInv
      /\ HistoryInv /\ PagesInv /\ EndInv /\ AnswersMatch
  BY DEF TransportInv
<1>4. /\ \A d \in Call : d \in Nat \ {0} /\ calls[d].page \in Page
      /\ NoCall \notin Call /\ Free \notin Call /\ Main \notin Call
  BY <1>3, CallsFacts DEF CallRecord
<1>5. \A d \in Call : SameCall(calls'[d], d)
  BY <1>1 DEF SameCall
<1>6. TransportTyped'
  BY <1>1, <1>2, <1>3 DEF TransportTyped
<1>7. GateInv'
  <2>1. bridge'.gate \in Call' \cup {Free, Main}
    BY <1>1, <1>3 DEF GateInv
  <2>2. ASSUME NEW d \in Call
        PROVE  calls'[d].phase \in Inside <=> bridge'.gate = d
    <3>1. CASE d = c
      BY <1>1, <3>1
    <3>2. CASE d # c
      BY <1>1, <1>3, <1>4, <3>2 DEF GateInv
    <3> QED BY <3>1, <3>2
  <2>3. ASSUME NEW d \in Call, calls'[d].phase \in Sending
        PROVE  calls'[d].id = bridge'.counter /\ bridge'.counter > 0 /\ ~bridge'.failed
    <3>1. CASE d = c
      BY <1>1, <2>3, <3>1
    <3>2. CASE d # c
      <4>1. calls[d].phase \in Sending /\ bridge.gate = d /\ calls'[d] = calls[d]
        BY <1>1, <1>3, <2>3, <3>2 DEF GateInv, Sending, Inside
      <4>2. bridge' = bridge
        BY <1>4, <3>2, <4>1
      <4> QED BY <1>3, <4>1, <4>2 DEF GateInv
    <3> QED BY <3>1, <3>2
  <2> QED BY <1>1, <2>1, <2>2, <2>3 DEF GateInv
<1>8. PipelineInv'
  BY <1>2, <1>3 DEF PipelineInv, NoRequest, Working
<1>9. LinesInv'
  <2>1. ASSUME NEW m \in Line, Unhandled(m)'
        PROVE  LineSound(m)'
    <3>1. LineSound(m)
      BY <1>2, <1>3, <2>1 DEF LinesInv, Unhandled
    <3>2. PageWaits(m.call)'
      BY <1>3, <3>1, PageWaitsKept DEF LineSound
    <3>3. calls'[m.call].phase \in {"waiting", "unavailable", "over"}
      BY <1>1, <3>1 DEF LineSound
    <3> QED BY <1>1, <1>5, <3>1, <3>2, <3>3 DEF LineSound, SameCall
  <2>2. ASSUME NEW r \in Reply, Untaken(r)'
        PROVE  ReplySound(r)'
    BY <1>1, <1>2, <1>3, <2>2 DEF LinesInv, Untaken, ReplySound
  <2> QED BY <2>1, <2>2 DEF LinesInv
<1>10. HistoryInv'
  <2>1. \A m \in Line : Unhandled(m)' <=> Unhandled(m)
    BY <1>2 DEF Unhandled
  <2>2. \A h \in handled : h.call \in Call' /\ calls'[h.call].base = calls[h.call].base
    BY <1>1, <1>3, <1>5 DEF HistoryInv, SameCall
  <2> QED BY <1>2, <1>3, <2>1, <2>2 DEF HistoryInv
<1>11. PagesInv'
  BY <1>2, <1>3, PagesKept
<1>12. EndInv'
  <2>1. server.stdinClosed => \A d \in Call : calls'[d].phase \notin Sending
    BY <1>1, <1>3 DEF EndInv
  <2> QED BY <1>1, <1>2, <1>3, <2>1 DEF EndInv, NoRequest, Working
<1>13. AnswersMatch'
  BY <1>1, <1>3 DEF AnswersMatch
<1> QED
  BY <1>6, <1>7, <1>8, <1>9, <1>10, <1>11, <1>12, <1>13 DEF TransportInv
-----------------------------------------------------------------------------
(* While the bridge works and no call waits for its answer, nothing is on   *)
(* its way.                                                                 *)
LEMMA NothingOnItsWay ==
    ASSUME TransportTyped, PipelineInv, UseInv, ~bridge.failed,
           ~(bridge.gate \in Call /\ calls[bridge.gate].phase = "waiting")
    PROVE  /\ ~Working /\ NoRequest
           /\ \A queue \in {"replies", "stdin", "stdout"} : wire[queue] = <<>>
           /\ \A m \in Line : ~Unhandled(m)
           /\ \A r \in Reply : ~Untaken(r)
<1>1. ~Working /\ NoRequest /\ wire.replies = <<>>
  BY DEF UseInv
<1>2. wire.stdin = <<>> /\ wire.stdout = <<>>
  BY <1>1 DEF PipelineInv, Working
<1>3. \A m : ~Unhandled(m)
  <2>1. \A m : <<m>> # <<>>
    OBVIOUS
  <2>2. \A m : <<m>> = <<Stop>> => m = Stop
    OBVIOUS
  <2> QED BY <1>1, <1>2, <2>1, <2>2 DEF Unhandled, Working, NoRequest
<1>4. \A r : ~Untaken(r)
  <2>1. \A r : <<r>> # <<>>
    OBVIOUS
  <2> QED BY <1>1, <1>2, <2>1 DEF Untaken
<1> QED
  BY <1>1, <1>2, <1>3, <1>4

(* The call inside is the one that holds the gate. *)
LEMMA InsideHoldsGate ==
    ASSUME TransportTyped, GateInv, NEW c \in Call
    PROVE  /\ calls[c].phase \in {"entered", "checked", "waiting"} => bridge.gate = c
           /\ calls[c].phase \notin {"entered", "checked", "waiting"} => bridge.gate # c
BY DEF GateInv, Inside

(* A call is refused before it enters. *)
LEMMA RejectKeeps ==
    ASSUME TransportInv, NEW c \in Call, Reject(c) \/ Busy(c)
    PROVE  TransportInv'
<1> DEFINE phase == IF Reject(c) THEN "rejected" ELSE "busy"
           new == [calls[c] EXCEPT !.phase = phase]
<1>1. TransportTyped /\ GateInv /\ UseInv /\ FailsForCause
  BY DEF TransportInv
<1>2. /\ calls[c] \in CallRecord /\ calls[c].phase = "sent"
      /\ calls' = [calls EXCEPT ![c].phase = phase] /\ bridge' = bridge
      /\ UNCHANGED <<pages, behind, server>> /\ phase \in {"rejected", "busy"}
  BY <1>1, CallsFacts DEF Reject, Busy, Phase, around
<1>3. new \in CallRecord /\ SameCall(new, c) /\ new.phase = phase
  BY <1>2 DEF CallRecord, SameCall, Phases, Refused
<1>4. calls' = [calls EXCEPT ![c] = new]
  BY <1>2
<1>5. faults' \in 0 .. MaxFaults
  BY <1>1 DEF Reject, Busy, Fault, around, TransportTyped
<1>6. bridge.gate # c
  BY <1>1, <1>2, InsideHoldsGate
<1> HIDE DEF phase, new
<1>7. /\ Call' = Call
      /\ \A d \in Call \ {c} : calls'[d] = calls[d]
  BY <1>1, <1>3, <1>4, CallChanged
<1>8. UseInv'
  <2>1. bridge.gate \in Call => calls'[bridge.gate] = calls[bridge.gate]
    BY <1>6, <1>7
  <2>2. wire' = wire /\ worker' = worker /\ child' = child
    BY <1>2 DEF behind
  <2>3. /\ \A m \in Line : Unhandled(m)' <=> Unhandled(m)
        /\ \A r \in Reply : Untaken(r)' <=> Untaken(r)
    BY <2>2 DEF Unhandled, Untaken
  <2> QED
    BY <1>1, <1>2, <1>7, <2>1, <2>2, <2>3
    DEF UseInv, Working, NoRequest, InStep, Agrees
<1>9. FailsForCause'
  BY <1>1, <1>2 DEF FailsForCause, behind
<1>10. bridge \in [gate : Nat \cup {Main}, counter : 0 .. Limit, started : BOOLEAN,
                   failed : BOOLEAN, closed : BOOLEAN, timedOut : BOOLEAN]
  BY <1>1 DEF TransportTyped
<1>11. new.phase \notin Inside /\ new.phase \notin Sending /\ new.phase # "sent"
       /\ new.phase # "answered"
  BY <1>2, <1>3 DEF Inside, Sending
<1> QED
  BY <1>2, <1>3, <1>4, <1>5, <1>6, <1>8, <1>9, <1>10, <1>11, HandlerMoves

(* A call takes the gate. *)
LEMMA EnterKeeps ==
    ASSUME TransportInv, NEW c \in Call, Enter(c)
    PROVE  TransportInv'
<1> DEFINE new == [calls[c] EXCEPT !.phase = "entered"]
<1>1. /\ TransportTyped /\ GateInv /\ UseInv /\ FailsForCause /\ PipelineInv
      /\ PagesInv
  BY DEF TransportInv
<1>2. /\ calls[c] \in CallRecord /\ calls[c].phase = "sent" /\ bridge.gate = Free
      /\ c \in Nat /\ Free \notin Call /\ Main \notin Call
  BY <1>1, CallsFacts DEF Enter
<1>3. new \in CallRecord /\ SameCall(new, c) /\ new.phase = "entered"
  BY <1>2 DEF CallRecord, SameCall, Phases
<1>4. /\ calls' = [calls EXCEPT ![c] = new]
      /\ UNCHANGED <<pages, behind, server>> /\ faults' = faults
  BY DEF Enter, Phase, around
<1>5. bridge' = [gate |-> c, counter |-> bridge.counter, started |-> bridge.started,
                 failed |-> bridge.failed, closed |-> bridge.closed,
                 timedOut |-> bridge.timedOut]
  BY <1>1 DEF Enter, TransportTyped
<1>6. bridge' \in [gate : Nat \cup {Main}, counter : 0 .. Limit, started : BOOLEAN,
                   failed : BOOLEAN, closed : BOOLEAN, timedOut : BOOLEAN]
  BY <1>1, <1>2, <1>5, BridgeFacts
<1> HIDE DEF new
<1>7. Call' = Call /\ calls'[c] = new
  BY <1>1, <1>3, <1>4, CallChanged
<1>8. UseInv'
  <2>1. SUFFICES ASSUME ~bridge.failed PROVE UseInv'
    BY <1>5 DEF UseInv
  <2>2. /\ ~Working /\ NoRequest /\ wire.replies = <<>>
        /\ \A m \in Line : ~Unhandled(m)
        /\ \A r \in Reply : ~Untaken(r)
    BY <1>1, <1>2, <2>1, NothingOnItsWay
  <2>3. wire' = wire /\ worker' = worker /\ child' = child
    BY <1>4 DEF behind
  <2>4. /\ ~Working' /\ NoRequest'
        /\ \A m \in Line : ~Unhandled(m)'
        /\ \A r \in Reply : ~Untaken(r)'
    BY <2>2, <2>3 DEF Working, NoRequest, Unhandled, Untaken
  <2>5. child.last = bridge.counter /\ child.requests = bridge.counter
        /\ child.hello = bridge.started
    BY <1>1, <1>2, <2>1 DEF UseInv, InStep, Agrees
  <2> QED
    BY <1>3, <1>5, <1>7, <2>2, <2>3, <2>4, <2>5 DEF UseInv, InStep, Agrees
<1>9. FailsForCause'
  BY <1>1, <1>4, <1>5 DEF FailsForCause, behind
<1>10. PageWaits(c)
  BY <1>1, <1>2 DEF PagesInv, PageWaits
<1>11. new.phase \in Inside /\ new.phase \notin Sending
  BY <1>3 DEF Inside, Sending
<1>12. faults' \in 0 .. MaxFaults
  BY <1>1, <1>4 DEF TransportTyped
<1> QED
  BY <1>2, <1>3, <1>4, <1>5, <1>6, <1>8, <1>9, <1>10, <1>11, <1>12, HandlerMoves

(* The bridge fails: whatever the reason, it must be one of the causes. *)
LEMMA FailKeeps ==
    ASSUME TransportInv, NEW c \in Call, calls[c].phase \in Inside,
           calls' = [calls EXCEPT ![c].phase = "unavailable"],
           bridge' \in [gate : {Free}, counter : {bridge.counter},
                        started : {bridge.started}, failed : {TRUE},
                        closed : {bridge.closed}, timedOut : BOOLEAN],
           UNCHANGED <<pages, behind, around>>,
           FailsForCause'
    PROVE  TransportInv'
<1> DEFINE new == [calls[c] EXCEPT !.phase = "unavailable"]
<1>1. TransportTyped /\ GateInv
  BY DEF TransportInv
<1>2. /\ calls[c] \in CallRecord /\ c # Free /\ bridge.gate = c
      /\ bridge'.gate = Free /\ bridge'.failed /\ bridge'.closed = bridge.closed
  BY <1>1, CallsFacts, InsideHoldsGate DEF Inside
<1>3. new \in CallRecord /\ SameCall(new, c) /\ new.phase = "unavailable"
  BY <1>2 DEF CallRecord, SameCall, Phases, Refused
<1>4. calls' = [calls EXCEPT ![c] = new]
  OBVIOUS
<1>5. bridge' \in [gate : Nat \cup {Main}, counter : 0 .. Limit, started : BOOLEAN,
                   failed : BOOLEAN, closed : BOOLEAN, timedOut : BOOLEAN]
  <2>1. /\ bridge' = [gate |-> Free, counter |-> bridge.counter,
                      started |-> bridge.started, failed |-> TRUE,
                      closed |-> bridge.closed, timedOut |-> bridge'.timedOut]
        /\ bridge'.timedOut \in BOOLEAN
    OBVIOUS
  <2>2. Free \in Nat
    BY DEF Free
  <2> QED BY <1>1, <2>1, <2>2, BridgeFacts
<1>6. UNCHANGED <<behind, server>> /\ faults' \in 0 .. MaxFaults
  BY <1>1 DEF around, TransportTyped
<1> HIDE DEF new
<1>7. new.phase \notin Inside /\ new.phase \notin Sending /\ new.phase # "sent"
      /\ new.phase # "answered"
  BY <1>3 DEF Inside, Sending
<1>8. UseInv'
  BY <1>2 DEF UseInv
<1> QED
  BY <1>2, <1>3, <1>4, <1>5, <1>6, <1>7, <1>8, HandlerMoves

(* A call fails inside the gate, and the bridge with it. *)
LEMMA HandlerFails ==
    ASSUME TransportInv, NEW c \in Call, CheckFails(c) \/ PutFails(c) \/ Timeout(c)
    PROVE  TransportInv'
<1>1. TransportTyped /\ UseInv /\ GateInv /\ PipelineInv /\ FailsForCause
  BY DEF TransportInv
<1>2. /\ calls[c].phase \in Inside /\ UNCHANGED <<pages, behind, around>>
      /\ calls' = [calls EXCEPT ![c].phase = "unavailable"]
  BY DEF CheckFails, PutFails, Timeout, Fail, Phase, Inside
<1>3. child' = child
  BY <1>2 DEF behind
<1>4. CASE CheckFails(c)
  <2>1. bridge' = [gate |-> Free, counter |-> bridge.counter,
                   started |-> bridge.started, failed |-> TRUE,
                   closed |-> bridge.closed, timedOut |-> bridge.timedOut]
    BY <1>1, <1>4 DEF CheckFails, Fail, TransportTyped
  <2>2. FailsForCause'
    BY <1>1, <1>3, <1>4, <2>1, BridgeFacts
    DEF FailsForCause, CheckFails, Unusable
  <2>3. bridge' \in [gate : {Free}, counter : {bridge.counter},
                     started : {bridge.started}, failed : {TRUE},
                     closed : {bridge.closed}, timedOut : BOOLEAN]
    BY <1>1, <2>1, BridgeFacts
  <2> QED BY <1>2, <2>2, <2>3, FailKeeps
<1>5. CASE PutFails(c)
  <2>1. bridge' = [gate |-> Free, counter |-> bridge.counter,
                   started |-> bridge.started, failed |-> TRUE,
                   closed |-> bridge.closed, timedOut |-> bridge.timedOut]
    BY <1>1, <1>5 DEF PutFails, Fail, TransportTyped
  <2>2. ~bridge.failed /\ bridge.gate = c /\ calls[c].phase = "checked"
    BY <1>1, <1>5 DEF PutFails, GateInv, Inside, Sending
  <2>3. wire.requests = <<Stop>>
    BY <1>1, <1>5, <2>2, NothingOnItsWay DEF PutFails, NoRequest
  <2>4. bridge.closed
    BY <1>1, <2>3 DEF PipelineInv
  <2>5. FailsForCause'
    BY <2>1, <2>4 DEF FailsForCause
  <2>6. bridge' \in [gate : {Free}, counter : {bridge.counter},
                     started : {bridge.started}, failed : {TRUE},
                     closed : {bridge.closed}, timedOut : BOOLEAN]
    BY <1>1, <2>1, BridgeFacts
  <2> QED BY <1>2, <2>5, <2>6, FailKeeps
<1>6. CASE Timeout(c)
  <2>1. bridge' = [gate |-> Free, counter |-> bridge.counter,
                   started |-> bridge.started, failed |-> TRUE,
                   closed |-> bridge.closed, timedOut |-> TRUE]
    BY <1>1, <1>6 DEF Timeout, TransportTyped
  <2>2. FailsForCause'
    BY <2>1 DEF FailsForCause
  <2>3. bridge' \in [gate : {Free}, counter : {bridge.counter},
                     started : {bridge.started}, failed : {TRUE},
                     closed : {bridge.closed}, timedOut : BOOLEAN]
    BY <1>1, <2>1, BridgeFacts
  <2> QED BY <1>2, <2>2, <2>3, FailKeeps
<1> QED
  BY <1>4, <1>5, <1>6

(* A call is checked and gets its number. *)
LEMMA CheckKeeps ==
    ASSUME TransportInv, NEW c \in Call, Check(c)
    PROVE  TransportInv'
<1> DEFINE new == [calls[c] EXCEPT !.phase = "checked", !.id = bridge.counter + 1]
<1>1. /\ TransportTyped /\ GateInv /\ UseInv /\ FailsForCause /\ PipelineInv
      /\ PagesInv /\ EndInv
  BY DEF TransportInv
<1>2. /\ calls[c] \in CallRecord /\ calls[c].phase = "entered"
      /\ c \in Nat /\ c # Free /\ Main \notin Call
      /\ bridge.gate = c
  BY <1>1, CallsFacts, InsideHoldsGate DEF Check
<1>3. ~bridge.failed /\ ~bridge.closed /\ bridge.counter + 1 \in 1 .. Limit
  BY <1>1, BridgeFacts DEF Check, Unusable
<1>4. new \in CallRecord /\ SameCall(new, c) /\ new.phase = "checked"
      /\ new.id = bridge.counter + 1
  <2>1. bridge.counter + 1 \in Nat
    BY <1>1, BridgeFacts
  <2>2. new.page = calls[c].page /\ new.phase = "checked" /\ new.id = bridge.counter + 1
        /\ SameCall(new, c)
    BY <1>2 DEF CallRecord, SameCall
  <2>3. ASSUME NEW r \in CallRecord, NEW i \in Nat, NEW phase \in Phases
        PROVE  [r EXCEPT !.phase = phase, !.id = i] \in CallRecord
    BY DEF CallRecord
  <2>4. new \in CallRecord
    BY <1>2, <2>1, <2>3 DEF Phases
  <2> QED BY <2>2, <2>4
<1>5. /\ calls' = [calls EXCEPT ![c] = new]
      /\ UNCHANGED <<pages, behind, server>> /\ faults' = faults
  BY DEF Check, around
<1>6. bridge' = [gate |-> c, counter |-> bridge.counter + 1,
                 started |-> bridge.started, failed |-> FALSE, closed |-> FALSE,
                 timedOut |-> bridge.timedOut]
  BY <1>1, <1>2, <1>3 DEF Check, TransportTyped
<1>7. bridge' \in [gate : Nat \cup {Main}, counter : 0 .. Limit, started : BOOLEAN,
                   failed : BOOLEAN, closed : BOOLEAN, timedOut : BOOLEAN]
  BY <1>1, <1>2, <1>3, <1>6, BridgeFacts
<1> HIDE DEF new
<1>8. Call' = Call /\ calls'[c] = new
  BY <1>1, <1>4, <1>5, CallChanged
<1>9. UseInv'
  <2>1. /\ ~Working /\ NoRequest /\ wire.replies = <<>>
        /\ \A m \in Line : ~Unhandled(m)
        /\ \A r \in Reply : ~Untaken(r)
    BY <1>1, <1>2, <1>3, NothingOnItsWay
  <2>2. wire' = wire /\ worker' = worker /\ child' = child
    BY <1>5 DEF behind
  <2>3. /\ ~Working' /\ NoRequest'
        /\ \A m \in Line : ~Unhandled(m)'
        /\ \A r \in Reply : ~Untaken(r)'
    BY <2>1, <2>2 DEF Working, NoRequest, Unhandled, Untaken
  <2>4. child.last = bridge.counter /\ child.requests = bridge.counter
        /\ child.hello = bridge.started
    BY <1>1, <1>2, <1>3 DEF UseInv, InStep, Agrees
  <2>5. bridge'.counter - 1 = bridge.counter
    BY <1>1, <1>6, BridgeFacts
  <2> QED
    BY <1>2, <1>4, <1>6, <1>8, <2>1, <2>2, <2>3, <2>4, <2>5
    DEF UseInv, InStep, Agrees
<1>10. FailsForCause'
  BY <1>6 DEF FailsForCause
<1>11. PageWaits(c) /\ ~server.stdinClosed
  BY <1>1, <1>2, <1>3 DEF PagesInv, EndInv
<1>12. new.phase \in Inside /\ bridge'.counter > 0 /\ ~bridge'.failed
       /\ new.id = bridge'.counter /\ bridge'.closed = bridge.closed
       /\ bridge'.gate = c
  <2>1. bridge'.counter = bridge.counter + 1 /\ bridge'.counter > 0
    BY <1>1, <1>6, BridgeFacts
  <2>2. new.phase \in Inside
    BY <1>4 DEF Inside
  <2>3. bridge'.closed = bridge.closed
    BY <1>1, <1>3, <1>6, BridgeFacts
  <2> QED BY <1>3, <1>4, <1>6, <2>1, <2>2, <2>3
<1>13. faults' \in 0 .. MaxFaults
  BY <1>1, <1>5 DEF TransportTyped
<1>14. /\ new.phase # "answered" /\ new.phase # "sent"
       /\ calls[c].phase \notin {"waiting", "unavailable", "over"}
       /\ bridge.gate \in {c, Free} /\ bridge'.gate \in {c, Free}
       /\ ~bridge.failed
  BY <1>2, <1>3, <1>4, <1>6
<1> QED
  BY <1>4, <1>5, <1>7, <1>9, <1>10, <1>11, <1>12, <1>13, <1>14, HandlerMoves

(* The line of the call inside goes into the request queue. *)
LEMMA PutKeeps ==
    ASSUME TransportInv, NEW c \in Call, Put(c)
    PROVE  TransportInv'
<1> DEFINE new == [calls[c] EXCEPT !.phase = "waiting"]
<1> PICK line : line = Forwarded(c)
  OBVIOUS
<1>1. /\ TransportTyped /\ GateInv /\ UseInv /\ FailsForCause /\ PipelineInv
      /\ PagesInv /\ EndInv /\ LinesInv /\ HistoryInv /\ AnswersMatch
  BY DEF TransportInv
<1>2. /\ calls[c] \in CallRecord /\ calls[c].phase = "checked"
      /\ c \in Nat \ {0} /\ NoCall \notin Call
  BY <1>1, CallsFacts DEF Put
<1>3. /\ bridge.gate = c /\ ~bridge.failed
      /\ calls[c].id = bridge.counter /\ bridge.counter > 0
  BY <1>1, <1>2, InsideHoldsGate DEF GateInv, Sending
<1>4. /\ ~Working /\ wire.replies = <<>> /\ wire.stdin = <<>> /\ wire.stdout = <<>>
      /\ wire.requests = <<>>
  BY <1>1, <1>2, <1>3, NothingOnItsWay DEF Put
<1>5. new \in CallRecord /\ SameCall(new, c) /\ new.phase = "waiting"
      /\ new.id = calls[c].id
  BY <1>2 DEF CallRecord, SameCall, Phases
<1>6. /\ calls' = [calls EXCEPT ![c] = new]
      /\ pages' = pages /\ bridge' = bridge /\ worker' = worker /\ child' = child
      /\ handled' = handled /\ server' = server /\ faults' = faults
  BY DEF Put, Phase, around
<1>7. line \in Line /\ line # Stop /\ line.call = c /\ line.base = calls[c].base
      /\ line.id = calls[c].id
  BY <1>2, <1>3 DEF Forwarded, Line, CallRecord, Methods, Events, Stop, NoCall
<1>8. line.method = IF calls[c].method = "hello" /\ bridge.started
                    THEN "snapshot" ELSE calls[c].method
  BY DEF Forwarded
<1>9. wire' = [requests |-> <<line>>, replies |-> <<>>, stdin |-> <<>>,
               stdout |-> <<>>]
  BY <1>1, <1>4 DEF Put, TransportTyped
<1> HIDE DEF new
<1>10. /\ calls' \in Seq(CallRecord) /\ Call' = Call /\ calls'[c] = new
       /\ \A d \in Call \ {c} : calls'[d] = calls[d]
  BY <1>1, <1>5, <1>6, CallChanged
<1>11. \A m \in Line : Unhandled(m)' => m = line
  <2>1. \A m : <<line>> = <<m>> => m = line
    OBVIOUS
  <2>2. \A m : <<m>> # <<>>
    OBVIOUS
  <2> QED BY <1>4, <1>6, <1>9, <2>1, <2>2 DEF Unhandled, Working
<1>12. \A r \in Reply : ~Untaken(r)'
  <2>1. \A r : <<r>> # <<>>
    OBVIOUS
  <2> QED BY <1>9, <2>1 DEF Untaken
<1>13. TransportTyped'
  <2>1. <<line>> \in OneOf(Line) /\ <<>> \in OneOf(Line) /\ <<>> \in OneOf(Reply)
    BY <1>7 DEF OneOf
  <2> QED BY <1>1, <1>6, <1>9, <1>10, <2>1 DEF TransportTyped
<1>14. GateInv'
  <2>1. ASSUME NEW d \in Call
        PROVE  calls'[d].phase \in Inside <=> bridge'.gate = d
    BY <1>1, <1>3, <1>5, <1>6, <1>10 DEF GateInv, Inside
  <2>2. ASSUME NEW d \in Call, calls'[d].phase \in Sending
        PROVE  calls'[d].id = bridge'.counter /\ bridge'.counter > 0 /\ ~bridge'.failed
    BY <1>1, <1>3, <1>5, <1>6, <1>10, <2>2 DEF GateInv
  <2> QED BY <1>1, <1>6, <1>10, <2>1, <2>2 DEF GateInv
<1>15. PipelineInv'
  <2>1. <<line>> # <<>> /\ <<line>> # <<Stop>> /\ <<>> # <<EOF>>
    BY <1>7
  <2> QED BY <1>1, <1>4, <1>6, <1>9, <2>1 DEF PipelineInv, NoRequest, Working
<1>16. LinesInv'
  <2>1. PageWaits(c)'
    <3>1. PageWaits(c)
      BY <1>1, <1>2 DEF PagesInv
    <3> QED BY <1>1, <1>5, <1>6, <3>1, PageWaitsKept
  <2>2. LineSound(line)'
    BY <1>5, <1>7, <1>10, <2>1 DEF LineSound, SameCall
  <2> QED BY <1>11, <1>12, <2>2 DEF LinesInv
<1>17. UseInv'
  <2>1. child.last = bridge.counter - 1 /\ child.requests = bridge.counter - 1
        /\ child.hello = bridge.started
    BY <1>1, <1>2, <1>3 DEF UseInv, InStep, Agrees
  <2>2. calls'[c].phase = "waiting" /\ calls'[c].method = calls[c].method
    BY <1>5, <1>10 DEF SameCall
  <2>3. \A m \in Line : Unhandled(m)' =>
            /\ m.call = c /\ m.id = bridge.counter
            /\ m.method = IF calls[c].method = "hello" /\ bridge.started
                          THEN "snapshot" ELSE calls[c].method
    BY <1>3, <1>7, <1>8, <1>11
  <2> QED BY <1>3, <1>6, <1>10, <1>12, <2>1, <2>2, <2>3 DEF UseInv, InStep, Agrees
<1>18. HistoryInv'
  <2>1. \A h \in handled : h.call \in Call' /\ calls'[h.call].base = calls[h.call].base
    BY <1>1, <1>5, <1>10 DEF HistoryInv, SameCall
  <2>2. \A h \in handled : ~h.late
    BY <1>1, <1>3 DEF HistoryInv
  <2> QED BY <1>1, <1>6, <2>1, <2>2 DEF HistoryInv
<1>19. PagesInv'
  BY <1>1, <1>5, <1>6, PagesKept
<1>20. EndInv'
  <2>1. ~server.stdinClosed
    BY <1>1, <1>2 DEF EndInv, Sending
  <2> QED BY <1>1, <1>6, <2>1 DEF EndInv
<1>21. FailsForCause' /\ AnswersMatch'
  BY <1>1, <1>5, <1>6, <1>10 DEF FailsForCause, AnswersMatch
<1> QED
  BY <1>13, <1>14, <1>15, <1>16, <1>17, <1>18, <1>19, <1>20, <1>21 DEF TransportInv

(* The call inside takes an answer: what lies in the reply queue is of this *)
(* call, and nothing else is on its way.                                    *)
LEMMA ReplyIsOurs ==
    ASSUME TransportInv, NEW c \in Call, Replied(c)
    PROVE  /\ bridge.gate = c /\ ~bridge.failed /\ bridge.counter > 0
           /\ wire.replies = <<Head(wire.replies)>> /\ Head(wire.replies) \in Reply
           /\ Head(wire.replies) = EOF => ~child.alive
           /\ Head(wire.replies) # EOF =>
                LET r == Head(wire.replies) IN
                /\ r.call = c /\ r.id = bridge.counter
                /\ r.revision = child.revision
                /\ InStep(bridge.counter)
                /\ Agrees(bridge.started \/ (calls[c].method = "hello"
                                               /\ r.kind = "result"))
           /\ ~Working /\ NoRequest /\ wire.stdin = <<>> /\ wire.stdout = <<>>
           /\ wire' = [requests |-> wire.requests, replies |-> <<>>,
                       stdin |-> <<>>, stdout |-> <<>>]
           /\ UNCHANGED <<pages, worker, child, handled>>
<1>1. /\ TransportTyped /\ GateInv /\ UseInv /\ PipelineInv /\ LinesInv
      /\ calls[c].phase = "waiting" /\ wire.replies # <<>>
  BY DEF TransportInv, Replied
<1>2. bridge.gate = c /\ ~bridge.failed /\ bridge.counter > 0
  BY <1>1, InsideHoldsGate DEF GateInv, Sending
<1> DEFINE r == Head(wire.replies)
<1>3. wire.replies = <<r>> /\ r \in Reply
  BY <1>1, BridgeFacts, OneOfFacts
<1>4. r = EOF => ~child.alive
  BY <1>1, <1>3 DEF PipelineInv
<1>5. ~Working /\ NoRequest
  BY <1>1 DEF PipelineInv
<1>6. wire.stdin = <<>> /\ wire.stdout = <<>>
  BY <1>1, <1>5 DEF PipelineInv, Working
<1>7. wire' = [requests |-> wire.requests, replies |-> <<>>,
               stdin |-> <<>>, stdout |-> <<>>]
  BY <1>1, <1>6 DEF Replied, TransportTyped
<1>8. r # EOF => Untaken(r)
  BY <1>3 DEF Untaken
<1>9. UNCHANGED <<pages, worker, child, handled>>
  BY DEF Replied
<1> HIDE DEF r
<1>10. r # EOF => /\ r.call = c /\ r.id = bridge.counter
                  /\ r.revision = child.revision
                  /\ InStep(bridge.counter)
                  /\ Agrees(bridge.started \/ (calls[c].method = "hello"
                                                 /\ r.kind = "result"))
  BY <1>1, <1>2, <1>3, <1>8 DEF UseInv, LinesInv, ReplySound
<1> QED
  BY <1>2, <1>3, <1>4, <1>5, <1>6, <1>7, <1>9, <1>10 DEF r

(* A call takes the reply that waits for it. *)
LEMMA TakesReply ==
    ASSUME TransportInv, NEW c \in Call, Replied(c), NEW new \in CallRecord,
           calls' = [calls EXCEPT ![c] = new], SameCall(new, c),
           new.phase \in {"answered", "rejected", "unavailable"},
           new.phase = "answered" => new.reply = Head(wire.replies),
           bridge' \in [gate : Nat \cup {Main}, counter : 0 .. Limit, started : BOOLEAN,
                        failed : BOOLEAN, closed : BOOLEAN, timedOut : BOOLEAN],
           bridge'.gate = Free, bridge'.counter = bridge.counter,
           bridge'.closed = bridge.closed,
           bridge'.failed => new.phase = "unavailable",
           ~bridge'.failed =>
               /\ Head(wire.replies).id = bridge.counter
               /\ bridge'.started =
                    (bridge.started \/ (calls[c].method = "hello"
                                          /\ Head(wire.replies).kind = "result")),
           FailsForCause',
           server' \in [at : {"serving", "asked", "flagged", "gated", "stopping", "done"},
                        stdinClosed : BOOLEAN],
           server'.stdinClosed = server.stdinClosed,
           server'.at = server.at \/ server'.at = "asked",
           faults' \in 0 .. MaxFaults,
           new.phase = "answered" => ~bridge'.failed
    PROVE  TransportInv'
<1> PICK r : r = Head(wire.replies)
  OBVIOUS
<1>1. /\ TransportTyped /\ GateInv /\ UseInv /\ FailsForCause /\ PipelineInv
      /\ PagesInv /\ EndInv /\ LinesInv /\ HistoryInv /\ AnswersMatch
  BY DEF TransportInv
<1>2. /\ calls[c] \in CallRecord /\ c \in Nat \ {0} /\ NoCall \notin Call
      /\ Free \notin Call /\ Main \notin Call
  BY <1>1, CallsFacts
<1>3. /\ bridge.gate = c /\ ~bridge.failed /\ bridge.counter > 0
      /\ ~Working /\ NoRequest
      /\ wire' = [requests |-> wire.requests, replies |-> <<>>,
                  stdin |-> <<>>, stdout |-> <<>>]
      /\ pages' = pages /\ worker' = worker /\ child' = child /\ handled' = handled
  BY ReplyIsOurs
<1>4. r.id = bridge.counter =>
         /\ r.call = c /\ r.revision = child.revision
         /\ InStep(bridge.counter)
         /\ Agrees(bridge.started \/ (calls[c].method = "hello" /\ r.kind = "result"))
  <2>1. EOF.id = 0
    BY DEF EOF
  <2> QED BY <1>3, <2>1, ReplyIsOurs
<1>5. /\ calls' \in Seq(CallRecord) /\ Call' = Call /\ calls'[c] = new
      /\ \A d \in Call \ {c} : calls'[d] = calls[d]
  BY <1>1, CallChanged
<1>6. \A d \in Call : SameCall(calls'[d], d)
  BY <1>5 DEF SameCall
<1>7. /\ \A m \in Line : ~Unhandled(m)'
      /\ \A q \in Reply : ~Untaken(q)'
      /\ ~Working' /\ NoRequest'
  <2>1. \A m : <<m>> # <<>>
    OBVIOUS
  <2>2. \A m : <<m>> = <<Stop>> => m = Stop
    OBVIOUS
  <2> QED
    BY <1>3, <2>1, <2>2 DEF Unhandled, Untaken, Working, NoRequest
<1>8. TransportTyped'
  <2>1. <<>> \in OneOf(Line) /\ <<>> \in OneOf(Reply)
    BY DEF OneOf
  <2> QED BY <1>1, <1>3, <1>5, <2>1 DEF TransportTyped
<1>9. GateInv'
  <2>1. ASSUME NEW d \in Call
        PROVE  calls'[d].phase \notin Inside /\ calls'[d].phase \notin Sending
    BY <1>1, <1>3, <1>5 DEF GateInv, Inside, Sending
  <2> QED BY <1>2, <1>5, <2>1 DEF GateInv
<1>10. PipelineInv'
  <2>1. <<>> # <<EOF>>
    OBVIOUS
  <2> QED BY <1>1, <1>3, <1>7, <2>1 DEF PipelineInv, NoRequest, Working
<1>11. LinesInv'
  BY <1>7 DEF LinesInv
<1>12. UseInv'
  BY <1>2, <1>3, <1>4, <1>5, <1>7 DEF UseInv, InStep, Agrees
<1>13. HistoryInv'
  <2>1. \A h \in handled : h.call \in Call' /\ calls'[h.call].base = calls[h.call].base
    BY <1>1, <1>5, <1>6 DEF HistoryInv, SameCall
  <2>2. \A h \in handled : ~h.late
    BY <1>1, <1>3 DEF HistoryInv
  <2> QED BY <1>1, <1>3, <2>1, <2>2 DEF HistoryInv
<1>14. PagesInv'
  <2>1. \A p \in Page : pages[p].call # NoCall =>
            pages[p].call \in Call' /\ calls'[pages[p].call].page = p
    BY <1>1, <1>5, <1>6 DEF PagesInv, SameCall
  <2>2. \A d \in Call : calls'[d].phase = "sent" =>
            calls'[d].lost \/ pages[calls'[d].page].call = d
    BY <1>1, <1>5 DEF PagesInv
  <2>3. \A d \in Call : calls'[d].phase \notin {"entered", "checked"}
    BY <1>1, <1>3, <1>5 DEF GateInv, Inside
  <2>4. \A h \in handled, p \in Page : Ours(h, p)' <=> Ours(h, p)
    BY <1>1, <1>6 DEF HistoryInv, Ours, SameCall
  <2>5. ASSUME NEW p \in Page, pages[p].call # NoCall,
               calls'[pages[p].call].phase = "answered",
               calls'[pages[p].call].reply.snapshot,
               NEW h \in handled, Ours(h, p)
        PROVE  h.revision < calls'[pages[p].call].reply.revision
    <3>1. pages[p].call \in Call
      BY <1>1, <2>5 DEF PagesInv
    <3>2. CASE pages[p].call = c
      <4>1. calls'[c].reply = r /\ r.revision = child.revision
        BY <1>4, <1>5, <2>5, <3>2
      <4>2. h.revision < child.revision
        BY <1>1, <2>5 DEF HistoryInv, Ours
      <4> QED BY <3>2, <4>1, <4>2
    <3>3. CASE pages[p].call # c
      BY <1>1, <1>5, <2>5, <3>1, <3>3 DEF PagesInv
    <3> QED BY <3>2, <3>3
  <2>6. \A d \in Call : pages[calls'[d].page].open
    BY <1>1, <1>6 DEF PagesInv, SameCall
  <2> QED BY <1>1, <1>3, <1>5, <2>1, <2>2, <2>3, <2>4, <2>5, <2>6 DEF PagesInv
<1>15. EndInv'
  <2>1. server'.stdinClosed => \A d \in Call : calls'[d].phase \notin Sending
    BY <1>1, <1>5 DEF EndInv, Sending
  <2> QED BY <1>1, <1>5, <1>7, <2>1 DEF EndInv
<1>16. AnswersMatch'
  <2>1. new.phase = "answered" => new.reply.call = c
    BY <1>4
  <2> QED BY <1>1, <1>5, <2>1 DEF AnswersMatch
<1> QED
  BY <1>8, <1>9, <1>10, <1>11, <1>12, <1>13, <1>14, <1>15, <1>16 DEF TransportInv

(* The reply is accepted, unread by its page, or refused. *)
LEMMA AnsweredKeeps ==
    ASSUME TransportInv, NEW c \in Call,
           Accept(c) \/ AcceptUnread(c) \/ AcceptFails(c)
    PROVE  TransportInv'
<1> PICK r : r = Head(wire.replies)
  OBVIOUS
<1>1. TransportTyped /\ FailsForCause /\ calls[c] \in CallRecord /\ Free \in Nat
  BY CallsFacts DEF TransportInv, Free
<1>2. Replied(c)
  BY DEF Accept, AcceptUnread, AcceptFails, Answered
<1>3. ~bridge.failed /\ r \in Reply /\ (r = EOF => ~child.alive) /\ child' = child
      /\ (r # EOF => r.id = bridge.counter)
  BY <1>2, ReplyIsOurs
<1>4. faults' \in 0 .. MaxFaults
  BY <1>1 DEF Accept, AcceptUnread, AcceptFails, Fault, around, TransportTyped
<1>5. /\ server' \in [at : {"serving", "asked", "flagged", "gated", "stopping", "done"},
                      stdinClosed : BOOLEAN]
      /\ server'.stdinClosed = server.stdinClosed
      /\ server'.at = server.at \/ server'.at = "asked"
  BY <1>1 DEF Accept, AcceptUnread, AcceptFails, around, TransportTyped
<1>6. ASSUME NEW phase \in {"answered", "rejected"}, Answered(c, r, phase)
      PROVE  TransportInv'
  <2> DEFINE new == [calls[c] EXCEPT !.phase = phase, !.reply = r]
  <2>1. calls' = [calls EXCEPT ![c] = new] /\ r.id = bridge.counter
    BY <1>6 DEF Answered
  <2>2. /\ new \in CallRecord /\ SameCall(new, c) /\ new.phase = phase /\ new.reply = r
    BY <1>1, <1>3 DEF CallRecord, SameCall, Phases, Refused
  <2>3. bridge' = [gate |-> Free, counter |-> bridge.counter,
                   started |-> (bridge.started \/ (calls[c].method = "hello"
                                                    /\ r.kind = "result")),
                   failed |-> bridge.failed, closed |-> bridge.closed,
                   timedOut |-> bridge.timedOut]
    BY <1>1, <1>6 DEF Answered, TransportTyped
  <2>4. bridge' \in [gate : Nat \cup {Main}, counter : 0 .. Limit, started : BOOLEAN,
                     failed : BOOLEAN, closed : BOOLEAN, timedOut : BOOLEAN]
    BY <1>1, <2>3, BridgeFacts
  <2>5. FailsForCause'
    BY <1>3, <2>3 DEF FailsForCause
  <2>6. /\ bridge'.gate = Free /\ bridge'.counter = bridge.counter
        /\ bridge'.closed = bridge.closed /\ ~bridge'.failed
        /\ bridge'.started = (bridge.started \/ (calls[c].method = "hello"
                                                   /\ r.kind = "result"))
    BY <1>3, <2>3
  <2> HIDE DEF new
  <2> QED
    BY <1>2, <1>4, <1>5, <2>1, <2>2, <2>4, <2>5, <2>6, TakesReply
<1>7. CASE AcceptFails(c)
  <2> DEFINE new == [calls[c] EXCEPT !.phase = "unavailable"]
  <2>1. calls' = [calls EXCEPT ![c] = new]
    BY <1>7 DEF AcceptFails, Fail, Phase
  <2>2. /\ new \in CallRecord /\ SameCall(new, c) /\ new.phase = "unavailable"
    BY <1>1 DEF CallRecord, SameCall, Phases, Refused
  <2>3. bridge' = [gate |-> Free, counter |-> bridge.counter,
                   started |-> bridge.started, failed |-> TRUE,
                   closed |-> bridge.closed, timedOut |-> bridge.timedOut]
    BY <1>1, <1>7 DEF AcceptFails, Fail, TransportTyped
  <2>4. bridge' \in [gate : Nat \cup {Main}, counter : 0 .. Limit, started : BOOLEAN,
                     failed : BOOLEAN, closed : BOOLEAN, timedOut : BOOLEAN]
    BY <1>1, <2>3, BridgeFacts
  <2>5. FailsForCause'
    <3>1. r.id # bridge.counter
      BY <1>7 DEF AcceptFails
    <3>2. ~child.alive
      BY <1>3, <3>1
    <3> QED BY <1>3, <3>2 DEF FailsForCause
  <2>6. /\ bridge'.gate = Free /\ bridge'.counter = bridge.counter
        /\ bridge'.closed = bridge.closed /\ bridge'.failed
    BY <2>3
  <2> HIDE DEF new
  <2> QED
    BY <1>2, <1>4, <1>5, <2>1, <2>2, <2>4, <2>5, <2>6, TakesReply
<1>8. CASE Accept(c)
  BY <1>6, <1>8 DEF Accept
<1>9. CASE AcceptUnread(c)
  BY <1>6, <1>9 DEF AcceptUnread
<1> QED
  BY <1>7, <1>8, <1>9

(* Every step of a handler keeps the invariant. *)
LEMMA HandlerKeeps ==
    ASSUME TransportInv, NEW c \in Call, Handler(c)
    PROVE  TransportInv'
BY RejectKeeps, EnterKeeps, HandlerFails, CheckKeeps, PutKeeps, AnsweredKeeps
DEF Handler

-----------------------------------------------------------------------------
(* The renderer's steps: they leave the bridge, the queues and the session  *)
(* alone.                                                                   *)
LEMMA RendererMoves ==
    ASSUME TransportInv, UNCHANGED <<bridge, behind, server>>,
           TransportTyped', Call \subseteq Call', PagesInv', AnswersMatch',
           \A d \in Call' \ Call : calls'[d].phase = "sent" /\ d \in Nat \ {0},
           \A d \in Call : /\ calls'[d].base = calls[d].base
                           /\ calls'[d].method = calls[d].method
                           /\ \/ calls'[d].phase = calls[d].phase
                              \/ /\ calls[d].phase \in Refused \cup {"answered"}
                                 /\ calls'[d].phase = "over"
                           /\ calls[d].phase \in Sending => calls'[d].id = calls[d].id,
           \A d \in Call : PageWaits(d) /\ calls[d].phase # "answered" => PageWaits(d)',
           bridge.gate \notin Call' \ Call
    PROVE  TransportInv'
<1>1. /\ TransportTyped /\ GateInv /\ UseInv /\ FailsForCause /\ PipelineInv
      /\ PagesInv /\ EndInv /\ LinesInv /\ HistoryInv /\ AnswersMatch
  BY DEF TransportInv
<1>2. /\ bridge' = bridge /\ wire' = wire /\ worker' = worker /\ child' = child
      /\ handled' = handled /\ server' = server
  BY DEF behind
<1>3. /\ \A m \in Line : Unhandled(m)' <=> Unhandled(m)
      /\ \A r \in Reply : Untaken(r)' <=> Untaken(r)
  BY <1>2 DEF Unhandled, Untaken
<1>4. \A d \in Call : /\ calls'[d].phase \in Inside <=> calls[d].phase \in Inside
                      /\ calls'[d].phase \in Sending <=> calls[d].phase \in Sending
                      /\ calls[d].phase \in Inside => calls'[d].phase = calls[d].phase
  BY DEF Inside, Sending, Refused
<1>5. GateInv'
  <2>1. ASSUME NEW d \in Call'
        PROVE  calls'[d].phase \in Inside <=> bridge.gate = d
    <3>1. CASE d \in Call
      BY <1>1, <1>4, <3>1 DEF GateInv
    <3>2. CASE d \notin Call
      BY <2>1, <3>2 DEF Inside
    <3> QED BY <3>1, <3>2
  <2>2. ASSUME NEW d \in Call', calls'[d].phase \in Sending
        PROVE  calls'[d].id = bridge.counter /\ bridge.counter > 0 /\ ~bridge.failed
    <3>1. d \in Call
      BY <2>2 DEF Sending
    <3> QED BY <1>1, <1>4, <2>2, <3>1 DEF GateInv
  <2> QED BY <1>1, <1>2, <2>1, <2>2 DEF GateInv
<1>6. PipelineInv'
  BY <1>1, <1>2 DEF PipelineInv, NoRequest, Working
<1>7. LinesInv'
  <2>1. ASSUME NEW m \in Line, Unhandled(m)
        PROVE  LineSound(m)'
    <3>1. LineSound(m) /\ m.call \in Call
      BY <1>1, <2>1 DEF LinesInv, LineSound
    <3>2. PageWaits(m.call)'
      BY <3>1 DEF LineSound
    <3>3. calls'[m.call].phase \in {"waiting", "unavailable", "over"}
      BY <3>1 DEF LineSound
    <3> QED BY <3>1, <3>2, <3>3 DEF LineSound
  <2>2. ASSUME NEW r \in Reply, Untaken(r)
        PROVE  ReplySound(r)'
    BY <1>1, <1>2, <2>2 DEF LinesInv, ReplySound
  <2> QED BY <1>3, <2>1, <2>2 DEF LinesInv
<1>8. UseInv'
  <2>1. bridge.gate \in Call' <=> bridge.gate \in Call
    OBVIOUS
  <2>2. bridge.gate \in Call => /\ calls'[bridge.gate].phase = calls[bridge.gate].phase
                                /\ calls'[bridge.gate].method = calls[bridge.gate].method
    BY <1>1, <1>4 DEF GateInv
  <2>3. \A m \in Line : Unhandled(m) /\ ~bridge.failed => bridge.gate \in Call
    BY <1>1 DEF UseInv, LinesInv, LineSound
  <2>4. \A r \in Reply : Untaken(r) /\ ~bridge.failed => bridge.gate \in Call
    BY <1>1 DEF UseInv, LinesInv, ReplySound
  <2> QED
    BY <1>1, <1>2, <1>3, <2>1, <2>2, <2>3, <2>4
    DEF UseInv, Working, NoRequest, InStep, Agrees
<1>9. HistoryInv'
  BY <1>1, <1>2, <1>3 DEF HistoryInv
<1>10. EndInv'
  <2>1. server.stdinClosed => \A d \in Call' : calls'[d].phase \notin Sending
    BY <1>1, <1>4 DEF EndInv, Sending
  <2> QED BY <1>1, <1>2, <2>1 DEF EndInv, NoRequest, Working
<1>11. FailsForCause'
  BY <1>1, <1>2 DEF FailsForCause
<1> QED
  BY <1>5, <1>6, <1>7, <1>8, <1>9, <1>10, <1>11 DEF TransportInv

(* A page without a call makes one. *)
LEMMA RequestKeeps ==
    ASSUME TransportInv, NEW p \in Page, NEW method \in Methods,
           pages[p].call = NoCall,
           Request(p, [pages[p] EXCEPT !.open = TRUE], method)
    PROVE  TransportInv'
<1> DEFINE n == Len(calls) + 1
           base == IF method \in Events THEN pages[p].seen ELSE Unseen
           new == [page |-> p, method |-> method, id |-> 0, base |-> base,
                   lost |-> FALSE, reply |-> EOF, phase |-> "sent"]
           page == [open |-> TRUE, call |-> n, seen |-> pages[p].seen,
                    uncertain |-> pages[p].uncertain]
<1>1. /\ TransportTyped /\ GateInv /\ PagesInv /\ HistoryInv /\ AnswersMatch
  BY DEF TransportInv
<1>2. /\ pages \in [Page -> PageRecord] /\ pages[p] \in PageRecord /\ n \in Nat \ {0}
      /\ \A d \in Call : d \in Nat \ {0} /\ calls[d] \in CallRecord
      /\ NoCall \notin Call
  BY <1>1, CallsFacts DEF TransportTyped
<1>3. new \in CallRecord
  BY <1>2, StopTyped DEF CallRecord, PageRecord, Phases, Unseen
<1>4. calls' = Append(calls, new)
  <2>1. [pages[p] EXCEPT !.open = TRUE].seen = pages[p].seen
    BY <1>2 DEF PageRecord
  <2> QED BY <2>1 DEF Request
<1>5. page \in PageRecord /\ pages' = [pages EXCEPT ![p] = page]
  <2>1. page \in PageRecord
    BY <1>2 DEF PageRecord
  <2>2. [[pages[p] EXCEPT !.open = TRUE] EXCEPT !.call = n] = page
    <3>1. n \in Nat
      BY <1>2
    <3> HIDE DEF n
    <3> QED BY <1>2, <3>1, PageRebuilt DEF PageOf
  <2>3. pages' = [pages EXCEPT
                    ![p] = [[pages[p] EXCEPT !.open = TRUE] EXCEPT !.call = n]]
    BY DEF Request
  <2> QED BY <2>1, <2>2, <2>3
<1>6. UNCHANGED <<bridge, behind, server>> /\ faults' = faults /\ handled' = handled
      /\ wire' = wire /\ worker' = worker /\ child' = child
  BY DEF Request, behind, around
<1>7. /\ new.page = p /\ new.lost = FALSE /\ new.phase = "sent"
      /\ page.call = n /\ page.open /\ page.seen = pages[p].seen
      /\ page.uncertain = pages[p].uncertain
  OBVIOUS
<1> HIDE DEF new, page, base
<1>8. /\ calls' \in Seq(CallRecord) /\ Call' = Call \cup {n} /\ n \notin Call
      /\ calls'[n] = new /\ \A d \in Call : calls'[d] = calls[d]
  BY <1>1, <1>3, <1>4, CallAppended
<1> HIDE DEF n
<1>9. /\ pages' \in [Page -> PageRecord] /\ pages'[p] = page
      /\ \A q \in Page \ {p} : pages'[q] = pages[q]
  BY <1>2, <1>5
<1>10. TransportTyped'
  BY <1>1, <1>6, <1>8, <1>9 DEF TransportTyped
<1>11. ASSUME NEW d \in Call, PageWaits(d)
       PROVE  PageWaits(d)'
  <2>1. calls[d].page \in Page
    BY <1>2 DEF CallRecord
  <2>2. CASE calls[d].page = p
    <3>1. calls[d].lost \/ pages[p].uncertain
      BY <1>2, <1>11, <2>2 DEF PageWaits
    <3>2. page.uncertain <=> pages[p].uncertain
      BY <1>7
    <3> QED BY <1>7, <1>8, <1>9, <2>2, <3>1, <3>2 DEF PageWaits
  <2>3. CASE calls[d].page # p
    <3>1. pages'[calls[d].page] = pages[calls[d].page]
      BY <1>9, <2>1, <2>3
    <3>2. pages[calls[d].page].call # NoCall => pages[calls[d].page].call \in Call
      BY <1>1, <2>1 DEF PagesInv
    <3>3. calls'[d] = calls[d]
      BY <1>8
    <3> QED BY <1>8, <1>11, <3>1, <3>2, <3>3 DEF PageWaits
  <2> QED BY <2>2, <2>3
<1>12. PagesInv'
  <2>1. ASSUME NEW q \in Page, pages'[q].call # NoCall
        PROVE  /\ pages'[q].call \in Call' /\ calls'[pages'[q].call].page = q
               /\ q # p => pages'[q].call = pages[q].call /\ pages[q].call \in Call
               /\ q = p => pages'[q].call = n
    BY <1>1, <1>7, <1>8, <1>9, <2>1 DEF PagesInv
  <2>2. ASSUME NEW d \in Call'
        PROVE  /\ calls'[d].phase = "sent" =>
                     calls'[d].lost \/ pages'[calls'[d].page].call = d
               /\ pages'[calls'[d].page].open
    <3>1. CASE d = n
      BY <1>7, <1>8, <1>9, <3>1
    <3>2. CASE d # n
      <4>1. d \in Call /\ calls'[d] = calls[d] /\ calls[d].page \in Page
        BY <1>2, <1>8, <3>2 DEF CallRecord
      <4>2. CASE calls[d].page = p
        BY <1>1, <1>2, <1>7, <1>9, <4>1, <4>2 DEF PagesInv
      <4>3. CASE calls[d].page # p
        BY <1>1, <1>9, <4>1, <4>3 DEF PagesInv
      <4> QED BY <4>2, <4>3
    <3> QED BY <3>1, <3>2
  <2>3. ASSUME NEW d \in Call', calls'[d].phase \in {"entered", "checked"}
        PROVE  PageWaits(d)'
    <3>1. d \in Call /\ calls'[d] = calls[d]
      BY <1>7, <1>8, <2>3
    <3> QED BY <1>1, <1>11, <2>3, <3>1 DEF PagesInv
  <2>4. \A h \in handled, q \in Page : Ours(h, q)' <=> Ours(h, q)
    BY <1>1, <1>8 DEF HistoryInv, Ours
  <2>5. ASSUME NEW q \in Page, pages'[q].seen # Unseen, ~pages'[q].uncertain,
               NEW h \in handled, Ours(h, q), h.call # pages'[q].call
        PROVE  h.revision < pages'[q].seen
    <3>1. h.call \in Call
      BY <1>1 DEF HistoryInv
    <3>2. CASE q = p
      <4>1. pages[p].seen # Unseen /\ ~pages[p].uncertain /\ h.call # pages[p].call
        BY <1>2, <1>7, <1>9, <2>5, <3>1, <3>2
      <4> QED BY <1>1, <1>7, <1>9, <2>5, <3>2, <4>1 DEF PagesInv
    <3>3. CASE q # p
      BY <1>1, <1>9, <2>5, <3>3 DEF PagesInv
    <3> QED BY <3>2, <3>3
  <2>6. ASSUME NEW q \in Page, pages'[q].call # NoCall,
               calls'[pages'[q].call].phase = "answered",
               calls'[pages'[q].call].reply.snapshot,
               NEW h \in handled, Ours(h, q)
        PROVE  h.revision < calls'[pages'[q].call].reply.revision
    <3>1. q # p
      BY <1>7, <1>8, <2>1, <2>6
    <3>2. pages'[q].call = pages[q].call /\ pages[q].call \in Call
      BY <2>1, <2>6, <3>1
    <3> QED BY <1>1, <1>8, <2>6, <3>2 DEF PagesInv
  <2> QED BY <1>6, <2>1, <2>2, <2>3, <2>4, <2>5, <2>6 DEF PagesInv
<1>13. AnswersMatch'
  BY <1>1, <1>7, <1>8 DEF AnswersMatch
<1>14. bridge.gate # n
  BY <1>1, <1>2, <1>8 DEF GateInv, Free, Main
<1> QED
  BY <1>2, <1>6, <1>7, <1>8, <1>10, <1>11, <1>12, <1>13, <1>14, RendererMoves

(* A page opens, resynchronises or sends an event. *)
LEMMA RequestsKeep ==
    ASSUME TransportInv, NEW p \in Page,
           Open(p) \/ Resync(p) \/ \E method \in Events : Event(p, method)
    PROVE  TransportInv'
<1>1. TransportTyped /\ PagesInv
  BY DEF TransportInv
<1>2. pages[p] \in PageRecord
  BY <1>1 DEF TransportTyped
<1>3. ~pages[p].open => pages[p].call = NoCall
  BY <1>1 DEF PagesInv
<1>4. pages[p].open => pages[p] = [pages[p] EXCEPT !.open = TRUE]
  <2>1. ASSUME NEW r \in PageRecord, r.open
        PROVE  r = [r EXCEPT !.open = TRUE]
    BY <2>1 DEF PageRecord
  <2> QED BY <1>2, <2>1
<1>5. CASE Open(p)
  BY <1>3, <1>5, RequestKeeps DEF Open, Methods
<1>6. CASE Resync(p)
  <2>1. PICK method \in {"snapshot", "hello"} : Request(p, pages[p], method)
    BY <1>6 DEF Resync
  <2> QED BY <1>4, <1>6, <2>1, RequestKeeps DEF Resync, Idle, Methods
<1>7. CASE \E method \in Events : Event(p, method)
  <2>1. PICK method \in Events : Event(p, method)
    BY <1>7
  <2> QED BY <1>4, <2>1, RequestKeeps DEF Event, Idle, Methods
<1> QED
  BY <1>5, <1>6, <1>7

(* fetch fails: the page forgets its call and is uncertain. *)
LEMMA ConnectionLostKeeps ==
    ASSUME TransportInv, NEW p \in Page, ConnectionLost(p)
    PROVE  TransportInv'
<1> DEFINE c == pages[p].call
           new == [calls[c] EXCEPT !.lost = (calls[c].phase = "sent")]
           page == [open |-> pages[p].open, call |-> NoCall, seen |-> pages[p].seen,
                    uncertain |-> TRUE]
<1>1. /\ TransportTyped /\ GateInv /\ PagesInv /\ HistoryInv /\ AnswersMatch
  BY DEF TransportInv
<1>2. /\ pages \in [Page -> PageRecord] /\ pages[p] \in PageRecord
      /\ \A d \in Call : d \in Nat \ {0} /\ calls[d] \in CallRecord
      /\ NoCall \notin Call
  BY <1>1, CallsFacts DEF TransportTyped
<1>3. c \in Call /\ calls[c].page = p
  BY <1>1 DEF ConnectionLost, PagesInv
<1>4. /\ new \in CallRecord /\ new.page = p /\ new.phase = calls[c].phase
      /\ new.base = calls[c].base /\ new.method = calls[c].method
      /\ new.id = calls[c].id /\ new.reply = calls[c].reply
      /\ new.lost <=> calls[c].phase = "sent"
  BY <1>2, <1>3 DEF CallRecord
<1>5. calls' = [calls EXCEPT ![c] = new]
  BY DEF ConnectionLost
<1>6. page \in PageRecord /\ pages' = [pages EXCEPT ![p] = page]
  <2>1. page \in PageRecord
    BY <1>2 DEF PageRecord, NoCall
  <2>2. [[pages[p] EXCEPT !.call = NoCall] EXCEPT !.uncertain = TRUE] = page
    <3>1. NoCall \in Nat
      BY DEF NoCall
    <3>2. [[pages[p] EXCEPT !.call = NoCall] EXCEPT !.uncertain = TRUE]
            = PageOf(pages[p].open, NoCall, pages[p].seen, TRUE)
      BY <1>2, <3>1, PageRebuilt
    <3> QED BY <3>2 DEF PageOf
  <2>3. pages' = [pages EXCEPT
                    ![p] = [[pages[p] EXCEPT !.call = NoCall] EXCEPT !.uncertain = TRUE]]
    BY <1>2 DEF ConnectionLost
  <2> QED BY <2>1, <2>2, <2>3
<1>7. UNCHANGED <<bridge, behind, server>> /\ faults' \in 0 .. MaxFaults
      /\ handled' = handled /\ wire' = wire /\ worker' = worker /\ child' = child
  BY <1>1 DEF ConnectionLost, Fault, behind, TransportTyped
<1>8. page.call = NoCall /\ page.uncertain /\ page.open = pages[p].open
  OBVIOUS
<1> HIDE DEF new, page
<1>9. /\ calls' \in Seq(CallRecord) /\ Call' = Call /\ calls'[c] = new
      /\ \A d \in Call \ {c} : calls'[d] = calls[d]
  BY <1>1, <1>3, <1>4, <1>5, CallChanged
<1> PICK k : k = c
  OBVIOUS
<1>10. /\ k \in Call /\ pages[p].call = k /\ k # NoCall /\ calls[k].page = p
       /\ calls'[k].page = p /\ calls'[k].phase = calls[k].phase
       /\ calls'[k].base = calls[k].base /\ calls'[k].method = calls[k].method
       /\ calls'[k].id = calls[k].id /\ calls'[k].reply = calls[k].reply
       /\ calls'[k].lost <=> calls[k].phase = "sent"
       /\ \A d \in Call \ {k} : calls'[d] = calls[d]
  BY <1>2, <1>3, <1>4, <1>9
<1> HIDE DEF c
<1>11. /\ pages' \in [Page -> PageRecord] /\ pages'[p] = page
       /\ \A q \in Page \ {p} : pages'[q] = pages[q]
  BY <1>2, <1>6
<1>12. TransportTyped'
  BY <1>1, <1>7, <1>9, <1>11 DEF TransportTyped
<1>13. ASSUME NEW d \in Call, PageWaits(d)
       PROVE  PageWaits(d)'
  <2>1. calls[d].page \in Page /\ calls'[d].page = calls[d].page
    BY <1>2, <1>10 DEF CallRecord
  <2>2. CASE calls[d].page = p
    BY <1>8, <1>11, <2>1, <2>2 DEF PageWaits
  <2>3. CASE calls[d].page # p
    <3>1. pages'[calls[d].page] = pages[calls[d].page] /\ calls'[d] = calls[d]
      BY <1>10, <1>11, <2>1, <2>3
    <3>2. pages[calls[d].page].call # NoCall =>
             /\ pages[calls[d].page].call \in Call \ {k}
             /\ calls'[pages[calls[d].page].call] = calls[pages[calls[d].page].call]
      BY <1>1, <1>10, <2>1, <2>3 DEF PagesInv
    <3> QED BY <1>13, <3>1, <3>2 DEF PageWaits
  <2> QED BY <2>2, <2>3
<1>14. PagesInv'
  <2>1. ASSUME NEW q \in Page, pages'[q].call # NoCall
        PROVE  /\ q # p /\ pages'[q] = pages[q]
               /\ pages'[q].call \in Call \ {k} /\ calls'[pages'[q].call].page = q
               /\ calls'[pages'[q].call] = calls[pages'[q].call]
    BY <1>1, <1>8, <1>10, <1>11, <2>1 DEF PagesInv
  <2>2. ASSUME NEW d \in Call
        PROVE  /\ calls'[d].phase = "sent" =>
                     calls'[d].lost \/ pages'[calls'[d].page].call = d
               /\ pages'[calls'[d].page].open
    <3>1. calls[d].page \in Page /\ calls'[d].page = calls[d].page
      BY <1>2, <1>10 DEF CallRecord
    <3>2. pages'[calls[d].page].open
      BY <1>1, <1>8, <1>11, <3>1 DEF PagesInv
    <3>3. CASE d = k
      BY <1>10, <3>1, <3>2, <3>3
    <3>4. CASE d # k
      <4>1. CASE calls[d].page = p
        BY <1>1, <1>10, <3>1, <3>2, <3>4, <4>1 DEF PagesInv
      <4>2. CASE calls[d].page # p
        BY <1>1, <1>10, <1>11, <3>1, <3>2, <3>4, <4>2 DEF PagesInv
      <4> QED BY <4>1, <4>2
    <3> QED BY <3>3, <3>4
  <2>3. ASSUME NEW d \in Call, calls'[d].phase \in {"entered", "checked"}
        PROVE  PageWaits(d)'
    <3>1. calls[d].phase \in {"entered", "checked"}
      BY <1>10, <2>3
    <3> QED BY <1>1, <1>13, <3>1 DEF PagesInv
  <2>4. \A h \in handled, q \in Page \ {p} : Ours(h, q)' <=> Ours(h, q)
    BY <1>1, <1>10 DEF HistoryInv, Ours
  <2>5. ASSUME NEW q \in Page, pages'[q].seen # Unseen, ~pages'[q].uncertain,
               NEW h \in handled, Ours(h, q)', h.call # pages'[q].call
        PROVE  h.revision < pages'[q].seen
    <3>1. q # p
      BY <1>8, <1>11, <2>5
    <3> QED BY <1>1, <1>11, <2>4, <2>5, <3>1 DEF PagesInv
  <2>6. ASSUME NEW q \in Page, pages'[q].call # NoCall,
               calls'[pages'[q].call].phase = "answered",
               calls'[pages'[q].call].reply.snapshot,
               NEW h \in handled, Ours(h, q)'
        PROVE  h.revision < calls'[pages'[q].call].reply.revision
    BY <1>1, <2>1, <2>4, <2>6 DEF PagesInv
  <2> QED BY <1>7, <1>9, <2>1, <2>2, <2>3, <2>5, <2>6 DEF PagesInv
<1>15. AnswersMatch'
  BY <1>1, <1>9, <1>10 DEF AnswersMatch
<1>16. \A d \in Call : /\ calls'[d].base = calls[d].base
                       /\ calls'[d].method = calls[d].method
                       /\ calls'[d].phase = calls[d].phase
                       /\ calls'[d].id = calls[d].id
  BY <1>10
<1> QED
  BY <1>7, <1>9, <1>12, <1>13, <1>14, <1>15, <1>16, RendererMoves

(* The answer reaches the page, or it learns that there is none. *)
LEMMA ReceiveKeeps ==
    ASSUME TransportInv, NEW p \in Page, Receive(p)
    PROVE  TransportInv'
<1> PICK k : k = pages[p].call
  OBVIOUS
<1> PICK fresh \in BOOLEAN :
        fresh <=> /\ calls[k].phase = "answered" /\ calls[k].reply.snapshot
                  /\ calls[k].reply.revision >= pages[p].seen
  OBVIOUS
<1> DEFINE new == [calls[k] EXCEPT !.phase = "over", !.id = 0, !.reply = EOF]
           page == [open |-> pages[p].open, call |-> NoCall,
                    seen |-> IF fresh THEN calls[k].reply.revision ELSE pages[p].seen,
                    uncertain |-> ~fresh]
<1>1. /\ TransportTyped /\ GateInv /\ PagesInv /\ HistoryInv /\ AnswersMatch
  BY DEF TransportInv
<1>2. /\ pages \in [Page -> PageRecord] /\ pages[p] \in PageRecord
      /\ \A d \in Call : d \in Nat \ {0} /\ calls[d] \in CallRecord
      /\ NoCall \notin Call
  BY <1>1, CallsFacts DEF TransportTyped
<1>3. k \in Call /\ calls[k].page = p /\ k # NoCall /\ pages[p].call = k
      /\ calls[k].phase \in Refused \cup {"answered"}
  BY <1>1 DEF Receive, PagesInv
<1>4. /\ new \in CallRecord /\ new.page = p /\ new.phase = "over"
      /\ new.base = calls[k].base /\ new.method = calls[k].method
      /\ new.lost = calls[k].lost
  <2>1. ASSUME NEW r \in CallRecord
        PROVE  /\ [r EXCEPT !.phase = "over", !.id = 0, !.reply = EOF] \in CallRecord
               /\ [r EXCEPT !.phase = "over", !.id = 0, !.reply = EOF].page = r.page
               /\ [r EXCEPT !.phase = "over", !.id = 0, !.reply = EOF].phase = "over"
               /\ [r EXCEPT !.phase = "over", !.id = 0, !.reply = EOF].base = r.base
               /\ [r EXCEPT !.phase = "over", !.id = 0, !.reply = EOF].method = r.method
               /\ [r EXCEPT !.phase = "over", !.id = 0, !.reply = EOF].lost = r.lost
    BY StopTyped DEF CallRecord, Phases
  <2> QED BY <1>2, <1>3, <2>1
<1>5. calls' = [calls EXCEPT ![k] = new]
  BY DEF Receive
<1>6. page \in PageRecord /\ pages' = [pages EXCEPT ![p] = page]
  <2>1. calls[k].reply \in Reply
    BY <1>2, <1>3 DEF CallRecord
  <2>2. calls[k].reply.revision \in Int /\ calls[k].reply.snapshot \in BOOLEAN
    BY <2>1 DEF Reply
  <2>3. page \in PageRecord
    BY <1>2, <2>2 DEF PageRecord, NoCall
  <2>4. Received(pages[p], calls[k]) = page
    <3>1. NoCall \in Nat /\ (~fresh) \in BOOLEAN
      BY DEF NoCall
    <3>2. CASE fresh
      <4>1. PICK s \in Int : s = calls[k].reply.revision
        BY <2>2
      <4>2. Received(pages[p], calls[k])
              = [pages[p] EXCEPT !.call = NoCall, !.seen = s, !.uncertain = FALSE]
        BY <3>2, <4>1 DEF Received
      <4>3. page = PageOf(pages[p].open, NoCall, s, FALSE)
        BY <3>2, <4>1 DEF PageOf
      <4>4. [pages[p] EXCEPT !.call = NoCall, !.seen = s, !.uncertain = FALSE]
              = PageOf(pages[p].open, NoCall, s, FALSE)
        BY <1>2, <3>1, PageRebuilt
      <4> HIDE DEF page
      <4> QED BY <4>2, <4>3, <4>4
    <3>3. CASE ~fresh
      <4>1. Received(pages[p], calls[k])
              = [pages[p] EXCEPT !.call = NoCall, !.seen = pages[p].seen,
                                 !.uncertain = ~fresh]
        BY <3>3 DEF Received
      <4>2. page = PageOf(pages[p].open, NoCall, pages[p].seen, ~fresh)
        BY <3>3 DEF PageOf
      <4>3. pages[p].seen \in Int
        BY <1>2 DEF PageRecord
      <4> HIDE DEF page
      <4> QED BY ZenonT(30), <1>2, <3>1, <4>1, <4>2, <4>3, PageRebuilt
    <3> QED BY <3>2, <3>3
  <2>5. pages' = [pages EXCEPT ![p] = Received(pages[p], calls[k])]
    BY DEF Receive
  <2> QED BY <2>3, <2>4, <2>5
<1>7. UNCHANGED <<bridge, behind, server>> /\ faults' \in 0 .. MaxFaults
      /\ handled' = handled /\ wire' = wire /\ worker' = worker /\ child' = child
  BY <1>1 DEF Receive, behind, around, TransportTyped
<1>8. /\ page.call = NoCall /\ page.uncertain = ~fresh /\ page.open = pages[p].open
      /\ fresh => page.seen = calls[k].reply.revision
  OBVIOUS
<1> HIDE DEF new, page
<1>9. /\ calls' \in Seq(CallRecord) /\ Call' = Call /\ calls'[k] = new
      /\ \A d \in Call \ {k} : calls'[d] = calls[d]
  BY <1>1, <1>3, <1>4, <1>5, CallChanged
<1>10. /\ pages' \in [Page -> PageRecord] /\ pages'[p] = page
       /\ \A q \in Page \ {p} : pages'[q] = pages[q]
  BY <1>2, <1>6
<1>11. TransportTyped'
  BY <1>1, <1>7, <1>9, <1>10 DEF TransportTyped
<1>12. \A d \in Call : /\ calls'[d].base = calls[d].base
                       /\ calls'[d].method = calls[d].method
                       /\ calls'[d].page = calls[d].page
                       /\ calls'[d].lost = calls[d].lost
                       /\ calls[d].page \in Page
  BY <1>2, <1>3, <1>4, <1>9 DEF CallRecord
<1>13. ASSUME NEW d \in Call, PageWaits(d), calls[d].phase # "answered"
       PROVE  PageWaits(d)'
  <2>1. CASE calls[d].page = p
    <3>1. CASE calls[d].lost
      BY <1>12, <3>1 DEF PageWaits
    <3>2. CASE ~calls[d].lost
      <4>1. calls[k].phase # "answered"
        BY <1>3, <1>13, <2>1, <3>2 DEF PageWaits
      <4>2. page.uncertain
        BY <1>8, <4>1
      <4> QED BY <1>8, <1>10, <1>12, <2>1, <4>2 DEF PageWaits
    <3> QED BY <3>1, <3>2
  <2>2. CASE calls[d].page # p
    <3>1. pages'[calls[d].page] = pages[calls[d].page] /\ calls'[d] = calls[d]
      BY <1>3, <1>9, <1>10, <1>12, <2>2
    <3>2. pages[calls[d].page].call # NoCall =>
             calls'[pages[calls[d].page].call] = calls[pages[calls[d].page].call]
      BY <1>1, <1>3, <1>9, <1>12, <2>2 DEF PagesInv
    <3> QED BY <1>13, <3>1, <3>2 DEF PageWaits
  <2> QED BY <2>1, <2>2
<1>14. PagesInv'
  <2>1. ASSUME NEW q \in Page, pages'[q].call # NoCall
        PROVE  /\ q # p /\ pages'[q] = pages[q]
               /\ pages'[q].call \in Call \ {k} /\ calls'[pages'[q].call].page = q
               /\ calls'[pages'[q].call] = calls[pages'[q].call]
    BY <1>1, <1>3, <1>8, <1>9, <1>10, <2>1 DEF PagesInv
  <2>2. ASSUME NEW d \in Call
        PROVE  /\ calls'[d].phase = "sent" =>
                     calls'[d].lost \/ pages'[calls'[d].page].call = d
               /\ pages'[calls'[d].page].open
    <3>1. pages'[calls[d].page].open
      BY <1>1, <1>8, <1>10, <1>12 DEF PagesInv
    <3>2. CASE d = k
      BY <1>4, <1>9, <1>12, <3>1, <3>2
    <3>3. CASE d # k
      <4>1. CASE calls[d].page = p
        BY <1>1, <1>3, <1>9, <1>12, <3>1, <3>3, <4>1 DEF PagesInv
      <4>2. CASE calls[d].page # p
        BY <1>1, <1>9, <1>10, <1>12, <3>1, <3>3, <4>2 DEF PagesInv
      <4> QED BY <4>1, <4>2
    <3> QED BY <3>2, <3>3
  <2>3. ASSUME NEW d \in Call, calls'[d].phase \in {"entered", "checked"}
        PROVE  PageWaits(d)'
    <3>1. calls[d].phase \in {"entered", "checked"}
      BY <1>4, <1>9, <2>3
    <3> QED BY <1>1, <1>13, <3>1 DEF PagesInv
  <2>4. \A h \in handled, q \in Page : Ours(h, q)' <=> Ours(h, q)
    BY <1>1, <1>12 DEF HistoryInv, Ours
  <2>5. ASSUME NEW q \in Page, pages'[q].seen # Unseen, ~pages'[q].uncertain,
               NEW h \in handled, Ours(h, q), h.call # pages'[q].call
        PROVE  h.revision < pages'[q].seen
    <3>1. CASE q = p
      <4>1. fresh
        BY <1>8, <1>10, <2>5, <3>1
      <4> QED BY <1>1, <1>3, <1>8, <1>10, <2>5, <3>1, <4>1 DEF PagesInv
    <3>2. CASE q # p
      BY <1>1, <1>10, <2>5, <3>2 DEF PagesInv
    <3> QED BY <3>1, <3>2
  <2>6. ASSUME NEW q \in Page, pages'[q].call # NoCall,
               calls'[pages'[q].call].phase = "answered",
               calls'[pages'[q].call].reply.snapshot,
               NEW h \in handled, Ours(h, q)
        PROVE  h.revision < calls'[pages'[q].call].reply.revision
    BY <1>1, <2>1, <2>6 DEF PagesInv
  <2> QED BY <1>7, <1>9, <2>1, <2>2, <2>3, <2>4, <2>5, <2>6 DEF PagesInv
<1>15. AnswersMatch'
  BY <1>1, <1>4, <1>9 DEF AnswersMatch
<1>16. \A d \in Call :
          /\ \/ calls'[d].phase = calls[d].phase
             \/ /\ calls[d].phase \in Refused \cup {"answered"}
                /\ calls'[d].phase = "over"
          /\ calls[d].phase \in Sending => calls'[d].id = calls[d].id
  BY <1>3, <1>4, <1>9 DEF Sending, Refused
<1> QED
  BY <1>7, <1>9, <1>11, <1>12, <1>13, <1>14, <1>15, <1>16, RendererMoves

(* Every step of a page keeps the invariant. *)
LEMMA RendererKeeps ==
    ASSUME TransportInv, NEW p \in Page, Renderer(p)
    PROVE  TransportInv'
BY RequestsKeep, ConnectionLostKeeps, ReceiveKeeps DEF Renderer

-----------------------------------------------------------------------------
(* The steps of the worker, of the end of the child and of close(): lines   *)
(* move on or are lost, and the session handles nothing.                    *)
LEMMA LinesMove ==
    ASSUME TransportInv, UNCHANGED <<pages, calls, handled>>,
           TransportTyped', PipelineInv', EndInv',
           /\ bridge'.counter = bridge.counter /\ bridge'.started = bridge.started
           /\ bridge'.failed = bridge.failed /\ bridge'.timedOut = bridge.timedOut
           /\ bridge.closed => bridge'.closed,
           \/ bridge'.gate = bridge.gate
           \/ bridge.gate \in {Free, Main} /\ bridge'.gate \in {Free, Main},
           /\ child'.hello = child.hello /\ child'.revision = child.revision
           /\ child'.last = child.last /\ child'.requests = child.requests
           /\ child'.alive => child.alive,
           \A m \in Line : Unhandled(m)' => Unhandled(m),
           \A r \in Reply : Untaken(r)' => Untaken(r),
           ~bridge.failed /\ (Working' \/ ~NoRequest' \/ wire'.replies # <<>>)
               => Working \/ ~NoRequest \/ wire.replies # <<>>
    PROVE  TransportInv'
<1>1. /\ TransportTyped /\ GateInv /\ UseInv /\ FailsForCause /\ PipelineInv
      /\ PagesInv /\ EndInv /\ LinesInv /\ HistoryInv /\ AnswersMatch
      /\ Free \notin Call /\ Main \notin Call /\ Call' = Call
  BY CallsFacts DEF TransportInv, Call
<1>2. bridge'.gate \in Call \/ bridge.gate \in Call => bridge'.gate = bridge.gate
  BY <1>1
<1>3. GateInv'
  BY <1>1, <1>2 DEF GateInv
<1>4. LinesInv'
  <2>1. \A d : PageWaits(d)' <=> PageWaits(d)
    BY DEF PageWaits
  <2>2. \A m : LineSound(m)' <=> LineSound(m)
    BY <1>1, <2>1 DEF LineSound
  <2>3. \A r : ReplySound(r)' <=> ReplySound(r)
    BY <1>1 DEF ReplySound
  <2> QED BY <1>1, <2>2, <2>3 DEF LinesInv
<1>5. UseInv'
  <2>1. SUFFICES ASSUME ~bridge.failed PROVE UseInv'
    BY DEF UseInv
  <2>2. \A m \in Line : Unhandled(m)' => m.call = bridge.gate /\ bridge.gate \in Call
    BY <1>1, <2>1 DEF UseInv, LinesInv, LineSound
  <2>3. \A r \in Reply : Untaken(r)' => r.call = bridge.gate /\ bridge.gate \in Call
    BY <1>1, <2>1 DEF UseInv, LinesInv, ReplySound
  <2>4. CASE bridge.gate \in Call
    BY <1>1, <1>2, <2>1, <2>4 DEF UseInv, InStep, Agrees
  <2>5. CASE bridge.gate \notin Call
    <3>1. bridge'.gate \notin Call /\ ~Working' /\ NoRequest' /\ wire'.replies = <<>>
      BY <1>1, <1>2, <2>1, <2>5 DEF UseInv
    <3>2. child.last = bridge.counter /\ child.requests = bridge.counter
          /\ child.hello = bridge.started
      BY <1>1, <2>1, <2>5 DEF UseInv, InStep, Agrees
    <3> QED BY <1>1, <2>2, <2>3, <2>5, <3>1, <3>2 DEF UseInv, InStep, Agrees
  <2> QED BY <2>4, <2>5
<1>6. HistoryInv'
  BY <1>1 DEF HistoryInv
<1>7. PagesInv'
  <2>1. \A d : PageWaits(d)' <=> PageWaits(d)
    BY DEF PageWaits
  <2>2. \A h, p : Ours(h, p)' <=> Ours(h, p)
    BY DEF Ours
  <2> QED BY <1>1, <2>1, <2>2 DEF PagesInv
<1>8. FailsForCause' /\ AnswersMatch'
  BY <1>1 DEF FailsForCause, AnswersMatch
<1> QED
  BY <1>3, <1>4, <1>5, <1>6, <1>7, <1>8 DEF TransportInv

(* Queues of one are equal when what they hold is. *)
LEMMA SameBrackets == \A x, y : <<x>> = <<y>> => x = y
OBVIOUS

(* A queue of one is not empty. *)
LEMMA NotEmpty == \A x : <<x>> # <<>>
OBVIOUS

(* The worker puts a reply, or the end, into the empty reply queue. *)
LEMMA PutReplyKeeps ==
    ASSUME TransportInv, NEW reply \in Reply, NEW stdout \in OneOf(Reply),
           Working, wire.stdin = <<>>,
           stdout = <<>>,
           reply # EOF => wire.stdout = <<reply>>,
           reply = EOF => ~child.alive,
           PutReply(reply, stdout)
    PROVE  TransportInv'
<1>1. /\ TransportTyped /\ PipelineInv /\ EndInv
      /\ wire.replies = <<>> /\ NoRequest
  BY DEF TransportInv, PipelineInv
<1>2. wire' = [requests |-> wire.requests, replies |-> <<reply>>,
               stdin |-> <<>>, stdout |-> <<>>]
  BY <1>1 DEF PutReply, TransportTyped
<1>3. worker' = [at |-> IF reply = EOF THEN "dead" ELSE "check", line |-> Stop]
  BY <1>1 DEF PutReply, At
<1>4. /\ pages' = pages /\ calls' = calls /\ bridge' = bridge /\ child' = child
      /\ handled' = handled /\ server' = server /\ faults' = faults
  BY DEF PutReply, around
<1>5. TransportTyped'
  <2>1. <<reply>> \in OneOf(Reply) /\ <<>> \in OneOf(Line) /\ <<>> \in OneOf(Reply)
    BY DEF OneOf
  <2> QED BY <1>1, <1>2, <1>3, <1>4, <2>1, StopTyped DEF TransportTyped, Call
<1>6. worker'.at \in {"dead", "check"} /\ ~Working' /\ NoRequest'
  BY <1>1, <1>2, <1>3 DEF Working, NoRequest
<1>7. PipelineInv'
  BY <1>1, <1>2, <1>4, <1>6, SameBrackets, NotEmpty DEF PipelineInv, NoRequest
<1>8. EndInv'
  BY <1>1, <1>4, <1>6 DEF EndInv, Call
<1>9. \A m \in Line : ~Unhandled(m)'
  BY <1>1, <1>2, <1>6, SameBrackets, NotEmpty DEF Unhandled, NoRequest, Working
<1>10. \A r \in Reply : Untaken(r)' => Untaken(r)
  BY <1>2, SameBrackets, NotEmpty DEF Untaken
<1> QED
  BY <1>4, <1>5, <1>7, <1>8, <1>9, <1>10, LinesMove

(* The worker reads a reply, or finds the pipe broken. *)
LEMMA WorkerReadsKeeps ==
    ASSUME TransportInv, WorkerReads \/ WorkerBreaks
    PROVE  TransportInv'
<1>1. TransportTyped /\ PipelineInv /\ LinesInv /\ Working
  BY DEF TransportInv, WorkerReads, WorkerBreaks, Working
<1>2. CASE WorkerReads
  <2>1. PICK r \in Reply : wire.stdout = <<r>> /\ r = Head(wire.stdout)
                           /\ Tail(wire.stdout) = <<>>
    BY <1>1, <1>2, BridgeFacts, OneOfFacts DEF WorkerReads
  <2>2. r # EOF
    <3>1. ReplySound(r)
      BY <1>1, <2>1 DEF LinesInv, Untaken
    <3> QED BY <3>1 DEF ReplySound, EOF
  <2>3. wire.stdin = <<>>
    BY <1>1, <2>1, NotEmpty DEF PipelineInv
  <2>4. PutReply(r, <<>>) /\ <<>> \in OneOf(Reply)
    BY <1>2, <2>1 DEF WorkerReads, OneOf
  <2> QED BY <1>1, <2>1, <2>2, <2>3, <2>4, PutReplyKeeps
<1>3. CASE WorkerBreaks
  <2>1. ~child.alive /\ wire.stdin = <<>> /\ wire.stdout = <<>>
    BY <1>1, <1>3 DEF WorkerBreaks, PipelineInv
  <2>2. PutReply(EOF, <<>>) /\ <<>> \in OneOf(Reply) /\ EOF \in Reply
    BY <1>3, <2>1, StopTyped DEF WorkerBreaks, OneOf
  <2> QED BY <1>1, <2>1, <2>2, PutReplyKeeps
<1> QED
  BY <1>2, <1>3

(* Every step of the worker keeps the invariant. *)
LEMMA WorkerKeeps ==
    ASSUME TransportInv, Worker
    PROVE  TransportInv'
<1>1. TransportTyped /\ PipelineInv /\ EndInv /\ Stop \in Line
  BY StopTyped DEF TransportInv
<1>2. CASE WorkerLoops
  <2>1. PICK at \in {"dead", "get"} : worker' = [at |-> at, line |-> Stop]
    BY <1>2 DEF WorkerLoops, At
  <2>2. /\ pages' = pages /\ calls' = calls /\ bridge' = bridge /\ child' = child
        /\ handled' = handled /\ server' = server /\ faults' = faults /\ wire' = wire
        /\ worker.at = "check"
    BY <1>2 DEF WorkerLoops, around
  <2>3. TransportTyped'
    BY <1>1, <2>1, <2>2 DEF TransportTyped
  <2>4. worker'.at \notin {"write", "read"} /\ ~Working'
    BY <2>1 DEF Working
  <2>5. PipelineInv'
    BY <1>1, <2>2, <2>4 DEF PipelineInv, NoRequest
  <2>6. EndInv'
    BY <1>1, <2>2, <2>4 DEF EndInv, NoRequest, Call
  <2>7. /\ \A m \in Line : Unhandled(m)' => Unhandled(m)
        /\ \A r \in Reply : Untaken(r)' => Untaken(r)
        /\ NoRequest' <=> NoRequest
    BY <2>2, <2>4 DEF Unhandled, Untaken, NoRequest
  <2> QED
    BY <2>2, <2>3, <2>4, <2>5, <2>6, <2>7, LinesMove
<1>3. CASE WorkerTakes
  <2>1. PICK line \in Line : wire.requests = <<line>> /\ line = Head(wire.requests)
    BY <1>1, <1>3, BridgeFacts, OneOfFacts DEF WorkerTakes
  <2>2. /\ worker.at = "get" /\ wire.stdin = <<>> /\ wire.stdout = <<>>
        /\ wire' = [requests |-> <<>>, replies |-> wire.replies,
                    stdin |-> <<>>, stdout |-> <<>>]
    BY <1>1, <1>3 DEF WorkerTakes, PipelineInv, TransportTyped
  <2>3. /\ pages' = pages /\ calls' = calls /\ bridge' = bridge /\ child' = child
        /\ handled' = handled /\ server' = server /\ faults' = faults
    BY <1>3 DEF WorkerTakes, around
  <2>4. \/ worker' = [at |-> "dead", line |-> Stop]
        \/ /\ worker' = [at |-> "write", line |-> line]
           /\ line # Stop /\ ~bridge.closed
    BY <1>3, <2>1 DEF WorkerTakes, At
  <2>5. TransportTyped'
    <3>1. <<>> \in OneOf(Line) /\ <<>> \in OneOf(Reply)
      BY DEF OneOf
    <3> QED BY <1>1, <2>2, <2>3, <2>4, <3>1 DEF TransportTyped
  <2>6. worker'.at = "write" => wire.replies = <<>> /\ ~NoRequest
    <3>1. line # Stop => ~NoRequest
      BY <2>1, SameBrackets, NotEmpty DEF NoRequest
    <3> QED BY <1>1, <2>4, <3>1 DEF PipelineInv
  <2>7. PipelineInv' /\ NoRequest'
    BY <1>1, <2>2, <2>3, <2>4, <2>6, NotEmpty DEF PipelineInv, NoRequest, Working
  <2>8. EndInv'
    <3>1. bridge.closed => ~Working'
      BY <2>4 DEF Working
    <3> QED BY <1>1, <2>3, <2>7, <3>1 DEF EndInv, Call
  <2>9. /\ \A m \in Line : Unhandled(m)' => Unhandled(m)
        /\ \A r \in Reply : Untaken(r)' => Untaken(r)
    BY <2>1, <2>2, <2>4, NotEmpty DEF Unhandled, Untaken
  <2>10. Working' => ~NoRequest
    BY <2>4, <2>6 DEF Working
  <2> QED
    BY <2>2, <2>3, <2>5, <2>7, <2>8, <2>9, <2>10, LinesMove
<1>4. CASE WorkerWrites
  <2>1. /\ worker.at = "write" /\ child.alive /\ worker.line # Stop
        /\ Working /\ NoRequest /\ wire.replies = <<>>
        /\ wire.stdin = <<>> /\ wire.stdout = <<>>
    BY <1>1, <1>4 DEF WorkerWrites, PipelineInv, Working
  <2> PICK line : line = worker.line
    OBVIOUS
  <2>2. line \in Line /\ <<line>> \in OneOf(Line) /\ <<>> \in OneOf(Reply)
    BY <1>1, BridgeFacts DEF OneOf
  <2>3. wire' = [requests |-> wire.requests, replies |-> <<>>,
                 stdin |-> <<line>>, stdout |-> <<>>]
    BY <1>1, <1>4, <2>1, AppendToEmpty DEF WorkerWrites, TransportTyped
  <2>4. /\ pages' = pages /\ calls' = calls /\ bridge' = bridge /\ child' = child
        /\ handled' = handled /\ server' = server /\ faults' = faults
        /\ worker' = [at |-> "read", line |-> Stop]
    BY <1>4 DEF WorkerWrites, At, around
  <2>5. TransportTyped'
    BY <1>1, <2>2, <2>3, <2>4 DEF TransportTyped
  <2>6. PipelineInv' /\ NoRequest'
    BY <1>1, <2>1, <2>3, <2>4, NotEmpty DEF PipelineInv, NoRequest, Working
  <2>7. EndInv'
    BY <1>1, <2>1, <2>4, <2>6 DEF EndInv, Call
  <2>8. /\ \A m \in Line : Unhandled(m)' => Unhandled(m)
        /\ \A r \in Reply : Untaken(r)' => Untaken(r)
    BY <2>1, <2>3, <2>4, SameBrackets, NotEmpty DEF Unhandled, Untaken, NoRequest
  <2> QED
    BY <2>1, <2>4, <2>5, <2>6, <2>7, <2>8, LinesMove
<1> QED
  BY <1>2, <1>3, <1>4, WorkerReadsKeeps DEF Worker

(* The child process exits; an answer not yet written may be lost. *)
LEMMA ChildExitsKeeps ==
    ASSUME TransportInv, ChildExits
    PROVE  TransportInv'
<1>1. TransportTyped /\ PipelineInv /\ EndInv
  BY DEF TransportInv
<1>2. PICK stdout \in {wire.stdout, <<>>} :
          wire' = [wire EXCEPT !.stdin = <<>>, !.stdout = stdout]
  BY DEF ChildExits
<1>3. wire' = [requests |-> wire.requests, replies |-> wire.replies,
               stdin |-> <<>>, stdout |-> stdout]
  BY <1>1, <1>2 DEF TransportTyped
<1>4. child' = [alive |-> FALSE, hello |-> child.hello, revision |-> child.revision,
                last |-> child.last, requests |-> child.requests,
                closed |-> child.closed]
  BY <1>1 DEF ChildExits, TransportTyped
<1>5. /\ pages' = pages /\ calls' = calls /\ bridge' = bridge /\ worker' = worker
      /\ handled' = handled /\ server' = server
  BY DEF ChildExits
<1>6. TransportTyped'
  <2>1. <<>> \in OneOf(Line) /\ stdout \in OneOf(Reply)
    BY <1>1, BridgeFacts DEF OneOf
  <2>2. wire' \in [requests : OneOf(Line), replies : OneOf(Reply),
                   stdin : OneOf(Line), stdout : OneOf(Reply)]
    BY <1>1, <1>3, <2>1, BridgeFacts
  <2>3. child' \in [alive : BOOLEAN, hello : BOOLEAN, revision : Nat, last : Nat,
                    requests : 0 .. Limit, closed : BOOLEAN]
    BY <1>1, <1>4, BridgeFacts
  <2>4. faults' \in 0 .. MaxFaults
    BY <1>1 DEF ChildExits, Fault, TransportTyped
  <2> QED BY <1>1, <1>5, <2>2, <2>3, <2>4 DEF TransportTyped
<1>7. PipelineInv'
  BY <1>1, <1>3, <1>4, <1>5 DEF PipelineInv, NoRequest, Working
<1>8. EndInv'
  BY <1>1, <1>3, <1>5 DEF EndInv, NoRequest, Working, Call
<1>9. /\ \A m \in Line : Unhandled(m)' => Unhandled(m)
      /\ \A r \in Reply : Untaken(r)' => Untaken(r)
      /\ (NoRequest' <=> NoRequest) /\ (Working' <=> Working)
      /\ wire'.replies = wire.replies
  BY <1>3, <1>5, NotEmpty DEF Unhandled, Untaken, NoRequest, Working
<1>10. /\ child'.hello = child.hello /\ child'.revision = child.revision
       /\ child'.last = child.last /\ child'.requests = child.requests
       /\ ~child'.alive
  BY <1>4
<1> QED
  BY <1>5, <1>6, <1>7, <1>8, <1>9, <1>10, LinesMove

(* close(): its steps give and take the gate, tell the worker and end the   *)
(* child.                                                                   *)
LEMMA CloseBegins ==
    ASSUME TransportInv, ServerEnds \/ Interrupted \/ CloseGates
    PROVE  TransportInv'
<1>1. TransportTyped /\ PipelineInv /\ EndInv
  BY DEF TransportInv
<1>2. /\ pages' = pages /\ calls' = calls /\ wire' = wire /\ worker' = worker
      /\ child' = child /\ handled' = handled /\ faults' \in 0 .. MaxFaults
  BY <1>1 DEF ServerEnds, Interrupted, CloseGates, CloseStarts, Fault, behind,
              TransportTyped
<1>3. PICK at \in {"flagged", "gated"} :
          server' = [at |-> at, stdinClosed |-> server.stdinClosed]
  BY <1>1 DEF ServerEnds, Interrupted, CloseGates, ServerAt, TransportTyped
<1>4. PICK gate \in {bridge.gate, Main} :
          /\ bridge' = [gate |-> gate, counter |-> bridge.counter,
                        started |-> bridge.started, failed |-> bridge.failed,
                        closed |-> TRUE, timedOut |-> bridge.timedOut]
          /\ gate = bridge.gate \/ bridge.gate = Free
  <2>1. CASE ServerEnds \/ Interrupted
    <3>1. bridge' = [gate |-> bridge.gate, counter |-> bridge.counter,
                     started |-> bridge.started, failed |-> bridge.failed,
                     closed |-> TRUE, timedOut |-> bridge.timedOut]
      BY <1>1, <2>1 DEF ServerEnds, Interrupted, CloseStarts, TransportTyped
    <3> QED BY <3>1
  <2>2. CASE CloseGates
    <3>1. bridge.closed
      BY <1>1, <2>2 DEF EndInv, CloseGates, ServerAt
    <3>2. bridge' = [gate |-> IF bridge.gate = Free THEN Main ELSE bridge.gate,
                     counter |-> bridge.counter,
                     started |-> bridge.started, failed |-> bridge.failed,
                     closed |-> bridge.closed, timedOut |-> bridge.timedOut]
      BY <1>1, <2>2 DEF CloseGates, TransportTyped
    <3>3. bridge.closed = TRUE
      BY <1>1, <3>1, BridgeFacts
    <3> QED BY <3>2, <3>3
  <2> QED BY <2>1, <2>2
<1>5. TransportTyped'
  <2>1. bridge' \in [gate : Nat \cup {Main}, counter : 0 .. Limit, started : BOOLEAN,
                     failed : BOOLEAN, closed : BOOLEAN, timedOut : BOOLEAN]
    BY <1>1, <1>4, BridgeFacts
  <2>2. server' \in [at : {"serving", "asked", "flagged", "gated", "stopping", "done"},
                     stdinClosed : BOOLEAN]
    BY <1>1, <1>3 DEF TransportTyped
  <2> QED BY <1>1, <1>2, <2>1, <2>2 DEF TransportTyped
<1>6. PipelineInv'
  BY <1>1, <1>2, <1>4 DEF PipelineInv, NoRequest, Working
<1>7. EndInv'
  BY <1>1, <1>2, <1>3, <1>4 DEF EndInv, NoRequest, Working, Call
<1>8. /\ \A m \in Line : Unhandled(m)' => Unhandled(m)
      /\ \A r \in Reply : Untaken(r)' => Untaken(r)
      /\ (NoRequest' <=> NoRequest) /\ (Working' <=> Working)
  BY <1>2 DEF Unhandled, Untaken, NoRequest, Working
<1>9. /\ bridge'.counter = bridge.counter /\ bridge'.started = bridge.started
      /\ bridge'.failed = bridge.failed /\ bridge'.timedOut = bridge.timedOut
      /\ bridge'.closed
      /\ \/ bridge'.gate = bridge.gate
         \/ bridge.gate \in {Free, Main} /\ bridge'.gate \in {Free, Main}
  BY <1>4
<1> QED
  BY <1>2, <1>5, <1>6, <1>7, <1>8, <1>9, LinesMove

(* stdin is closed only while close() holds the gate of a bridge that has   *)
(* not failed: then no line is anywhere.                                    *)
LEMMA CloseStopsKeeps ==
    ASSUME TransportInv, CloseStops
    PROVE  TransportInv'
<1>1. TransportTyped /\ PipelineInv /\ EndInv /\ GateInv /\ UseInv /\ Main \notin Call
  BY CallsFacts DEF TransportInv
<1>2. UNCHANGED <<pages, calls, bridge, wire, worker, child, handled, faults>>
      /\ server.at = "gated"
      /\ server' = [at |-> "stopping",
                    stdinClosed |-> child.alive /\ bridge.gate = Main /\ ~bridge.failed]
  BY DEF CloseStops, behind
<1>3. TransportTyped'
  <2>1. server' \in [at : {"serving", "asked", "flagged", "gated", "stopping", "done"},
                     stdinClosed : BOOLEAN]
    BY <1>2
  <2> QED BY <1>1, <1>2, <2>1 DEF TransportTyped
<1>4. PipelineInv'
  BY <1>1, <1>2 DEF PipelineInv, NoRequest, Working
<1>5. EndInv'
  <2>1. bridge.closed
    BY <1>1, <1>2 DEF EndInv
  <2>2. server'.stdinClosed =>
            NoRequest /\ ~Working /\ \A d \in Call : calls[d].phase \notin Sending
    <3>1. SUFFICES ASSUME bridge.gate = Main, ~bridge.failed
                   PROVE  NoRequest /\ ~Working
                          /\ \A d \in Call : calls[d].phase \notin Sending
      BY <1>2
    <3> QED BY <1>1, <3>1 DEF UseInv, GateInv, Sending, Inside
  <2> QED BY <1>2, <2>1, <2>2 DEF EndInv, NoRequest, Working, Call
<1>6. /\ \A m \in Line : Unhandled(m)' => Unhandled(m)
      /\ \A r \in Reply : Untaken(r)' => Untaken(r)
      /\ (NoRequest' <=> NoRequest) /\ (Working' <=> Working)
  BY <1>2 DEF Unhandled, Untaken, NoRequest, Working
<1> QED
  BY <1>2, <1>3, <1>4, <1>5, <1>6, LinesMove

(* Closing the bridge waits for the child, or kills it. *)
LEMMA CloseReapsKeeps ==
    ASSUME TransportInv, CloseReaps
    PROVE  TransportInv'
<1>1. TransportTyped /\ PipelineInv /\ EndInv /\ UseInv
  BY DEF TransportInv
<1>2. PICK stdout \in {wire.stdout, <<>>} :
          wire' = [wire EXCEPT !.stdin = <<>>, !.stdout = stdout,
                               !.requests = IF @ = <<>> THEN <<Stop>> ELSE @]
  BY DEF CloseReaps
<1>3. wire' = [requests |-> IF wire.requests = <<>> THEN <<Stop>> ELSE wire.requests,
               replies |-> wire.replies, stdin |-> <<>>, stdout |-> stdout]
  BY <1>1, <1>2 DEF TransportTyped
<1>4. child' = [alive |-> FALSE, hello |-> child.hello, revision |-> child.revision,
                last |-> child.last, requests |-> child.requests,
                closed |-> child.closed]
  BY <1>1 DEF CloseReaps, TransportTyped
<1>5. /\ pages' = pages /\ calls' = calls /\ worker' = worker
      /\ handled' = handled /\ faults' = faults
      /\ server' = [at |-> "done", stdinClosed |-> server.stdinClosed]
      /\ bridge.closed
  BY <1>1 DEF CloseReaps, ServerAt, EndInv, TransportTyped
<1>6. bridge' = [gate |-> IF bridge.gate = Main THEN Free ELSE bridge.gate,
                 counter |-> bridge.counter,
                 started |-> bridge.started, failed |-> bridge.failed,
                 closed |-> bridge.closed, timedOut |-> bridge.timedOut]
  BY <1>1 DEF CloseReaps, TransportTyped
<1>7. TransportTyped'
  <2>1. <<>> \in OneOf(Line) /\ <<Stop>> \in OneOf(Line) /\ stdout \in OneOf(Reply)
    BY <1>1, BridgeFacts, StopTyped DEF OneOf
  <2>2. wire' \in [requests : OneOf(Line), replies : OneOf(Reply),
                   stdin : OneOf(Line), stdout : OneOf(Reply)]
    BY <1>1, <1>3, <2>1, BridgeFacts
  <2>3. child' \in [alive : BOOLEAN, hello : BOOLEAN, revision : Nat, last : Nat,
                    requests : 0 .. Limit, closed : BOOLEAN]
    BY <1>1, <1>4, BridgeFacts
  <2>4. bridge' \in [gate : Nat \cup {Main}, counter : 0 .. Limit, started : BOOLEAN,
                     failed : BOOLEAN, closed : BOOLEAN, timedOut : BOOLEAN]
    BY <1>1, <1>6, BridgeFacts DEF Free
  <2>5. server' \in [at : {"serving", "asked", "flagged", "gated", "stopping", "done"},
                     stdinClosed : BOOLEAN]
    BY <1>1, <1>5 DEF TransportTyped
  <2> QED BY <1>1, <1>5, <2>2, <2>3, <2>4, <2>5 DEF TransportTyped
<1>8. (NoRequest' <=> NoRequest) /\ (Working' <=> Working)
  BY <1>3, <1>5 DEF NoRequest, Working
<1>9. PipelineInv'
  BY <1>1, <1>3, <1>4, <1>5, <1>6, <1>8 DEF PipelineInv, Working
<1>10. EndInv'
  BY <1>1, <1>5, <1>6, <1>8 DEF EndInv, Call
<1>11. /\ \A m \in Line : Unhandled(m)' => Unhandled(m)
       /\ \A r \in Reply : Untaken(r)' => Untaken(r)
       /\ wire'.replies = wire.replies
  BY <1>3, <1>5, NotEmpty, SameBrackets DEF Unhandled, Untaken
<1>12. /\ child'.hello = child.hello /\ child'.revision = child.revision
       /\ child'.last = child.last /\ child'.requests = child.requests
       /\ ~child'.alive
  BY <1>4
<1>13. /\ bridge'.counter = bridge.counter /\ bridge'.started = bridge.started
       /\ bridge'.failed = bridge.failed /\ bridge'.timedOut = bridge.timedOut
       /\ bridge'.closed = bridge.closed
       /\ \/ bridge'.gate = bridge.gate
          \/ bridge.gate \in {Free, Main} /\ bridge'.gate \in {Free, Main}
  BY <1>6
<1> QED
  BY <1>5, <1>7, <1>8, <1>9, <1>10, <1>11, <1>12, <1>13, LinesMove

-----------------------------------------------------------------------------
(* The session answers the one line of its stdin. *)

(* What a request does to the session. *)
LEMMA SessionFacts ==
    ASSUME TransportTyped, NEW m \in Line, NEW outcome, NEW closes \in BOOLEAN,
           NEW session, session = Session(m, outcome, closes)
    PROVE  /\ session \in [alive : BOOLEAN, hello : BOOLEAN, revision : Nat, last : Nat,
                           requests : 0 .. Limit, closed : BOOLEAN]
           /\ session.alive = child.alive
           /\ session.revision = IF Admits(m) THEN child.revision + 1 ELSE child.revision
           /\ session.hello = (child.hello \/ (m.method = "hello" /\ Succeeds(m, outcome)))
           /\ ~Uncounted(m) => session.last = m.id
                               /\ session.requests = child.requests + 1
<1> DEFINE last == IF Uncounted(m) THEN child.last ELSE m.id
           requests == IF Uncounted(m) THEN child.requests ELSE child.requests + 1
           hello == child.hello \/ (m.method = "hello" /\ Succeeds(m, outcome))
           revision == IF Admits(m) THEN child.revision + 1 ELSE child.revision
           closed == child.closed \/ (Dispatches(m) /\ closes)
<1>1. /\ child \in [alive : BOOLEAN, hello : BOOLEAN, revision : Nat, last : Nat,
                    requests : 0 .. Limit, closed : BOOLEAN]
      /\ m.id \in Nat
  BY DEF TransportTyped, Line
<1>2. ~Uncounted(m) => child.requests + 1 \in 0 .. Limit
  BY <1>1 DEF Uncounted
<1>3. last \in Nat /\ requests \in 0 .. Limit /\ revision \in Nat
      /\ hello \in BOOLEAN /\ closed \in BOOLEAN
  BY <1>1, <1>2
<1>4. session = [child EXCEPT !.last = last, !.requests = requests, !.hello = hello,
                              !.revision = revision, !.closed = closed]
  <2>1. CASE Uncounted(m)
    BY <1>1, <2>1 DEF Session
  <2>2. CASE ~Uncounted(m)
    BY <1>1, <2>2 DEF Session
  <2> QED BY <2>1, <2>2
<1> HIDE DEF last, requests, hello, revision, closed
<1>5. /\ session \in [alive : BOOLEAN, hello : BOOLEAN, revision : Nat, last : Nat,
                      requests : 0 .. Limit, closed : BOOLEAN]
      /\ session.alive = child.alive /\ session.revision = revision
      /\ session.hello = hello /\ session.last = last /\ session.requests = requests
  BY <1>1, <1>3, <1>4
<1> QED
  BY <1>5 DEF last, requests, hello, revision

(* The child handles a request and writes its answer. *)
LEMMA ChildHandlesKeeps ==
    ASSUME TransportInv, NEW outcome \in Outcomes, NEW closes \in BOOLEAN,
           ChildHandles(outcome, closes)
    PROVE  TransportInv'
<1>1. /\ TransportTyped /\ GateInv /\ UseInv /\ FailsForCause /\ PipelineInv
      /\ PagesInv /\ EndInv /\ LinesInv /\ HistoryInv /\ AnswersMatch
  BY DEF TransportInv
<1>2. PICK m \in Line : wire.stdin = <<m>> /\ m = Head(wire.stdin)
                        /\ Tail(wire.stdin) = <<>>
  BY <1>1, BridgeFacts, OneOfFacts DEF ChildHandles
<1>session. PICK session : session = Session(m, outcome, closes)
  OBVIOUS
<1>reply. PICK reply : reply = ReplyTo(m, outcome, session)
  OBVIOUS
<1> USE <1>session, <1>reply
<1> PICK h : h = [call |-> m.call, revision |-> child.revision,
                  dispatched |-> Dispatches(m), late |-> bridge.failed]
  OBVIOUS
<1>3. /\ child.alive /\ child' = session /\ handled' = handled \cup {h}
      /\ pages' = pages /\ calls' = calls /\ bridge' = bridge /\ worker' = worker
      /\ server' = server /\ faults' = faults /\ Call' = Call
  BY <1>2 DEF ChildHandles, around, Call
<1>4. /\ worker.at = "read" /\ Working /\ NoRequest /\ wire.replies = <<>>
      /\ wire.stdout = <<>>
  BY <1>1, <1>2, NotEmpty DEF PipelineInv, Working
<1>5. wire' = [requests |-> wire.requests, replies |-> <<>>, stdin |-> <<>>,
               stdout |-> <<reply>>]
  <2>1. wire' = [wire EXCEPT !.stdin = <<>>, !.stdout = Append(<<>>, reply)]
    BY <1>2, <1>3, <1>4 DEF ChildHandles
  <2> QED BY <1>1, <1>4, <2>1, AppendToEmpty DEF TransportTyped
<1>6. /\ child' \in [alive : BOOLEAN, hello : BOOLEAN, revision : Nat, last : Nat,
                     requests : 0 .. Limit, closed : BOOLEAN]
      /\ child'.alive = child.alive
      /\ child'.revision = IF Admits(m) THEN child.revision + 1 ELSE child.revision
      /\ child'.hello = (child.hello \/ (m.method = "hello" /\ Succeeds(m, outcome)))
      /\ ~Uncounted(m) => child'.last = m.id /\ child'.requests = child.requests + 1
      /\ child.revision \in Nat
  <2>1. /\ session \in [alive : BOOLEAN, hello : BOOLEAN, revision : Nat, last : Nat,
                         requests : 0 .. Limit, closed : BOOLEAN]
        /\ session.alive = child.alive
        /\ session.revision = IF Admits(m) THEN child.revision + 1 ELSE child.revision
        /\ session.hello = (child.hello \/ (m.method = "hello" /\ Succeeds(m, outcome)))
        /\ ~Uncounted(m) => session.last = m.id
                            /\ session.requests = child.requests + 1
    BY <1>1, SessionFacts
  <2>2. child.revision \in Nat
    BY <1>1, BridgeFacts
  <2> HIDE <1>session
  <2> QED BY <1>3, <2>1, <2>2
<1>7. Unhandled(m) /\ LineSound(m)
  BY <1>1, <1>2 DEF Unhandled, LinesInv
<1>8. m.call \in Call /\ m.call \in Nat \ {0} /\ m.call # NoCall
  BY <1>1, <1>7, CallsFacts DEF LineSound
<1>9. /\ reply \in Reply /\ reply.call = m.call /\ reply.id = m.id
      /\ reply.revision = child'.revision
      /\ reply.kind = "result" <=> Succeeds(m, outcome)
  <2>1. session.revision \in Int /\ session.closed \in BOOLEAN
    BY <1>3, <1>6
  <2>2. m.id \in Nat
    BY DEF Line
  <2>3. child.hello \in BOOLEAN
    BY <1>1, BridgeFacts
  <2> QED
    BY <1>3, <1>8, <2>1, <2>2, <2>3 DEF ReplyTo, Reply
<1>10. /\ \A q \in Line : ~Unhandled(q)'
       /\ \A r \in Reply : Untaken(r)' => r = reply
       /\ Working' /\ NoRequest'
  BY <1>3, <1>4, <1>5, NotEmpty, SameBrackets DEF Unhandled, Untaken, Working, NoRequest
<1>11. /\ h.call = m.call /\ h.revision = child.revision
       /\ h.dispatched <=> Dispatches(m)
       /\ h.late = bridge.failed
       /\ h \in [call : Nat, revision : Nat, dispatched : BOOLEAN, late : BOOLEAN]
  BY <1>1, <1>6, <1>8, BridgeFacts DEF Dispatches, Admits
<1>12. h.dispatched => /\ child'.revision = child.revision + 1
                       /\ h.revision = calls[h.call].base
  BY <1>6, <1>7, <1>11 DEF Dispatches, Admits, Refuses, Stale, LineSound
<1> HIDE <1>session, <1>reply
<1>13. TransportTyped'
  <2>1. <<>> \in OneOf(Line) /\ <<>> \in OneOf(Reply) /\ <<reply>> \in OneOf(Reply)
    BY <1>9 DEF OneOf
  <2>2. handled' \subseteq [call : Nat, revision : Nat, dispatched : BOOLEAN,
                            late : BOOLEAN]
    BY <1>1, <1>3, <1>11 DEF TransportTyped
  <2>3. wire' \in [requests : OneOf(Line), replies : OneOf(Reply),
                   stdin : OneOf(Line), stdout : OneOf(Reply)]
    BY <1>1, <1>5, <2>1, BridgeFacts
  <2> QED BY <1>1, <1>3, <1>6, <2>2, <2>3 DEF TransportTyped
<1>14. GateInv' /\ FailsForCause' /\ AnswersMatch'
  BY <1>1, <1>3, <1>6 DEF GateInv, FailsForCause, AnswersMatch
<1>15. PipelineInv'
  BY <1>1, <1>3, <1>4, <1>5, <1>6, <1>10, NotEmpty DEF PipelineInv, NoRequest
<1>16. LinesInv'
  BY <1>3, <1>8, <1>9, <1>10 DEF LinesInv, ReplySound
<1>17. UseInv'
  <2>1. SUFFICES ASSUME ~bridge.failed PROVE UseInv'
    BY <1>3 DEF UseInv
  <2> DEFINE c == bridge.gate
             n == bridge.counter
  <2>2. /\ c \in Call /\ calls[c].phase = "waiting" /\ m.call = c /\ m.id = n
        /\ m.method = IF calls[c].method = "hello" /\ bridge.started
                      THEN "snapshot" ELSE calls[c].method
        /\ child.last = n - 1 /\ child.requests = n - 1
        /\ child.hello = bridge.started
    BY <1>1, <1>4, <1>7, <2>1 DEF UseInv, InStep, Agrees
  <2>3. n \in 1 .. Limit /\ n - 1 < n /\ n - 1 < Limit /\ n - 1 + 1 = n
    BY <1>1, <2>1, <2>2, BridgeFacts DEF GateInv, Sending
  <2>4. ~Uncounted(m)
    BY <2>2, <2>3 DEF Uncounted
  <2>5. child'.last = n /\ child'.requests = n
    BY <1>6, <2>2, <2>3, <2>4
  <2>6. child'.hello = (bridge.started \/ (calls[c].method = "hello"
                                             /\ reply.kind = "result"))
    <3>1. CASE bridge.started
      BY <1>1, <1>6, <2>2, <3>1, BridgeFacts
    <3>2. CASE ~bridge.started
      BY <1>1, <1>6, <1>9, <2>2, <3>2, BridgeFacts
    <3> QED BY <3>1, <3>2
  <2> QED
    BY <1>3, <1>5, <1>9, <1>10, <2>2, <2>5, <2>6 DEF UseInv, InStep, Agrees
<1>18. HistoryInv'
  <2>1. \A g \in handled : g.dispatched => g.revision < child.revision
    BY <1>1 DEF HistoryInv
  <2>2. \A g \in handled' : g.call \in Call
    BY <1>1, <1>3, <1>8, <1>11 DEF HistoryInv
  <2>3. ASSUME NEW g \in handled', g.dispatched
        PROVE  g.revision < child'.revision /\ g.revision = calls[g.call].base
    <3>1. CASE g = h
      BY <1>6, <1>11, <1>12, <2>3, <3>1
    <3>2. CASE g \in handled
      <4>1. g.revision \in Nat
        BY <1>1, <3>2 DEF TransportTyped
      <4> QED BY <1>1, <1>6, <2>1, <2>3, <3>2, <4>1 DEF HistoryInv
    <3> QED BY <1>3, <3>1, <3>2
  <2>4. ASSUME NEW f \in handled', NEW g \in handled',
               f.dispatched, g.dispatched, f.revision = g.revision
        PROVE  f = g
    <3>1. ~(h.revision < child.revision)
      BY <1>6, <1>11
    <3> QED BY <1>1, <1>3, <1>11, <2>1, <2>4, <3>1 DEF HistoryInv
  <2>5. \A g \in handled : ~g.late
    BY <1>1, <1>7 DEF HistoryInv
  <2>6. \A f, g \in handled' : f.late /\ g.late => f = g
    BY <1>3, <2>5
  <2>7. \A g \in handled' : g.late => bridge.failed
    BY <1>3, <1>11, <2>5
  <2> QED BY <1>3, <1>10, <2>2, <2>3, <2>4, <2>6, <2>7 DEF HistoryInv
<1>19. PagesInv'
  <2>1. \A d : PageWaits(d)' <=> PageWaits(d)
    BY <1>3 DEF PageWaits
  <2>2. \A g, p : Ours(g, p)' <=> Ours(g, p)
    BY <1>3 DEF Ours
  <2>3. ASSUME NEW p \in Page, pages[p].seen # Unseen, ~pages[p].uncertain,
               NEW g \in handled', Ours(g, p), g.call # pages[p].call
        PROVE  g.revision < pages[p].seen
    <3>1. CASE g = h
      BY <1>7, <1>11, <2>3, <3>1 DEF LineSound, PageWaits, Ours
    <3>2. CASE g \in handled
      BY <1>1, <2>3, <3>2 DEF PagesInv
    <3> QED BY <1>3, <3>1, <3>2
  <2>4. ASSUME NEW p \in Page, pages[p].call # NoCall,
               calls[pages[p].call].phase = "answered",
               calls[pages[p].call].reply.snapshot,
               NEW g \in handled', Ours(g, p)
        PROVE  g.revision < calls[pages[p].call].reply.revision
    <3>1. CASE g = h
      BY <1>7, <1>11, <2>4, <3>1 DEF LineSound, PageWaits, Ours
    <3>2. CASE g \in handled
      BY <1>1, <2>4, <3>2 DEF PagesInv
    <3> QED BY <1>3, <3>1, <3>2
  <2> QED BY <1>1, <1>3, <2>1, <2>2, <2>3, <2>4 DEF PagesInv
<1>20. EndInv'
  <2>1. ~server.stdinClosed
    BY <1>1, <1>4 DEF EndInv
  <2> QED BY <1>1, <1>3, <2>1 DEF EndInv
<1> QED
  BY <1>13, <1>14, <1>15, <1>16, <1>17, <1>18, <1>19, <1>20 DEF TransportInv

-----------------------------------------------------------------------------
(* The invariant holds initially and every step keeps it. *)
LEMMA TransportInit ==
    Init => TransportInv
<1> SUFFICES ASSUME Init PROVE TransportInv
  OBVIOUS
<1>1. calls \in Seq(CallRecord) /\ Call = {}
  BY DEF Init, Call
<1>2. wire.requests = <<>> /\ wire.replies = <<>> /\ wire.stdin = <<>>
      /\ wire.stdout = <<>> /\ worker.at = "check"
  BY DEF Init
<1>3. TransportTyped
  <2>1. <<>> \in OneOf(Line) /\ <<>> \in OneOf(Reply)
    BY DEF OneOf
  <2>2. pages \in [Page -> PageRecord]
    BY DEF Init, NewPage, PageRecord, NoCall, Unseen
  <2>3. wire \in [requests : OneOf(Line), replies : OneOf(Reply),
                  stdin : OneOf(Line), stdout : OneOf(Reply)]
    BY <2>1 DEF Init
  <2>4. bridge \in [gate : Nat \cup {Main}, counter : 0 .. Limit, started : BOOLEAN,
                    failed : BOOLEAN, closed : BOOLEAN, timedOut : BOOLEAN]
    BY DEF Init, Free
  <2>5. child \in [alive : BOOLEAN, hello : BOOLEAN, revision : Nat, last : Nat,
                   requests : 0 .. Limit, closed : BOOLEAN]
    BY DEF Init
  <2>6. worker \in [at : {"check", "get", "write", "read", "dead"}, line : Line]
    BY StopTyped DEF Init
  <2>7. server \in [at : {"serving", "asked", "flagged", "gated", "stopping", "done"},
                    stdinClosed : BOOLEAN]
    BY DEF Init
  <2>8. faults \in 0 .. MaxFaults /\ handled = {}
    BY DEF Init
  <2> QED BY <1>1, <2>2, <2>3, <2>4, <2>5, <2>6, <2>7, <2>8 DEF TransportTyped
<1>4. ~Working /\ NoRequest
  BY <1>2 DEF Working, NoRequest
<1>5. /\ \A m \in Line : ~Unhandled(m)
      /\ \A r \in Reply : ~Untaken(r)
  BY <1>2, NotEmpty DEF Unhandled, Untaken
<1>6. GateInv /\ AnswersMatch
  BY <1>1 DEF Init, GateInv, AnswersMatch
<1>7. PipelineInv
  BY <1>2, <1>4, NotEmpty DEF Init, PipelineInv
<1>8. LinesInv
  BY <1>5 DEF LinesInv
<1>9. UseInv
  BY <1>1, <1>2, <1>4, <1>5 DEF Init, UseInv, InStep, Agrees
<1>10. HistoryInv
  BY DEF Init, HistoryInv
<1>11. PagesInv
  BY <1>1 DEF Init, PagesInv, NewPage
<1>12. EndInv /\ FailsForCause
  BY DEF Init, EndInv, FailsForCause
<1> QED
  BY <1>3, <1>6, <1>7, <1>8, <1>9, <1>10, <1>11, <1>12 DEF TransportInv

(* A step that changes nothing keeps the invariant. *)
LEMMA TransportStutters ==
    ASSUME TransportInv, UNCHANGED vars
    PROVE  TransportInv'
<1>1. /\ pages' = pages /\ calls' = calls /\ bridge' = bridge /\ wire' = wire
      /\ worker' = worker /\ child' = child /\ handled' = handled
      /\ server' = server /\ faults' = faults
  BY DEF vars, behind, around
<1>2. /\ TransportTyped /\ PipelineInv /\ EndInv
  BY DEF TransportInv
<1>3. TransportTyped'
  BY <1>1, <1>2 DEF TransportTyped
<1>4. PipelineInv'
  BY <1>1, <1>2 DEF PipelineInv, NoRequest, Working
<1>5. EndInv'
  BY <1>1, <1>2 DEF EndInv, NoRequest, Working, Call
<1>6. /\ \A m \in Line : Unhandled(m)' => Unhandled(m)
      /\ \A r \in Reply : Untaken(r)' => Untaken(r)
      /\ (NoRequest' <=> NoRequest) /\ (Working' <=> Working)
  BY <1>1 DEF Unhandled, Untaken, NoRequest, Working
<1> QED
  BY <1>1, <1>3, <1>4, <1>5, <1>6, LinesMove

(* Every step of every process keeps the invariant. *)
LEMMA TransportNext ==
    TransportInv /\ [Next]_vars => TransportInv'
<1> SUFFICES ASSUME TransportInv, [Next]_vars PROVE TransportInv'
  OBVIOUS
<1>1. CASE \E p \in Page : Renderer(p)
  BY <1>1, RendererKeeps
<1>2. CASE \E c \in Call : Handler(c)
  BY <1>2, HandlerKeeps
<1>3. CASE Worker
  BY <1>3, WorkerKeeps
<1>4. CASE Child
  BY <1>4, ChildHandlesKeeps, ChildExitsKeeps DEF Child
<1>5. CASE Closing \/ Interrupted
  BY <1>5, CloseBegins, CloseStopsKeeps, CloseReapsKeeps DEF Closing
<1>6. CASE UNCHANGED vars
  BY <1>6, TransportStutters
<1> QED
  BY <1>1, <1>2, <1>3, <1>4, <1>5, <1>6 DEF Next

-----------------------------------------------------------------------------
(* The theorems. *)

(* At most one line is between the bridge and the session; it belongs to    *)
(* the call that holds the gate, or to a call that gave up on it, and the   *)
(* page that made that call is uncertain until an answer reaches it.        *)
THEOREM TransportInvariant == Spec => []TransportInv
<1> QED BY TransportInit, TransportNext, PTL DEF Spec

(* Every record and queue holds what its code may put there, and the two    *)
(* bounded queues hold at most one line (local_app.py).                     *)
THEOREM TransportIsTyped == Spec => []TransportTypeOK
<1>1. TransportInv => TransportTypeOK
  <2> SUFFICES ASSUME TransportInv PROVE TransportTypeOK
    OBVIOUS
  <2>1. TransportTyped
    BY DEF TransportInv
  <2>2. \A S, q : q \in OneOf(S) => q \in Seq(S) /\ Len(q) <= 1
    BY OneOfFacts
  <2>3. wire \in [requests : OneOf(Line), replies : OneOf(Reply),
                  stdin : OneOf(Line), stdout : OneOf(Reply)]
    BY <2>1 DEF TransportTyped
  <2>4. /\ wire \in [requests : Seq(Line), replies : Seq(Reply),
                     stdin : Seq(Line), stdout : Seq(Reply)]
        /\ Len(wire.requests) <= 1 /\ Len(wire.replies) <= 1
    BY <2>2, <2>3
  <2> QED
    BY <2>1, <2>4 DEF TransportTyped, TransportTypeOK, PageRecord, CallRecord
<1> QED BY <1>1, TransportInvariant, PTL

(* However the requests of pages, reloads and lost answers interleave, an   *)
(* event takes effect at most once and on the revision its page showed; no  *)
(* answer is taken for that of another request; and after the bridge has    *)
(* failed the child handles at most the one request that was on its way.    *)
THEOREM ExchangesStayMatched == Spec => []ExchangesMatch
<1>1. TransportInv => ExchangesMatch
  <2> SUFFICES ASSUME TransportInv PROVE ExchangesMatch
    OBVIOUS
  <2>1. HistoryInv /\ AnswersMatch
    BY DEF TransportInv
  <2>2. AppliedAsSeen
    BY <2>1 DEF HistoryInv, AppliedAsSeen
  <2>3. OneLateRequest
    <3> DEFINE late == {h \in handled : h.late}
    <3>1. CASE late = {}
      <4>1. Cardinality(late) = 0
        BY <3>1, FS_EmptySet
      <4> QED BY <4>1 DEF OneLateRequest
    <3>2. CASE late # {}
      <4>1. PICK h \in late : late = {h}
        BY <2>1, <3>2 DEF HistoryInv
      <4>2. Cardinality(late) = 1
        BY <4>1, FS_Singleton
      <4> QED BY <4>2 DEF OneLateRequest
    <3> QED BY <3>1, <3>2
  <2> QED BY <2>1, <2>2, <2>3 DEF ExchangesMatch
<1> QED BY <1>1, TransportInvariant, PTL

(* Between exchanges a usable bridge and its session agree on the           *)
(* handshake, the last id and the number of requests, with every queue and  *)
(* pipe empty: the session refuses no request for its sequence or limit.    *)
THEOREM SessionStaysInStep == Spec => []SessionInStep
<1>1. TransportInv => SessionInStep
  <2> SUFFICES ASSUME TransportInv, bridge.gate = Free, ~bridge.failed, ~bridge.closed
               PROVE  /\ bridge.started = child.hello
                      /\ child.last = bridge.counter
                      /\ child.requests = bridge.counter
                      /\ \A queue \in DOMAIN wire : wire[queue] = <<>>
    BY DEF SessionInStep
  <2>1. TransportTyped /\ UseInv /\ PipelineInv /\ Free \notin Call
    BY CallsFacts DEF TransportInv
  <2>2. InStep(bridge.counter) /\ Agrees(bridge.started)
    BY <2>1 DEF UseInv
  <2>3. /\ NoRequest /\ wire.replies = <<>> /\ wire.stdin = <<>> /\ wire.stdout = <<>>
    BY <2>1, NothingOnItsWay
  <2>4. wire.requests = <<>>
    BY <2>1, <2>3 DEF PipelineInv, NoRequest
  <2>5. DOMAIN wire = {"requests", "replies", "stdin", "stdout"}
    BY <2>1 DEF TransportTyped
  <2> QED BY <2>2, <2>3, <2>4, <2>5 DEF InStep, Agrees
<1> QED BY <1>1, TransportInvariant, PTL

(* The bridge fails only for a cause; a page that may edit has seen every   *)
(* event of its own that took effect; and stdin is closed on a quiet        *)
(* session.                                                                 *)
THEOREM EndsStayInOrder == Spec => []EndsInOrder
<1>1. TransportInv => EndsInOrder
  <2> SUFFICES ASSUME TransportInv PROVE EndsInOrder
    OBVIOUS
  <2>1. /\ TransportTyped /\ FailsForCause /\ PagesInv /\ HistoryInv /\ EndInv
        /\ PipelineInv /\ NoCall \notin Call
    BY CallsFacts DEF TransportInv
  <2>2. KnowsItsEvents
    <3> SUFFICES ASSUME NEW p \in Page, Idle(p), pages[p].seen # Unseen,
                        ~pages[p].uncertain, NEW h \in handled, Ours(h, p)
                 PROVE  h.revision < pages[p].seen
      BY DEF KnowsItsEvents, Ours
    <3>1. h.call # pages[p].call
      BY <2>1 DEF Idle, HistoryInv
    <3> QED BY <2>1, <3>1 DEF PagesInv
  <2>3. StdinClosedQuietly
    BY <2>1 DEF StdinClosedQuietly, EndInv, PipelineInv, Working
  <2> QED BY <2>1, <2>2, <2>3 DEF EndsInOrder
<1> QED BY <1>1, TransportInvariant, PTL
=============================================================================
