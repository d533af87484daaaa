------------------------- MODULE NativeHarness_proofs --------------------------
(***************************************************************************)
(* Proofs about NativeHarness and the three modules that it composes, for  *)
(* any exit codes, cases, files, and any number of writes and moves by     *)
(* others.  Each part has an inductive invariant of its own; the host's    *)
(* steps between them are the fourth part.                                 *)
(***************************************************************************)
EXTENDS NativeHarness, TLAPS

-----------------------------------------------------------------------------
(* run_owned                                                                *)

Stages == Work \cup Cleanup
ContainerTyped ==
    /\ host \in [at : Stages \cup {"done"}, owned : BOOLEAN, cleaned : BOOLEAN,
                 reaped : BOOLEAN, child : BOOLEAN, failed : BOOLEAN, result : BOOLEAN,
                 code : ExitCode]
    /\ cli \in [phase : {"idle", "sent", "attached", "answered"}, answer : Answer]
    /\ daemon \in [mine : Mine, exit : ExitCode, other : {"none", "running"}]
    /\ stray \subseteq Stages
    /\ host.at = "done" => cli = Idle

HasAnswer(stage, says) ==
    host.at = stage /\ cli.phase = "answered" /\ cli.answer.says = says

(* A create request whose command died is the end of run_owned, and the     *)
(* only thing that can still bring a container into being.                  *)
CreateIsFinal ==
    /\ "create" \in stray => host.at = "done" /\ ~host.cleaned
    /\ host.cleaned => host.at \in {"image", "done"} /\ daemon.mine \in {"none", "gone"}
    /\ HasAnswer("ps", "empty") => daemon.mine = "gone"

(* From the answer to the create request on there is a container, so that   *)
(* every removal knows its id.                                              *)
MineExists ==
    /\ \/ host.at \in {"owner", "start", "exit"} \cup Cleanup
       \/ HasAnswer("create", "id")
       \/ "rm" \in stray
       => daemon.mine # "none"
    /\ host.at \in {"image", "create"} => ~host.owned

ReportsAreSound ==
    /\ host.at = "done" => host.failed \/ host.cleaned
    /\ host.reaped => ~host.child
    /\ HasAnswer("exit", "exited") =>
          daemon.mine \in {"exited", "removing", "gone"} /\ cli.answer.code = daemon.exit
    /\ host.result =>
          daemon.mine \in {"exited", "removing", "gone"} /\ host.code = daemon.exit
                       /\ host.at \in Cleanup \cup {"done"}

ContainerInv == ContainerTyped /\ CreateIsFinal /\ MineExists /\ ReportsAreSound

-----------------------------------------------------------------------------
(* The suite                                                                *)

SuiteStages == {"baseline", "launch", "wait", "tree", "census", "markers", "next", "verdict",
                "identify", "signal", "final", "envelope", "done", "gone"}
Statuses == {"running", "ok", "timeout", "process_failed", "invalid_result",
             "stale_evidence", "failed"}
Judged == {"verdict", "identify", "signal", "final", "envelope", "done"}
SuiteTyped ==
    /\ suite \in [at : SuiteStages, mode : Modes, case : Nat, status : Statuses,
                  exited : BOOLEAN, quiet : BOOLEAN, pinned : Nat,
                  bus_failed : BOOLEAN, accepted : BOOLEAN]
    /\ bus \in [up : BOOLEAN, number : {"bus", "free", "other", "none"},
                fd : {"bus", "other", "none"}, signalled : SUBSET {"bus"}]
    /\ evidence \in [version : Nat, completed : BOOLEAN, outputs : BOOLEAN]

(* A good verdict comes after everything the suite does itself.            *)
VerdictIsLast == suite.status = "ok" => suite.at \in Judged

(* After the final census nothing is there that could write or be started,  *)
(* and so what the envelope was accepted for stays as it was.               *)
QuietAfterCensus ==
    /\ suite.at \in {"envelope", "done"} /\ suite.status = "ok" => procs = {} /\ ~bus.up
    /\ suite.accepted =>
          /\ suite.at = "done" /\ suite.status = "ok" /\ evidence.outputs
          /\ suite.mode = "async" => suite.pinned = evidence.version

(* The pidfd is of the bus when the number still is.                        *)
PidfdIsOfBus ==
    /\ suite.at = "identify" /\ bus.number = "bus" => bus.fd = "bus"
    /\ suite.at = "signal" => bus.fd = "bus"

SuiteInv == SuiteTyped /\ VerdictIsLast /\ QuietAfterCensus /\ PidfdIsOfBus

-----------------------------------------------------------------------------
(* The export                                                               *)

ExportStages == {"look", "make", "pin", "write", "check", "rename", "recheck", "exported",
                 "unlink", "stat", "rmdir", "done"}
Ending == {"unlink", "stat", "rmdir", "done"}
ExportTyped ==
    /\ export \in [at : ExportStages, pinned : BOOLEAN, promoted : BOOLEAN,
                   error : BOOLEAN, unclean : BOOLEAN, looked : Nat]
    /\ place \in [{"staging", "public"} -> Holder]
    /\ path \in BOOLEAN
    /\ content \in [exists : BOOLEAN, files : SUBSET File, extra : BOOLEAN]
    /\ moves \in Nat

(* The public name gets the directory only by the rename, which follows the *)
(* last file, and files go only after the error is there.                   *)
PromotedIsWhole ==
    /\ export.error <=> export.at \in Ending
    /\ export.at \in {"check", "rename", "recheck", "exported"} => Whole
    /\ export.promoted => export.at \in {"recheck", "exported"} \cup Ending
    /\ place["public"] = "ours" => export.promoted

CleanedUp ==
    export.at = "done" /\ export.pinned /\ ~export.unclean =>
        ~content.exists \/ moves > export.looked

(* Between the look and the removal the name changes only by a move.        *)
LookedBefore ==
    /\ export.looked <= moves
    /\ export.at = "rmdir" => place[Selected] = "ours" \/ moves > export.looked

ExportInv == ExportTyped /\ PromotedIsWhole /\ CleanedUp /\ LookedBefore

-----------------------------------------------------------------------------
(* run_smoke and main                                                       *)

SmokeStages == {"pull", "run", "remove", "compare", "clear", "export", "main", "announce", "done"}
SmokeTyped ==
    /\ smoke \in [at : SmokeStages, accepted : BOOLEAN, cleaned : BOOLEAN, retained : BOOLEAN,
                  removed : BOOLEAN, looked : Nat, ready : BOOLEAN]

(* Every stage is reached only with what the ones before it have secured.   *)
StagesAreEarned ==
    /\ smoke.at \in {"pull", "run", "remove"} => ~smoke.retained
    /\ smoke.at = "compare" \/ smoke.retained =>
          smoke.accepted /\ smoke.cleaned /\ box = "gone"
    /\ smoke.at \in {"export", "main", "announce"} \/ smoke.ready =>
          smoke.retained /\ smoke.removed
    /\ smoke.ready => smoke.at = "done"

LookedAtWhole ==
    /\ smoke.looked <= moves
    /\ smoke.at = "announce" \/ smoke.ready => Seen("public") \/ moves > smoke.looked

SmokeInv == SmokeTyped /\ StagesAreEarned /\ LookedAtWhole

HarnessInv == ContainerInv /\ SuiteInv /\ ExportInv /\ SmokeInv

-----------------------------------------------------------------------------
(* What the daemon may make of a request: containers only come into being   *)
(* by "create", end for good, and go by name only when this run has none.   *)
LEMMA CarryFacts ==
    ASSUME ContainerTyped, NEW request \in Stages, NEW carried \in Carry(request, daemon)
    PROVE  /\ carried[2] \in Answer
           /\ carried[1] \in [mine : Mine, exit : ExitCode, other : {"none", "running", "removed"}]
           /\ request # "rm" \/ daemon.mine # "none" => carried[1].other = daemon.other
           /\ daemon.mine # "none" => carried[1].mine # "none"
           /\ daemon.mine = "gone" => carried[1].mine = "gone"
           /\ daemon.mine = "none" /\ request # "create" => carried[1].mine = "none"
           /\ daemon.mine \in {"exited", "removing", "gone"} =>
                 carried[1].mine \in {"exited", "removing", "gone"} /\ carried[1].exit = daemon.exit
           /\ request = "create" /\ carried[2].says = "id" => carried[1].mine # "none"
           /\ request = "ps" /\ carried[2].says = "empty" =>
                 daemon.mine \in {"none", "gone"} /\ carried[1] = daemon
           /\ request = "exit" /\ carried[2].says = "exited" =>
                 carried[1] = daemon /\ daemon.mine = "exited" /\ carried[2].code = daemon.exit
<1> USE ContainerAssumption DEF ContainerTyped, Mine, Answer, Says
<1>1. CASE request = "image"
  BY <1>1 DEF Carry
<1>2. CASE request = "create"
  <2>1. CASE daemon.mine = "none" /\ daemon.other = "none"
    <3>1. PICK said \in {"id", "bad"}, d \in {daemon, [daemon EXCEPT !.mine = "created"]} :
              /\ carried = <<d, [says |-> said, code |-> 0]>>
              /\ said = "id" => d = [daemon EXCEPT !.mine = "created"]
      BY <1>2, <2>1 DEF Carry
    <3> QED BY <1>2, <2>1, <3>1
  <2>2. CASE ~(daemon.mine = "none" /\ daemon.other = "none")
    BY <1>2, <2>2 DEF Carry
  <2> QED BY <2>1, <2>2
<1>3. CASE request = "start"
  BY <1>3 DEF Carry
<1>4. CASE request = "rm"
  BY <1>4 DEF Carry
<1>5. CASE request = "ps"
  BY <1>5 DEF Carry
<1>6. CASE request \in {"owner", "exit", "check"}
  BY <1>6 DEF Carry
<1> QED
  BY <1>1, <1>2, <1>3, <1>4, <1>5, <1>6 DEF Stages, Work, Cleanup

(* The daemon or the clock acts, and the answer that is there stays.        *)
LEMMA DaemonMoves ==
    ASSUME ContainerInv, UNCHANGED <<host, cli>>,
           daemon' \in [mine : Mine, exit : ExitCode, other : {"none", "running"}],
           stray' \subseteq stray,
           daemon.mine # "none" => daemon'.mine # "none",
           daemon.mine = "gone" => daemon'.mine = "gone",
           daemon.mine \in {"exited", "removing", "gone"} =>
               daemon'.mine \in {"exited", "removing", "gone"} /\ daemon'.exit = daemon.exit,
           daemon.mine = "none" /\ daemon'.mine # "none" => "create" \in stray
    PROVE  ContainerInv'
<1> USE DEF ContainerInv
<1>1. ContainerTyped'
  BY DEF ContainerTyped
<1>2. CreateIsFinal'
  BY DEF CreateIsFinal, HasAnswer
<1>3. MineExists'
  BY DEF MineExists, HasAnswer
<1>4. ReportsAreSound'
  BY DEF ReportsAreSound, HasAnswer
<1> QED BY <1>1, <1>2, <1>3, <1>4

(* A step of run_owned fails: cleanup begins if there is anything to clean. *)
LEMMA FailureStep ==
    ASSUME ContainerInv, host.at # "done", NEW seen \in BOOLEAN,
           host' = AfterFailure([host EXCEPT !.reaped = @ /\ seen, !.child = @ \/ ~seen])
                   \/ host' = AfterFailure(host),
           cli' = Idle, UNCHANGED daemon,
           stray' \subseteq stray \cup {host.at}
    PROVE  ContainerInv'
<1> USE DEF ContainerInv
<1>1. host \in [at : Stages \cup {"done"}, owned : BOOLEAN, cleaned : BOOLEAN,
                reaped : BOOLEAN, child : BOOLEAN, failed : BOOLEAN, result : BOOLEAN,
                code : ExitCode]
  BY DEF ContainerTyped
<1>2. /\ host'.failed = TRUE
      /\ host'.at = IF host.at \in Work /\ host.owned THEN "check" ELSE "done"
      /\ host'.owned = host.owned /\ host'.cleaned = host.cleaned
      /\ host'.result = host.result /\ host'.code = host.code
      /\ host'.reaped \in BOOLEAN /\ host'.child \in BOOLEAN
      /\ host'.reaped => ~host'.child
  BY <1>1 DEF AfterFailure, ReportsAreSound
<1>3. ContainerTyped'
  BY ZenonT(30), <1>1, <1>2, ContainerAssumption
     DEF ContainerTyped, Idle, Answer, Stages, Work, Cleanup, AfterFailure
<1>4. CreateIsFinal'
  BY <1>1, <1>2 DEF CreateIsFinal, HasAnswer, Idle, MineExists, Work
<1>5. MineExists'
  BY <1>1, <1>2 DEF MineExists, HasAnswer, Idle, Stages, Work, Cleanup
<1>6. ReportsAreSound'
  BY <1>1, <1>2 DEF ReportsAreSound, HasAnswer, Idle, Cleanup
<1> QED BY <1>3, <1>4, <1>5, <1>6

(* An answer is accepted and leads to the next command.                     *)
LEMMA AcceptedStep ==
    ASSUME ContainerInv, cli.phase = "answered", Accepts(host, cli.answer),
           host' = After(host, cli.answer), cli' = Idle, UNCHANGED <<daemon, stray>>
    PROVE  ContainerInv'
<1> USE DEF ContainerInv
<1>1. /\ host \in [at : Stages \cup {"done"}, owned : BOOLEAN, cleaned : BOOLEAN,
                   reaped : BOOLEAN, child : BOOLEAN, failed : BOOLEAN, result : BOOLEAN,
                   code : ExitCode]
      /\ host.at \in Stages /\ cli.answer.code \in ExitCode
  BY DEF ContainerTyped, Idle, Answer
<1>2. host' \in [at : Stages \cup {"done"}, owned : BOOLEAN, cleaned : BOOLEAN,
                 reaped : BOOLEAN, child : BOOLEAN, failed : BOOLEAN, result : BOOLEAN,
                 code : ExitCode]
  BY <1>1 DEF After, Stages, Work, Cleanup
<1>3. ContainerTyped'
  BY <1>2, ContainerAssumption DEF ContainerTyped, Idle, Answer
<1>4. CreateIsFinal'
  BY <1>1 DEF After, Accepts, CreateIsFinal, HasAnswer, Idle, Stages, Work, Cleanup
<1>5. MineExists'
  BY <1>1 DEF After, Accepts, MineExists, HasAnswer, Idle, Stages, Work, Cleanup
<1>6. ReportsAreSound'
  BY <1>1 DEF After, Accepts, ReportsAreSound, HasAnswer, Idle, Stages, Work, Cleanup
<1> QED BY <1>3, <1>4, <1>5, <1>6

(* Every step of the container keeps its invariant. *)
LEMMA ContainerStep == ContainerInv /\ ContainerNext => ContainerInv'
<1> SUFFICES ASSUME ContainerInv, ContainerNext PROVE ContainerInv'
  OBVIOUS
<1>a. ContainerTyped
  BY DEF ContainerInv
<1>1. CASE Send
  BY <1>1 DEF Send, ContainerInv, ContainerTyped, CreateIsFinal, MineExists, ReportsAreSound,
     HasAnswer, Idle
<1>2. CASE NoTime
  BY <1>2, FailureStep DEF NoTime
<1>3. CASE CliFails
  <2>1. host.at # "done"
    BY <1>3, <1>a DEF CliFails, ContainerTyped
  <2> QED BY <1>3, <2>1, FailureStep DEF CliFails
<1>4. CASE Answered
  <2>1. host.at # "done"
    BY <1>4, <1>a DEF Answered, ContainerTyped, Idle
  <2> QED BY <1>4, <2>1, FailureStep, AcceptedStep DEF Answered
<1>5. CASE Serve
  <2>1. PICK carried \in Carry(host.at, daemon) :
            /\ daemon' = carried[1]
            /\ cli' = [phase |-> IF carried[2].says = "running" THEN "attached" ELSE "answered",
                       answer |-> carried[2]]
    BY <1>5 DEF Serve
  <2>2. cli.phase = "sent" /\ UNCHANGED <<host, stray>> /\ host.at \in Stages
    BY <1>5, <1>a DEF Serve, ContainerTyped, Idle
  <2>3. /\ cli'.answer = carried[2] /\ cli'.phase \in {"attached", "answered"}
        /\ cli' = [phase |-> cli'.phase, answer |-> cli'.answer]
    BY <2>1
  <2>4. /\ carried[2] \in Answer
        /\ daemon' \in [mine : Mine, exit : ExitCode, other : {"none", "running", "removed"}]
        /\ host.at # "rm" \/ daemon.mine # "none" => daemon'.other = daemon.other
        /\ daemon.mine # "none" => daemon'.mine # "none"
        /\ daemon.mine = "gone" => daemon'.mine = "gone"
        /\ daemon.mine = "none" /\ host.at # "create" => daemon'.mine = "none"
        /\ daemon.mine \in {"exited", "removing", "gone"} =>
              daemon'.mine \in {"exited", "removing", "gone"} /\ daemon'.exit = daemon.exit
        /\ host.at = "create" /\ carried[2].says = "id" => daemon'.mine # "none"
        /\ host.at = "ps" /\ carried[2].says = "empty" =>
              daemon.mine \in {"none", "gone"} /\ daemon' = daemon
        /\ host.at = "exit" /\ carried[2].says = "exited" =>
              daemon' = daemon /\ daemon.mine = "exited" /\ carried[2].code = daemon.exit
    BY <2>1, <2>2, <1>a, CarryFacts
  <2> USE DEF ContainerInv
  <2>5. ContainerTyped'
    <3>1. daemon'.other = daemon.other
      BY <2>2, <2>4 DEF MineExists, Cleanup
    <3>2. daemon' \in [mine : Mine, exit : ExitCode, other : {"none", "running"}]
      BY <2>4, <3>1 DEF ContainerTyped
    <3>3. cli' \in [phase : {"idle", "sent", "attached", "answered"}, answer : Answer]
      BY <2>3, <2>4
    <3>4. host.at # "done"
      BY <2>2 DEF Stages, Work, Cleanup
    <3> QED BY <2>2, <3>2, <3>3, <3>4 DEF ContainerTyped
  <2>6. CreateIsFinal'
    BY <2>2, <2>3, <2>4 DEF CreateIsFinal, HasAnswer, MineExists, Cleanup
  <2>7. MineExists'
    BY <2>2, <2>3, <2>4 DEF MineExists, HasAnswer
  <2>8. ReportsAreSound'
    BY <2>2, <2>3, <2>4 DEF ReportsAreSound, HasAnswer
  <2> QED BY <2>5, <2>6, <2>7, <2>8
<1>6. CASE Detach
  <2>1. PICK code \in ExitCode : cli' = [phase |-> "answered", answer |-> [says |-> "bad",
               code |-> IF daemon.mine = "exited" THEN daemon.exit ELSE code]]
    BY <1>6 DEF Detach
  <2>2. cli.phase = "attached" /\ UNCHANGED <<host, daemon, stray>>
    BY <1>6 DEF Detach
  <2>3. cli'.phase = "answered" /\ cli'.answer.says = "bad"
    BY <2>1
  <2>4. ContainerTyped'
    BY <2>1, <2>2, <1>a DEF ContainerTyped, Answer, Idle
  <2> QED BY <2>2, <2>3, <2>4 DEF ContainerInv, CreateIsFinal, MineExists, ReportsAreSound, HasAnswer
<1>7. CASE ServeStray
  <2>1. PICK request \in stray :
            stray' = stray \ {request} /\ \E c \in Carry(request, daemon) : daemon' = c[1]
    BY <1>7 DEF ServeStray
  <2>2. PICK carried \in Carry(request, daemon) : daemon' = carried[1]
    BY <2>1
  <2>3. UNCHANGED <<host, cli>> /\ request \in Stages
    BY <1>7, <2>1, <1>a DEF ServeStray, ContainerTyped
  <2>4. /\ daemon' \in [mine : Mine, exit : ExitCode, other : {"none", "running", "removed"}]
        /\ request # "rm" \/ daemon.mine # "none" => daemon'.other = daemon.other
        /\ daemon.mine # "none" => daemon'.mine # "none"
        /\ daemon.mine = "gone" => daemon'.mine = "gone"
        /\ daemon.mine = "none" /\ request # "create" => daemon'.mine = "none"
        /\ daemon.mine \in {"exited", "removing", "gone"} =>
              daemon'.mine \in {"exited", "removing", "gone"} /\ daemon'.exit = daemon.exit
    BY <2>2, <2>3, <1>a, CarryFacts
  <2>5. daemon'.other = daemon.other
    BY <2>1, <2>4 DEF ContainerInv, MineExists
  <2>6. daemon' \in [mine : Mine, exit : ExitCode, other : {"none", "running"}]
    BY <2>4, <2>5, <1>a DEF ContainerTyped
  <2>7. daemon.mine = "none" /\ daemon'.mine # "none" => "create" \in stray
    BY <2>1, <2>4
  <2>8. stray' \subseteq stray
    BY <2>1
  <2> QED BY <2>3, <2>4, <2>6, <2>7, <2>8, DaemonMoves
<1>8. CASE ContainerEnds
  <2>1. PICK code \in ExitCode : daemon' = [daemon EXCEPT !.mine = "exited", !.exit = code]
    BY <1>8 DEF ContainerEnds
  <2> QED BY <1>8, <1>a, <2>1, DaemonMoves DEF ContainerEnds, ContainerTyped, Mine
<1>9. CASE RemovalEnds
  BY <1>9, <1>a, DaemonMoves DEF RemovalEnds, ContainerTyped, Mine
<1>10. CASE OtherCreates
  BY <1>10, <1>a, DaemonMoves DEF OtherCreates, ContainerTyped
<1>11. CASE Tick
  BY <1>11 DEF Tick, ContainerInv, ContainerTyped, CreateIsFinal, MineExists, ReportsAreSound,
     HasAnswer
<1> QED
  BY <1>1, <1>2, <1>3, <1>4, <1>5, <1>6, <1>7, <1>8, <1>9, <1>10, <1>11
     DEF ContainerNext, HostStep, DaemonStep

-----------------------------------------------------------------------------
(* A step of the harness, inside the container: the files and the processes *)
(* only as the step says, and the verdict is right.                         *)
LEMMA SystemMoves == SuiteInv /\ SystemStep => SuiteInv'
<1> SUFFICES ASSUME SuiteInv, SystemStep PROVE SuiteInv'
  OBVIOUS
<1> USE DEF SuiteInv
<1>1. CASE Writes
  <2>1. PICK complete \in {evidence.completed, TRUE}, same \in {evidence.outputs, FALSE} :
            evidence' = [version |-> evidence.version + 1, completed |-> complete,
                         outputs |-> same]
    BY <1>1 DEF Writes
  <2>2. /\ procs # {} /\ UNCHANGED <<suite, procs, bus>>
        /\ evidence'.version = evidence.version + 1 /\ evidence.version \in Nat
        /\ suite.pinned \in Nat
    BY <1>1, <2>1 DEF Writes, SuiteTyped
  <2>3. SuiteTyped'
    <3>1. complete \in BOOLEAN /\ same \in BOOLEAN
      BY <2>1 DEF SuiteTyped
    <3>2. evidence' \in [version : Nat, completed : BOOLEAN, outputs : BOOLEAN]
      BY <2>1, <2>2, <3>1
    <3> QED BY <2>2, <3>2 DEF SuiteTyped
  <2>4. VerdictIsLast'
    BY <2>2 DEF VerdictIsLast
  <2>5. QuietAfterCensus' /\ PidfdIsOfBus'
    BY <2>2 DEF QuietAfterCensus, PidfdIsOfBus
  <2> QED BY <2>3, <2>4, <2>5
<1>2. CASE Forks \/ Activates \/ Exits
  <2>1. /\ UNCHANGED <<suite, bus, evidence>>
        /\ procs = {} /\ ~bus.up => procs' = {}
    BY <1>2 DEF Forks, Activates, Exits
  <2> QED BY <2>1 DEF SuiteTyped, VerdictIsLast, QuietAfterCensus, PidfdIsOfBus
<1>3. CASE BusDies \/ NumberReused
  <2>1. /\ UNCHANGED <<suite, procs, evidence>> /\ bus'.number \in {"free", "other"}
        /\ bus'.fd = bus.fd /\ (~bus.up => ~bus'.up)
        /\ bus' \in [up : BOOLEAN, number : {"bus", "free", "other", "none"},
                      fd : {"bus", "other", "none"}, signalled : SUBSET {"bus"}]
    BY <1>3 DEF BusDies, NumberReused, SuiteTyped
  <2> QED BY <2>1 DEF SuiteTyped, VerdictIsLast, QuietAfterCensus, PidfdIsOfBus
<1> QED
  BY <1>1, <1>2, <1>3 DEF SystemStep

(* The harness moves on without a verdict that is good.                     *)
LEMMA HarnessMoves ==
    ASSUME SuiteInv, SuiteTyped', suite'.at \notin {"identify", "signal"},
           suite'.status # "ok", ~suite'.accepted
    PROVE  SuiteInv'
BY DEF SuiteInv, VerdictIsLast, QuietAfterCensus, PidfdIsOfBus

(* A step of the harness keeps the invariant of the suite. *)
LEMMA HarnessStepKeeps == SuiteInv /\ HarnessStep => SuiteInv'
<1> SUFFICES ASSUME SuiteInv, HarnessStep PROVE SuiteInv'
  OBVIOUS
<1> DEFINE SuiteState == [at : SuiteStages, mode : Modes, case : Nat, status : Statuses,
                          exited : BOOLEAN, quiet : BOOLEAN, pinned : Nat,
                          bus_failed : BOOLEAN, accepted : BOOLEAN]
<1>a. /\ suite \in SuiteState
      /\ evidence \in [version : Nat, completed : BOOLEAN, outputs : BOOLEAN]
      /\ bus \in [up : BOOLEAN, number : {"bus", "free", "other", "none"},
                  fd : {"bus", "other", "none"}, signalled : SUBSET {"bus"}]
  BY DEF SuiteInv, SuiteTyped
<1>b. /\ suite.accepted => suite.at = "done"
      /\ suite.status = "ok" => suite.at \in Judged
  BY DEF SuiteInv, QuietAfterCensus, VerdictIsLast
<1>c. ASSUME suite' \in SuiteState, suite'.at \notin {"identify", "signal"},
             suite'.status # "ok", suite'.accepted = suite.accepted, suite.at \notin Judged, UNCHANGED <<bus, evidence>>
      PROVE  SuiteInv'
  <2>1. SuiteTyped' /\ ~suite'.accepted
    BY <1>a, <1>b, <1>c DEF SuiteTyped, Judged
  <2> QED BY <1>c, <2>1, HarnessMoves
<1>d. suite.at \notin Judged => suite.status # "ok"
  BY <1>b
<1>1. CASE Baseline
  <2>1. suite' = [suite EXCEPT !.at = "launch"]
        \/ suite' = [suite EXCEPT !.at = "verdict", !.status = "process_failed"]
    BY <1>1 DEF Baseline, Goto, EndWith
  <2>2. suite.at \notin Judged /\ UNCHANGED <<bus, evidence>>
    BY <1>1 DEF Baseline, Keep, Judged
  <2>3. suite' \in SuiteState /\ suite'.at \in {"launch", "verdict"} /\ suite'.status # "ok"
        /\ suite'.pinned = suite.pinned /\ suite'.accepted = suite.accepted
    BY ZenonT(30), <1>a, <1>d, <2>1, <2>2 DEF SuiteStages, Statuses
  <2> QED BY <1>c, <2>2, <2>3
<1>2. CASE Launch
  <2>1. suite' = [suite EXCEPT !.at = "wait"] /\ UNCHANGED <<bus, evidence>>
        /\ suite.at \notin Judged
    BY <1>2 DEF Launch, Goto, Judged
  <2> QED BY <1>a, <1>c, <1>d, <2>1 DEF SuiteStages
<1>3. CASE LeaderGone
  <2>1. PICK zero \in BOOLEAN : suite' = [suite EXCEPT !.at = "tree", !.exited = zero]
    BY <1>3 DEF LeaderGone
  <2>2. suite.at \notin Judged /\ UNCHANGED <<bus, evidence>>
    BY <1>3 DEF LeaderGone, Keep, Judged
  <2> QED BY <1>a, <1>c, <1>d, <2>1, <2>2 DEF SuiteStages
<1>4. CASE Timeout
  <2>1. suite' = [suite EXCEPT !.at = "census", !.status = "timeout", !.exited = FALSE]
        /\ UNCHANGED <<bus, evidence>> /\ suite.at \notin Judged
    BY <1>4 DEF Timeout, Judged
  <2> QED BY <1>a, <1>c, <1>d, <2>1 DEF SuiteStages, Statuses
<1>5. CASE CleanTree
  <2>1. suite.at \notin Judged /\ UNCHANGED <<bus, evidence>>
    BY <1>5 DEF CleanTree, Judged
  <2>2. PICK status \in Statuses \ {"ok"} :
            suite' = [suite EXCEPT !.at = "census", !.status = status]
            \/ suite' = [suite EXCEPT !.at = "census", !.status = status, !.exited = FALSE]
    <3>1. suite.status \in Statuses \ {"ok"} /\ "process_failed" \in Statuses \ {"ok"}
      BY <1>a, <1>d, <2>1 DEF Statuses
    <3> QED BY <1>5, <3>1 DEF CleanTree
  <2>3. suite' \in SuiteState /\ suite'.at = "census" /\ suite'.status # "ok"
        /\ suite'.pinned = suite.pinned /\ suite'.accepted = suite.accepted
    <3>1. "census" \in SuiteStages /\ status \in Statuses /\ status # "ok"
      BY DEF SuiteStages
    <3>2. CASE suite' = [suite EXCEPT !.at = "census", !.status = status]
      BY <1>a, <3>1, <3>2
    <3>3. CASE suite' = [suite EXCEPT !.at = "census", !.status = status, !.exited = FALSE]
      BY <1>a, <3>1, <3>3
    <3> QED BY <2>2, <3>2, <3>3
  <2> QED BY <1>c, <2>1, <2>3
<1>6. CASE Census
  <2>1. suite.at \notin Judged /\ UNCHANGED <<bus, evidence>>
    BY <1>6 DEF Census, Keep, Judged
  <2>2. PICK quiet \in BOOLEAN : suite' = [suite EXCEPT !.at = "markers", !.quiet = quiet]
    <3>1. (BusIsOurs /\ procs = {}) \in BOOLEAN
      BY <1>a DEF BusIsOurs
    <3> QED BY <1>6, <3>1 DEF Census
  <2> QED BY <1>a, <1>c, <1>d, <2>1, <2>2 DEF SuiteStages
<1>7. CASE NextCase
  <2>1. suite' = [suite EXCEPT !.at = "baseline"]
        \/ suite' = [suite EXCEPT !.at = "verdict", !.status = "stale_evidence"]
    BY <1>7 DEF NextCase, Goto, EndWith
  <2>2. /\ suite.at \notin Judged /\ UNCHANGED bus
        /\ evidence' = [evidence EXCEPT !.completed = FALSE]
    BY <1>7 DEF NextCase, Judged
  <2>3. suite' \in SuiteState /\ suite'.at \in {"baseline", "verdict"} /\ suite'.status # "ok"
        /\ suite'.pinned = suite.pinned /\ suite'.accepted = suite.accepted
    BY ZenonT(30), <1>a, <1>d, <2>1, <2>2 DEF SuiteStages, Statuses
  <2>4. evidence' \in [version : Nat, completed : BOOLEAN, outputs : BOOLEAN] /\ evidence'.version = evidence.version
    BY <1>a, <2>2
  <2> QED BY <1>a, <1>b, <2>2, <2>3, <2>4, HarnessMoves DEF SuiteTyped, Judged
<1>8. CASE StepFails
  <2>1. suite' = [suite EXCEPT !.at = "verdict", !.status = "failed"]
        /\ UNCHANGED <<bus, evidence>> /\ suite.at \notin Judged
    BY <1>8 DEF StepFails, EndWith, Keep, Judged
  <2> QED BY <1>a, <1>c, <1>d, <2>1 DEF SuiteStages, Statuses
<1>9. CASE Markers
  <2>1. suite.at = "markers" /\ UNCHANGED <<procs, bus, evidence>>
        /\ suite.at \notin Judged /\ ~suite.accepted
    BY <1>9, <1>b DEF Markers, Keep, Judged
  <2>2. ASSUME NEW status \in Statuses,
               suite' = [suite EXCEPT !.at = "verdict", !.status = status]
        PROVE  SuiteInv'
    <3>1. suite' \in SuiteState /\ suite'.at = "verdict" /\ ~suite'.accepted
      BY <1>a, <2>1, <2>2 DEF SuiteStages
    <3> QED BY <1>a, <2>1, <3>1 DEF SuiteInv, SuiteTyped, VerdictIsLast, QuietAfterCensus,
               PidfdIsOfBus, Judged
  <2>3. CASE /\ suite.mode = "async" /\ Completes
             /\ suite' = [suite EXCEPT
                   !.at = "next", !.pinned = evidence.version, !.case = @ + 1]
    <3>1. /\ suite' \in SuiteState /\ suite'.at = "next"
          /\ suite'.status = suite.status /\ suite'.accepted = suite.accepted
      <4>1. evidence.version \in Nat /\ suite.case + 1 \in Nat
        BY <1>a
      <4> QED BY <1>a, <2>3, <4>1 DEF SuiteStages
    <3> QED BY <1>c, <1>d, <2>1, <3>1
  <2>4. \/ \E status \in Statuses : suite' = [suite EXCEPT !.at = "verdict", !.status = status]
        \/ /\ suite.mode = "async" /\ Completes
           /\ suite' = [suite EXCEPT
                 !.at = "next", !.pinned = evidence.version, !.case = @ + 1]
    <3>1. suite.status \in Statuses /\ {"ok", "failed", "invalid_result"} \subseteq Statuses
      BY <1>a DEF Statuses
    <3> QED BY <1>9, <3>1 DEF Markers, EndWith
  <2> QED BY <2>2, <2>3, <2>4
<1>10. CASE Continuity
  <2>1. /\ suite.at = "next" /\ UNCHANGED <<procs, bus, evidence>>
        /\ suite.at \notin Judged /\ ~suite.accepted
    BY <1>10, <1>b DEF Continuity, Keep, Judged
  <2>2. PICK status \in {"ok", "stale_evidence"} :
            suite' = [suite EXCEPT !.at = "verdict", !.status = status]
    BY <1>10 DEF Continuity, EndWith
  <2>3. suite' \in SuiteState /\ suite'.at = "verdict" /\ ~suite'.accepted
    BY <1>a, <2>1, <2>2 DEF SuiteStages, Statuses
  <2> QED BY <1>a, <2>1, <2>3 DEF SuiteInv, SuiteTyped, VerdictIsLast, QuietAfterCensus,
             PidfdIsOfBus, Judged
<1>e. ASSUME suite' \in SuiteState, ~suite.accepted, ~suite'.accepted,
             suite.at \in Judged, suite'.at \in Judged, suite'.status \in {suite.status, "process_failed"},
             suite'.pinned = suite.pinned, suite'.mode = suite.mode, UNCHANGED evidence,
             bus' \in [up : BOOLEAN, number : {"bus", "free", "other", "none"},
                       fd : {"bus", "other", "none"}, signalled : SUBSET {"bus"}],
             PidfdIsOfBus',
             suite'.at \in {"envelope", "done"} /\ suite'.status = "ok" => procs' = {} /\ ~bus'.up
      PROVE  SuiteInv'
  <2>1. SuiteTyped'
    BY <1>a, <1>e DEF SuiteTyped
  <2>2. VerdictIsLast'
    BY <1>e DEF SuiteInv, VerdictIsLast, Judged
  <2> QED BY <1>e, <2>1, <2>2 DEF SuiteInv, QuietAfterCensus
<1>11. CASE StopBus
  <2>1. /\ suite' = [suite EXCEPT !.at = "identify"] /\ suite.at = "verdict"
        /\ bus' = [bus EXCEPT !.fd = bus.number] /\ bus.number \in {"bus", "other"}
        /\ UNCHANGED <<procs, evidence>>
    BY <1>11 DEF StopBus, Goto
  <2>2. /\ suite' \in SuiteState /\ suite'.at = "identify" /\ suite'.status = suite.status
        /\ suite'.pinned = suite.pinned /\ suite'.mode = suite.mode
        /\ suite'.accepted = suite.accepted
    BY <1>a, <2>1 DEF SuiteStages
  <2>3. bus' \in [up : BOOLEAN, number : {"bus", "free", "other", "none"},
                  fd : {"bus", "other", "none"}, signalled : SUBSET {"bus"}]
        /\ bus'.fd = bus.number /\ bus'.number = bus.number
    BY <1>a, <2>1
  <2> QED BY <1>b, <1>e, <2>1, <2>2, <2>3 DEF PidfdIsOfBus, Judged
<1>12. CASE BusUnavailable \/ Identify
  <2>1. /\ suite.at \in {"verdict", "identify"} /\ UNCHANGED <<procs, bus, evidence>>
        /\ \/ suite' = [suite EXCEPT !.at = "final", !.bus_failed = TRUE]
           \/ suite' = [suite EXCEPT !.at = "signal"] /\ suite.at = "identify"
              /\ bus.number = "bus"
    BY <1>12 DEF BusUnavailable, Identify, BusFailed, Goto, Keep
  <2>2. /\ suite' \in SuiteState /\ suite'.at \in {"final", "signal"}
        /\ suite'.status = suite.status /\ suite'.pinned = suite.pinned
        /\ suite'.mode = suite.mode /\ suite'.accepted = suite.accepted
        /\ suite'.at = "signal" => suite.at = "identify" /\ bus.number = "bus"
    BY <1>a, <2>1 DEF SuiteStages
  <2>3. PidfdIsOfBus'
    BY <2>1, <2>2 DEF SuiteInv, PidfdIsOfBus
  <2> QED BY <1>a, <1>b, <1>e, <2>1, <2>2, <2>3 DEF Judged
<1>13. CASE Signal
  <2>1. /\ suite.at = "signal" /\ UNCHANGED <<procs, evidence>>
        /\ \/ suite' = [suite EXCEPT !.at = "final"]
           \/ suite' = [suite EXCEPT !.at = "final", !.bus_failed = TRUE]
        /\ \/ bus' = [bus EXCEPT !.signalled = @ \cup {bus.fd}, !.up = FALSE,
                                 !.number = IF @ = "bus" THEN "free" ELSE @]
           \/ bus' = [bus EXCEPT !.signalled = @ \cup {bus.fd}]
    BY <1>13 DEF Signal, BusFailed, Goto
  <2>2. /\ suite' \in SuiteState /\ suite'.at = "final"
        /\ suite'.status = suite.status /\ suite'.pinned = suite.pinned
        /\ suite'.mode = suite.mode /\ suite'.accepted = suite.accepted
    BY <1>a, <2>1 DEF SuiteStages
  <2>3. bus' \in [up : BOOLEAN, number : {"bus", "free", "other", "none"},
                  fd : {"bus", "other", "none"}, signalled : SUBSET {"bus"}]
    <3>1. bus.fd = "bus"
      BY <2>1 DEF SuiteInv, PidfdIsOfBus
    <3>2. bus.signalled \cup {bus.fd} \in SUBSET {"bus"}
      BY <1>a, <3>1
    <3> QED BY ZenonT(30), <1>a, <2>1, <3>2
  <2> QED BY <1>b, <1>e, <2>1, <2>2, <2>3 DEF PidfdIsOfBus, Judged
<1>14. CASE FinalCensus
  <2>1. PICK status \in {suite.status, "process_failed"} :
            /\ suite' = [suite EXCEPT !.at = "envelope", !.status = status]
            /\ status = "ok" => procs = {} /\ ~bus.up
    BY <1>14 DEF FinalCensus
  <2>2. suite.at = "final" /\ UNCHANGED <<procs, bus, evidence>>
    BY <1>14 DEF FinalCensus, Keep
  <2>3. /\ suite' \in SuiteState /\ suite'.at = "envelope"
        /\ suite'.status = status /\ suite'.pinned = suite.pinned
        /\ suite'.mode = suite.mode /\ suite'.accepted = suite.accepted
    BY <1>a, <2>1 DEF SuiteStages, Statuses
  <2> QED BY <1>a, <1>b, <1>e, <2>1, <2>2, <2>3 DEF PidfdIsOfBus, Judged
<1>15. CASE Envelope
  <2>1. suite.at = "envelope" /\ UNCHANGED <<procs, bus, evidence>>
    BY <1>15 DEF Envelope, Keep
  <2>2. PICK accepted \in BOOLEAN :
            /\ suite' = [suite EXCEPT !.at = "done", !.accepted = accepted]
            /\ accepted => /\ suite.status = "ok" /\ evidence.outputs
                           /\ suite.mode = "async" => suite.pinned = evidence.version
    <3> DEFINE accepted == /\ suite.status = "ok"
                           /\ suite.mode = "async" => EvidenceKept
                           /\ NativeQuiet /\ evidence.outputs
    <3>1. accepted \in BOOLEAN
      OBVIOUS
    <3>2. suite' = [suite EXCEPT !.at = "done", !.accepted = accepted]
      BY <1>15 DEF Envelope
    <3> QED BY <3>1, <3>2 DEF EvidenceKept
  <2>3. /\ suite' \in SuiteState /\ suite'.at = "done"
        /\ suite'.status = suite.status /\ suite'.pinned = suite.pinned
        /\ suite'.mode = suite.mode
        /\ suite'.accepted => /\ suite.status = "ok" /\ evidence.outputs
                              /\ suite.mode = "async" => suite.pinned = evidence.version
    BY <1>a, <2>2 DEF SuiteStages
  <2> QED BY <1>a, <1>b, <2>1, <2>3 DEF SuiteInv, SuiteTyped, VerdictIsLast,
             QuietAfterCensus, PidfdIsOfBus, Judged
<1> QED
  BY <1>1, <1>2, <1>3, <1>4, <1>5, <1>6, <1>7, <1>8, <1>9, <1>10, <1>11, <1>12, <1>13,
     <1>14, <1>15 DEF HarnessStep

-----------------------------------------------------------------------------
(* The export, step by step: it fails, goes on, or moves the directory.     *)
LEMMA ExportMoves == ExportInv /\ ExportStep => ExportInv'
<1> SUFFICES ASSUME ExportInv, ExportStep PROVE ExportInv'
  OBVIOUS
<1> DEFINE ExportState == [at : ExportStages, pinned : BOOLEAN, promoted : BOOLEAN,
                           error : BOOLEAN, unclean : BOOLEAN, looked : Nat]
<1> DEFINE ContentState == [exists : BOOLEAN, files : SUBSET File, extra : BOOLEAN]
<1> DEFINE PlaceState == [{"staging", "public"} -> Holder]
<1>a. /\ export \in ExportState /\ path \in BOOLEAN /\ moves \in Nat
      /\ place \in PlaceState /\ content \in ContentState
      /\ UNCHANGED <<path, moves>>
  BY DEF ExportInv, ExportTyped, ExportStep
<1>b. /\ export.error <=> export.at \in Ending
      /\ export.at \in {"check", "rename", "recheck", "exported"} => Whole
      /\ export.promoted => export.at \in {"recheck", "exported"} \cup Ending
      /\ place["public"] = "ours" => export.promoted
      /\ export.looked <= moves
      /\ export.at = "rmdir" => place[Selected] = "ours" \/ moves > export.looked
  BY DEF ExportInv, PromotedIsWhole, LookedBefore
<1>c. UNCHANGED content => (Whole' <=> Whole)
  BY DEF Whole
(* A step before the end that does not fail.                                *)
<1>d. ASSUME export' \in ExportState, place' \in PlaceState, content' \in ContentState,
             ~export'.error, export'.at \notin Ending, export'.looked = export.looked,
             export'.at \in {"check", "rename", "recheck", "exported"} => Whole',
             export'.promoted => export'.at \in {"recheck", "exported"},
             place'["public"] = "ours" => export'.promoted
      PROVE  ExportInv'
  BY <1>a, <1>b, <1>d DEF ExportInv, ExportTyped, PromotedIsWhole, CleanedUp, LookedBefore, Ending
(* A step that fails, or one of the cleanup.                                *)
<1>e. ASSUME export' \in ExportState, place' \in PlaceState, content' \in ContentState,
             export'.error, export'.at \in Ending, export'.promoted = export.promoted,
             place'["public"] = "ours" => place["public"] = "ours",
             export'.looked \in {export.looked, moves},
             export'.at = "rmdir" => place'[Selected'] = "ours",
             export'.at = "done" /\ export'.pinned /\ ~export'.unclean =>
                 ~content'.exists \/ moves > export'.looked
      PROVE  ExportInv'
  BY <1>a, <1>b, <1>e DEF ExportInv, ExportTyped, PromotedIsWhole, CleanedUp, LookedBefore, Ending
<1>1. ASSUME Fail, export.at \notin Ending PROVE ExportInv'
  <2>1. /\ export' = [export EXCEPT !.error = TRUE,
                                    !.at = IF export.pinned THEN "unlink" ELSE "done"]
        /\ UNCHANGED <<place, content>>
    BY <1>1 DEF Fail
  <2>2. /\ export' \in ExportState /\ export'.error /\ export'.promoted = export.promoted
        /\ export'.at = IF export.pinned THEN "unlink" ELSE "done"
        /\ export'.pinned = export.pinned /\ export'.looked = export.looked
    BY <1>a, <2>1 DEF ExportStages
  <2> QED BY <1>a, <1>e, <2>1, <2>2 DEF Ending
<1>2. ASSUME NEW at \in ExportStages \ Ending, To(at), export.at \notin Ending,
             at \in {"check", "rename", "recheck", "exported"} => Whole,
             export.promoted => at \in {"recheck", "exported"}
      PROVE  ExportInv'
  <2>1. export' = [export EXCEPT !.at = at] /\ UNCHANGED <<place, content>>
    BY <1>2 DEF To
  <2>2. /\ export' \in ExportState /\ export'.error = export.error
        /\ export'.promoted = export.promoted
        /\ export'.at = at /\ export'.looked = export.looked
    BY <1>a, <2>1
  <2>3. /\ ~export'.error /\ export'.at \notin Ending
        /\ place' \in PlaceState /\ content' \in ContentState
        /\ export'.at \in {"check", "rename", "recheck", "exported"} => Whole'
        /\ export'.promoted => export'.at \in {"recheck", "exported"}
        /\ place'["public"] = "ours" => export'.promoted
    BY <1>a, <1>b, <1>c, <1>2, <2>1, <2>2
  <2> QED BY <1>d, <2>2, <2>3
<1>3. CASE Look
  <2>1. export.at = "look" /\ (Fail \/ To("make"))
    BY <1>3 DEF Look
  <2> QED BY <1>b, <1>1, <1>2, <2>1 DEF Ending, ExportStages
<1>4. CASE Make
  <2>1. export.at = "make" /\ export.at \notin Ending
    BY <1>4 DEF Make, Ending
  <2>2. CASE /\ place' = [place EXCEPT !["staging"] = "ours"]
             /\ content' = [content EXCEPT !.exists = TRUE]
             /\ export' = [export EXCEPT !.at = "pin"]
    <3>1. /\ export' \in ExportState /\ export'.error = export.error
          /\ export'.promoted = export.promoted /\ export'.at = "pin"
          /\ export'.looked = export.looked
      BY <1>a, <2>2 DEF ExportStages
    <3>2. content' \in ContentState
      BY <1>a, <2>2
    <3>3. place' \in PlaceState /\ place'["public"] = place["public"]
      BY <1>a, <2>2 DEF Holder
    <3> QED BY <1>b, <1>d, <2>1, <3>1, <3>2, <3>3 DEF Ending
  <2> QED BY <1>1, <1>4, <2>1, <2>2 DEF Make
<1>5. CASE Pin
  <2>1. export.at = "pin" /\ export.at \notin Ending
    BY <1>5 DEF Pin, Ending
  <2>2. ASSUME export' = [export EXCEPT !.at = "write", !.pinned = TRUE],
               place' \in {place, [place EXCEPT !["staging"] = "ours"]},
               NEW extra \in BOOLEAN,
               content' \in {content, [content EXCEPT !.extra = extra]}
        PROVE  ExportInv'
    <3>1. /\ export' \in ExportState /\ export'.error = export.error
          /\ export'.promoted = export.promoted /\ export'.at = "write"
          /\ export'.looked = export.looked
      BY <1>a, <2>2 DEF ExportStages
    <3>2. content' \in ContentState
      BY <1>a, <2>2
    <3>3. place' \in PlaceState /\ place'["public"] = place["public"]
      BY <1>a, <2>2 DEF Holder
    <3> QED BY <1>b, <1>d, <2>1, <3>1, <3>2, <3>3 DEF Ending
  <2>3. CASE /\ place["staging"] = "ours" /\ UNCHANGED <<place, content>>
             /\ export' = [export EXCEPT !.at = "write", !.pinned = TRUE]
    BY <2>2, <2>3
  <2>4. CASE /\ content' = [content EXCEPT !.extra = (place["staging"] = "other")]
             /\ place' = [place EXCEPT !["staging"] = "ours"]
             /\ export' = [export EXCEPT !.at = "write", !.pinned = TRUE]
    <3>1. (place["staging"] = "other") \in BOOLEAN
      OBVIOUS
    <3> QED BY <2>2, <2>4, <3>1
  <2> QED BY <1>1, <1>5, <2>1, <2>3, <2>4 DEF Pin
<1>6. CASE Write
  <2>1. export.at = "write" /\ export.at \notin Ending
    BY <1>6 DEF Write, Ending
  <2>2. CASE Whole /\ To("check")
    BY <1>b, <1>2, <2>1, <2>2 DEF Ending, ExportStages
  <2>3. ASSUME NEW f \in File, content' = [content EXCEPT !.files = @ \cup {f}],
               UNCHANGED <<export, place>>
        PROVE  ExportInv'
    <3>1. content' \in ContentState
      BY <1>a, <2>3
    <3> QED BY <1>a, <1>b, <1>d, <2>1, <2>3, <3>1 DEF Ending
  <2> QED BY <1>1, <1>6, <2>1, <2>2, <2>3 DEF Write
<1>7. CASE CheckStaging
  <2>1. export.at = "check" /\ (Fail \/ To("rename"))
    BY <1>7 DEF CheckStaging
  <2> QED BY <1>b, <1>1, <1>2, <2>1 DEF Ending, ExportStages
<1>8. CASE Rename
  <2>1. export.at = "rename" /\ export.at \notin Ending
    BY <1>8 DEF Rename, Ending
  <2>2. CASE /\ place' = [staging |-> "none", public |-> place["staging"]]
             /\ export' = [export EXCEPT !.at = "recheck", !.promoted = TRUE]
             /\ UNCHANGED content
    <3>1. /\ export' \in ExportState /\ export'.error = export.error
          /\ export'.promoted /\ export'.at = "recheck" /\ export'.looked = export.looked
      BY <1>a, <2>2 DEF ExportStages
    <3>2. place["staging"] \in Holder /\ "none" \in Holder
      BY <1>a DEF Holder
    <3>3. place' \in PlaceState
      <4>1. ASSUME NEW h \in Holder
            PROVE  [staging |-> "none", public |-> h] \in PlaceState
        BY <3>2
      <4> QED BY <2>2, <3>2, <4>1
    <3>4. content' \in ContentState /\ Whole'
      BY <1>a, <1>b, <1>c, <2>1, <2>2
    <3> QED BY <1>b, <1>d, <2>1, <3>1, <3>3, <3>4 DEF Ending
  <2> QED BY <1>1, <1>8, <2>1, <2>2 DEF Rename
<1>9. CASE CheckPublic
  <2>1. export.at = "recheck" /\ (Fail \/ To("exported"))
    BY <1>9 DEF CheckPublic
  <2> QED BY <1>b, <1>1, <1>2, <2>1 DEF Ending, ExportStages
<1>10. CASE Unlink
  <2>1. PICK left \in SUBSET content.files, extra \in {FALSE, content.extra} :
            /\ content' = [content EXCEPT !.files = left, !.extra = extra]
            /\ export' = [export EXCEPT !.at = "stat", !.unclean = left # {}]
    BY <1>10 DEF Unlink
  <2>2. export.at = "unlink" /\ UNCHANGED place
    BY <1>10 DEF Unlink
  <2>3. (left # {}) \in BOOLEAN /\ extra \in BOOLEAN /\ left \in SUBSET File
    BY <1>a, <2>1
  <2>4. /\ export' \in ExportState /\ export'.error = export.error
        /\ export'.promoted = export.promoted /\ export'.at = "stat"
        /\ export'.looked = export.looked
    BY <1>a, <2>1, <2>3 DEF ExportStages
  <2>5. content' \in ContentState
    BY <1>a, <2>1, <2>3
  <2> QED BY <1>a, <1>b, <1>e, <2>2, <2>4, <2>5 DEF Ending
<1>11. ASSUME Unclean, export.at \in {"stat", "rmdir"} PROVE ExportInv'
  <2>1. /\ export' = [export EXCEPT !.at = "done", !.unclean = TRUE]
        /\ UNCHANGED <<place, content>>
    BY <1>11 DEF Unclean
  <2>2. /\ export' \in ExportState /\ export'.error = export.error
        /\ export'.promoted = export.promoted /\ export'.at = "done" /\ export'.unclean
        /\ export'.looked = export.looked
    BY <1>a, <2>1 DEF ExportStages
  <2> QED BY <1>a, <1>b, <1>e, <1>11, <2>1, <2>2 DEF Ending
<1>12. CASE Stat
  <2>1. export.at = "stat"
    BY <1>12 DEF Stat
  <2>2. CASE /\ place[Selected] = "ours"
             /\ export' = [export EXCEPT !.at = "rmdir", !.looked = moves]
             /\ UNCHANGED <<place, content>>
    <3>1. /\ export' \in ExportState /\ export'.error = export.error
          /\ export'.promoted = export.promoted /\ export'.at = "rmdir"
          /\ export'.looked = moves
      BY <1>a, <2>2 DEF ExportStages
    <3>2. place'[Selected'] = "ours"
      BY <2>2, <3>1 DEF Selected
    <3> QED BY <1>a, <1>b, <1>e, <2>1, <2>2, <3>1, <3>2 DEF Ending
  <2> QED BY <1>11, <1>12, <2>1, <2>2 DEF Stat
<1>13. CASE Remove
  <2>1. export.at = "rmdir"
    BY <1>13 DEF Remove
  <2>2. CASE /\ \/ content' = [content EXCEPT !.exists = FALSE]
                \/ place[Selected] = "empty" /\ UNCHANGED content
             /\ place' = [place EXCEPT ![Selected] = "none"]
             /\ export' = [export EXCEPT !.at = "done"]
    <3>1. /\ export' \in ExportState /\ export'.error = export.error
          /\ export'.promoted = export.promoted /\ export'.at = "done"
          /\ export'.looked = export.looked
      BY <1>a, <2>2 DEF ExportStages
    <3>2. /\ content' \in ContentState
          /\ ~content'.exists \/ place[Selected] = "empty"
      BY <1>a, <2>2
    <3>3. /\ place' \in PlaceState /\ place'["public"] \in {place["public"], "none"}
      BY <1>a, <2>2 DEF Selected, Holder
    <3>4. ~content'.exists \/ moves > export'.looked
      BY <1>b, <2>1, <3>1, <3>2
    <3>5. place'["public"] = "ours" => place["public"] = "ours"
      BY <3>3
    <3> QED BY <1>b, <1>e, <2>1, <3>1, <3>2, <3>3, <3>4, <3>5 DEF Ending
  <2> QED BY <1>11, <1>13, <2>1, <2>2 DEF Remove
<1> QED
  BY <1>3, <1>4, <1>5, <1>6, <1>7, <1>8, <1>9, <1>10, <1>12, <1>13 DEF ExportStep

(* Others put our directory only where the export would look for it.        *)
LEMMA OthersMoveKeeps == ExportInv /\ OthersMove => ExportInv' /\ moves' > moves
<1> SUFFICES ASSUME ExportInv, OthersMove PROVE ExportInv' /\ moves' > moves
  OBVIOUS
<1>1. /\ moves \in Nat /\ moves' = moves + 1 /\ UNCHANGED <<export, content>>
      /\ path \in BOOLEAN /\ place \in [{"staging", "public"} -> Holder]
      /\ export.looked \in Nat
  BY DEF OthersMove, ExportInv, ExportTyped
<1>2. /\ path' \in BOOLEAN
      /\ place' \in [{"staging", "public"} -> Holder]
      /\ place'["public"] = "ours" => place["public"] = "ours" \/ export.promoted
  <2>1. CASE path' = ~path /\ UNCHANGED place
    BY <1>1, <2>1
  <2>2. ASSUME NEW name \in {"public", "staging"}, NEW holder \in Holder,
               holder = "ours" => name = Selected,
               place' = [place EXCEPT ![name] = holder], UNCHANGED path
        PROVE  /\ path' \in BOOLEAN
               /\ place' \in [{"staging", "public"} -> Holder]
               /\ place'["public"] = "ours" => place["public"] = "ours" \/ export.promoted
    BY <1>1, <2>2 DEF Selected
  <2> QED BY <2>1, <2>2 DEF OthersMove
<1>3. ExportTyped' /\ PromotedIsWhole'
  BY <1>1, <1>2 DEF ExportInv, ExportTyped, PromotedIsWhole, Whole
<1>4. export.looked <= moves /\ moves' > export'.looked /\ export'.looked <= moves'
  BY <1>1 DEF ExportInv, LookedBefore
<1>5. CleanedUp' /\ LookedBefore'
  BY <1>1, <1>4 DEF CleanedUp, LookedBefore
<1> QED
  BY <1>1, <1>3, <1>5 DEF ExportInv

-----------------------------------------------------------------------------
(* The parts together.                                                      *)
LEMMA HarnessInit == Init => HarnessInv
<1> SUFFICES ASSUME Init PROVE HarnessInv
  OBVIOUS
<1>1. ContainerInv
  BY ContainerAssumption DEF Init, ContainerInit, ContainerInv, ContainerTyped, CreateIsFinal,
     MineExists, ReportsAreSound, HasAnswer, Stages, Work, Cleanup, Mine, Answer, Idle
<1>2. SuiteInv
  <2>1. /\ suite \in [at : {"baseline"}, mode : Modes, case : {0}, status : {"running"},
                      exited : {FALSE}, quiet : {FALSE}, pinned : {0},
                      bus_failed : {FALSE}, accepted : {FALSE}]
        /\ bus = [up |-> TRUE, number |-> "bus", fd |-> "none", signalled |-> {}]
        /\ evidence = [version |-> 0, completed |-> FALSE, outputs |-> TRUE]
    BY DEF Init, SuiteInit
  <2>2. suite = [at |-> "baseline", mode |-> suite.mode, case |-> 0, status |-> "running",
                 exited |-> FALSE, quiet |-> FALSE, pinned |-> 0,
                 bus_failed |-> FALSE, accepted |-> FALSE] /\ suite.mode \in Modes
    BY <2>1
  <2>3. SuiteTyped
    <3>1. "baseline" \in SuiteStages /\ "running" \in Statuses
      BY DEF SuiteStages, Statuses
    <3>2. suite \in [at : SuiteStages, mode : Modes, case : Nat, status : Statuses,
                     exited : BOOLEAN, quiet : BOOLEAN, pinned : Nat,
                     bus_failed : BOOLEAN, accepted : BOOLEAN]
      <4>1. ASSUME NEW mode \in Modes
            PROVE  [at |-> "baseline", mode |-> mode, case |-> 0, status |-> "running",
                    exited |-> FALSE, quiet |-> FALSE, pinned |-> 0,
                    bus_failed |-> FALSE, accepted |-> FALSE]
                   \in [at : SuiteStages, mode : Modes, case : Nat, status : Statuses,
                       exited : BOOLEAN, quiet : BOOLEAN, pinned : Nat,
                       bus_failed : BOOLEAN, accepted : BOOLEAN]
        BY <3>1
      <4> QED BY <2>2, <4>1
    <3>3. bus \in [up : BOOLEAN, number : {"bus", "free", "other", "none"},
                   fd : {"bus", "other", "none"}, signalled : SUBSET {"bus"}]
      BY <2>1
    <3>4. evidence \in [version : Nat, completed : BOOLEAN, outputs : BOOLEAN]
      BY <2>1
    <3> QED BY <3>2, <3>3, <3>4 DEF SuiteTyped
  <2> QED BY <2>1, <2>2, <2>3 DEF SuiteInv, VerdictIsLast, QuietAfterCensus, PidfdIsOfBus
<1>3. ExportInv
  <2>1. place = [staging |-> "none", public |-> "none"]
    BY DEF Init, ExportInit
  <2>2. /\ place \in [{"staging", "public"} -> Holder]
        /\ place["public"] = "none"
    BY <2>1 DEF Holder
  <2>3. /\ export = [at |-> "look", pinned |-> FALSE, promoted |-> FALSE, error |-> FALSE,
                     unclean |-> FALSE, looked |-> 0]
        /\ content = [exists |-> FALSE, files |-> {}, extra |-> FALSE]
        /\ path \in BOOLEAN /\ moves = 0
    BY DEF Init, ExportInit
  <2> QED BY <2>2, <2>3 DEF ExportInv, ExportTyped, PromotedIsWhole, CleanedUp, LookedBefore,
             ExportStages, Ending
<1>4. SmokeInv
  <2>1. /\ smoke = [at |-> "pull", accepted |-> FALSE, cleaned |-> FALSE, retained |-> FALSE,
                    removed |-> FALSE, looked |-> 0, ready |-> FALSE]
        /\ moves = 0
    BY DEF Init, ExportInit
  <2> QED BY <2>1 DEF SmokeInv, SmokeTyped, StagesAreEarned, LookedAtWhole, SmokeStages
<1> QED BY <1>1, <1>2, <1>3, <1>4 DEF HarnessInv

(* With the container goes everything that ran in it.                       *)
LEMMA VanishKeeps == SuiteInv /\ Vanish => SuiteInv'
<1> SUFFICES ASSUME SuiteInv, Vanish PROVE SuiteInv'
  OBVIOUS
<1>1. /\ suite' \in [at : SuiteStages, mode : Modes, case : Nat, status : Statuses,
                     exited : BOOLEAN, quiet : BOOLEAN, pinned : Nat,
                     bus_failed : BOOLEAN, accepted : BOOLEAN]
      /\ suite'.at = "gone" /\ suite'.status = "running" /\ suite'.pinned = 0
      /\ ~suite'.accepted
  BY DEF SuiteInv, SuiteTyped, Vanish, SuiteStages, Statuses, Modes
<1>2. bus' = [up |-> FALSE, number |-> "none", fd |-> "none", signalled |-> {}]
      /\ evidence' = [version |-> 0, completed |-> FALSE, outputs |-> TRUE]
  BY DEF Vanish
<1> QED
  BY <1>1, <1>2 DEF SuiteInv, SuiteTyped, VerdictIsLast, QuietAfterCensus, PidfdIsOfBus

(* A step of the host between the parts.                                    *)
LEMMA SmokeSteps ==
    ASSUME SuiteInv, ExportInv, SmokeInv, HostSteps, ~Export
    PROVE  SuiteInv' /\ SmokeInv' /\ UNCHANGED exportVars
<1> DEFINE SmokeState == [at : SmokeStages, accepted : BOOLEAN, cleaned : BOOLEAN,
                          retained : BOOLEAN, removed : BOOLEAN, looked : Nat, ready : BOOLEAN]
<1>a. smoke \in SmokeState /\ moves \in Nat
  BY DEF SmokeInv, SmokeTyped, ExportInv, ExportTyped
<1>b. UNCHANGED exportVars /\ (Seen("public")' <=> Seen("public")) /\ moves' = moves
  <2>1. UNCHANGED exportVars
    BY DEF HostSteps, StartContainer, ReceiveEnvelope, RunFails, RemoveContainer, Compare,
       ClearPrivate, ExportEnds, Revoke, VerifyOutput, Announce
  <2> QED BY <2>1 DEF exportVars, Seen, Whole
<1>c. UNCHANGED suiteVars => SuiteInv'
  BY DEF suiteVars, SuiteInv, SuiteTyped, VerdictIsLast, QuietAfterCensus, PidfdIsOfBus
<1>d. \/ UNCHANGED suiteVars
      \/ Vanish
  BY DEF HostSteps, StartContainer, ReceiveEnvelope, RunFails, RemoveContainer, Compare,
     ClearPrivate, ExportEnds, Revoke, VerifyOutput, Announce
<1>e. SuiteInv'
  BY <1>c, <1>d, VanishKeeps
<1> USE DEF SmokeInv, SmokeTyped, StagesAreEarned, LookedAtWhole
<1>1. CASE StartContainer
  <2>1. smoke.at = "pull" /\ \E at \in {"run", "clear"} : smoke' = [smoke EXCEPT !.at = at]
    BY <1>1 DEF StartContainer, Advance
  <2>2. box' = "up" \/ box' = box
    BY <1>1 DEF StartContainer
  <2> QED BY <1>a, <1>b, <1>e, <2>1, <2>2 DEF SmokeStages
<1>2. CASE ReceiveEnvelope
  <2>1. PICK accepted \in BOOLEAN :
            smoke' = [smoke EXCEPT !.at = "remove", !.accepted = accepted]
    <3>1. \A valid \in BOOLEAN : (suite.accepted /\ valid) \in BOOLEAN
      OBVIOUS
    <3> QED BY <1>2, <3>1 DEF ReceiveEnvelope
  <2>2. smoke.at = "run" /\ UNCHANGED box
    BY <1>2 DEF ReceiveEnvelope
  <2> QED BY <1>a, <1>b, <1>e, <2>1, <2>2 DEF SmokeStages
<1>3. CASE RunFails
  BY <1>a, <1>b, <1>e, <1>3 DEF RunFails, Advance, SmokeStages
<1>4. CASE RemoveContainer
  <2>1. PICK cleaned \in BOOLEAN, removed \in BOOLEAN :
            /\ cleaned => removed
            /\ smoke' = [smoke EXCEPT !.at = IF smoke.accepted /\ cleaned
                                             THEN "compare" ELSE "clear",
                                      !.cleaned = cleaned]
            /\ removed => box' = "gone"
    BY <1>4 DEF RemoveContainer
  <2>2. smoke.at = "remove"
    BY <1>4 DEF RemoveContainer
  <2> QED BY <1>a, <1>b, <1>e, <2>1, <2>2 DEF SmokeStages
<1>5. CASE Compare
  <2>1. PICK held \in BOOLEAN : smoke' = [smoke EXCEPT !.at = "clear", !.retained = held]
    BY <1>5 DEF Compare
  <2>2. smoke.at = "compare" /\ UNCHANGED box
    BY <1>5 DEF Compare
  <2> QED BY <1>a, <1>b, <1>e, <2>1, <2>2 DEF SmokeStages
<1>6. CASE ClearPrivate
  <2>1. PICK removed \in BOOLEAN :
            smoke' = [smoke EXCEPT !.at = IF smoke.retained /\ removed THEN "export" ELSE "done",
                                   !.removed = removed]
    BY <1>6 DEF ClearPrivate
  <2>2. smoke.at = "clear" /\ UNCHANGED box
    BY <1>6 DEF ClearPrivate
  <2> QED BY <1>a, <1>b, <1>e, <2>1, <2>2 DEF SmokeStages
<1>7. CASE ExportEnds \/ Revoke
  <2>1. PICK at \in {"main", "done"} : smoke' = [smoke EXCEPT !.at = at]
    BY <1>7 DEF ExportEnds, Revoke, Advance
  <2>2. smoke.at \in {"export", "main"} /\ UNCHANGED box
    BY <1>7 DEF ExportEnds, Revoke
  <2> QED BY <1>a, <1>b, <1>e, <2>1, <2>2 DEF SmokeStages
<1>8. CASE VerifyOutput
  <2>1. /\ smoke.at = "main" /\ Seen("public") /\ UNCHANGED box
        /\ smoke' = [smoke EXCEPT !.at = "announce", !.looked = moves]
    BY <1>8 DEF VerifyOutput
  <2>2. /\ smoke' \in SmokeState /\ smoke'.at = "announce" /\ smoke'.looked = moves
        /\ smoke'.accepted = smoke.accepted /\ smoke'.cleaned = smoke.cleaned
        /\ smoke'.retained = smoke.retained /\ smoke'.removed = smoke.removed
        /\ smoke'.ready = smoke.ready
    BY <1>a, <2>1 DEF SmokeStages
  <2> QED BY <1>a, <1>b, <1>e, <2>1, <2>2
<1>9. CASE Announce
  BY <1>a, <1>b, <1>e, <1>9 DEF Announce, SmokeStages
<1> QED
  BY <1>1, <1>2, <1>3, <1>4, <1>5, <1>6, <1>7, <1>8, <1>9 DEF HostSteps

(* Every step of the composition keeps the invariant. *)
LEMMA HarnessStepInv == HarnessInv /\ [Next]_vars => HarnessInv'
<1> SUFFICES ASSUME HarnessInv, [Next]_vars PROVE HarnessInv'
  OBVIOUS
<1> USE DEF HarnessInv
<1>a. UNCHANGED containerVars => ContainerInv'
  BY DEF containerVars, ContainerInv, ContainerTyped, CreateIsFinal, MineExists,
     ReportsAreSound, HasAnswer
<1>b. UNCHANGED suiteVars => SuiteInv'
  BY DEF suiteVars, SuiteInv, SuiteTyped, VerdictIsLast, QuietAfterCensus, PidfdIsOfBus
<1>c. UNCHANGED exportVars => ExportInv'
  BY DEF exportVars, ExportInv, ExportTyped, PromotedIsWhole, CleanedUp, LookedBefore, Whole,
     Selected
<1>d. UNCHANGED <<smokeVars, exportVars>> => SmokeInv'
  BY DEF smokeVars, exportVars, SmokeInv, SmokeTyped, StagesAreEarned, LookedAtWhole, Seen, Whole
<1>1. CASE OwnedNext
  BY <1>1, <1>b, <1>c, <1>d, ContainerStep DEF OwnedNext
<1>2. ASSUME entry = "smoke", UNCHANGED containerVars, HostSteps PROVE HarnessInv'
  <2>1. CASE Export
    <3>1. ExportInv'
      BY <2>1, ExportMoves DEF Export
    <3>2. smoke.at = "export" /\ UNCHANGED <<smokeVars, suiteVars, moves>>
      BY <2>1 DEF Export, ExportStep
    <3>3. SmokeInv'
      BY <3>2 DEF smokeVars, SmokeInv, SmokeTyped, StagesAreEarned, LookedAtWhole
    <3> QED BY <1>2, <1>a, <1>b, <3>1, <3>2, <3>3
  <2> QED BY <1>2, <1>a, <1>c, <2>1, SmokeSteps
<1>3. ASSUME InTheContainer, UNCHANGED containerVars PROVE HarnessInv'
  BY <1>3, <1>a, <1>c, <1>d, SystemMoves, HarnessStepKeeps DEF InTheContainer, SuiteNext
<1>4. ASSUME OthersMove, UNCHANGED <<smokeVars, suiteVars, containerVars>> PROVE HarnessInv'
  <2>1. ExportInv' /\ moves' > moves /\ moves \in Nat /\ moves' \in Nat
    BY <1>4, OthersMoveKeeps DEF ExportInv, ExportTyped
  <2>2. SmokeInv'
    BY <1>4, <2>1 DEF smokeVars, SmokeInv, SmokeTyped, StagesAreEarned, LookedAtWhole
  <2> QED BY <1>4, <1>a, <1>b, <2>1, <2>2
<1>5. CASE UNCHANGED vars
  BY <1>5, <1>a, <1>b, <1>c, <1>d DEF vars, smokeVars
<1> QED
  BY <1>1, <1>2, <1>3, <1>4, <1>5 DEF Next, SmokeNext

(* The invariant holds of every behaviour of both entry points.             *)
THEOREM HarnessInvariant == Spec => []HarnessInv
<1> QED
  BY HarnessInit, HarnessStepInv, PTL DEF Spec

(* What run_owned reports is true: a cleanup that it calls verified means   *)
(* that the container is gone and cannot come back, a reap that no command  *)
(* is left, a result that it is the container's own exit code.              *)
THEOREM OwnedReportsAreTrue == Spec => []ReportIsTrue
<1>1. HarnessInv => ReportIsTrue
  BY DEF HarnessInv, ContainerInv, CreateIsFinal, ReportsAreSound, ReportIsTrue
<1> QED
  BY <1>1, HarnessInvariant, PTL

(* An accepted envelope is settled: nothing that ran in the container is    *)
(* left to change what it says (final_client_process_census), the server    *)
(* outputs are those of the report (build_envelope), and the client's files *)
(* of the async measurement are those that were read                        *)
(* (final_async_evidence_check).                                            *)
THEOREM AcceptedStaysSettled == Spec => []AcceptedIsSettled
<1>1. HarnessInv => AcceptedIsSettled
  BY DEF HarnessInv, SuiteInv, QuietAfterCensus, AcceptedIsSettled
<1> QED
  BY <1>1, HarnessInvariant, PTL

(* The artifact is announced only after every stage before it held, and it  *)
(* is whole under the public name but for what others moved since.          *)
THEOREM ReadyStaysEarned == Spec => []ReadyIsEarned
<1>1. HarnessInv => ReadyIsEarned
  <2> SUFFICES ASSUME HarnessInv PROVE ReadyIsEarned
    OBVIOUS
  <2>1. ArtifactIsWhole
    BY DEF HarnessInv, ExportInv, PromotedIsWhole, CleanedUp, LookedBefore, ArtifactIsWhole, Ending
  <2> QED BY <2>1 DEF HarnessInv, SmokeInv, StagesAreEarned, LookedAtWhole, ReadyIsEarned
<1> QED
  BY <1>1, HarnessInvariant, PTL

(* Nothing that belongs to others is touched: a container of the same name, *)
(* what is under the public name, a process with the number of the dead bus.*)
THEOREM OthersStayUntouched == Spec => OthersLeftAlone
<1>1. HarnessInv /\ HarnessInv' /\ [Next]_vars =>
          [NamesakesLeftAlone' /\ OthersKept /\ bus'.signalled \subseteq {"bus"}]_vars
  <2> SUFFICES ASSUME HarnessInv, HarnessInv', Next
               PROVE  NamesakesLeftAlone' /\ OthersKept /\ bus'.signalled \subseteq {"bus"}
    OBVIOUS
  <2>1. NamesakesLeftAlone' /\ bus'.signalled \subseteq {"bus"}
    BY DEF HarnessInv, ContainerInv, ContainerTyped, NamesakesLeftAlone, SuiteInv, SuiteTyped
  <2>2. OthersKept
    <3>1. SUFFICES ASSUME moves' = moves, place["public"] \in {"empty", "other"},
                          place'["public"] # place["public"]
                   PROVE  /\ place["public"] = "empty" /\ export.at = "rmdir" /\ export.promoted
                          /\ moves > export.looked
      BY DEF OthersKept
    <3>2. ~OthersMove
      BY <3>1, OthersMoveKeeps DEF HarnessInv, ExportInv, ExportTyped
    <3>3. ExportStep
      BY <3>1, <3>2 DEF Next, OwnedNext, SmokeNext, HostSteps, StartContainer, ReceiveEnvelope,
         RunFails, RemoveContainer, Compare, ClearPrivate, Export, ExportEnds, Revoke,
         VerifyOutput, Announce, InTheContainer, exportVars
    <3>4. place \in [{"staging", "public"} -> Holder]
      BY DEF HarnessInv, ExportInv, ExportTyped
    <3>5. Remove
      BY <3>1, <3>3, <3>4 DEF ExportStep, Look, Make, Pin, Write, CheckStaging, Rename,
         CheckPublic, Unlink, Stat, Fail, To, Unclean
    <3>6. /\ export.at = "rmdir" /\ place[Selected] \in {"ours", "empty"}
          /\ place' = [place EXCEPT ![Selected] = "none"]
      BY <3>1, <3>5 DEF Remove, Unclean
    <3>7. export.promoted /\ Selected = "public"
      BY <3>1, <3>4, <3>6 DEF Selected
    <3> QED BY <3>1, <3>6, <3>7 DEF HarnessInv, ExportInv, LookedBefore
  <2> QED BY <2>1, <2>2
<1> QED
  BY <1>1, HarnessInvariant, PTL DEF Spec, OthersLeftAlone
=============================================================================
