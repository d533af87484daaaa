------------------------------ MODULE NativeSuite ------------------------------
(***************************************************************************)
(* The client part of the native suite inside its container:               *)
(* run_client_probe, run_client_watchdog and run_client_async with their   *)
(* process runners (scripts/native_1c_bootstrap/full_suite.py), and the    *)
(* exit trap of scripts/native_1c_smoke_probe.sh that stops the session    *)
(* bus, takes the final census and builds the envelope.                    *)
(*                                                                         *)
(* The native program is external: while it, a descendant or a service the *)
(* bus started for it lives, it may write evidence, fork, leave the        *)
(* process group, or exit.  The client's files are one version number,     *)
(* the captures of the server cases, which are in the same container, are  *)
(* as the report says or not; a census sees every process, for it reads    *)
(* the process numbers upwards and a fork only adds higher ones.           *)
(***************************************************************************)
EXTENDS Naturals

CONSTANTS
    Cases,      \* launches of the Async measurement
    MaxWrites   \* writes of the native program that are followed

ASSUME SuiteAssumption == Cases \in Nat \ {0} /\ MaxWrites \in Nat

VARIABLES
    suite,     \* the harness: at, mode, case, status, pinned, ...
    procs,     \* processes that are neither baseline nor harness
    bus,       \* the session bus, its process number and what stops it
    evidence   \* version of the client's files, is `completed' there, and are
               \* the server outputs those of the report

suiteVars == <<suite, procs, bus, evidence>>

Modes == {"probe", "watchdog", "async"}
Group == {"leader", "child"}               \* the launched process group
Process == Group \cup {"escaped", "service"}

Goto(stage) == suite' = [suite EXCEPT !.at = stage]
EndWith(kind) == suite' = [suite EXCEPT !.at = "verdict", !.status = kind]
Keep == UNCHANGED <<procs, bus, evidence>>

-----------------------------------------------------------------------------
(* What may happen beside the harness. *)

Writes ==
    /\ procs # {}
    /\ evidence.version < MaxWrites
    /\ \E complete \in {evidence.completed, TRUE}, same \in {evidence.outputs, FALSE} :
          evidence' = [version |-> evidence.version + 1, completed |-> complete,
                       outputs |-> same]
    /\ UNCHANGED <<suite, procs, bus>>

Forks == \* a child of the leader; an escaped one has called setsid
    /\ procs \cap Group # {}
    /\ \E p \in {"child", "escaped"} : procs' = procs \cup {p}
    /\ UNCHANGED <<suite, bus, evidence>>

Activates == \* D-Bus starts a service at its clients' request
    /\ bus.up
    /\ procs' = procs \cup {"service"}
    /\ UNCHANGED <<suite, bus, evidence>>

Exits ==
    /\ \E p \in procs : procs' = procs \ {p}
    /\ UNCHANGED <<suite, bus, evidence>>

BusDies == \* the shell reaps it, and its process number is free
    /\ bus.up
    /\ bus' = [bus EXCEPT !.up = FALSE, !.number = "free"]
    /\ UNCHANGED <<suite, procs, evidence>>

NumberReused ==
    /\ bus.number = "free"
    /\ bus' = [bus EXCEPT !.number = "other"]
    /\ UNCHANGED <<suite, procs, evidence>>

-----------------------------------------------------------------------------
(* require_session_bus, native_processes_quiet, async_require_snapshot.      *)
BusIsOurs == bus.up
NativeQuiet == procs \cap (Group \cup {"escaped"}) = {}
EvidenceKept == suite.pinned = evidence.version

(* client_process_baseline: nothing but the baseline before a launch.       *)
Baseline ==
    /\ suite.at = "baseline"
    /\ IF BusIsOurs /\ procs = {} THEN Goto("launch") ELSE EndWith("process_failed")
    /\ Keep

Launch ==
    /\ suite.at = "launch"
    /\ Goto("wait")
    /\ procs' = procs \cup {"leader"}
    /\ UNCHANGED <<bus, evidence>>

(* child.wait: the leader is gone, with exit code zero or not. *)
LeaderGone ==
    /\ suite.at = "wait"
    /\ "leader" \notin procs
    /\ \E zero \in BOOLEAN :
          suite' = [suite EXCEPT !.at = "tree", !.exited = zero]
    /\ Keep

(* _stop_group kills the group and waits for it to vanish; a group that     *)
(* stays is a failure of its own, which the timeout overrides.              *)
Stopped == procs' \in {procs \ Group, procs}

Timeout ==
    /\ suite.at = "wait"
    /\ "leader" \in procs
    /\ suite' = [suite EXCEPT !.at = "census", !.status = "timeout", !.exited = FALSE]
    /\ Stopped
    /\ UNCHANGED <<bus, evidence>>

(* require_clean_tree: an exit of the leader is no end while the group      *)
(* lives.                                                                   *)
CleanTree ==
    /\ suite.at = "tree"
    /\ \/ /\ procs \cap Group = {}
          /\ suite' = [suite EXCEPT !.at = "census",
                                    !.status = IF suite.exited THEN @ ELSE "process_failed"]
          /\ UNCHANGED procs
       \/ /\ procs \cap Group # {}
          /\ suite' = [suite EXCEPT !.at = "census", !.status = "process_failed",
                                    !.exited = FALSE]
          /\ Stopped
    /\ UNCHANGED <<bus, evidence>>

(* The finally clause after the launch: survivors, the bus, quiet. *)
Census ==
    /\ suite.at = "census"
    /\ suite' = [suite EXCEPT !.at = "markers", !.quiet = BusIsOurs /\ procs = {}]
    /\ Keep

Completes == suite.status = "running" /\ suite.quiet /\ evidence.completed

(* The markers are read, and then the module and the output compared.  Only *)
(* the async measurement retains what it read; run_client_watchdog turns    *)
(* one failure, and only this one, into a verified timeout.                 *)
Markers ==
    /\ suite.at = "markers"
    /\ \/ /\ suite.mode = "watchdog"
          /\ EndWith(IF suite.status = "timeout" /\ suite.quiet /\ ~evidence.completed
                     THEN "ok" ELSE "invalid_result")
       \/ /\ suite.mode = "probe" /\ Completes
          /\ \E kind \in {"ok", "failed"} : EndWith(kind)
       \/ /\ suite.mode = "async" /\ Completes
          /\ suite' = [suite EXCEPT
                !.at = "next", !.pinned = evidence.version, !.case = @ + 1]
       \/ /\ suite.mode # "watchdog" /\ ~Completes
          /\ EndWith(IF suite.status = "running" THEN "invalid_result" ELSE suite.status)
    /\ Keep

(* Only run_client_async comes here.  It goes on to its next case, in a     *)
(* fresh directory; at the end all retained files are compared once more    *)
(* and listed in the manifest.                                              *)
NextCase ==
    /\ suite.at = "next"
    /\ suite.case < Cases
    /\ IF EvidenceKept
       THEN Goto("baseline") ELSE EndWith("stale_evidence")
    /\ evidence' = [evidence EXCEPT !.completed = FALSE]
    /\ UNCHANGED <<procs, bus>>

Continuity ==
    /\ suite.at = "next"
    /\ suite.case = Cases
    /\ IF EvidenceKept
       THEN EndWith("ok") ELSE EndWith("stale_evidence")
    /\ Keep

(* The shared deadline, an unusable file, a module that differs: any step   *)
(* of the suite may fail before its process runs.                           *)
StepFails ==
    /\ suite.at \in {"baseline", "launch", "next"}
    /\ EndWith("failed")
    /\ Keep

-----------------------------------------------------------------------------
(* The exit trap.  stop_session_bus pins the process number with a pidfd    *)
(* before it looks who holds it.                                            *)

StopBus ==
    /\ suite.at = "verdict"
    /\ bus.number \in {"bus", "other"}
    /\ bus' = [bus EXCEPT !.fd = bus.number]
    /\ Goto("identify")
    /\ UNCHANGED <<procs, evidence>>

BusFailed == suite' = [suite EXCEPT !.at = "final", !.bus_failed = TRUE]

BusUnavailable ==
    /\ suite.at = "verdict"
    /\ BusFailed
    /\ Keep

IdentifyFirst == \* mutant: the number is checked, and then opened
    /\ suite.at = "identify"
    /\ IF bus.fd = "bus"
       THEN /\ Goto("signal")
            /\ bus' = [bus EXCEPT !.fd = bus.number]
       ELSE /\ BusFailed
            /\ UNCHANGED bus
    /\ UNCHANGED <<procs, evidence>>

Identify ==
    /\ suite.at = "identify"
    /\ IF bus.number = "bus" THEN Goto("signal") ELSE BusFailed
    /\ Keep

Signal ==
    /\ suite.at = "signal"
    /\ \/ /\ bus' = [bus EXCEPT !.signalled = @ \cup {bus.fd}, !.up = FALSE,
                                !.number = IF @ = "bus" THEN "free" ELSE @]
          /\ Goto("final")
       \/ /\ bus' = [bus EXCEPT !.signalled = @ \cup {bus.fd}]
          /\ BusFailed                       \* it does not die in time
    /\ UNCHANGED <<procs, evidence>>

(* final_client_process_census, before which the report has to be good. *)
FinalCensusAtExit == \* mutant: the census after the last launch is enough
    /\ suite.at = "final"
    /\ suite' = [suite EXCEPT !.at = "envelope",
                              !.status = IF suite.bus_failed THEN "process_failed" ELSE @]
    /\ Keep

FinalCensus ==
    /\ suite.at = "final"
    /\ suite' = [suite EXCEPT
          !.at = "envelope",
          !.status = IF @ = "ok" /\ (procs # {} \/ bus.up \/ suite.bus_failed)
                     THEN "process_failed" ELSE @]
    /\ Keep

(* final_async_evidence_check reads the client's files again, for the async *)
(* measurement only; build_envelope digests the server outputs, and takes   *)
(* them only while no native process is seen.                               *)
Envelope ==
    /\ suite.at = "envelope"
    /\ suite' = [suite EXCEPT
          !.at = "done",
          !.accepted = /\ suite.status = "ok"
                       /\ suite.mode = "async" => EvidenceKept
                       /\ NativeQuiet /\ evidence.outputs]
    /\ Keep

-----------------------------------------------------------------------------
SuiteInit ==
    /\ suite \in [at : {"baseline"}, mode : Modes, case : {0}, status : {"running"},
                  exited : {FALSE}, quiet : {FALSE}, pinned : {0},
                  bus_failed : {FALSE}, accepted : {FALSE}]
    /\ procs = {}
    /\ bus = [up |-> TRUE, number |-> "bus", fd |-> "none", signalled |-> {}]
    /\ evidence = [version |-> 0, completed |-> FALSE, outputs |-> TRUE]

(* The container is removed with all that ran in it. *)
Vanish ==
    /\ suite' = [suite EXCEPT !.at = "gone", !.mode = "probe", !.case = 0,
                              !.status = "running", !.exited = FALSE, !.quiet = FALSE,
                              !.pinned = 0, !.bus_failed = FALSE, !.accepted = FALSE]
    /\ procs' = {}
    /\ bus' = [up |-> FALSE, number |-> "none", fd |-> "none", signalled |-> {}]
    /\ evidence' = [version |-> 0, completed |-> FALSE, outputs |-> TRUE]

HarnessStep ==
    \/ Baseline \/ Launch \/ LeaderGone \/ Timeout \/ CleanTree \/ Census
    \/ Markers \/ NextCase \/ Continuity \/ StepFails
    \/ StopBus \/ BusUnavailable \/ Identify \/ Signal \/ FinalCensus \/ Envelope

SystemStep == Writes \/ Forks \/ Activates \/ Exits \/ BusDies \/ NumberReused

SuiteNext == HarnessStep \/ SystemStep
-----------------------------------------------------------------------------
(* An envelope is accepted only when nothing that ran in the container can  *)
(* change what it says: no process of the native program is left, not one   *)
(* that left the group or was started by the bus, and the bus is gone; the  *)
(* server outputs are those of the report; and the client's files of the    *)
(* async measurement are, in every case, those that were read.              *)
AcceptedIsSettled ==
    suite.accepted =>
        /\ procs = {} /\ ~bus.up
        /\ evidence.outputs
        /\ suite.mode = "async" => suite.pinned = evidence.version
=============================================================================
