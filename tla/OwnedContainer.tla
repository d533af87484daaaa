---------------------------- MODULE OwnedContainer ----------------------------
(***************************************************************************)
(* run_owned (scripts/native_1c_docker_lifecycle.py): one container is     *)
(* created, started, verified and removed by short docker commands, each a *)
(* CLI child with a deadline.  A command is a request to the daemon, which *)
(* is external: when the CLI dies the request may still be carried out, at *)
(* once, later or never.  Container ids and answers are abstracted to what *)
(* the checks tell apart; `mine' is the container with this run's label,   *)
(* `other' a container of somebody else that holds the same name.          *)
(***************************************************************************)
EXTENDS Naturals

CONSTANT ExitCode  \* the exit codes of the container that are told apart

ASSUME ContainerAssumption == ExitCode \subseteq Nat /\ 0 \in ExitCode

VARIABLES
    host,    \* run_owned
    cli,     \* the docker command in execution
    clock,   \* before work_deadline, before deadline, after both
    daemon,  \* the containers
    stray    \* requests of dead CLIs that may still be carried out

containerVars == <<host, cli, clock, daemon, stray>>

Work == {"image", "create", "owner", "start", "exit"}
Cleanup == {"check", "rm", "ps"}
Mine == {"none", "created", "running", "exited", "removing", "gone"}
Answer == [says : Mine \cup {"good", "bad", "id", "empty"}, code : ExitCode]

Idle == [phase |-> "idle", answer |-> [says |-> "bad", code |-> 0]]
Says(s) == [says |-> s, code |-> 0]

-----------------------------------------------------------------------------
(* call(): the deadline is looked at before anything is launched. *)

OnTime(stage) == IF stage \in Work THEN clock = "work" ELSE clock # "over"

Send ==
    /\ host.at # "done"
    /\ cli = Idle
    /\ OnTime(host.at)
    /\ cli' = [cli EXCEPT !.phase = "sent"]
    /\ UNCHANGED <<host, clock, daemon, stray>>

(* An error before ownership leaves no cleanup to do; later it begins here. *)
AfterFailure(h) ==
    [h EXCEPT !.failed = TRUE,
              !.at = IF h.at \in Work /\ h.owned THEN "check" ELSE "done"]

NoTime ==
    /\ host.at # "done"
    /\ cli = Idle
    /\ ~OnTime(host.at)
    /\ host' = AfterFailure(host)
    /\ UNCHANGED <<cli, clock, daemon, stray>>

(* Timeout, output limit, interruption, lost pipe: bounded_cli kills its    *)
(* child, and says whether it saw the child's end.                          *)
CliFailsUnlessAttached == \* mutant: no deadline for the attached start
    /\ cli # Idle
    /\ host.at # "start"
    /\ cli' = Idle
    /\ stray' = IF cli.phase = "sent" THEN stray \cup {host.at} ELSE stray
    /\ \E seen \in BOOLEAN :
          host' = AfterFailure([host EXCEPT !.reaped = @ /\ seen, !.child = @ \/ ~seen])
    /\ UNCHANGED <<clock, daemon>>

CliFails ==
    /\ cli # Idle
    /\ cli' = Idle
    /\ stray' = IF cli.phase = "sent" THEN stray \cup {host.at} ELSE stray
    /\ \E seen \in BOOLEAN :
          host' = AfterFailure([host EXCEPT !.reaped = @ /\ seen, !.child = @ \/ ~seen])
    /\ UNCHANGED <<clock, daemon>>

-----------------------------------------------------------------------------
(* The daemon.  Requests name the container by its id, `create' by name; a  *)
(* removal without an id could only go by the name.                         *)

Carry(request, d) == \* the daemon afterwards, and what it answers
    CASE request = "image" -> {<<d, Says("good")>>, <<d, Says("bad")>>}
      [] request = "create" ->
           IF d.mine = "none" /\ d.other = "none"
           THEN LET made == [d EXCEPT !.mine = "created"] IN
                {<<made, Says("id")>>, <<made, Says("bad")>>, <<d, Says("bad")>>}
           ELSE {<<d, Says("bad")>>}
      [] request = "start" ->
           IF d.mine = "created"
           THEN {<<[d EXCEPT !.mine = "running"], Says("running")>>}
           ELSE {<<d, Says("bad")>>}
      [] request = "rm" ->
           CASE d.mine \notin {"none", "gone"} ->
                  {<<[d EXCEPT !.mine = "gone"], Says("id")>>,
                   <<[d EXCEPT !.mine = "removing"], Says("id")>>}
             [] d.mine = "none" /\ d.other # "none" ->
                  {<<[d EXCEPT !.other = "removed"], Says("id")>>}
             [] OTHER -> {<<d, Says("bad")>>}
      [] request = "ps" ->
           {<<d, Says(IF d.mine \in {"none", "gone"} THEN "empty" ELSE "id")>>}
      [] OTHER -> \* docker container inspect
           {<<d, [says |-> IF d.mine = "none" THEN "gone" ELSE d.mine, code |-> d.exit]>>}

Serve ==
    /\ cli.phase = "sent"
    /\ \E carried \in Carry(host.at, daemon) :
          /\ daemon' = carried[1]
          /\ cli' = [phase |-> IF carried[2].says = "running" THEN "attached"
                                                              ELSE "answered",
                     answer |-> carried[2]]
    /\ UNCHANGED <<host, clock, stray>>

(* docker start --attach ends with the container, or because the stream     *)
(* broke; its exit code is then anything.                                   *)
Detach ==
    /\ cli.phase = "attached"
    /\ \E code \in ExitCode :
          cli' = [phase |-> "answered",
                  answer |-> [says |-> "bad",
                              code |-> IF daemon.mine = "exited" THEN daemon.exit
                                                                 ELSE code]]
    /\ UNCHANGED <<host, clock, daemon, stray>>

ServeStray ==
    \E request \in stray :
        /\ stray' = stray \ {request}
        /\ \E carried \in Carry(request, daemon) : daemon' = carried[1]
        /\ UNCHANGED <<host, cli, clock>>

ContainerEnds ==
    /\ daemon.mine = "running"
    /\ \E code \in ExitCode :
          daemon' = [daemon EXCEPT !.mine = "exited", !.exit = code]
    /\ UNCHANGED <<host, cli, clock, stray>>

RemovalEnds ==
    /\ daemon.mine = "removing"
    /\ daemon' = [daemon EXCEPT !.mine = "gone"]
    /\ UNCHANGED <<host, cli, clock, stray>>

(* Another client of the daemon takes the name when it is free. *)
OtherCreates ==
    /\ daemon.other = "none"
    /\ daemon.mine \in {"none", "gone"}
    /\ daemon' = [daemon EXCEPT !.other = "running"]
    /\ UNCHANGED <<host, cli, clock, stray>>

Tick ==
    /\ clock # "over"
    /\ clock' = IF clock = "work" THEN "cleanup" ELSE "over"
    /\ UNCHANGED <<host, cli, daemon, stray>>

-----------------------------------------------------------------------------
(* What run_owned makes of an answer. *)

Accepts(h, answer) ==
    CASE h.at = "image" -> answer.says = "good"
      [] h.at = "owner" -> answer.says = "created"
      [] h.at = "start" -> TRUE
      [] h.at = "exit" -> answer.says = "exited" /\ answer.code = h.code
      [] h.at = "check" -> answer.says # "gone"
      [] h.at = "ps" -> answer.says = "empty"
      [] OTHER -> answer.says = "id"

(* cleanup_verified falls before the create request is sent, and rises only *)
(* with the empty list after the removal.                                   *)
AfterUnlisted(h, answer) == \* mutant: the removal's own answer is trusted
    CASE h.at = "image" -> [h EXCEPT !.at = "create", !.cleaned = FALSE]
      [] h.at = "create" -> [h EXCEPT !.at = "owner"]
      [] h.at = "owner" -> [h EXCEPT !.at = "start", !.owned = TRUE]
      [] h.at = "start" -> [h EXCEPT !.at = "exit", !.code = answer.code]
      [] h.at = "exit" -> [h EXCEPT !.at = "check", !.result = TRUE]
      [] h.at = "check" -> [h EXCEPT !.at = "rm"]
      [] OTHER -> [h EXCEPT !.at = "done", !.cleaned = TRUE]

After(h, answer) ==
    CASE h.at = "image" -> [h EXCEPT !.at = "create", !.cleaned = FALSE]
      [] h.at = "create" -> [h EXCEPT !.at = "owner"]
      [] h.at = "owner" -> [h EXCEPT !.at = "start", !.owned = TRUE]
      [] h.at = "start" -> [h EXCEPT !.at = "exit", !.code = answer.code]
      [] h.at = "exit" -> [h EXCEPT !.at = "check", !.result = TRUE]
      [] h.at = "check" -> [h EXCEPT !.at = "rm"]
      [] h.at = "rm" -> [h EXCEPT !.at = "ps"]
      [] h.at = "ps" -> [h EXCEPT !.at = "done", !.cleaned = TRUE]

Answered ==
    /\ cli.phase = "answered"
    /\ host' = IF Accepts(host, cli.answer) THEN After(host, cli.answer)
                                            ELSE AfterFailure(host)
    /\ cli' = Idle
    /\ UNCHANGED <<clock, daemon, stray>>

-----------------------------------------------------------------------------
ContainerInit ==
    /\ host = [at |-> "image", owned |-> FALSE, cleaned |-> TRUE, reaped |-> TRUE,
               child |-> FALSE, failed |-> FALSE, result |-> FALSE, code |-> 0]
    /\ cli = Idle
    /\ clock = "work"
    /\ daemon = [mine |-> "none", exit |-> 0, other |-> "none"]
    /\ stray = {}

HostStep == Send \/ NoTime \/ CliFails \/ Answered
DaemonStep ==
    Serve \/ Detach \/ ServeStray \/ ContainerEnds \/ RemovalEnds \/ OtherCreates

ContainerNext == HostStep \/ DaemonStep \/ Tick

ContainerFairness == WF_containerVars(HostStep)
-----------------------------------------------------------------------------
(* What run_owned reports is true, whatever the daemon does later: a        *)
(* verified cleanup means that the container is gone and no create request  *)
(* is left that could bring one back, a verified reap that no CLI child is  *)
(* left, and a result is returned only with both, with the container's own  *)
(* exit code.                                                               *)
ReportIsTrue ==
    host.at = "done" =>
        /\ host.cleaned => daemon.mine \in {"none", "gone"} /\ "create" \notin stray
        /\ host.reaped => ~host.child
        /\ host.result /\ ~host.failed /\ host.reaped =>
             host.cleaned /\ host.code = daemon.exit

(* The container of somebody else is never removed, not even when it holds  *)
(* the name this run wanted ("No command discovers or removes containers by *)
(* name").                                                                  *)
NamesakesLeftAlone == daemon.other # "removed"

(* Every command has a deadline, the attached one too.                      *)
RunOwnedEnds == <>(host.at = "done")
=============================================================================
