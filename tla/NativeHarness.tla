----------------------------- MODULE NativeHarness -----------------------------
(***************************************************************************)
(* The two ways a native run is carried out.  run_smoke and main           *)
(* (scripts/native_1c_smoke.py) start the container with one docker        *)
(* command, run the suite in it, validate its envelope, remove the         *)
(* container, compare in a private directory, remove that too, and only    *)
(* then export the artifact and say that it is ready.  The deletion-mark   *)
(* entry point drives its container with run_owned instead.                *)
(***************************************************************************)
EXTENDS OwnedContainer, NativeSuite, ArtifactExport

VARIABLES
    entry,  \* the entry point of this run
    smoke,  \* run_smoke and main
    box     \* the container of run_smoke: none, up or gone

smokeVars == <<smoke, box>>
vars == <<entry, smoke, box, containerVars, suiteVars, exportVars>>

Advance(stage) == smoke' = [smoke EXCEPT !.at = stage]

-----------------------------------------------------------------------------
(* Staging, login, pull and the look at the image come first; any of them   *)
(* may fail.                                                                *)
StartContainer ==
    /\ smoke.at = "pull"
    /\ \/ Advance("run") /\ box' = "up"
       \/ Advance("clear") /\ UNCHANGED box
    /\ UNCHANGED <<suiteVars, exportVars>>

InTheContainer ==
    /\ box = "up"
    /\ SuiteNext
    /\ UNCHANGED <<smokeVars, exportVars>>

(* The envelope is complete when the container ends; it is validated        *)
(* against the staged inputs and the exit code.                             *)
ReceiveEnvelope ==
    /\ smoke.at = "run"
    /\ suite.at = "done"
    /\ \E valid \in BOOLEAN :
          smoke' = [smoke EXCEPT !.at = "remove", !.accepted = suite.accepted /\ valid]
    /\ UNCHANGED <<box, suiteVars, exportVars>>

(* bounded_run: deadline, output limit, lost CLI; the container lives on.   *)
RunFails ==
    /\ smoke.at = "run"
    /\ Advance("remove")
    /\ UNCHANGED <<box, suiteVars, exportVars>>

(* docker rm --force and the listing; what ran in the container is gone     *)
(* with it.  A failure leaves the cleanup unverified.                       *)
RemoveContainer ==
    /\ smoke.at = "remove"
    /\ \E cleaned \in BOOLEAN, removed \in BOOLEAN :
          /\ cleaned => removed
          /\ smoke' = [smoke EXCEPT !.at = IF smoke.accepted /\ cleaned
                                           THEN "compare" ELSE "clear",
                                    !.cleaned = cleaned]
          /\ IF removed
             THEN box' = "gone" /\ Vanish
             ELSE UNCHANGED <<box, suiteVars>>
    /\ UNCHANGED exportVars

(* The captures, the comparison, the goldens and the provenance.  Bytes are *)
(* retained when all of it held.                                            *)
Compare ==
    /\ smoke.at = "compare"
    /\ \E held \in BOOLEAN :
          smoke' = [smoke EXCEPT !.at = "clear", !.retained = held]
    /\ UNCHANGED <<box, suiteVars, exportVars>>

ClearAnyway == \* mutant: the export does not wait for the private directory
    /\ smoke.at = "clear"
    /\ \E removed \in BOOLEAN :
          smoke' = [smoke EXCEPT !.at = IF smoke.retained THEN "export" ELSE "done",
                                !.removed = removed]
    /\ UNCHANGED <<box, suiteVars, exportVars>>

ClearPrivate ==
    /\ smoke.at = "clear"
    /\ \E removed \in BOOLEAN :
          smoke' = [smoke EXCEPT !.at = IF smoke.retained /\ removed THEN "export"
                                                                     ELSE "done",
                                !.removed = removed]
    /\ UNCHANGED <<box, suiteVars, exportVars>>

Export ==
    /\ smoke.at = "export"
    /\ ExportStep
    /\ UNCHANGED <<smokeVars, suiteVars>>

ExportEnds ==
    /\ smoke.at = "export"
    /\ export.at \in {"exported", "done"}
    /\ Advance(IF export.at = "exported" THEN "main" ELSE "done")
    /\ UNCHANGED <<box, suiteVars, exportVars>>

(* main: a late validation that fails revokes every claim, and the artifact *)
(* stays unannounced; verify_output_artifact looks at the public path once  *)
(* more before the last step announces it.                                  *)
Revoke ==
    /\ smoke.at = "main"
    /\ Advance("done")
    /\ UNCHANGED <<box, suiteVars, exportVars>>

VerifyOutput ==
    /\ smoke.at = "main"
    /\ Seen("public")
    /\ smoke' = [smoke EXCEPT !.at = "announce", !.looked = moves]
    /\ UNCHANGED <<box, suiteVars, exportVars>>

Announce ==
    /\ smoke.at = "announce"
    /\ smoke' = [smoke EXCEPT !.at = "done", !.ready = TRUE]
    /\ UNCHANGED <<box, suiteVars, exportVars>>

-----------------------------------------------------------------------------
Init ==
    /\ entry \in {"smoke", "deletion mark"}
    /\ smoke = [at |-> "pull", accepted |-> FALSE, cleaned |-> FALSE, retained |-> FALSE,
                removed |-> FALSE, looked |-> 0, ready |-> FALSE]
    /\ box = "none"
    /\ ContainerInit /\ SuiteInit /\ ExportInit

HostSteps ==
    \/ StartContainer \/ ReceiveEnvelope \/ RunFails \/ RemoveContainer
    \/ Compare \/ ClearPrivate \/ Export \/ ExportEnds
    \/ Revoke \/ VerifyOutput \/ Announce

SmokeNext ==
    /\ entry = "smoke"
    /\ \/ HostSteps
       \/ InTheContainer
       \/ /\ smoke.at \in {"export", "main", "announce", "done"}
          /\ OthersMove
          /\ UNCHANGED <<smokeVars, suiteVars>>
    /\ UNCHANGED <<entry, containerVars>>

OwnedNext ==
    /\ entry = "deletion mark"
    /\ ContainerNext
    /\ UNCHANGED <<entry, smokeVars, suiteVars, exportVars>>

Next == SmokeNext \/ OwnedNext

(* Every wait of the host has a deadline, whatever docker does. *)
Fairness ==
    /\ WF_vars(entry = "smoke" /\ HostSteps /\ UNCHANGED <<entry, containerVars>>)
    /\ WF_vars(entry = "deletion mark" /\ HostStep
               /\ UNCHANGED <<entry, smokeVars, suiteVars, exportVars>>)

Spec == Init /\ [][Next]_vars /\ Fairness

-----------------------------------------------------------------------------
(* The artifact is announced only when the suite's envelope was accepted,   *)
(* the container and the private directory are verifiably gone, and the     *)
(* public path led to the whole artifact at the last look, so that only a   *)
(* later move by somebody else can have changed that.                       *)
ReadyIsEarned ==
    /\ ArtifactIsWhole
    /\ smoke.ready =>
         /\ smoke.accepted /\ smoke.cleaned /\ smoke.removed /\ box = "gone"
         /\ Seen("public") \/ moves > smoke.looked

(* Nothing that belongs to somebody else is touched: no container of the    *)
(* same name, no directory under the public name, and no process that got   *)
(* the number of the dead session bus.                                      *)
OthersLeftAlone ==
    [][/\ NamesakesLeftAlone'
       /\ OthersKept
       /\ bus'.signalled \subseteq {"bus"}]_vars

(* Both entry points come to an end.                                        *)
NativeRunEnds == <>(smoke.at = "done" \/ host.at = "done")
=============================================================================
