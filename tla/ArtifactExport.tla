---------------------------- MODULE ArtifactExport ----------------------------
(***************************************************************************)
(* export_output_artifact and verify_output_artifact                       *)
(* (scripts/native_1c_full_host.py), with the host step that says the      *)
(* artifact is ready.  The directory is filled under a private name and    *)
(* renamed to the public one, where a later job reads it by path.  Other   *)
(* programs of the machine may take the public name, or move a directory   *)
(* away and put another one in its place, at any moment.                   *)
(***************************************************************************)
EXTENDS Naturals, FiniteSets

CONSTANTS
    File,      \* the files of the artifact
    MaxMoves   \* how often another program takes or swaps a name

ASSUME ExportAssumption == IsFiniteSet(File) /\ File # {} /\ MaxMoves \in Nat

VARIABLES
    export,   \* the exporter: at, pinned, promoted, error, unclean, looked
    place,    \* what the private and the public name lead to
    path,     \* the way to them is still the pinned one
    content,  \* our directory: does it exist, its files, does it hold others
    moves     \* uses of the names by others

exportVars == <<export, place, path, content, moves>>

(* What a name may lead to: ours is the directory the export made, and from *)
(* the moment it opens one that one; somebody else's is empty or not.       *)
Holder == {"none", "ours", "empty", "other"}

-----------------------------------------------------------------------------
(* _verify_artifact_directory: the visible path leads to the pinned inode;  *)
(* reading back goes through the same path, to its regular files.           *)
Whole == content.files = File /\ ~content.extra
Seen(name) == path /\ place[name] = "ours" /\ Whole

Fail == \* the finally clause is next, when there is something to clean up
    /\ export' = [export EXCEPT !.error = TRUE,
                                !.at = IF export.pinned THEN "unlink" ELSE "done"]
    /\ UNCHANGED <<place, content>>

To(stage) ==
    /\ export' = [export EXCEPT !.at = stage]
    /\ UNCHANGED <<place, content>>

(* The early refusal; the rename repeats it. *)
Look ==
    /\ export.at = "look"
    /\ IF place["public"] # "none" THEN Fail ELSE To("make") \/ Fail

Make ==
    /\ export.at = "make"
    /\ \/ /\ place' = [place EXCEPT !["staging"] = "ours"]
          /\ content' = [content EXCEPT !.exists = TRUE]
          /\ export' = [export EXCEPT !.at = "pin"]
       \/ Fail

(* os.open takes whatever directory the private name leads to by now, and   *)
(* nothing compares it with the one that was made.  When it fails, stage_fd *)
(* is None and the directory stays where it is.                             *)
Pin ==
    /\ export.at = "pin"
    /\ \/ /\ place["staging"] = "ours"
          /\ UNCHANGED <<place, content>>
          /\ export' = [export EXCEPT !.at = "write", !.pinned = TRUE]
       \/ /\ place["staging"] \in {"empty", "other"}
          /\ content' = [content EXCEPT !.extra = (place["staging"] = "other")]
          /\ place' = [place EXCEPT !["staging"] = "ours"]
          /\ export' = [export EXCEPT !.at = "write", !.pinned = TRUE]
       \/ Fail

(* Files are created, never overwritten; then the directory is listed.      *)
Write ==
    /\ export.at = "write"
    /\ \/ \E f \in File \ content.files :
             /\ content' = [content EXCEPT !.files = @ \cup {f}]
             /\ UNCHANGED <<export, place>>
       \/ Whole /\ To("check")
       \/ Fail

CheckStaging ==
    /\ export.at = "check"
    /\ IF Seen("staging") THEN To("rename") \/ Fail ELSE Fail

(* renameat2 with RENAME_NOREPLACE moves whatever the name leads to, and    *)
(* only to a free name.                                                     *)
Rename ==
    /\ export.at = "rename"
    /\ \/ /\ place["staging"] # "none"
          /\ place["public"] = "none"
          /\ place' = [staging |-> "none", public |-> place["staging"]]
          /\ export' = [export EXCEPT !.at = "recheck", !.promoted = TRUE]
          /\ UNCHANGED content
       \/ Fail

CheckPublic ==
    /\ export.at = "recheck"
    /\ IF Seen("public") THEN To("exported") \/ Fail ELSE Fail

-----------------------------------------------------------------------------
(* The finally clause works on the pinned directory: it unlinks the names   *)
(* of the artifact there (also those that came with a directory of somebody *)
(* else), looks whether the selected name still leads to that directory,    *)
(* and only then removes by name.                                           *)

Unlink ==
    /\ export.at = "unlink"
    /\ \E left \in SUBSET content.files, extra \in {FALSE, content.extra} :
          /\ content' = [content EXCEPT !.files = left, !.extra = extra]
          /\ export' = [export EXCEPT !.at = "stat", !.unclean = left # {}]
    /\ UNCHANGED place

Selected == IF export.promoted THEN "public" ELSE "staging"

Unclean ==
    /\ export' = [export EXCEPT !.at = "done", !.unclean = TRUE]
    /\ UNCHANGED <<place, content>>

Stat ==
    /\ export.at = "stat"
    /\ \/ /\ place[Selected] = "ours"
          /\ export' = [export EXCEPT !.at = "rmdir", !.looked = moves]
          /\ UNCHANGED <<place, content>>
       \/ Unclean

(* os.rmdir removes whatever empty directory the name leads to now.         *)
Remove ==
    /\ export.at = "rmdir"
    /\ \/ /\ \/ /\ place[Selected] = "ours"
                /\ content.files = {} /\ ~content.extra
                /\ content' = [content EXCEPT !.exists = FALSE]
             \/ place[Selected] = "empty" /\ UNCHANGED content
          /\ place' = [place EXCEPT ![Selected] = "none"]
          /\ export' = [export EXCEPT !.at = "done"]
       \/ Unclean

-----------------------------------------------------------------------------
ExportStep ==
    /\ Look \/ Make \/ Pin \/ Write \/ CheckStaging \/ Rename \/ CheckPublic
       \/ Unlink \/ Stat \/ Remove
    /\ UNCHANGED <<path, moves>>

(* Another program takes a name, moves what is there away or back, or moves *)
(* a directory above them.  The private name is random until it exists, and *)
(* nobody else publishes the private directory.                             *)
OthersMove ==
    /\ moves < MaxMoves
    /\ moves' = moves + 1
    /\ \/ \E name \in {"public"} \cup (IF content.exists THEN {"staging"} ELSE {}) :
          \E holder \in Holder \ {place[name]} :
             /\ holder = "ours" =>
                  /\ content.exists /\ name = Selected
                  /\ \A n \in DOMAIN place : place[n] # "ours"
             /\ place' = [place EXCEPT ![name] = holder]
             /\ UNCHANGED path
       \/ path' = ~path /\ UNCHANGED place
    /\ UNCHANGED <<export, content>>

ExportInit ==
    /\ export = [at |-> "look", pinned |-> FALSE, promoted |-> FALSE, error |-> FALSE,
                 unclean |-> FALSE, looked |-> 0]
    /\ place = [staging |-> "none", public |-> "none"]
    /\ path = TRUE
    /\ content = [exists |-> FALSE, files |-> {}, extra |-> FALSE]
    /\ moves = 0

-----------------------------------------------------------------------------
(* The public name never leads to a part of the artifact, nor to more than  *)
(* it, but while the export is being taken back or after it reported that   *)
(* it could not be; and an export that reports a failure and no cleanup     *)
(* error has left nothing, unless the new directory could not even be       *)
(* opened or somebody swapped it after the last look.                       *)
ArtifactIsWhole ==
    /\ place["public"] = "ours" /\ ~Whole => export.error
    /\ export.at = "done" /\ export.pinned /\ ~export.unclean =>
          ~content.exists \/ moves > export.looked

(* What somebody else put under the public name is neither replaced nor     *)
(* removed by the export: but for an empty directory that was put there     *)
(* after the export, taking itself back, had looked who holds the name.     *)
OthersKept ==
    moves' = moves /\ place["public"] \in {"empty", "other"} =>
        \/ place'["public"] = place["public"]
        \/ /\ place["public"] = "empty" /\ export.at = "rmdir" /\ export.promoted
           /\ moves > export.looked
=============================================================================
