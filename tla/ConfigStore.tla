---------------------------- MODULE ConfigStore ----------------------------
(***************************************************************************)
(* The configuration (src/internal/config/store.go): a value in memory and *)
(* one file.  Update holds s.mu, applies a change to a copy, writes a      *)
(* temporary file, syncs it, renames it over the file, and only then makes *)
(* the copy the value.  Whoever reads takes s.mu too.                      *)
(*                                                                         *)
(* The process can be killed at any time; what it has renamed stays.       *)
(***************************************************************************)
CONSTANTS
    Settings,   \* values of the configuration
    Nothing     \* no temporary file; nothing in preparation

ASSUME NothingAssumption == Nothing \notin Settings

VARIABLES
    state,      \* s.state
    file,       \* the contents of s.path
    update,     \* Update: "free" (s.mu), "copy", "written", "renamed"
    copy,       \* its variable next
    temp,       \* the temporary file
    saved       \* history: the value of the last Update that returned nil

storeVars == <<state, file, update, copy, temp, saved>>

(* Open reads the file and writes it back, with defaults, by an Update.    *)
StoreInit ==
    /\ state \in Settings /\ file = state /\ saved = state
    /\ update = "free" /\ copy = Nothing /\ temp = Nothing

(* The change itself is refused (an invalid value), or applied to a copy.  *)
UpdateBegins ==
    /\ update = "free"
    /\ \E s \in Settings \ {state} : copy' = s
    /\ update' = "copy"
    /\ UNCHANGED <<state, file, temp, saved>>

InPlace == copy                         \* mutant: no temporary file
FileWhileWriting == file

UpdateWrites ==
    /\ update = "copy"
    /\ temp' = copy /\ file' = FileWhileWriting /\ update' = "written"
    /\ UNCHANGED <<state, copy, saved>>

(* CreateTemp, Chmod, Write, Sync, Close or Rename fails; the deferred     *)
(* Remove takes the temporary file away.                                   *)
UpdateFails ==
    /\ update \in {"copy", "written"}
    /\ update' = "free" /\ copy' = Nothing /\ temp' = Nothing
    /\ UNCHANGED <<state, file, saved>>

UpdateRenames ==
    /\ update = "written"
    /\ file' = temp /\ temp' = Nothing /\ update' = "renamed"
    /\ UNCHANGED <<state, copy, saved>>

UpdateReturns ==
    /\ update = "renamed"
    /\ state' = copy /\ saved' = copy
    /\ update' = "free" /\ copy' = Nothing
    /\ UNCHANGED <<file, temp>>

(* Killed and started again.  A temporary file stays, unused.              *)
StoreRestarts ==
    /\ state' = file /\ saved' = file
    /\ update' = "free" /\ copy' = Nothing /\ temp' = Nothing
    /\ UNCHANGED file

StoreNext ==
    \/ UpdateBegins \/ UpdateWrites \/ UpdateFails \/ UpdateRenames \/ UpdateReturns
    \/ StoreRestarts

StoreSpec == StoreInit /\ [][StoreNext]_storeVars

(***************************************************************************)
(* Properties.                                                             *)
(***************************************************************************)

(* An Update is done as a whole or not at all, wherever it fails or the    *)
(* process is killed, and what Update has confirmed is never lost: those   *)
(* who can read see the file, and the file is the last value confirmed, or *)
(* the one about to be.                                                    *)
SavedIsKept ==
    /\ update = "free" => state = file
    /\ file = saved \/ (update = "renamed" /\ file = copy)

(* Why it is so: until the rename neither the value nor the file changes,  *)
(* and what is renamed is the copy.                                        *)
StoreIInv ==
    /\ {state, file, saved} \subseteq Settings
    /\ update \in {"free", "copy", "written", "renamed"}
    /\ update # "free" => copy \in Settings
    /\ update # "renamed" => state = file /\ file = saved
    /\ update = "written" => temp = copy
    /\ update = "renamed" => file = copy
=============================================================================
