---------------------------- MODULE ExplorerState ----------------------------
(***************************************************************************)
(* The explorer-api's state file (src/explorer-api/src/state.rs) across    *)
(* crashes and restarts.  The process loads the country node distribution *)
(* from the state file when it starts (read_from_file) and saves it from   *)
(* time to time (write_to_file); it may die at any moment, mid-save        *)
(* included, and is then started again.                                    *)
(*                                                                         *)
(* The distribution is abstracted to a version number: 0 is the empty     *)
(* distribution, and every refresh of it makes a newer one.  The file is  *)
(* absent, a complete JSON document holding a saved version, or the       *)
(* unparsable leftovers of a save cut short.                               *)
(***************************************************************************)
EXTENDS Naturals

CONSTANTS
    MaxVersion,   \* bound: refreshes of the distribution explored
    MaxCrashes    \* bound: crashes explored

ASSUME ExplorerBoundsAssumption == MaxVersion \in Nat /\ MaxCrashes \in Nat

Versions == 0..MaxVersion

\* absent: File::open fails; empty: File::create has truncated it;
\* partial: serde_json::to_writer stopped half-way; json: a complete save.
FileKinds == {"absent", "empty", "partial", "json"}

VARIABLES
    fileKind,   \* what the state file holds
    fileVersion,\*   and, when it is complete, the version saved in it
    proc,       \* "down", "running", "saving" or "panicked"
    mem,        \* the in-memory country_node_distribution
    lastSaved,  \* history: the version the last completed save wrote
    crashes     \* crashes so far

vars == <<fileKind, fileVersion, proc, mem, lastSaved, crashes>>

Init ==
    /\ fileKind = "absent"
    /\ fileVersion = 0
    /\ proc = "down"
    /\ mem = 0
    /\ lastSaved = 0
    /\ crashes = 0

(***************************************************************************)
(* Mutant: the state file is never read back.                             *)
(***************************************************************************)
StartIgnoringFile ==
    /\ proc = "down"
    /\ proc' = "running"
    /\ mem' = 0
    /\ UNCHANGED <<fileKind, fileVersion, lastSaved, crashes>>

(***************************************************************************)
(* ExplorerApiStateContext::new / read_from_file.  A file that cannot be   *)
(* opened gives the empty state; one that opens is parsed, and a parse     *)
(* error panics at the expect.                                             *)
(***************************************************************************)
Start ==
    /\ proc = "down"
    /\ \/ /\ fileKind = "absent"
          /\ proc' = "running"
          /\ mem' = 0
       \/ /\ fileKind = "json"
          /\ proc' = "running"
          /\ mem' = fileVersion
       \/ /\ fileKind \in {"empty", "partial"}
          /\ proc' = "panicked"
          /\ UNCHANGED mem
    /\ UNCHANGED <<fileKind, fileVersion, lastSaved, crashes>>

(***************************************************************************)
(* The country statistics task refreshes the distribution.                 *)
(***************************************************************************)
Refresh ==
    /\ proc \in {"running", "saving"}
    /\ mem < MaxVersion
    /\ mem' = mem + 1
    /\ UNCHANGED <<fileKind, fileVersion, proc, lastSaved, crashes>>

(***************************************************************************)
(* write_to_file, up to its first await: File::create truncates the file. *)
(***************************************************************************)
BeginSave ==
    /\ proc = "running"
    /\ fileKind' = "empty"
    /\ proc' = "saving"
    /\ UNCHANGED <<fileVersion, mem, lastSaved, crashes>>

(***************************************************************************)
(* write_to_file, after get_all().await: the distribution as it is now is  *)
(* serialised into the file; a write error panics at the expect with the  *)
(* file half written.                                                      *)
(***************************************************************************)
FinishSave ==
    /\ proc = "saving"
    /\ \/ /\ fileKind' = "json"
          /\ fileVersion' = mem
          /\ lastSaved' = mem
          /\ proc' = "running"
          /\ UNCHANGED crashes
       \/ /\ crashes < MaxCrashes
          /\ fileKind' = "partial"
          /\ proc' = "down"
          /\ crashes' = crashes + 1
          /\ UNCHANGED <<fileVersion, lastSaved>>
    /\ UNCHANGED mem

(***************************************************************************)
(* The process dies (killed, out of memory, a panic elsewhere); a save in  *)
(* progress leaves the file truncated or half written.                     *)
(***************************************************************************)
Crash ==
    /\ proc \in {"running", "saving"}
    /\ crashes < MaxCrashes
    /\ proc' = "down"
    /\ crashes' = crashes + 1
    /\ IF proc = "saving" THEN fileKind' \in {"empty", "partial"}
                          ELSE UNCHANGED fileKind
    /\ mem' = 0
    /\ UNCHANGED <<fileVersion, lastSaved>>

(***************************************************************************)
(* A supervisor starts the panicked process again.                         *)
(***************************************************************************)
Restart ==
    /\ proc = "panicked"
    /\ proc' = "down"
    /\ UNCHANGED <<fileKind, fileVersion, mem, lastSaved, crashes>>

Next == Start \/ Refresh \/ BeginSave \/ FinishSave \/ Crash \/ Restart

Spec == Init /\ [][Next]_vars

-----------------------------------------------------------------------------
ExplorerTypeOK ==
    /\ fileKind \in FileKinds
    /\ fileVersion \in Versions
    /\ proc \in {"down", "running", "saving", "panicked"}
    /\ mem \in Versions
    /\ lastSaved \in Versions
    /\ crashes \in 0..MaxCrashes

(***************************************************************************)
(* A restarted explorer never serves a distribution older than the last   *)
(* one it finished saving: whatever crash came in between, what it runs    *)
(* with is at least that save (read_from_file, write_to_file).             *)
(***************************************************************************)
NoRegressionBelowLastSave ==
    proc \in {"running", "saving"} => mem >= lastSaved

(***************************************************************************)
(* The warning in read_from_file: a state file that cannot be loaded makes *)
(* the explorer start with the empty state.  Starting never panics.        *)
(***************************************************************************)
StartNeverPanics == proc # "panicked"

=============================================================================
