------------------------- MODULE ExplorerStateProofs -------------------------
(***************************************************************************)
(* Proofs about ExplorerState for every bound: the type invariant and the  *)
(* durability of the last completed save across crashes and restarts.    *)
(***************************************************************************)
EXTENDS ExplorerState, TLAPS

(***************************************************************************)
(* The file, when complete, holds the last completed save, and the file is *)
(* only absent while nothing has been saved: this is what makes           *)
(* NoRegressionBelowLastSave inductive.                                     *)
(***************************************************************************)
FileMatchesLastSave ==
    /\ fileKind = "json" => fileVersion = lastSaved
    /\ fileKind = "absent" => lastSaved = 0

ExplorerInv ==
    /\ ExplorerTypeOK
    /\ FileMatchesLastSave
    /\ NoRegressionBelowLastSave

LEMMA ExplorerInitInv == Init => ExplorerInv
BY ExplorerBoundsAssumption
   DEF Init, ExplorerInv, ExplorerTypeOK, FileKinds, Versions,
       FileMatchesLastSave, NoRegressionBelowLastSave

LEMMA ExplorerNextInv == ExplorerInv /\ [Next]_vars => ExplorerInv'
<1> SUFFICES ASSUME ExplorerInv, [Next]_vars PROVE ExplorerInv'
  OBVIOUS
<1> USE ExplorerBoundsAssumption
    DEF ExplorerInv, ExplorerTypeOK, FileKinds, Versions,
        FileMatchesLastSave, NoRegressionBelowLastSave
<1>1. CASE Start
  BY <1>1 DEF Start
<1>2. CASE Refresh
  BY <1>2 DEF Refresh
<1>3. CASE BeginSave
  BY <1>3 DEF BeginSave
<1>4. CASE FinishSave
  BY <1>4 DEF FinishSave
<1>5. CASE Crash
  BY <1>5 DEF Crash
<1>6. CASE Restart
  BY <1>6 DEF Restart
<1>7. CASE UNCHANGED vars
  BY <1>7 DEF vars
<1>8. QED
  BY <1>1, <1>2, <1>3, <1>4, <1>5, <1>6, <1>7 DEF Next

(***************************************************************************)
(* The explorer's state file model is always well typed.                   *)
(***************************************************************************)
THEOREM ExplorerTypeCorrect == Spec => []ExplorerTypeOK
<1>1. ExplorerInv => ExplorerTypeOK
  BY DEF ExplorerInv
<1>2. QED
  BY <1>1, ExplorerInitInv, ExplorerNextInv, PTL DEF Spec

(***************************************************************************)
(* For every bound on refreshes and crashes: a running explorer never      *)
(* serves a distribution older than the last one write_to_file completed, *)
(* whatever crashes and restarts (read_from_file) came in between.         *)
(***************************************************************************)
THEOREM LastSaveDurable == Spec => []NoRegressionBelowLastSave
<1>1. ExplorerInv => NoRegressionBelowLastSave
  BY DEF ExplorerInv
<1>2. QED
  BY <1>1, ExplorerInitInv, ExplorerNextInv, PTL DEF Spec

=============================================================================
