--------------------------- MODULE MCDKGWatcher ----------------------------
(***************************************************************************)
(* Model-checking instance of DKGWatcher: this participant and one other   *)
(* validator, one or two commitment contents (two let a commitment change  *)
(* content across a reset), one reset, a short event queue.  Heights and  *)
(* epochs are pinned to 0: blacklistings never persist (see               *)
(* MCDKGContractKeyFailure) and the phase cycle of a later epoch is        *)
(* covered by MCDKGContract.                                               *)
(***************************************************************************)
EXTENDS DKGWatcher, TLC

CONSTANTS self, other, c1, c2

MCAddr == {self, other}
OneCommitment == {c1}
TwoCommitments == {c1, c2}

=============================================================================
