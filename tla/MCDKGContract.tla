--------------------------- MODULE MCDKGContract ---------------------------
(***************************************************************************)
(* Model-checking instance of DKGContract: two validators and one         *)
(* outsider, one commitment content, a blacklisting window of one block,  *)
(* two block heights and two epochs, so that a full phase cycle, a reset   *)
(* after it and a re-registration all fit in one behaviour.               *)
(***************************************************************************)
EXTENDS DKGContract, TLC

CONSTANTS v1, v2, outsider, c1

MCAddr == {v1, v2, outsider}
MCValidators == {v1, v2}
MCCommitments == {c1}

\* Validators are interchangeable.
MCSymmetry == Permutations(MCValidators)

=============================================================================
