----------------------------- MODULE MCRecipient -----------------------------
(* Recipient on small keys: an identity or gateway key of two radix-3      *)
(* bytes, one of which is not a curve point, and a one-byte encryption key. *)
EXTENDS Recipient

MCBadPoints == {<<2, 2>>}

=============================================================================
