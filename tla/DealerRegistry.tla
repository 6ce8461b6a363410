--------------------------- MODULE DealerRegistry ---------------------------
(***************************************************************************)
(* What the coconut-dkg contract promises about its dealers, without how  *)
(* it keeps them: only validators are admitted, each admitted dealer gets  *)
(* a node index no other dealer holds and keeps it while it stays, and     *)
(* the only way out is a full reset.  Blacklisting, deposits, key proofs   *)
(* and the counter are refinements of "may be refused".                   *)
(***************************************************************************)
EXTENDS Naturals

CONSTANTS Addr, Validators

VARIABLES
    dealers,   \* the admitted dealers
    index      \* index[a]: the node index of dealer a

registryVars == <<dealers, index>>

RegistryInit ==
    /\ dealers = {}
    /\ index \in [Addr -> Nat]

\* A validator that is not a dealer joins with an index no dealer holds.
Admit(a) ==
    /\ a \in Validators \ dealers
    /\ index'[a] \in Nat \ {index[b] : b \in dealers}
    /\ index' = [index EXCEPT ![a] = index'[a]]
    /\ dealers' = dealers \cup {a}

\* Every dealer is dropped at once.
Clear ==
    /\ dealers' = {}
    /\ UNCHANGED index

RegistryNext == (\E a \in Addr : Admit(a)) \/ Clear

RegistrySpec == RegistryInit /\ [][RegistryNext]_registryVars

=============================================================================
