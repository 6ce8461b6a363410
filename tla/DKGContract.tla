---------------------------- MODULE DKGContract ----------------------------
(***************************************************************************)
(* The coconut-dkg CosmWasm contract: the ledger-side epoch state machine,  *)
(* the dealer registry with its node-index allocator and blacklist, and    *)
(* the per-epoch dealing commitments (src/contracts/coconut-dkg/src).      *)
(*                                                                         *)
(* Every execute message is one atomic action, as the ledger runs it: the  *)
(* handler's writes are kept when it returns Ok and discarded when it      *)
(* returns Err.  `result` records the response of the last execute, so    *)
(* that failing calls are steps of their own.                              *)
(*                                                                         *)
(* Data is abstracted to what the properties tell apart: an ed25519 key    *)
(* proof is valid or not, a BTE key is well-formed or not, a deposit is a  *)
(* record of the facts validate_dealer_deposit tests, a commitment is a    *)
(* model value.                                                            *)
(***************************************************************************)
EXTENDS Naturals

CONSTANTS
    Addr,             \* chain addresses that may send transactions
    Validators,       \* the active validator set (query_all_validators)
    Commitments,      \* dealing commitment contents
    BlacklistWindow,  \* INVALID_ED25519_BLACKLISTING_EXPIRATION
    MaxHeight,        \* bound: last block height explored
    MaxEpoch          \* bound: last epoch id explored

ASSUME ValidatorsAssumption == Validators \subseteq Addr
ASSUME WindowAssumption == BlacklistWindow \in Nat
ASSUME BoundsAssumption == MaxHeight \in Nat /\ MaxEpoch \in Nat

VARIABLES
    height,          \* env.block.height
    epochId,         \* CURRENT_EPOCH.id
    phase,           \* CURRENT_EPOCH.state (its begun_at/finish_by abstracted)
    current,         \* keys of CURRENT_DEALERS
    past,            \* keys of PAST_DEALERS
    assignedIndex,   \* DealerDetails.assigned_index of current and past dealers
    bteValid,        \* whether DealerDetails.bte_public_key_with_proof verifies
    blacklist,       \* keys of BLACKLISTED_DEALERS
    expiration,      \* Blacklisting.expiration of blacklisted addresses
    counter,         \* NODE_INDEX_COUNTER
    dealings,        \* DEALING_COMMITMENTS as <<epoch, dealer, commitment>>
    result           \* response of the last execute

contractVars == <<height, epochId, phase, current, past,
                  assignedIndex, bteValid, blacklist, expiration, counter,
                  dealings, result>>

storeVars == <<epochId, phase, current, past, assignedIndex,
               bteValid, blacklist, expiration, counter, dealings>>

(***************************************************************************)
(* EpochState, in the order Epoch::next_state walks it.                    *)
(***************************************************************************)
Phases == {"PublicKeySubmission", "DealingExchange", "ComplaintSubmission",
           "ComplaintVoting", "VerificationKeySubmission",
           "VerificationKeyMismatchSubmission",
           "VerificationKeyMismatchVoting", "InProgress"}

NextPhase == [p \in Phases |->
    CASE p = "PublicKeySubmission"               -> "DealingExchange"
      [] p = "DealingExchange"                   -> "ComplaintSubmission"
      [] p = "ComplaintSubmission"               -> "ComplaintVoting"
      [] p = "ComplaintVoting"                   -> "VerificationKeySubmission"
      [] p = "VerificationKeySubmission"         -> "VerificationKeyMismatchSubmission"
      [] p = "VerificationKeyMismatchSubmission" -> "VerificationKeyMismatchVoting"
      [] p = "VerificationKeyMismatchVoting"     -> "InProgress"
      [] p = "InProgress"                        -> "PublicKeySubmission"]

Results == {"Ok", "EpochStateFinishInPast", "BlacklistedDealer",
            "AlreadyADealer", "NotAValidator", "InvalidEd25519Signature",
            "NoDepositFound", "MultipleDenoms", "WrongDenom",
            "InsufficientDeposit", "MismatchedEpoch", "AlreadyCommitted"}

(***************************************************************************)
(* The deposit attached to RegisterDealer: how many coins, whether the     *)
(* first is in STAKE_DENOM and whether it reaches MINIMUM_DEPOSIT.         *)
(***************************************************************************)
Deposits == [coins : 0..2, stakeDenom : BOOLEAN, enough : BOOLEAN]

(***************************************************************************)
(* ceil(2/3 * validators) by integer division, the system_threshold       *)
(* instantiate stores when none is given.                                  *)
(***************************************************************************)
DefaultThreshold(v) == (2 * v + 3 - 1) \div 3

(***************************************************************************)
(* Blacklisting::has_expired: the expiration height has been passed.       *)
(***************************************************************************)
HasExpired(a, h) == h > expiration[a]

(***************************************************************************)
(* validate_dealer_deposit: the first check that fails, in code order.     *)
(***************************************************************************)
DepositError(d) ==
    CASE d.coins = 0      -> "NoDepositFound"
      [] d.coins > 1      -> "MultipleDenoms"
      [] ~d.stakeDenom    -> "WrongDenom"
      [] ~d.enough        -> "InsufficientDeposit"
      [] OTHER            -> "Ok"

(***************************************************************************)
(* The ledger keeps a handler's blacklist writes only if it returns Ok:    *)
(* an execute that returns Err is reverted as a whole.                     *)
(***************************************************************************)
(***************************************************************************)
(* Mutant: the handler's writes kept although it returns Err, as if        *)
(* try_add_dealer returned Ok after saving the blacklisting.               *)
(***************************************************************************)
PersistedEvenOnError(res, written, before) == written

Persisted(res, written, before) == IF res = "Ok" THEN written ELSE before

(***************************************************************************)
(* An execute that returns Err: nothing the handler wrote survives.        *)
(***************************************************************************)
Reject(err) ==
    /\ result' = err
    /\ UNCHANGED <<height, storeVars>>

(***************************************************************************)
(* instantiate, from the initial state of a freshly deployed contract.    *)
(***************************************************************************)
ContractInit ==
    /\ height = 0
    /\ epochId = 0
    /\ phase = "PublicKeySubmission"
    /\ current = {}
    /\ past = {}
    /\ assignedIndex = [a \in Addr |-> 0]
    /\ bteValid = [a \in Addr |-> FALSE]
    /\ blacklist = {}
    /\ expiration = [a \in Addr |-> 0]
    /\ counter = 0
    /\ dealings = {}
    /\ result = "Ok"

(***************************************************************************)
(* A new block.                                                            *)
(***************************************************************************)
Tick ==
    /\ height < MaxHeight
    /\ height' = height + 1
    /\ UNCHANGED <<storeVars, result>>

(***************************************************************************)
(* Mutant of verify_dealer: the validator-set query left out.              *)
(***************************************************************************)
AdmissionErrorNoValidatorCheck(a) ==
    CASE a \in blacklist /\ ~HasExpired(a, height) -> "BlacklistedDealer"
      [] a \in current                            -> "AlreadyADealer"
      [] OTHER                                    -> "Ok"

(***************************************************************************)
(* verify_dealer: the first eligibility check that fails, in code order.  *)
(* An expired blacklisting does not stop the sender (try_add_dealer drops  *)
(* it on success).                                                         *)
(***************************************************************************)
AdmissionError(a) ==
    CASE a \in blacklist /\ ~HasExpired(a, height) -> "BlacklistedDealer"
      [] a \in current                            -> "AlreadyADealer"
      [] a \notin Validators                      -> "NotAValidator"
      [] OTHER                                    -> "Ok"

(***************************************************************************)
(* Mutant of try_add_dealer: next_node_index off by one.                    *)
(***************************************************************************)
RegisterDealerIndexOffByOne(a, keyOk, bteOk, deposit) ==
    /\ a \notin current
    /\ a \in Validators
    /\ keyOk
    /\ DepositError(deposit) = "Ok"
    /\ result' = "Ok"
    /\ current' = current \cup {a}
    /\ assignedIndex' = [assignedIndex EXCEPT ![a] = counter - 1]
    /\ counter' = counter + 1
    /\ bteValid' = [bteValid EXCEPT ![a] = bteOk]
    /\ UNCHANGED <<height, epochId, phase, past, blacklist, expiration,
                   dealings>>

(***************************************************************************)
(* ExecuteMsg::RegisterDealer from `a`, handled by try_add_dealer.         *)
(* keyOk: the ed25519 owner signature decodes and verifies; bteOk: the BTE *)
(* key proof is valid (the contract does not check it).                    *)
(***************************************************************************)
RegisterDealer(a, keyOk, bteOk, deposit) ==
    LET purged == IF a \in blacklist THEN blacklist \ {a} ELSE blacklist
    IN
    \/ /\ AdmissionError(a) # "Ok"
       /\ Reject(AdmissionError(a))
    \/ /\ AdmissionError(a) = "Ok"
       /\ ~keyOk
       \* the handler saves a fresh blacklisting, then returns Err
       /\ result' = "InvalidEd25519Signature"
       /\ blacklist' = Persisted(result', purged \cup {a}, blacklist)
       /\ expiration' = Persisted(result',
              [expiration EXCEPT ![a] = height + BlacklistWindow],
              expiration)
       /\ UNCHANGED <<height, epochId, phase, current, past,
                      assignedIndex, bteValid, counter, dealings>>
    \/ /\ AdmissionError(a) = "Ok"
       /\ keyOk
       /\ DepositError(deposit) # "Ok"
       /\ Reject(DepositError(deposit))
    \/ /\ AdmissionError(a) = "Ok"
       /\ keyOk
       /\ DepositError(deposit) = "Ok"
       /\ result' = "Ok"
       /\ blacklist' = purged
       /\ IF a \in past
            THEN /\ past' = past \ {a}
                 /\ UNCHANGED <<assignedIndex, counter>>
            ELSE /\ assignedIndex' = [assignedIndex EXCEPT ![a] = counter]
                 /\ counter' = counter + 1
                 /\ UNCHANGED past
       /\ current' = current \cup {a}
       /\ bteValid' = [bteValid EXCEPT ![a] = bteOk]
       /\ UNCHANGED <<height, epochId, phase, expiration, dealings>>

(***************************************************************************)
(* ExecuteMsg::CommitDealing from `a`, handled by try_commit_dealing.      *)
(***************************************************************************)
CommitDealing(a, e, c) ==
    \/ /\ e # epochId
       /\ Reject("MismatchedEpoch")
    \/ /\ e = epochId
       /\ \E d \in dealings : d[1] = e /\ d[2] = a
       /\ Reject("AlreadyCommitted")
    \/ /\ e = epochId
       /\ ~\E d \in dealings : d[1] = e /\ d[2] = a
       /\ dealings' = dealings \cup {<<e, a, c>>}
       /\ result' = "Ok"
       /\ UNCHANGED <<height, epochId, phase, current, past,
                      assignedIndex, bteValid, blacklist, expiration, counter>>

(***************************************************************************)
(* ExecuteMsg::DebugAdvanceEpochState: the next phase of the cycle; the    *)
(* cycle wraps into the PublicKeySubmission of the next epoch.             *)
(***************************************************************************)
AdvanceEpochState ==
    /\ phase = "InProgress" => epochId < MaxEpoch
    /\ phase' = NextPhase[phase]
    /\ epochId' = IF phase = "InProgress" THEN epochId + 1 ELSE epochId
    /\ result' = "Ok"
    /\ UNCHANGED <<height, current, past, assignedIndex, bteValid,
                   blacklist, expiration, counter, dealings>>

(***************************************************************************)
(* Mutants of reset_contract_state: the loop removing current dealers, or  *)
(* the loop removing dealing commitments, left out.                        *)
(***************************************************************************)
ResetAllKeepingDealers(endHeight) ==
    /\ endHeight >= height
    /\ epochId' = 0
    /\ phase' = "PublicKeySubmission"
    /\ past' = {}
    /\ blacklist' = {}
    /\ dealings' = {}
    /\ counter' = 0
    /\ result' = "Ok"
    /\ UNCHANGED <<height, current, assignedIndex, bteValid, expiration>>

ResetAllKeepingCommitments(endHeight) ==
    /\ endHeight >= height
    /\ epochId' = 0
    /\ phase' = "PublicKeySubmission"
    /\ current' = {}
    /\ past' = {}
    /\ blacklist' = {}
    /\ counter' = 0
    /\ result' = "Ok"
    /\ UNCHANGED <<height, assignedIndex, bteValid, expiration, dealings>>

(***************************************************************************)
(* ExecuteMsg::DebugUnsafeResetAll: instantiate again, then remove every   *)
(* current dealer, past dealer, blacklisting and commitment, and reset the *)
(* node index counter.  endHeight is public_key_submission_end_height; the *)
(* system_threshold it stores is read by nothing modelled here.            *)
(***************************************************************************)
ResetAll(endHeight) ==
    \/ /\ endHeight < height
       /\ Reject("EpochStateFinishInPast")
    \/ /\ endHeight >= height
       /\ epochId' = 0
       /\ phase' = "PublicKeySubmission"
       /\ current' = {}
       /\ past' = {}
       /\ blacklist' = {}
       /\ dealings' = {}
       /\ counter' = 0
       /\ result' = "Ok"
       /\ UNCHANGED <<height, assignedIndex, bteValid, expiration>>

(***************************************************************************)
(* Any sender, any message, built from small sets of inputs.               *)
(***************************************************************************)
ContractNext ==
    \/ Tick
    \/ \E a \in Addr, keyOk, bteOk \in BOOLEAN, d \in Deposits :
          RegisterDealer(a, keyOk, bteOk, d)
    \/ \E a \in Addr, e \in 0..MaxEpoch, c \in Commitments :
          CommitDealing(a, e, c)
    \/ AdvanceEpochState
    \/ \E h \in 0..MaxHeight : ResetAll(h)

ContractSpec == ContractInit /\ [][ContractNext]_contractVars

(***************************************************************************)
(* The registry the contract implements: its current dealers with their    *)
(* assigned indices.  Past dealers, blacklistings, deposits and the node   *)
(* index counter are the contract's own business.                          *)
(***************************************************************************)
Registry == INSTANCE DealerRegistry WITH dealers <- current, index <- assignedIndex

-----------------------------------------------------------------------------
(***************************************************************************)
(* Properties.                                                             *)
(***************************************************************************)

TypeOK ==
    /\ height \in Nat
    /\ epochId \in Nat
    /\ phase \in Phases
    /\ current \subseteq Addr
    /\ past \subseteq Addr
    /\ assignedIndex \in [Addr -> Nat]
    /\ bteValid \in [Addr -> BOOLEAN]
    /\ blacklist \subseteq Addr
    /\ expiration \in [Addr -> Nat]
    /\ counter \in Nat
    /\ dealings \subseteq (Nat \X Addr \X Commitments)
    /\ result \in Results

(***************************************************************************)
(* Node indices identify dealers in the threshold scheme: no two current   *)
(* or past dealers ever hold the same assigned_index, across registrations *)
(* (try_add_dealer, next_node_index) and DebugUnsafeResetAll.              *)
(***************************************************************************)
UniqueNodeIndex ==
    \A a, b \in current \cup past :
        a # b => assignedIndex[a] # assignedIndex[b]

(***************************************************************************)
(* No dealing commitment is for an epoch later than the current one: a     *)
(* reset that rewinds the epoch id to 0 leaves no commitment of the        *)
(* ceremony it abandoned (reset_contract_state, try_commit_dealing).       *)
(***************************************************************************)
NoCommitmentFromAbandonedEpoch ==
    \A d \in dealings : d[1] <= epochId

(***************************************************************************)
(* No blacklisting is ever stored.  try_add_dealer's only write to         *)
(* BLACKLISTED_DEALERS is followed by `return Err`, which reverts it, and  *)
(* verify_dealer only ever removes entries; so the BlacklistedDealer       *)
(* branch of verify_dealer and the expiry test at its boundary            *)
(* (Blacklisting::has_expired) are never reached, whatever the order of    *)
(* registrations, key failures, resets and blocks.                         *)
(***************************************************************************)
NoBlacklistingSurvives == blacklist = {}

(***************************************************************************)
(* The spec (4.2 step 4, 8) says a failed key-possession check leaves the  *)
(* candidate blacklisted although RegisterDealer returns an error.         *)
(***************************************************************************)
KeyFailureBlacklists ==
    [][result' = "InvalidEd25519Signature" =>
         \E a \in Addr : a \in blacklist' /\ a \notin blacklist]_contractVars

(***************************************************************************)
(* The contract implements the dealer registry: try_add_dealer admits only *)
(* validators that are not dealers, with an index no current dealer holds *)
(* (fresh from next_node_index or its own from PAST_DEALERS), no execute   *)
(* changes a current dealer's index, and only reset_contract_state drops   *)
(* dealers.                                                                *)
(***************************************************************************)
ImplementsRegistry == Registry!RegistrySpec

=============================================================================
