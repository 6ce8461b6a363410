------------------------- MODULE DKGContractProofs -------------------------
(***************************************************************************)
(* Proofs about DKGContract for every value of its constants: the type     *)
(* invariant, unique node indices and the absence of commitments from an   *)
(* abandoned epoch, from one inductive invariant; and what the default     *)
(* system threshold computes.                                              *)
(***************************************************************************)
EXTENDS DKGContract, TLAPS

(***************************************************************************)
(* Every index handed out so far is below the node index counter: the    *)
(* strengthening UniqueNodeIndex needs, since a new dealer gets `counter`. *)
(***************************************************************************)
IndexBelowCounter == \A a \in current \cup past : assignedIndex[a] < counter

Inv == /\ TypeOK
       /\ IndexBelowCounter
       /\ UniqueNodeIndex
       /\ NoCommitmentFromAbandonedEpoch

(***************************************************************************)
(* validate_dealer_deposit only ever answers with a contract response.     *)
(***************************************************************************)
LEMMA DepositErrorType ==
    ASSUME NEW d \in Deposits
    PROVE  DepositError(d) \in Results
BY DEF DepositError, Results

LEMMA InitInv == ContractInit => Inv
BY DEF ContractInit, Inv, TypeOK, IndexBelowCounter, UniqueNodeIndex,
       NoCommitmentFromAbandonedEpoch, Results, Phases

(***************************************************************************)
(* A rejected execute changes nothing but the response.                    *)
(***************************************************************************)
LEMMA RejectInv ==
    ASSUME Inv, NEW err \in Results, Reject(err)
    PROVE  Inv'
BY DEF Reject, storeVars, Inv, TypeOK, IndexBelowCounter, UniqueNodeIndex,
       NoCommitmentFromAbandonedEpoch

(***************************************************************************)
(* verify_dealer answers with a contract response, and lets a sender       *)
(* through only if it is not a current dealer.                             *)
(***************************************************************************)
LEMMA AdmissionErrorFacts ==
    ASSUME NEW a
    PROVE  /\ AdmissionError(a) \in Results
           /\ AdmissionError(a) = "Ok" => a \notin current
           /\ AdmissionError(a) = "Ok" => a \in Validators
BY DEF AdmissionError, Results

LEMMA RegisterDealerInv ==
    ASSUME Inv, NEW a \in Addr, NEW keyOk \in BOOLEAN, NEW bteOk \in BOOLEAN,
           NEW d \in Deposits, RegisterDealer(a, keyOk, bteOk, d)
    PROVE  Inv'
<1> USE DEF Results
<1> DEFINE purged == IF a \in blacklist THEN blacklist \ {a} ELSE blacklist
<1>1. CASE AdmissionError(a) # "Ok" /\ Reject(AdmissionError(a))
  BY <1>1, RejectInv, AdmissionErrorFacts
<1>2. CASE /\ result' = "InvalidEd25519Signature"
           /\ blacklist' = Persisted(result', purged \cup {a}, blacklist)
           /\ expiration' = Persisted(result',
                  [expiration EXCEPT ![a] = height + BlacklistWindow],
                  expiration)
           /\ UNCHANGED <<height, epochId, phase, current, past,
                          assignedIndex, bteValid, counter, dealings>>
  BY <1>2 DEF Persisted, Inv, TypeOK, IndexBelowCounter, UniqueNodeIndex,
              NoCommitmentFromAbandonedEpoch
<1>3. CASE DepositError(d) # "Ok" /\ Reject(DepositError(d))
  BY <1>3, RejectInv, DepositErrorType
<1>4. CASE /\ AdmissionError(a) = "Ok"
           /\ result' = "Ok"
           /\ blacklist' = purged
           /\ IF a \in past
                THEN /\ past' = past \ {a}
                     /\ UNCHANGED <<assignedIndex, counter>>
                ELSE /\ assignedIndex' = [assignedIndex EXCEPT ![a] = counter]
                     /\ counter' = counter + 1
                     /\ UNCHANGED past
           /\ current' = current \cup {a}
           /\ bteValid' = [bteValid EXCEPT ![a] = bteOk]
           /\ UNCHANGED <<height, epochId, phase, expiration, dealings>>
  <2>0. a \notin current
    BY <1>4, AdmissionErrorFacts
  <2>1. TypeOK'
    BY <1>4 DEF Inv, TypeOK
  <2>2. CASE a \in past
    <3>1. IndexBelowCounter'
      BY <1>4, <2>2 DEF Inv, TypeOK, IndexBelowCounter
    <3>2. UniqueNodeIndex'
      BY <1>4, <2>2 DEF Inv, TypeOK, UniqueNodeIndex
    <3>3. NoCommitmentFromAbandonedEpoch'
      BY <1>4 DEF Inv, NoCommitmentFromAbandonedEpoch
    <3>4. QED
      BY <2>1, <3>1, <3>2, <3>3 DEF Inv
  <2>3. CASE a \notin past
    <3>1. IndexBelowCounter'
      BY <1>4, <2>3 DEF Inv, TypeOK, IndexBelowCounter
    <3>2. UniqueNodeIndex'
      BY <1>4, <2>0, <2>3 DEF Inv, TypeOK, IndexBelowCounter, UniqueNodeIndex
    <3>3. NoCommitmentFromAbandonedEpoch'
      BY <1>4 DEF Inv, NoCommitmentFromAbandonedEpoch
    <3>4. QED
      BY <2>1, <3>1, <3>2, <3>3 DEF Inv
  <2>4. QED
    BY <2>2, <2>3
<1>5. QED
  BY <1>1, <1>2, <1>3, <1>4 DEF RegisterDealer

LEMMA CommitDealingInv ==
    ASSUME Inv, NEW a \in Addr, NEW e \in 0..MaxEpoch, NEW c \in Commitments,
           CommitDealing(a, e, c)
    PROVE  Inv'
<1> USE DEF Results
<1>1. CASE e # epochId /\ Reject("MismatchedEpoch")
  BY <1>1, RejectInv
<1>2. CASE Reject("AlreadyCommitted")
  BY <1>2, RejectInv
<1>3. CASE /\ e = epochId
           /\ dealings' = dealings \cup {<<e, a, c>>}
           /\ result' = "Ok"
           /\ UNCHANGED <<height, epochId, phase, current, past,
                          assignedIndex, bteValid, blacklist, expiration,
                          counter>>
  BY <1>3 DEF Inv, TypeOK, IndexBelowCounter, UniqueNodeIndex,
              NoCommitmentFromAbandonedEpoch
<1>4. QED
  BY <1>1, <1>2, <1>3 DEF CommitDealing

LEMMA AdvanceEpochStateInv ==
    ASSUME Inv, AdvanceEpochState
    PROVE  Inv'
<1>1. NextPhase \in [Phases -> Phases]
  BY DEF NextPhase, Phases
<1>2. QED
  BY <1>1 DEF AdvanceEpochState, Inv, TypeOK, Results, IndexBelowCounter,
              UniqueNodeIndex, NoCommitmentFromAbandonedEpoch

LEMMA ResetAllInv ==
    ASSUME Inv, NEW h \in 0..MaxHeight, ResetAll(h)
    PROVE  Inv'
<1>1. CASE Reject("EpochStateFinishInPast")
  BY <1>1, RejectInv DEF Results
<1>2. CASE /\ epochId' = 0
           /\ phase' = "PublicKeySubmission"
           /\ current' = {}
           /\ past' = {}
           /\ blacklist' = {}
           /\ dealings' = {}
           /\ counter' = 0
           /\ result' = "Ok"
           /\ UNCHANGED <<height, assignedIndex, bteValid, expiration>>
  BY <1>2 DEF Inv, TypeOK, Results, Phases, IndexBelowCounter,
              UniqueNodeIndex, NoCommitmentFromAbandonedEpoch
<1>3. QED
  BY <1>1, <1>2 DEF ResetAll

LEMMA TickInv == Inv /\ Tick => Inv'
BY DEF Tick, storeVars, Inv, TypeOK, IndexBelowCounter, UniqueNodeIndex,
       NoCommitmentFromAbandonedEpoch

LEMMA NextInv == Inv /\ [ContractNext]_contractVars => Inv'
<1> SUFFICES ASSUME Inv, [ContractNext]_contractVars PROVE Inv'
  OBVIOUS
<1>1. CASE Tick
  BY <1>1, TickInv
<1>2. CASE \E a \in Addr, keyOk, bteOk \in BOOLEAN, d \in Deposits :
              RegisterDealer(a, keyOk, bteOk, d)
  BY <1>2, RegisterDealerInv
<1>3. CASE \E a \in Addr, e \in 0..MaxEpoch, c \in Commitments :
              CommitDealing(a, e, c)
  BY <1>3, CommitDealingInv
<1>4. CASE AdvanceEpochState
  BY <1>4, AdvanceEpochStateInv
<1>5. CASE \E h \in 0..MaxHeight : ResetAll(h)
  BY <1>5, ResetAllInv
<1>6. CASE UNCHANGED contractVars
  BY <1>6 DEF contractVars, Inv, TypeOK, IndexBelowCounter, UniqueNodeIndex,
              NoCommitmentFromAbandonedEpoch
<1>7. QED
  BY <1>1, <1>2, <1>3, <1>4, <1>5, <1>6 DEF ContractNext

(***************************************************************************)
(* The contract's state always has its type (MCDKGContract checks TypeOK). *)
(***************************************************************************)
THEOREM TypeCorrect == ContractSpec => []TypeOK
<1>1. Inv => TypeOK
  BY DEF Inv
<1>2. QED
  BY <1>1, InitInv, NextInv, PTL DEF ContractSpec

(***************************************************************************)
(* No two current or past dealers ever share a node index, through any    *)
(* sequence of registrations, commitments, phase changes and resets        *)
(* (try_add_dealer, next_node_index, reset_contract_state).                *)
(***************************************************************************)
THEOREM NodeIndicesUnique == ContractSpec => []UniqueNodeIndex
<1>1. Inv => UniqueNodeIndex
  BY DEF Inv
<1>2. QED
  BY <1>1, InitInv, NextInv, PTL DEF ContractSpec

(***************************************************************************)
(* No stored dealing commitment is for an epoch after the current one, so  *)
(* a reset abandons every commitment of the ceremony it restarts           *)
(* (reset_contract_state, try_commit_dealing).                             *)
(***************************************************************************)
THEOREM NoAbandonedCommitments == ContractSpec => []NoCommitmentFromAbandonedEpoch
<1>1. Inv => NoCommitmentFromAbandonedEpoch
  BY DEF Inv
<1>2. QED
  BY <1>1, InitInv, NextInv, PTL DEF ContractSpec

-----------------------------------------------------------------------------
(***************************************************************************)
(* NoBlacklistingSurvives is inductive by itself: the one execute that     *)
(* writes a blacklisting returns Err, and the ledger keeps none of it.     *)
(***************************************************************************)
LEMMA RegisterDealerKeepsNoBlacklist ==
    ASSUME NoBlacklistingSurvives, NEW a, NEW keyOk, NEW bteOk, NEW d,
           RegisterDealer(a, keyOk, bteOk, d)
    PROVE  NoBlacklistingSurvives'
<1> DEFINE purged == IF a \in blacklist THEN blacklist \ {a} ELSE blacklist
<1>1. CASE AdmissionError(a) # "Ok" /\ Reject(AdmissionError(a))
  BY <1>1 DEF Reject, storeVars, NoBlacklistingSurvives
<1>2. CASE /\ result' = "InvalidEd25519Signature"
           /\ blacklist' = Persisted(result', purged \cup {a}, blacklist)
  BY <1>2 DEF Persisted, NoBlacklistingSurvives
<1>3. CASE DepositError(d) # "Ok" /\ Reject(DepositError(d))
  BY <1>3 DEF Reject, storeVars, NoBlacklistingSurvives
<1>4. CASE blacklist' = purged
  BY <1>4 DEF NoBlacklistingSurvives
<1>5. QED
  BY <1>1, <1>2, <1>3, <1>4 DEF RegisterDealer

LEMMA NoBlacklistStep ==
    NoBlacklistingSurvives /\ [ContractNext]_contractVars
        => NoBlacklistingSurvives'
<1> SUFFICES ASSUME NoBlacklistingSurvives, [ContractNext]_contractVars
             PROVE  NoBlacklistingSurvives'
  OBVIOUS
<1>1. CASE Tick
  BY <1>1 DEF Tick, storeVars, NoBlacklistingSurvives
<1>2. CASE \E a \in Addr, keyOk, bteOk \in BOOLEAN, d \in Deposits :
              RegisterDealer(a, keyOk, bteOk, d)
  BY <1>2, RegisterDealerKeepsNoBlacklist
<1>3. CASE \E a \in Addr, e \in 0..MaxEpoch, c \in Commitments :
              CommitDealing(a, e, c)
  BY <1>3 DEF CommitDealing, Reject, storeVars, NoBlacklistingSurvives
<1>4. CASE AdvanceEpochState
  BY <1>4 DEF AdvanceEpochState, NoBlacklistingSurvives
<1>5. CASE \E h \in 0..MaxHeight : ResetAll(h)
  BY <1>5 DEF ResetAll, Reject, storeVars, NoBlacklistingSurvives
<1>6. CASE UNCHANGED contractVars
  BY <1>6 DEF contractVars, NoBlacklistingSurvives
<1>7. QED
  BY <1>1, <1>2, <1>3, <1>4, <1>5, <1>6 DEF ContractNext

(***************************************************************************)
(* No blacklisting is ever stored, through any sequence of registrations   *)
(* (with failing key-possession signatures), commitments, phase changes,   *)
(* resets and blocks: try_add_dealer's BLACKLISTED_DEALERS.save is always  *)
(* reverted by its own `return Err`, so verify_dealer never refuses a      *)
(* dealer as BlacklistedDealer and its expiry test is dead code.           *)
(***************************************************************************)
THEOREM BlacklistNeverStored == ContractSpec => []NoBlacklistingSurvives
<1>1. ContractInit => NoBlacklistingSurvives
  BY DEF ContractInit, NoBlacklistingSurvives
<1>2. QED
  BY <1>1, NoBlacklistStep, PTL DEF ContractSpec

(***************************************************************************)
(* The threshold instantiate stores when none is given is the ceiling of   *)
(* two thirds of the validator count: the least t with 3t >= 2v.           *)
(***************************************************************************)
THEOREM DefaultThresholdIsCeiling ==
    ASSUME NEW v \in Nat
    PROVE  /\ DefaultThreshold(v) \in Nat
           /\ 3 * DefaultThreshold(v) >= 2 * v
           /\ 3 * (DefaultThreshold(v) - 1) < 2 * v
BY DEF DefaultThreshold

-----------------------------------------------------------------------------
(***************************************************************************)
(* Refinement of DealerRegistry.  A successful RegisterDealer is an Admit, *)
(* a successful reset a Clear, and every other execute leaves the current  *)
(* dealers and their indices alone.                                        *)
(***************************************************************************)
RegVars == <<current, assignedIndex>>

LEMMA RegistryInitStep == ContractInit => Registry!RegistryInit
BY DEF ContractInit, Registry!RegistryInit

LEMMA RegisterDealerRefines ==
    ASSUME Inv, NEW a \in Addr, NEW keyOk \in BOOLEAN, NEW bteOk \in BOOLEAN,
           NEW d \in Deposits, RegisterDealer(a, keyOk, bteOk, d)
    PROVE  [Registry!RegistryNext]_RegVars
<1> DEFINE purged == IF a \in blacklist THEN blacklist \ {a} ELSE blacklist
<1>1. CASE AdmissionError(a) # "Ok" /\ Reject(AdmissionError(a))
  BY <1>1 DEF Reject, storeVars, RegVars
<1>2. CASE /\ result' = "InvalidEd25519Signature"
           /\ UNCHANGED <<height, epochId, phase, current, past,
                          assignedIndex, bteValid, counter, dealings>>
  BY <1>2 DEF RegVars
<1>3. CASE DepositError(d) # "Ok" /\ Reject(DepositError(d))
  BY <1>3 DEF Reject, storeVars, RegVars
<1>4. CASE /\ AdmissionError(a) = "Ok"
           /\ IF a \in past
                THEN /\ past' = past \ {a}
                     /\ UNCHANGED <<assignedIndex, counter>>
                ELSE /\ assignedIndex' = [assignedIndex EXCEPT ![a] = counter]
                     /\ counter' = counter + 1
                     /\ UNCHANGED past
           /\ current' = current \cup {a}
  <2>1. a \in Validators \ current
    BY <1>4, AdmissionErrorFacts
  <2>2. assignedIndex'[a] \in Nat \ {assignedIndex[b] : b \in current}
    <3>1. CASE a \in past
      BY <1>4, <2>1, <3>1 DEF Inv, TypeOK, UniqueNodeIndex
    <3>2. CASE a \notin past
      BY <1>4, <2>1, <3>2 DEF Inv, TypeOK, IndexBelowCounter
    <3>3. QED
      BY <3>1, <3>2
  <2>3. assignedIndex' = [assignedIndex EXCEPT ![a] = assignedIndex'[a]]
    BY <1>4 DEF Inv, TypeOK
  <2>4. Registry!Admit(a)
    BY <1>4, <2>1, <2>2, <2>3 DEF Registry!Admit
  <2>5. QED
    BY <2>4 DEF Registry!RegistryNext
<1>5. QED
  BY <1>1, <1>2, <1>3, <1>4 DEF RegisterDealer

LEMMA ResetAllRefines ==
    ASSUME NEW h \in 0..MaxHeight, ResetAll(h)
    PROVE  [Registry!RegistryNext]_RegVars
<1>1. CASE Reject("EpochStateFinishInPast")
  BY <1>1 DEF Reject, storeVars, RegVars
<1>2. CASE current' = {} /\ UNCHANGED assignedIndex
  BY <1>2 DEF Registry!RegistryNext, Registry!Clear
<1>3. QED
  BY <1>1, <1>2 DEF ResetAll

LEMMA RegistryNextStep ==
    Inv /\ [ContractNext]_contractVars => [Registry!RegistryNext]_RegVars
<1> SUFFICES ASSUME Inv, [ContractNext]_contractVars
             PROVE  [Registry!RegistryNext]_RegVars
  OBVIOUS
<1>1. CASE Tick
  BY <1>1 DEF Tick, storeVars, RegVars
<1>2. CASE \E a \in Addr, keyOk, bteOk \in BOOLEAN, d \in Deposits :
              RegisterDealer(a, keyOk, bteOk, d)
  BY <1>2, RegisterDealerRefines
<1>3. CASE \E a \in Addr, e \in 0..MaxEpoch, c \in Commitments :
              CommitDealing(a, e, c)
  BY <1>3 DEF CommitDealing, Reject, storeVars, RegVars
<1>4. CASE AdvanceEpochState
  BY <1>4 DEF AdvanceEpochState, RegVars
<1>5. CASE \E h \in 0..MaxHeight : ResetAll(h)
  BY <1>5, ResetAllRefines
<1>6. CASE UNCHANGED contractVars
  BY <1>6 DEF contractVars, RegVars
<1>7. QED
  BY <1>1, <1>2, <1>3, <1>4, <1>5, <1>6 DEF ContractNext

(***************************************************************************)
(* For every set of addresses and validators, the contract implements the *)
(* abstract dealer registry (try_add_dealer, next_node_index,              *)
(* reset_contract_state): MCDKGContract checks the same as the property    *)
(* ImplementsRegistry.                                                     *)
(***************************************************************************)
THEOREM ContractImplementsRegistry == ContractSpec => ImplementsRegistry
<1>1. ContractSpec => []Inv
  BY InitInv, NextInv, PTL DEF ContractSpec
<1>2. QED
  BY <1>1, RegistryInitStep, RegistryNextStep, PTL
     DEF ContractSpec, ImplementsRegistry, Registry!RegistrySpec, RegVars,
         Registry!registryVars

=============================================================================
