-------------------------- MODULE DKGWatcherProofs --------------------------
(***************************************************************************)
(* Proofs about DKGWatcher, the watcher, StateAccessor and executor        *)
(* composed with the contract, for every value of the constants: the      *)
(* contract's invariants survive the composition, and the watcher's state  *)
(* keeps its type, its event queue within its bound.                       *)
(***************************************************************************)
EXTENDS DKGWatcher, DKGContractProofs, SequenceTheorems

EventKinds ==
    {"DealerSetChange", "KnownCommitmentsChange", "KeySubmission",
     "DealingCommitmentSubmission"}

\* What the StateAccessor's queue may hold: a change event names contract
\* dealers and commitments, a commitment submission an epoch the contract
\* has had.
Events ==
    [type : EventKinds, dealers : SUBSET (Addr \X BOOLEAN),
     commitments : SUBSET (Addr \X Commitments), removals : SUBSET Addr,
     epoch : 0..MaxEpoch]

\* The epoch never passes its bound: AdvanceEpochState wraps only below it.
EpochBounded == epochId \in 0..MaxEpoch

(***************************************************************************)
(* The inductive invariant: the contract's, plus the types of the queue   *)
(* and of the epoch a poll read, which the executor hands to CommitDealing. *)
(***************************************************************************)
WatcherInv ==
    /\ Inv
    /\ EpochBounded
    /\ WatcherTypeOK
    /\ events \in Seq(Events)
    /\ wEpochId \in 0..MaxEpoch

-----------------------------------------------------------------------------
(***************************************************************************)
(* The contract side.                                                      *)
(***************************************************************************)

LEMMA EpochBoundedStep ==
    ASSUME TypeOK, EpochBounded, [ContractNext]_contractVars
    PROVE  EpochBounded'
<1>1. CASE Tick
  BY <1>1 DEF Tick, storeVars, EpochBounded
<1>2. CASE \E a \in Addr, keyOk, bteOk \in BOOLEAN, d \in Deposits :
              RegisterDealer(a, keyOk, bteOk, d)
  BY <1>2 DEF RegisterDealer, Reject, storeVars, EpochBounded
<1>3. CASE \E a \in Addr, e \in 0..MaxEpoch, c \in Commitments :
              CommitDealing(a, e, c)
  BY <1>3 DEF CommitDealing, Reject, storeVars, EpochBounded
<1>4. CASE AdvanceEpochState
  BY <1>4, BoundsAssumption DEF AdvanceEpochState, EpochBounded, TypeOK
<1>5. CASE \E h \in 0..MaxHeight : ResetAll(h)
  BY <1>5, BoundsAssumption DEF ResetAll, Reject, storeVars, EpochBounded
<1>6. CASE UNCHANGED contractVars
  BY <1>6 DEF contractVars, EpochBounded
<1>7. QED
  BY <1>1, <1>2, <1>3, <1>4, <1>5, <1>6 DEF ContractNext

\* The deposit the executor attaches to our own RegisterDealer.
LEMMA OwnDepositType ==
    [coins |-> 1, stakeDenom |-> TRUE, enough |-> TRUE] \in Deposits
BY DEF Deposits

(***************************************************************************)
(* Every step of the composition is a contract step or leaves the contract *)
(* alone: the executor's transactions are RegisterDealer and CommitDealing *)
(* from Self, with an epoch a poll read.                                   *)
(***************************************************************************)
LEMMA ContractStepOfWatcher ==
    ASSUME WatcherInv, Next
    PROVE  [ContractNext]_contractVars
<1>1. Self \in Addr
  BY SelfAssumption, ValidatorsAssumption
<1>2. CASE \/ PollContract \/ PublicKeySubmissionActions
           \/ DealingExchangeActions \/ CheckForOwnKeySubmission
           \/ CheckForDealersChange \/ CheckForOwnDealingCommitment
           \/ CheckForCommitmentsChange \/ QueryFails
  BY <1>2 DEF PollContract, PublicKeySubmissionActions, DealingExchangeActions,
              CheckForOwnKeySubmission, CheckForDealersChange,
              CheckForOwnDealingCommitment, CheckForCommitmentsChange,
              QueryFails
<1>3. CASE ProcessEvent
  <2> DEFINE e == Head(events)
  <2>1. e \in Events
    BY <1>3 DEF ProcessEvent, WatcherInv
  <2>2. CASE e.type = "KeySubmission"
    BY <1>1, <1>3, <2>2, OwnDepositType DEF ProcessEvent, ContractNext
  <2>3. CASE e.type = "DealingCommitmentSubmission"
    BY <1>1, <1>3, <2>1, <2>3 DEF ProcessEvent, ContractNext, Events
  <2>4. CASE e.type \in {"DealerSetChange", "KnownCommitmentsChange"}
    BY <1>3, <2>4 DEF ProcessEvent, contractVars
  <2>5. QED
    BY <2>1, <2>2, <2>3, <2>4 DEF Events, EventKinds
<1>4. CASE Environment
  BY <1>4 DEF Environment, ContractNext
<1>5. CASE Reset
  BY <1>5 DEF Reset, ContractNext
<1>6. QED
  BY <1>2, <1>3, <1>4, <1>5 DEF Next

LEMMA ContractInvOfWatcher ==
    ASSUME WatcherInv, [Next]_vars
    PROVE  Inv' /\ EpochBounded'
<1>1. [ContractNext]_contractVars
  BY ContractStepOfWatcher DEF vars
<1>2. QED
  BY <1>1, NextInv, EpochBoundedStep DEF WatcherInv, Inv

-----------------------------------------------------------------------------
(***************************************************************************)
(* The watcher side.                                                       *)
(***************************************************************************)
WatcherLocalInv ==
    /\ WatcherTypeOK
    /\ events \in Seq(Events)
    /\ wEpochId \in 0..MaxEpoch

\* Push appends within the bound, so the queue keeps its type and bound.
LEMMA PushType ==
    ASSUME events \in Seq(Events), NEW e \in Events, Push(e)
    PROVE  /\ events' \in Seq(Events)
           /\ Len(events') <= MaxEvents
BY WatcherBoundsAssumption DEF Push

\* Every event a poll raises is an Events record.
LEMMA EventOfType ==
    ASSUME NEW t \in EventKinds, NEW ds \in SUBSET (Addr \X BOOLEAN),
           NEW cs \in SUBSET (Addr \X Commitments), NEW rs \in SUBSET Addr,
           NEW ep \in 0..MaxEpoch
    PROVE  EventOf(t, ds, cs, rs, ep) \in Events
BY DEF EventOf, Events

LEMMA EndPollType ==
    ASSUME EndPoll
    PROVE  /\ wpc' = "idle"
           /\ wDealers' \subseteq (Addr \X BOOLEAN)
           /\ wCommitments' \subseteq (Addr \X Commitments)
           /\ wEpochId' \in 0..MaxEpoch
BY BoundsAssumption DEF EndPoll

LEMMA PollStepsType ==
    ASSUME WatcherInv,
           \/ PollContract \/ PublicKeySubmissionActions
           \/ DealingExchangeActions \/ QueryFails
    PROVE  WatcherLocalInv'
<1> USE DEF WatcherInv, WatcherLocalInv, WatcherTypeOK
<1>1. CASE PollContract
  BY <1>1 DEF PollContract, EpochBounded, localVars
<1>2. CASE PublicKeySubmissionActions
  BY <1>2 DEF PublicKeySubmissionActions, Inv, TypeOK, localVars
<1>3. CASE DealingExchangeActions
  BY <1>3 DEF DealingExchangeActions, Inv, TypeOK, localVars
<1>4. CASE QueryFails
  BY <1>4, EndPollType DEF QueryFails, localVars
<1>5. QED
  BY <1>1, <1>2, <1>3, <1>4

LEMMA SelfChecksType ==
    ASSUME WatcherInv,
           \/ CheckForOwnKeySubmission \/ CheckForOwnDealingCommitment
    PROVE  WatcherLocalInv'
<1> USE DEF WatcherInv, WatcherLocalInv, WatcherTypeOK
<1>1. 0 \in 0..MaxEpoch
  BY BoundsAssumption
<1>2. CASE CheckForOwnKeySubmission
  <2>1. EventOf("KeySubmission", {}, {}, {}, 0) \in Events
    BY <1>1, EventOfType DEF EventKinds
  <2>2. QED
    BY <1>2, <2>1, PushType DEF CheckForOwnKeySubmission, localVars
<1>3. CASE CheckForOwnDealingCommitment
  <2>1. EventOf("DealingCommitmentSubmission", {}, {}, {}, wEpochId) \in Events
    BY EventOfType DEF EventKinds
  <2>2. QED
    BY <1>3, <2>1, PushType DEF CheckForOwnDealingCommitment, localVars
<1>4. QED
  BY <1>2, <1>3

LEMMA ChangeChecksType ==
    ASSUME WatcherInv,
           \/ CheckForDealersChange \/ CheckForCommitmentsChange
    PROVE  WatcherLocalInv'
<1> USE DEF WatcherInv, WatcherLocalInv, WatcherTypeOK
<1>1. 0 \in 0..MaxEpoch
  BY BoundsAssumption
<1>2. CASE CheckForDealersChange
  <2> DEFINE removals == (knownDealers \cup badDealers) \ Addresses(wDealers)
             additions == {p \in wDealers : p[1] \notin knownDealers \cup badDealers}
  <2>1. EventOf("DealerSetChange", additions, {}, removals, 0) \in Events
    BY <1>1, EventOfType DEF EventKinds
  <2>2. QED
    BY <1>2, <2>1, PushType, EndPollType DEF CheckForDealersChange
<1>3. CASE CheckForCommitmentsChange
  <2> DEFINE removals == Addresses(knownCommitments) \ Addresses(wCommitments)
             updates == {p \in wCommitments :
                            \E q \in knownCommitments : q[1] = p[1] /\ q[2] # p[2]}
             additions == {p \in wCommitments :
                              p[1] \notin Addresses(knownCommitments)}
  <2>1. removals \subseteq Addr
    BY DEF Addresses
  <2>2. EventOf("KnownCommitmentsChange", {}, updates \cup additions,
                removals, 0) \in Events
    BY <1>1, <2>1, EventOfType DEF EventKinds
  <2>3. QED
    BY <1>3, <2>2, PushType, EndPollType DEF CheckForCommitmentsChange
<1>4. QED
  BY <1>2, <1>3

LEMMA ProcessEventType ==
    ASSUME WatcherInv, ProcessEvent
    PROVE  WatcherLocalInv'
<1> USE DEF WatcherInv, WatcherLocalInv, WatcherTypeOK
<1> DEFINE e == Head(events)
<1>1. e \in Events /\ events' = Tail(events)
  BY DEF ProcessEvent
<1>2. events' \in Seq(Events) /\ Len(events') <= MaxEvents
  <2>1. events \in Seq(Events) /\ events # <<>> /\ Len(events) <= MaxEvents
    BY DEF ProcessEvent
  <2>2. Tail(events) \in Seq(Events) /\ Len(Tail(events)) = Len(events) - 1
    BY <2>1, HeadTailProperties
  <2>3. Len(events) \in Nat
    BY <2>1, LenProperties
  <2>4. QED
    BY <1>1, <2>1, <2>2, <2>3, WatcherBoundsAssumption
<1>3. /\ knownDealers' \subseteq Addr
      /\ badDealers' \subseteq Addr
      /\ knownCommitments' \subseteq (Addr \X Commitments)
  BY <1>1 DEF ProcessEvent, Events
<1>4. QED
  BY <1>2, <1>3 DEF ProcessEvent, pollVars

LEMMA EnvironmentType ==
    ASSUME WatcherInv, Environment \/ Reset
    PROVE  WatcherLocalInv'
BY WatcherBoundsAssumption
   DEF WatcherInv, WatcherLocalInv, WatcherTypeOK, Environment, Reset,
       localVars, pollVars

LEMMA WatcherInitInv == Init => WatcherInv
<1> SUFFICES ASSUME Init PROVE WatcherInv
  OBVIOUS
<1>1. Inv
  BY InitInv DEF Init
<1>2. EpochBounded /\ wEpochId \in 0..MaxEpoch
  BY BoundsAssumption DEF Init, ContractInit, EpochBounded
<1>3. events \in Seq(Events) /\ Len(events) <= MaxEvents
  BY WatcherBoundsAssumption DEF Init
<1>4. resets \in 0..MaxResets
  BY WatcherBoundsAssumption DEF Init
<1>5. WatcherTypeOK
  BY <1>3, <1>4, Zenon DEF Init, WatcherTypeOK
<1>6. QED
  BY <1>1, <1>2, <1>3, <1>5 DEF WatcherInv

LEMMA WatcherNextInv == WatcherInv /\ [Next]_vars => WatcherInv'
<1> SUFFICES ASSUME WatcherInv, [Next]_vars PROVE WatcherInv'
  OBVIOUS
<1>1. Inv' /\ EpochBounded'
  BY ContractInvOfWatcher
<1>2. WatcherLocalInv'
  <2>1. CASE Next
    BY <2>1, PollStepsType, SelfChecksType, ChangeChecksType,
       ProcessEventType, EnvironmentType DEF Next
  <2>2. CASE UNCHANGED vars
    BY <2>2 DEF vars, localVars, pollVars, WatcherInv, WatcherLocalInv,
                WatcherTypeOK
  <2>3. QED
    BY <2>1, <2>2
<1>3. QED
  BY <1>1, <1>2 DEF WatcherInv, WatcherLocalInv

(***************************************************************************)
(* The watcher's state always has its type, and the StateAccessor's event *)
(* queue never holds more than MaxEvents events (push_contract_change_event, *)
(* push_new_key_submission_event, the executor's pop): MCDKGWatcher checks *)
(* the same as WatcherTypeOK.                                              *)
(***************************************************************************)
THEOREM WatcherTypeCorrect == Spec => []WatcherTypeOK
<1>1. WatcherInv => WatcherTypeOK
  BY DEF WatcherInv
<1>2. QED
  BY <1>1, WatcherInitInv, WatcherNextInv, PTL DEF Spec

(***************************************************************************)
(* The contract's safety survives the composition: with this participant's *)
(* watcher and executor sending their own RegisterDealer and CommitDealing *)
(* between everyone else's transactions, no two dealers ever share a node  *)
(* index and no commitment is from an epoch after the current one.         *)
(***************************************************************************)
THEOREM ComposedContractSafety ==
    Spec => [](UniqueNodeIndex /\ NoCommitmentFromAbandonedEpoch)
<1>1. WatcherInv => UniqueNodeIndex /\ NoCommitmentFromAbandonedEpoch
  BY DEF WatcherInv, Inv
<1>2. QED
  BY <1>1, WatcherInitInv, WatcherNextInv, PTL DEF Spec

(***************************************************************************)
(* The composition implements the contract: seen from the ledger, the     *)
(* watcher, its executor and everyone else only ever send the contract's  *)
(* execute messages, so every behaviour of the composed system is a       *)
(* behaviour of DKGContract and every contract theorem applies to it.     *)
(***************************************************************************)
THEOREM WatcherImplementsContract == Spec => ContractSpec
<1>1. Init => ContractInit
  BY DEF Init
<1>2. WatcherInv /\ [Next]_vars => [ContractNext]_contractVars
  <2> SUFFICES ASSUME WatcherInv, [Next]_vars
               PROVE  [ContractNext]_contractVars
    OBVIOUS
  <2>1. CASE Next
    BY <2>1, ContractStepOfWatcher
  <2>2. CASE UNCHANGED vars
    BY <2>2 DEF vars, contractVars
  <2>3. QED
    BY <2>1, <2>2
<1>3. QED
  BY <1>1, <1>2, WatcherInitInv, WatcherNextInv, PTL DEF Spec, ContractSpec

(***************************************************************************)
(* With the watcher running, no blacklisting is ever stored either, so     *)
(* IsBlacklisted(Self, h) is false at every height: in                    *)
(* check_for_own_key_submission and check_for_own_dealing_commitment the  *)
(* get_blacklisting answer never stops a resubmission.                     *)
(***************************************************************************)
THEOREM WatcherSeesNoBlacklisting ==
    Spec => [](\A h \in Nat : ~IsBlacklisted(Self, h))
<1>1. NoBlacklistingSurvives => \A h \in Nat : ~IsBlacklisted(Self, h)
  BY DEF NoBlacklistingSurvives, IsBlacklisted
<1>2. QED
  BY <1>1, WatcherImplementsContract, BlacklistNeverStored, PTL

=============================================================================
