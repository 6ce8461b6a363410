----------------------------- MODULE DKGWatcher -----------------------------
(***************************************************************************)
(* One participant's DKG contract watcher (validator-api                  *)
(* src/dkg/smart_contract/watcher/mod.rs), its StateAccessor and the       *)
(* executor draining its event queue, running against the DKGContract     *)
(* ledger while every other address sends transactions of its own.        *)
(*                                                                         *)
(* A poll is split at the awaits whose order matters: the epoch read, the *)
(* ledger read of dealers or commitments, the self check (with its         *)
(* blacklisting query) and the diff against the StateAccessor.  Any        *)
(* ledger query may fail; run() logs the error and waits for the next      *)
(* tick.  The StateAccessor and the executor are not in the repository and *)
(* follow the spec (3, 5, 6).                                              *)
(***************************************************************************)
EXTENDS DKGContract, Sequences

CONSTANTS
    Self,        \* this participant's chain address (self_addr)
    MaxEvents,   \* bound: length of the StateAccessor event queue
    MaxResets,   \* bound: DebugUnsafeResetAll transactions explored
    LastPhase    \* bound: DebugAdvanceEpochState goes no further

ASSUME SelfAssumption == Self \in Validators
ASSUME WatcherBoundsAssumption ==
    /\ MaxEvents \in Nat \ {0}
    /\ MaxResets \in Nat
    /\ LastPhase \in Phases

VARIABLES
    knownDealers,         \* StateAccessor::get_known_dealers (addresses)
    badDealers,           \* StateAccessor::get_malformed_dealers
    knownCommitments,     \* StateAccessor::get_known_commitments, <<dealer, c>>
    submittedKeys,        \* StateAccessor::has_submitted_keys
    submittedCommitment,  \* StateAccessor::has_submitted_dealings_commitment
    events,               \* the StateAccessor's outgoing event queue
    wpc,                  \* where the watcher's poll is
    wEpochId,             \* locals of a poll: the epoch read,
    wPhase,
    wHeight,              \*   current_block_height,
    wDealers,             \*   contract_dealers as <<address, bte key valid>>,
    wCommitments,         \*   contract_commitments as <<dealer, c>>
    resets                \* DebugUnsafeResetAll transactions so far

localVars == <<knownDealers, badDealers, knownCommitments, submittedKeys,
               submittedCommitment, events>>

pollVars == <<wpc, wEpochId, wPhase, wHeight, wDealers, wCommitments>>

vars == <<contractVars, localVars, pollVars, resets>>

(***************************************************************************)
(* Events, one record shape for all: DealerSetChange and                   *)
(* KnownCommitmentsChange carry their batched changes (an Update and an    *)
(* Addition both carry the new commitment); a dealing commitment           *)
(* submission carries the epoch it was raised in.  The block height every  *)
(* event carries is read by nothing modelled and left out.                 *)
(***************************************************************************)
EventOf(type, dealers, commits, removals, ep) ==
    [type |-> type, dealers |-> dealers, commitments |-> commits,
     removals |-> removals, epoch |-> ep]

Push(e) ==
    /\ Len(events) < MaxEvents
    /\ events' = Append(events, e)

\* The poll is over: its locals go out of scope.
EndPoll ==
    /\ wpc' = "idle"
    /\ wEpochId' = 0
    /\ wPhase' = "PublicKeySubmission"
    /\ wHeight' = 0
    /\ wDealers' = {}
    /\ wCommitments' = {}

Addresses(pairs) == {p[1] : p \in pairs}

\* BlacklistingResponse::is_blacklisted: a blacklisting not yet expired.
IsBlacklisted(a, h) == a \in blacklist /\ ~HasExpired(a, h)

Init ==
    /\ ContractInit
    /\ knownDealers = {}
    /\ badDealers = {}
    /\ knownCommitments = {}
    /\ submittedKeys = FALSE
    /\ submittedCommitment = FALSE
    /\ events = <<>>
    /\ wpc = "idle"
    /\ wEpochId = 0
    /\ wPhase = "PublicKeySubmission"
    /\ wHeight = 0
    /\ wDealers = {}
    /\ wCommitments = {}
    /\ resets = 0

-----------------------------------------------------------------------------
(***************************************************************************)
(* The watcher.                                                            *)
(***************************************************************************)

(***************************************************************************)
(* poll_contract / perform_epoch_state_based_actions: read the contract    *)
(* epoch and dispatch on its phase; every phase after DealingExchange is   *)
(* todo!(), a panic that ends the polling task.                            *)
(***************************************************************************)
PollContract ==
    /\ wpc = "idle"
    /\ IF phase \in {"PublicKeySubmission", "DealingExchange"}
         THEN /\ wpc' = "epoch_read"
              /\ wEpochId' = epochId
              /\ wPhase' = phase
         ELSE /\ wpc' = "panicked"
              /\ UNCHANGED <<wEpochId, wPhase>>
    /\ UNCHANGED <<contractVars, localVars, wHeight, wDealers, wCommitments,
                   resets>>

(***************************************************************************)
(* public_key_submission_actions: current_block_height, then              *)
(* get_current_dealers.                                                    *)
(***************************************************************************)
PublicKeySubmissionActions ==
    /\ wpc = "epoch_read"
    /\ wPhase = "PublicKeySubmission"
    /\ wpc' = "ledger_read"
    /\ wHeight' = height
    /\ wDealers' = {<<a, bteValid[a]>> : a \in current}
    /\ UNCHANGED <<contractVars, localVars, wEpochId, wPhase, wCommitments,
                   resets>>

(***************************************************************************)
(* dealing_exchange_actions: current_block_height, then                   *)
(* get_epoch_dealings_commitments for the epoch read.                      *)
(***************************************************************************)
DealingExchangeActions ==
    /\ wpc = "epoch_read"
    /\ wPhase = "DealingExchange"
    /\ wpc' = "ledger_read"
    /\ wHeight' = height
    /\ wCommitments' = {<<d[2], d[3]>> : d \in {d \in dealings : d[1] = wEpochId}}
    /\ UNCHANGED <<contractVars, localVars, wEpochId, wPhase, wDealers,
                   resets>>

(***************************************************************************)
(* check_for_own_key_submission.  Not among the contract dealers: push a   *)
(* key submission if we never submitted (push_new_key_submission_event    *)
(* marks it submitted), otherwise ask for our blacklisting and push again *)
(* unless it is still in force.                                            *)
(***************************************************************************)
(***************************************************************************)
(* Mutant: once we believe our keys were submitted, never submit again.   *)
(***************************************************************************)
CheckForOwnKeySubmissionOnce ==
    /\ wpc = "ledger_read"
    /\ wPhase = "PublicKeySubmission"
    /\ wpc' = "self_checked"
    /\ \/ /\ Self \notin Addresses(wDealers)
          /\ ~submittedKeys
          /\ Push(EventOf("KeySubmission", {}, {}, {}, 0))
          /\ submittedKeys' = TRUE
          /\ UNCHANGED <<knownDealers, badDealers, knownCommitments,
                         submittedCommitment>>
       \/ /\ Self \in Addresses(wDealers) \/ submittedKeys
          /\ UNCHANGED localVars
    /\ UNCHANGED <<contractVars, wEpochId, wPhase, wHeight, wDealers,
                   wCommitments, resets>>

CheckForOwnKeySubmission ==
    /\ wpc = "ledger_read"
    /\ wPhase = "PublicKeySubmission"
    /\ wpc' = "self_checked"
    /\ \/ /\ Self \in Addresses(wDealers)
          /\ UNCHANGED localVars
       \/ /\ Self \notin Addresses(wDealers)
          /\ submittedKeys => ~IsBlacklisted(Self, wHeight)
          /\ Push(EventOf("KeySubmission", {}, {}, {}, 0))
          /\ submittedKeys' = TRUE
          /\ UNCHANGED <<knownDealers, badDealers, knownCommitments,
                         submittedCommitment>>
       \/ /\ Self \notin Addresses(wDealers)
          /\ submittedKeys
          /\ IsBlacklisted(Self, wHeight)
          /\ UNCHANGED localVars
    /\ UNCHANGED <<contractVars, wEpochId, wPhase, wHeight, wDealers,
                   wCommitments, resets>>

(***************************************************************************)
(* check_for_dealers_change: addresses we know (good or malformed) that   *)
(* the contract no longer has are removals, contract dealers we know under *)
(* neither list are additions; one batched event if there is any change.  *)
(***************************************************************************)
(***************************************************************************)
(* Mutant: removals looked for among the good dealers only.                *)
(***************************************************************************)
CheckForDealersChangeGoodOnly ==
    LET known == knownDealers \cup badDealers
        removals == knownDealers \ Addresses(wDealers)
        additions == {p \in wDealers : p[1] \notin known}
    IN
    /\ wpc = "self_checked"
    /\ wPhase = "PublicKeySubmission"
    /\ IF removals = {} /\ additions = {}
         THEN UNCHANGED events
         ELSE Push(EventOf("DealerSetChange", additions, {}, removals, 0))
    /\ EndPoll
    /\ UNCHANGED <<contractVars, knownDealers, badDealers, knownCommitments,
                   submittedKeys, submittedCommitment, resets>>

CheckForDealersChange ==
    LET known == knownDealers \cup badDealers
        removals == known \ Addresses(wDealers)
        additions == {p \in wDealers : p[1] \notin known}
    IN
    /\ wpc = "self_checked"
    /\ wPhase = "PublicKeySubmission"
    /\ IF removals = {} /\ additions = {}
         THEN UNCHANGED events
         ELSE Push(EventOf("DealerSetChange", additions, {}, removals, 0))
    /\ EndPoll
    /\ UNCHANGED <<contractVars, knownDealers, badDealers, knownCommitments,
                   submittedKeys, submittedCommitment, resets>>

(***************************************************************************)
(* check_for_own_dealing_commitment, the same decision for our dealing     *)
(* commitment of the epoch read.                                           *)
(***************************************************************************)
(***************************************************************************)
(* Mutant: once we believe our commitment was submitted, never again.     *)
(***************************************************************************)
CheckForOwnDealingCommitmentOnce ==
    /\ wpc = "ledger_read"
    /\ wPhase = "DealingExchange"
    /\ wpc' = "self_checked"
    /\ \/ /\ Self \notin Addresses(wCommitments)
          /\ ~submittedCommitment
          /\ Push(EventOf("DealingCommitmentSubmission", {}, {}, {}, wEpochId))
          /\ submittedCommitment' = TRUE
          /\ UNCHANGED <<knownDealers, badDealers, knownCommitments,
                         submittedKeys>>
       \/ /\ Self \in Addresses(wCommitments) \/ submittedCommitment
          /\ UNCHANGED localVars
    /\ UNCHANGED <<contractVars, wEpochId, wPhase, wHeight, wDealers,
                   wCommitments, resets>>

CheckForOwnDealingCommitment ==
    /\ wpc = "ledger_read"
    /\ wPhase = "DealingExchange"
    /\ wpc' = "self_checked"
    /\ \/ /\ Self \in Addresses(wCommitments)
          /\ UNCHANGED localVars
       \/ /\ Self \notin Addresses(wCommitments)
          /\ submittedCommitment => ~IsBlacklisted(Self, wHeight)
          /\ Push(EventOf("DealingCommitmentSubmission", {}, {}, {}, wEpochId))
          /\ submittedCommitment' = TRUE
          /\ UNCHANGED <<knownDealers, badDealers, knownCommitments,
                         submittedKeys>>
       \/ /\ Self \notin Addresses(wCommitments)
          /\ submittedCommitment
          /\ IsBlacklisted(Self, wHeight)
          /\ UNCHANGED localVars
    /\ UNCHANGED <<contractVars, wEpochId, wPhase, wHeight, wDealers,
                   wCommitments, resets>>

(***************************************************************************)
(* check_for_commitments_change: a known commitment the contract no longer *)
(* has is a removal, one it has with other content an update, a contract   *)
(* commitment of a dealer we know nothing of an addition.                  *)
(***************************************************************************)
(***************************************************************************)
(* Mutant: a commitment known under other content is not reported.       *)
(***************************************************************************)
CheckForCommitmentsChangeNoUpdates ==
    LET removals == Addresses(knownCommitments) \ Addresses(wCommitments)
        additions == {p \in wCommitments : p[1] \notin Addresses(knownCommitments)}
    IN
    /\ wpc = "self_checked"
    /\ wPhase = "DealingExchange"
    /\ IF removals = {} /\ additions = {}
         THEN UNCHANGED events
         ELSE Push(EventOf("KnownCommitmentsChange", {}, additions, removals, 0))
    /\ EndPoll
    /\ UNCHANGED <<contractVars, knownDealers, badDealers, knownCommitments,
                   submittedKeys, submittedCommitment, resets>>

(***************************************************************************)
(* Mutant: commitments that vanished from the contract are not reported.  *)
(***************************************************************************)
CheckForCommitmentsChangeNoRemovals ==
    LET updates == {p \in wCommitments :
                       \E q \in knownCommitments : q[1] = p[1] /\ q[2] # p[2]}
        additions == {p \in wCommitments : p[1] \notin Addresses(knownCommitments)}
    IN
    /\ wpc = "self_checked"
    /\ wPhase = "DealingExchange"
    /\ IF updates = {} /\ additions = {}
         THEN UNCHANGED events
         ELSE Push(EventOf("KnownCommitmentsChange", {}, updates \cup additions,
                           {}, 0))
    /\ EndPoll
    /\ UNCHANGED <<contractVars, knownDealers, badDealers, knownCommitments,
                   submittedKeys, submittedCommitment, resets>>

CheckForCommitmentsChange ==
    LET removals == Addresses(knownCommitments) \ Addresses(wCommitments)
        updates == {p \in wCommitments :
                       \E q \in knownCommitments : q[1] = p[1] /\ q[2] # p[2]}
        additions == {p \in wCommitments : p[1] \notin Addresses(knownCommitments)}
    IN
    /\ wpc = "self_checked"
    /\ wPhase = "DealingExchange"
    /\ IF removals = {} /\ updates = {} /\ additions = {}
         THEN UNCHANGED events
         ELSE Push(EventOf("KnownCommitmentsChange", {}, updates \cup additions,
                           removals, 0))
    /\ EndPoll
    /\ UNCHANGED <<contractVars, knownDealers, badDealers, knownCommitments,
                   submittedKeys, submittedCommitment, resets>>

(***************************************************************************)
(* A ledger query of the poll fails (the `?` after get_current_dealers,    *)
(* get_epoch_dealings_commitments or get_blacklisting): run() logs it and  *)
(* the next tick starts a new poll.                                        *)
(***************************************************************************)
QueryFails ==
    /\ \/ wpc = "epoch_read"
       \/ /\ wpc = "ledger_read"
          /\ wPhase = "PublicKeySubmission"
          /\ Self \notin Addresses(wDealers)
          /\ submittedKeys
       \/ /\ wpc = "ledger_read"
          /\ wPhase = "DealingExchange"
          /\ Self \notin Addresses(wCommitments)
          /\ submittedCommitment
    /\ EndPoll
    /\ UNCHANGED <<contractVars, localVars, resets>>

-----------------------------------------------------------------------------
(***************************************************************************)
(* The executor: takes the oldest event and acts on it.  Change events are *)
(* applied to the StateAccessor (an added dealer whose BTE key does not    *)
(* verify is filed as malformed); submission events become our own         *)
(* RegisterDealer or CommitDealing transaction.                            *)
(***************************************************************************)
(***************************************************************************)
(* Mutant: an added dealer filed by its whole details, not its address.   *)
(***************************************************************************)
ProcessEventWholeDetails ==
    /\ events # <<>>
    /\ LET e == Head(events) IN
       \/ /\ e.type = "DealerSetChange"
          /\ knownDealers' = (knownDealers \ e.removals)
                             \cup {p \in e.dealers : p[2]}
          /\ badDealers' = (badDealers \ e.removals)
                           \cup {p[1] : p \in {p \in e.dealers : ~p[2]}}
          /\ UNCHANGED <<contractVars, knownCommitments>>
       \/ /\ e.type = "KnownCommitmentsChange"
          /\ knownCommitments' =
                {q \in knownCommitments :
                    q[1] \notin e.removals \cup Addresses(e.commitments)}
                \cup e.commitments
          /\ UNCHANGED <<contractVars, knownDealers, badDealers>>
       \/ /\ e.type = "KeySubmission"
          /\ RegisterDealer(Self, TRUE, TRUE,
                            [coins |-> 1, stakeDenom |-> TRUE, enough |-> TRUE])
          /\ UNCHANGED <<knownDealers, badDealers, knownCommitments>>
       \/ /\ e.type = "DealingCommitmentSubmission"
          /\ \E c \in Commitments : CommitDealing(Self, e.epoch, c)
          /\ UNCHANGED <<knownDealers, badDealers, knownCommitments>>
    /\ events' = Tail(events)
    /\ UNCHANGED <<submittedKeys, submittedCommitment, pollVars, resets>>

ProcessEvent ==
    /\ events # <<>>
    /\ LET e == Head(events) IN
       \/ /\ e.type = "DealerSetChange"
          /\ knownDealers' = (knownDealers \ e.removals)
                             \cup {p[1] : p \in {p \in e.dealers : p[2]}}
          /\ badDealers' = (badDealers \ e.removals)
                           \cup {p[1] : p \in {p \in e.dealers : ~p[2]}}
          /\ UNCHANGED <<contractVars, knownCommitments>>
       \/ /\ e.type = "KnownCommitmentsChange"
          /\ knownCommitments' =
                {q \in knownCommitments :
                    q[1] \notin e.removals \cup Addresses(e.commitments)}
                \cup e.commitments
          /\ UNCHANGED <<contractVars, knownDealers, badDealers>>
       \/ /\ e.type = "KeySubmission"
          /\ RegisterDealer(Self, TRUE, TRUE,
                            [coins |-> 1, stakeDenom |-> TRUE, enough |-> TRUE])
          /\ UNCHANGED <<knownDealers, badDealers, knownCommitments>>
       \/ /\ e.type = "DealingCommitmentSubmission"
          /\ \E c \in Commitments : CommitDealing(Self, e.epoch, c)
          /\ UNCHANGED <<knownDealers, badDealers, knownCommitments>>
    /\ events' = Tail(events)
    /\ UNCHANGED <<submittedKeys, submittedCommitment, pollVars, resets>>

-----------------------------------------------------------------------------
(***************************************************************************)
(* Everyone else: any other address registers or commits, the phase is     *)
(* advanced (up to LastPhase), the contract is reset (at most MaxResets    *)
(* times), blocks pass.  Their failing transactions change nothing but     *)
(* `result`, which the watcher never reads, and are left to DKGContract's  *)
(* own runs.                                                               *)
(***************************************************************************)
Environment ==
    /\ \/ Tick
       \/ \E a \in Addr \ {Self}, keyOk, bteOk \in BOOLEAN, d \in Deposits :
             RegisterDealer(a, keyOk, bteOk, d)
       \/ \E a \in Addr \ {Self}, e \in 0..MaxEpoch, c \in Commitments :
             CommitDealing(a, e, c)
       \/ /\ phase # LastPhase
          /\ AdvanceEpochState
    /\ result' = "Ok"
    /\ UNCHANGED <<localVars, pollVars, resets>>

Reset ==
    /\ resets < MaxResets
    /\ \E h \in 0..MaxHeight : ResetAll(h)
    /\ resets' = resets + 1
    /\ UNCHANGED <<localVars, pollVars>>

Next ==
    \/ PollContract
    \/ PublicKeySubmissionActions
    \/ DealingExchangeActions
    \/ CheckForOwnKeySubmission
    \/ CheckForDealersChange
    \/ CheckForOwnDealingCommitment
    \/ CheckForCommitmentsChange
    \/ QueryFails
    \/ ProcessEvent
    \/ Environment
    \/ Reset

(***************************************************************************)
(* The polling task runs on a fixed interval forever, so each of its steps *)
(* is weakly fair; a query that keeps being retried is eventually answered *)
(* (strong fairness on the steps a failing query interrupts).  The         *)
(* executor keeps draining the queue.  Nothing obliges anyone else to act. *)
(***************************************************************************)
Fairness ==
    /\ WF_vars(PollContract)
    /\ SF_vars(PublicKeySubmissionActions)
    /\ SF_vars(DealingExchangeActions)
    /\ SF_vars(CheckForOwnKeySubmission)
    /\ SF_vars(CheckForOwnDealingCommitment)
    /\ WF_vars(CheckForDealersChange)
    /\ WF_vars(CheckForCommitmentsChange)
    /\ WF_vars(ProcessEvent)

Spec == Init /\ [][Next]_vars /\ Fairness

-----------------------------------------------------------------------------
(***************************************************************************)
(* Properties.                                                             *)
(***************************************************************************)

WatcherTypeOK ==
    /\ knownDealers \subseteq Addr
    /\ badDealers \subseteq Addr
    /\ knownCommitments \subseteq (Addr \X Commitments)
    /\ submittedKeys \in BOOLEAN
    /\ submittedCommitment \in BOOLEAN
    /\ Len(events) <= MaxEvents
    /\ wpc \in {"idle", "epoch_read", "ledger_read", "self_checked", "panicked"}
    /\ wDealers \subseteq (Addr \X BOOLEAN)
    /\ wCommitments \subseteq (Addr \X Commitments)
    /\ resets \in 0..MaxResets

Panicked == wpc = "panicked"

(***************************************************************************)
(* Once the contract stays in PublicKeySubmission, the dealers this        *)
(* participant knows of (good or malformed) become and stay exactly the    *)
(* contract's dealers, whatever registrations and resets raced its polls   *)
(* and however far its executor lagged (check_for_dealers_change).         *)
(***************************************************************************)
DealerViewConverges ==
    <>[](Panicked \/ phase # "PublicKeySubmission"
                  \/ knownDealers \cup badDealers = current)

(***************************************************************************)
(* Once the contract stays in PublicKeySubmission, this participant ends   *)
(* up registered as a dealer (check_for_own_key_submission and the         *)
(* executor's RegisterDealer).                                             *)
(***************************************************************************)
OwnKeyRegistered ==
    <>[](Panicked \/ phase # "PublicKeySubmission" \/ Self \in current)

(***************************************************************************)
(* Once the contract stays in DealingExchange, this participant's dealing  *)
(* commitment for the current epoch is on the contract, even when a reset  *)
(* wiped an earlier one that the StateAccessor still remembers as          *)
(* submitted (check_for_own_dealing_commitment, try_commit_dealing).       *)
(***************************************************************************)
OwnCommitmentCommitted ==
    <>[](Panicked \/ phase # "DealingExchange"
                  \/ \E d \in dealings : d[1] = epochId /\ d[2] = Self)

(***************************************************************************)
(* Once the contract stays in DealingExchange, the commitments this        *)
(* participant knows are exactly the contract's for the current epoch,     *)
(* with their current content (check_for_commitments_change).             *)
(***************************************************************************)
CommitmentViewConverges ==
    <>[](Panicked \/ phase # "DealingExchange"
                  \/ knownCommitments = {<<d[2], d[3]>> :
                                            d \in {d \in dealings : d[1] = epochId}})

(***************************************************************************)
(* The spec (4.3) and the comment in check_for_own_key_submission: when   *)
(* we believe our keys were submitted but the contract lacks them, keys    *)
(* are submitted again only because a blacklisting of ours has expired.    *)
(***************************************************************************)
KeySubmissionPushed ==
    /\ Len(events') = Len(events) + 1
    /\ events'[Len(events')].type = "KeySubmission"

ResubmitOnlyAfterExpiry ==
    [][KeySubmissionPushed /\ submittedKeys
         => Self \in blacklist /\ HasExpired(Self, wHeight)]_vars

(***************************************************************************)
(* The spec (1): local belief is kept consistent with ledger truth.  Once  *)
(* the contract stays in PublicKeySubmission, the dealers filed as good    *)
(* are exactly the contract dealers whose BTE key verifies and the ones    *)
(* filed as malformed exactly the others (check_for_dealers_change).       *)
(***************************************************************************)
DealerClassificationConverges ==
    <>[](Panicked \/ phase # "PublicKeySubmission"
                  \/ /\ knownDealers = {a \in current : bteValid[a]}
                     /\ badDealers = {a \in current : ~bteValid[a]})

=============================================================================
