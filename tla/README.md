# Formal model of the coconut DKG contract, its watcher, and two smaller components

TLA+ specifications of the ledger side and one participant's off-chain side
of the coconut distributed key generation (DKG) ceremony. There are also
models of the explorer-api's state file across crashes and of the nymsphinx
`Recipient` address encoding. TLC checks them on small instances. TLAPS
proves the contract's safety invariants, its refinement of an abstract dealer
registry, and the explorer's durability invariant for every instance.

## The system

Two parts of the repository make up the DKG ceremony:

* **The coconut-dkg CosmWasm contract** (`src/contracts/coconut-dkg/src`).
  It holds the ceremony's single source of truth:
  * the current epoch (an id and a phase of the cycle PublicKeySubmission →
    DealingExchange → ComplaintSubmission → … → InProgress → the next
    epoch's PublicKeySubmission);
  * the current and past dealers, each with a node index taken from a
    counter;
  * the blacklisted dealers;
  * the dealing commitments, keyed by epoch and dealer.

  The contract handles four execute messages: RegisterDealer
  (`try_add_dealer`), CommitDealing, DebugAdvanceEpochState and
  DebugUnsafeResetAll (`reset_contract_state`). Each one runs atomically, and
  a message that returns `Err` has all of its writes reverted by the ledger.
* **The DKG contract watcher** (`src/validator-api/src/dkg/smart_contract/watcher/mod.rs`).
  Every participant's validator-api runs this polling task on a fixed
  interval. A poll:
  1. reads the epoch;
  2. in PublicKeySubmission, reads the block height and the contract's
     dealers. It checks whether our own keys are there; if not, it may query
     our blacklisting and queue a key submission. Then it diffs the contract's
     dealers against the StateAccessor's known and malformed dealers and
     queues one `DealerSetChange` event;
  3. in DealingExchange, does the same with the epoch's dealing commitments;
  4. in any later phase, reaches `todo!()` and panics.

  Any query may fail; `run` logs the error and waits for the next tick. An
  executor drains the StateAccessor's event queue. It applies change events to
  the local view and turns submission events into our own RegisterDealer and
  CommitDealing transactions, so it closes the loop back to the contract.
  Neither the StateAccessor nor the executor is under `src/`. They are
  modelled from the spec (sections 3, 5 and 6) and marked `spec_modelled` in
  PROJECT.json.

Two components outside the ceremony are modelled on their own:

* **The explorer-api's state file** (`src/explorer-api/src/state.rs`).
  `ExplorerApiStateContext::new` loads the country node distribution with
  `read_from_file`:
  * a file that cannot be opened gives the empty state;
  * a file that opens but does not parse panics.

  `write_to_file` truncates the file (`File::create`), awaits the
  distribution, and serialises it into the file.
* **The nymsphinx `Recipient`** (`src/common/nymsphinx/addressing/src/clients.rs`).
  A client's address consists of its identity key, its encryption key and its
  gateway's identity. Its string form is `ID.ENC@GATEWAY` in base58, and its
  byte form is the three keys laid end to end.

The mixnet client loops and the gateway's credential verifier are not
modelled (see "Not modelled").

## Modules

| module | models |
|---|---|
| `DKGContract` | The contract. It has one action per execute message (`RegisterDealer`, `CommitDealing`, `AdvanceEpochState`, `ResetAll`), plus `Tick` for a new block. |
| `DKGWatcher` | The watcher, the StateAccessor and the executor, composed with `DKGContract` as the ledger they run against. Every other address is the environment. |
| `DKGContractProofs` | TLAPS proofs about `DKGContract`. |
| `DKGWatcherProofs` | TLAPS proofs about the watcher composed with the contract. |
| `DealerRegistry` | What the contract promises about dealers, with none of the mechanism. Only validators are admitted, an admitted dealer gets an index that no current dealer holds, and only a reset removes dealers. `DKGContract` instantiates it with its own variables as the refinement mapping. |
| `ExplorerState` | The explorer's state file and process: `Start` (`new` / `read_from_file`), `BeginSave` and `FinishSave` (`write_to_file` up to and after its await), and the environment's `Refresh`, `Crash` and `Restart`. |
| `ExplorerStateProofs` | TLAPS proofs about `ExplorerState`. |
| `RecipientBytes` | The byte form of a recipient: `IntoBytes`, `TryFromBytes` and the key checks of `from_bytes`. It has no recursion, so proofs can use it. |
| `RecipientBytesProofs` | TLAPS proofs of the two byte round trips. |
| `Recipient` | Extends `RecipientBytes` with the string form: `Display`, `TryFromString`, `IntoBytes` and `TryFromBytes` as operators, with base58 and `str::split` modelled by what they compute. A small state machine hands a sender addresses. |
| `MCDKGContract`, `MCDKGWatcher`, `MCRecipient` | Model values and definitions that instantiate the constants for TLC. |

### DKGContract

The variables mirror the contract's storage items:
* `epochId` and `phase` are CURRENT_EPOCH;
* `current` and `past` are the keys of CURRENT_DEALERS and PAST_DEALERS;
* `assignedIndex` and `bteValid` are their DealerDetails;
* `blacklist` and `expiration` are BLACKLISTED_DEALERS;
* `counter` is NODE_INDEX_COUNTER;
* `dealings` is DEALING_COMMITMENTS, as triples ⟨epoch, dealer, commitment⟩;
* `height` is the block height;
* `result` is the response of the last execute.

Because of `result`, a failing call is a step of its own, and properties can
speak of it.

Data is abstracted to what the checks tell apart:
* a key-possession proof is valid or not;
* a BTE key is well-formed or not (the contract stores it unchecked);
* a deposit is a record of the three facts `validate_dealer_deposit` tests;
* a commitment is a model value.

`RegisterDealer` keeps the control flow of `verify_dealer` (its checks are
`AdmissionError`, the first that fails) and `try_add_dealer` in code order: BlacklistedDealer, AlreadyADealer,
NotAValidator, the key check with its blacklist write, the deposit checks,
then index reuse from PAST_DEALERS or `next_node_index`. `Persisted` models
the ledger's rollback of a handler that writes and then returns `Err`.
`ResetAll` is instantiate followed by the removal loops and the counter
reset. `try_commit_dealing`, `Epoch::next_state` and
`Blacklisting::has_expired` are outside `src/` and follow the spec.

### DKGWatcher

A poll is split at the awaits whose order matters:
* `PollContract` reads the epoch;
* `PublicKeySubmissionActions` and `DealingExchangeActions` read the ledger;
* `CheckForOwnKeySubmission` and `CheckForOwnDealingCommitment` each take
  the self check with its blacklisting query as one step;
* `CheckForDealersChange` and `CheckForCommitmentsChange` diff the read
  against the local view and end the poll.

The poll's locals are the `w*` variables, and `wpc` says where the poll is.
`QueryFails` is the `?` of any query ending the poll early. The
environment's contract actions interleave with every step, so each ledger
read can be stale by the time it is used. `ProcessEvent` is the executor: it
takes the queue's head and either applies it or executes our own
transaction through `DKGContract`'s actions.

### DealerRegistry and the refinement
`DKGContract` defines `Registry == INSTANCE DealerRegistry WITH dealers <-
current, index <- assignedIndex`. The property `ImplementsRegistry ==
Registry!RegistrySpec` says that the contract's dealers and indices only ever
change by:
* admitting a validator that is not a dealer, with an index that no current
  dealer holds;
* clearing all dealers;
* not changing at all.

Blacklisting, deposits, key proofs, the counter and the past-dealer reuse
branch are all details below this interface.

### ExplorerState
The distribution is abstracted to a version number (0 is the empty one, and
each refresh makes a newer one). The file is `fileKind` ∈ {absent, empty,
partial, json}, plus the version a complete file holds. `proc` is down,
running, saving (between `File::create` and the end of `to_writer`) or
panicked. `lastSaved` is a history variable: the version of the last
completed save.

A crash may come at any moment and is bounded by `MaxCrashes`. If it comes
mid-save, it leaves the file empty or half written. A write error in
`to_writer` ends the same way, through the `expect`. `write_to_file` has no
caller under `src/`, so a save may start whenever the process runs.

### Recipient
Keys are shrunk but keep their shape:
* a byte has radix `ByteBase`;
* a base58 character has radix `AlphaSize`;
* the identity and gateway keys have `IdSize` bytes, and the encryption key
  has `EncSize` bytes;
* some identity byte strings (`BadPoints`) are not curve points, and
  `from_bytes` refuses them.

`Base58Encode` and `Base58Decode` are the bs58 conversion itself. Each
leading zero byte becomes the first character of the alphabet, and the rest
is one big number written in radix `AlphaSize`. As a result, key lengths and
leading zeros behave as they do in the code. `SplitOn` is `str::split`.

## Runs

| run | cfg | expect | shows |
|---|---|---|---|
| contract_safety | MCDKGContract.cfg | pass | `TypeOK`; `UniqueNodeIndex`: no two current or past dealers share an index; `NoCommitmentFromAbandonedEpoch`: no commitment from an epoch after the current one; `NoBlacklistingSurvives`: no blacklisting is ever stored, because the one write is reverted by its own `Err`. Any sender sends any message, including an epoch wrap and resets. |
| contract_key_failure | MCDKGContractKeyFailure.cfg | violation | `KeyFailureBlacklists`: a failed possession check leaves a blacklisting, as spec 4.2 requires. It is violated: see the findings. |
| watcher_liveness | MCDKGWatcher.cfg | pass | `WatcherTypeOK` and four liveness properties. Once the phase settles, the known (good or malformed) dealers equal the contract's dealers (`DealerViewConverges`), and our key is registered (`OwnKeyRegistered`). Our commitment for the epoch is on chain (`OwnCommitmentCommitted`), and the known commitments equal the contract's (`CommitmentViewConverges`). |
| watcher_commitment_updates | MCDKGWatcherUpdates.cfg | pass | `CommitmentViewConverges` with two commitment contents, so that a commitment can be replaced across a reset and must be picked up as an update. |
| watcher_resubmission | MCDKGWatcherResubmit.cfg | violation | `ResubmitOnlyAfterExpiry`: keys believed submitted are submitted again only after an expired blacklisting. It is violated. |
| watcher_dealer_classification | MCDKGWatcherClassification.cfg | violation | `DealerClassificationConverges`: the good/malformed split converges on the contract dealers' BTE key validity. It is violated. |
| explorer_durability | MCExplorerState.cfg | pass | `NoRegressionBelowLastSave`: across crashes mid-save, write errors and restarts, a running explorer never holds a distribution older than its last completed save. |
| explorer_restart_panic | MCExplorerStatePanic.cfg | violation | `StartNeverPanics`: starting never panics, as the warn in `read_from_file` intends. It is violated (finding 4). |
| recipient_conversions | MCRecipient.cfg | pass | `StringRoundTrip` and `BytesRoundTrip`: both forms of every recipient parse back to it. `ParseIsCanonical`: `try_from_string` accepts a string only if it is exactly what `Display` writes for the result, so mistyped addresses and addresses with an extra `@gateway` are refused. |

Each property of a passing run has a mutant in PROJECT.json. A mutant is a
plausible bug in the definition that models the code, and TLC finds the
property violated when that definition is replaced by it. For example:
* a reset that keeps the dealers breaks `UniqueNodeIndex`;
* a watcher that never resubmits breaks `OwnKeyRegistered`;
* looking for removals only among the good dealers breaks
  `DealerViewConverges`;
* admitting non-validators breaks `ImplementsRegistry`;
* a start that ignores the state file breaks `NoRegressionBelowLastSave`;
* keeping a failing handler's writes breaks `NoBlacklistingSurvives`;
* dropping the one-`@` check breaks `ParseIsCanonical`;
* slicing the encryption key one byte early breaks `BytesRoundTrip`.

### Bounds

**Contract.** There are three addresses (two validators and one outsider),
one commitment content, heights 0..1, epochs 0..1 and a blacklist window of 1.
The contract run reaches:
* a second epoch through InProgress, so a commitment can exist for a past
  epoch;
* every error path of every message (BlacklistedDealer is unreachable,
  because no blacklisting persists);
* re-registration after a reset, which hands out an index again.

The run explores 188k states in about 40 s. The two validators are symmetric.

**Watcher.** There are two validators (us and one other), heights and epochs
pinned to 0, an event queue of 2 (1 with two commitment contents) and one
reset. The environment advances the phase up to ComplaintSubmission, which is
far enough to reach the `todo!()` panic.

Three things are bounded away in the watcher runs, for good reasons:
* Only successful foreign transactions are explored, because failed ones
  change nothing the watcher reads.
* Heights are fixed, because no blacklisting can persist (first finding),
  so heights cannot matter to the watcher.
* Epochs beyond 0 are not reached: a watcher that lived through a whole
  cycle has already panicked.

One reset is enough to make every ledger read go stale and to wipe
submissions the StateAccessor still believes in. A queue of two lets the
executor lag by a whole poll. The runs take 1.5 and 2 minutes.

`CHECK_DEADLOCK FALSE` is set in the watcher cfgs. TLC confirmed that the
only states with no successor are those where the watcher has panicked and
the bounded environment has used up its resets and phase advances. The code
really stops there: `todo!()` ends the task.

**Explorer.** Versions run 0..3 and there are at most 2 crashes. That allows
a completed save, a refresh past it, and a crash in a second save. The run
reaches 151 states.

**Recipient.** `ByteBase = 3`, `AlphaSize = 2`, and keys have 2 bytes
(identity, gateway) and 1 byte (encryption), with the point `<<2, 2>>`
invalid. That gives 192 recipients. Each has keys with and without leading
zero bytes and keys whose base58 form has 0 to 4 digits. Every one-character
replacement, deletion and insertion of each address is tried, along with
every second `@gateway`. In total the run checks 16,464 (recipient, address)
pairs.

### Fairness

The polling task runs forever on a tokio interval, so each of its steps is
weakly fair. A query can fail on any tick, so a step that a failing query can
interrupt gets strong fairness: a query retried forever is eventually
answered. The executor drains the queue, so it is weakly fair. The rest of
the world (other senders, phase advances, resets, blocks) has no fairness,
and nothing obliges it to act. The liveness properties say "eventually
always": once the environment stops disturbing a phase, the watcher's view
converges and its own submissions land. They exempt a panicked task, which
cannot converge.

## Findings

Each of the three findings comes with a counterexample.

1. **A failed key-possession check does not blacklist**
   (`transactions.rs:132`).
   * The handler saves a Blacklisting and then returns `Err`, and the ledger
     reverts the whole execute. The same goes for purging an expired
     blacklisting (line 32) when the call later fails.
   * The spec calls this persistence a deliberate non-rollback side effect.
   * As written, BLACKLISTED_DEALERS stays empty for good. The
     BlacklistedDealer check and the watcher's blacklisting queries are dead
     code.
2. **Keys are resubmitted without any blacklisting**
   (`watcher/mod.rs:133`).
   * When our keys are missing from the contract and we believe we submitted
     them, the watcher submits again whenever we are not blacklisted right
     now.
   * A poll that runs before the executor has sent the first submission
     queues a second one, and that one fails with AlreadyADealer.
   * Spec 4.3 and the code comment say resubmission is for an expired
     blacklisting.
   * The looser condition is also what brings us back after a reset: the
     mutant that never resubmits loses `OwnKeyRegistered`.
3. **The dealer classification can stay stale** (`watcher/mod.rs:83`).
   * The dealer diff goes by address only.
   * Suppose a poll reads a dealer, then a reset happens and the dealer
     re-registers with a different BTE key before the next poll. The event
     built from the old read files the dealer under its old classification.
   * No later poll corrects it, because the address is already known.
   * The same race can file one dealer as both good and malformed. This
     happens when the reset comes while a dealer-set change is still queued.
     TLC finds it when `knownDealers` and `badDealers` are required to be
     disjoint.
   * Commitments are compared by content (`is_same_as`) and do not have this
     problem.

4. **A save cut short bricks the explorer** (`explorer-api/src/state.rs:95`).
   * `write_to_file` truncates the file with `File::create`, and only after
     an await does it serialise the new state into it.
   * A crash in between, or a write error (which panics at the `expect`),
     leaves an empty or partial file.
   * From then on, every start panics at `expect("error while reading
     json")` (line 66), and no restart recovers.
   * The `warn!` at lines 78-81 shows what was intended: a state that cannot
     be loaded means starting with the empty state.
   * The counterexample is Start, BeginSave, a failed FinishSave, then a
     Start that panics.

## Proofs

`DKGContractProofs` proves, for every value of the constants under the
`ASSUME`s of `DKGContract` (validators are addresses, and the window and
bounds are naturals):

* `TypeCorrect`: `ContractSpec => []TypeOK`;
* `NodeIndicesUnique`: `ContractSpec => []UniqueNodeIndex`;
* `NoAbandonedCommitments`: `ContractSpec => []NoCommitmentFromAbandonedEpoch`;
* `DefaultThresholdIsCeiling`: instantiate's `(2v + 3 - 1) / 3` is the least
  `t` with `3t ≥ 2v`.

`UniqueNodeIndex` is not inductive by itself. A new dealer gets the counter
as its index, and the invariant does not rule out an existing dealer already
holding that value. The inductive invariant `Inv` adds `IndexBelowCounter`:
every current or past dealer's index is below the counter.
* A registration keeps it, because the counter grows past the new index.
* A reset keeps it, because it empties both dealer sets while it zeroes the
  counter.

`Inv` is `TypeOK ∧ IndexBelowCounter ∧ UniqueNodeIndex ∧
NoCommitmentFromAbandonedEpoch`. The proof has three parts:
* `InitInv` shows that instantiate establishes `Inv`.
* `NextInv` shows that every action preserves it. There is one lemma per
  action, with one case per code path, and `RejectInv` covers all error
  returns at once.
* The theorems follow by PTL.

`DKGContractProofs` also proves `ContractImplementsRegistry`:
`ContractSpec => ImplementsRegistry`. The argument follows the usual shape of
a refinement proof:
* `RegistryInitStep`: instantiate has no dealers, and `assignedIndex` is a
  function into Nat.
* `RegistryNextStep`: under `Inv`, every contract step is a registry step or
  a stutter.
  * Every rejected execute, every CommitDealing and every phase change
    leaves `current` and `assignedIndex` alone.
  * A successful reset is `Clear`.
  * A successful registration is `Admit`. `AdmissionErrorFacts` gives a
    validator that is not current. The new index is free for two reasons:
    * a past dealer's old index is not held by any current dealer, by
      `UniqueNodeIndex`;
    * the counter is above every index, by `IndexBelowCounter`.
* The theorem follows by PTL from `[]Inv`.

`ExplorerStateProofs` proves `ExplorerTypeCorrect` and `LastSaveDurable`
(`Spec => []NoRegressionBelowLastSave`) for every bound. The invariant is not
inductive by itself: `Start` reads `mem` from the file, so the proof needs to
know what the file holds. `ExplorerInv` adds `FileMatchesLastSave`:
* a complete file holds exactly the last completed save;
* an absent file means nothing was saved yet.

Truncated and partial files carry no version, and starting from them panics
or never happens. TLC checked `ExplorerInv` as an invariant before the proof
was written.

`DKGWatcherProofs` proves two theorems about the watcher composed with the
contract, for all addresses, validators and bounds:
* `WatcherTypeCorrect`: `Spec => []WatcherTypeOK`;
* `ComposedContractSafety`: `Spec => [](UniqueNodeIndex ∧
  NoCommitmentFromAbandonedEpoch)`.

The argument uses the inductive invariant `WatcherInv`. It is the contract's
`Inv`, plus:
* the contract epoch is at most `MaxEpoch`;
* the watcher's variables are well typed;
* every queued event belongs to the set `Events` of well-formed events, with
  an epoch at most `MaxEpoch`.

The type alone is not inductive. Processing the head of the queue writes
the event's fields into the watcher's state, so the proof must know what a
queued event holds. `ContractStepOfWatcher` shows that every watcher step is
a contract step or leaves the contract alone. The contract's `Inv` therefore
carries over unchanged (`ContractInvOfWatcher`). TLC checked `WatcherInv` on
the classification instance, over 630,617 states, before the proof was
written.

`RecipientBytesProofs` proves, for every byte radix, every key size and every
set of invalid points:
* `BytesRoundTripHolds`: `try_from_bytes(into_bytes(r)) = Ok(r)` for every
  valid recipient `r`. This is the `BytesRoundTrip` invariant of
  `recipient_conversions`, quantified over all recipients.
* `TryFromBytesCanonical`: an accepted array of `Recipient::LEN` bytes is the
  `into_bytes` layout of the recipient it returns.
* `BytesRoundTripAlways`: `HeldInit ∧ [][UNCHANGED recipient]_recipient =>
  []BytesRoundTrip`. The variable `recipient`, its initial condition
  `HeldInit` and the invariant `BytesRoundTrip` live in `RecipientBytes`.
  `Recipient`'s `Init` conjoins `HeldInit`, and its `Next` leaves `recipient`
  unchanged, so the hypothesis is the `recipient` part of `Recipient!Spec`.
  That last implication is not a theorem: `Recipient` reaches RECURSIVE
  operators, and no proof may be stated there.

These rest on slicing lemmas:
* `SliceOfConcat3`: slicing three sequences laid end to end at their
  lengths gives each one back;
* `BytesAreSeqs` and `SeqsAreBytes`: a key of `n` bytes is the same thing as
  a byte sequence of length `n`.

`BlacklistNeverStored` (in `DKGContractProofs`) proves
`ContractSpec => []NoBlacklistingSurvives`. The invariant is inductive by
itself. `RegisterDealerKeepsNoBlacklist` takes each of the four paths of
`try_add_dealer`:
* an early Err, which changes nothing;
* the possession-check failure, whose save `Persisted` discards because the
  result is an Err;
* a deposit Err, which changes nothing;
* success, which can only remove an entry.

Every other action leaves the blacklist alone or empties it. This proves
the first finding's consequence for every window and bound:
* `BLACKLISTED_DEALERS` is always empty;
* the BlacklistedDealer branch and the strict-expiry comparison at
  `transactions.rs:26` are never reached.

`DKGWatcherProofs` adds `WatcherImplementsContract`: `Spec => ContractSpec`.
* `Init` contains `ContractInit`.
* Under `WatcherInv`, every step is a contract step or a stutter
  (`ContractStepOfWatcher`).

So every contract theorem holds of the composition. `WatcherSeesNoBlacklisting`
is one such consequence: `IsBlacklisted(Self, h)` is false at every height.
It explains the `watcher_resubmission` counterexample. Keys believed
submitted are resubmitted whenever they are absent, because a blacklisting
that has not yet expired never exists.

What stays with TLC:
* the liveness of the watcher (`DealerViewConverges`, `OwnKeyRegistered`,
  `OwnCommitmentCommitted`, `CommitmentViewConverges`). It needs fairness
  and ENABLED, which are out of TLAPS's reach.
* the violation runs. They are counterexamples TLC finds, not theorems.
* `StringRoundTrip` and `ParseIsCanonical`. They rest on recursive operators
  (base58 digits, `str::split`). A module that reaches a RECURSIVE operator
  cannot hold a proof, and what a recursion computes for every input would
  need induction over data, which the installed provers cannot instantiate.
  TLC checks them over all inputs of the bounded instance instead.

## Not modelled

* **Phase deadlines.** `begun_at` and `finish_by` are not modelled, because
  nothing in `src/` reads them.
* **Contents of DKG crypto and keys.** These are abstracted to valid or
  invalid.
* **Paging of `get_current_dealers`.** The model reads all dealers in one
  step, so a page boundary racing a registration is not explored.
* **The executor's own DKG work.** Dealing generation and complaint handling
  are not in the repository.
* **The watcher's later phases.** They are `todo!()` and are modelled as the
  panic they are.
* **The gateway's `CoconutVerifier::release_funds`.** It is a fixed sequence
  of calls to validator APIs: a propose, a verify at every other API, then
  an execute. spec.md places fund-release voting out of scope, the
  validator-API handlers are not under `src/`, and nothing under `src/`
  calls it.
* **The mixnet client loops** (`src/src/clients/mod.rs`). They are socket and
  message plumbing with no state beyond the I/O.
* **The explorer's caches** (mix nodes, pings). They are refilled from the
  network and never persisted.
