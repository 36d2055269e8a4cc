# Verification of chainlink-ton

TLA+ specifications of chainlink-ton: the contracts that run on TON and the Go
services of the relayer that talk to them. The modules are translated from the
source; TLC checks them on small instances, and TLAPS proves the main results
for every value of the constants. `PROJECT.json` maps every definition to the
lines it stands for and lists runs, mutants, hazards, findings and theorems.

Paths below are relative to `src/`. `C/` stands for `contracts/contracts/`.

## 1. The system

### Parts and how they interact

**Governance** (`C/mcms`, `C/lib/access`). Signers in a tree of groups sign
Merkle roots of operations for the *ManyChainMultiSig* (`mcms.tolk`). Once a
quorum of the tree has signed a root, anybody may execute its operations by
nonce. Its calls go to contracts it owns, in a deployment the *RBACTimelock*
(`rbac_timelock.tolk`), which holds announced calls back for a delay and decides
by role who may schedule, cancel, execute or bypass. Roles come from the
*AccessControl* trait, ownership from the *Ownable2Step* trait.

**CCIP, sending** (`C/ccip`). A user, or a jetton wallet on behalf of one, sends
a message to the *Router*, which forwards it to the *OnRamp*. The OnRamp asks
the *FeeQuoter* for the fee, and numbers and emits the message when the answer
comes back. Between these four transactions anything may happen: other sends,
new prices, another fee quoter, another allowlist.

**CCIP, receiving**. Oracles sign reports; a transmitter passes them to the
*OffRamp*, which verifies them with the *OCR3* library (`C/lib/ocr`). For each
Merkle root of a commit report it deploys a *MerkleRoot* contract by way of a
*Deployable* stub; price updates are forwarded to the FeeQuoter.

**Relayer** (`pkg`). The *log poller* scans the accounts of registered filters
for external messages and stores those that match. The *transaction manager*
sends what callers enqueue, retries, remembers what it sent and finalizes it
once its trace has settled. *Trace tracking* follows a transaction through all
the messages it causes. Codecs, bindings, configuration and the relayer's
service layer connect these with the plugins: one oracle encodes the report its
plugin agreed on into cells, the others and the OffRamp read it.

### Inventory

| Part | State | Operations | What makes it hard |
|---|---|---|---|
| AccessControl | roles: admin role, member dictionary, member count | grantRole, revokeRole, renounceRole; getters and enumerations | counter beside dictionary; admins that remove themselves |
| RBACTimelock | minDelay, timestamps with the sentinels 0 and 1, blocked selectors and their count, roles | init, scheduleBatch, cancel, executeBatch, bypasserExecuteBatch, updateDelay, block/unblock selector, role messages | time, predecessors, cancelling and rescheduling, checks made at booking and not at execution |
| Ownable2Step | owner, pendingOwner | transferOwnership, acceptOwnership | offers replaced before acceptance |
| MCMS | signers, config, seen hashes, root, validUntil, opCount, metadata | setRoot, execute, setConfig, ownership messages | roots overriding half executed roots, expiry, replay, reconfiguration under a root, vote counting up a tree |
| Router | onRamp | SetRamp, CCIPSend, TransferNotification | the OnRamp changes while messages are in flight |
| OnRamp | feeQuoter, destination entries with sequence numbers and allowlists | send, MessageValidated, SetDynamicConfig, applyDestChainConfigUpdates, applyAllowlistUpdates | checks made before a round trip and relied on after it |
| FeeQuoter | token prices, fee tokens, chain configs with gas prices | price updates, config updates, getValidatedFee | staleness, a rate that steps at a threshold, truncating division |
| OCR3Base, OffRamp, MerkleRoot, Deployable | OCR3 configs, source chains, root contracts | commit, execute, SetOCR3Config, UpdateSourceChainConfig, Initialize | faulty oracles, oracle sets that change, repeated reports, deployment by messages |
| Log poller | filters by name and by address, last processed block, logs | RegisterFilter, UnregisterFilter, run with its collectors, Process | iterations of many steps beside registrations and new blocks; lite client errors; lagging servers; addresses without a topic |
| Log store queries | logs | FilteredLogs, FilteredLogsWithParser, sorting, paging | bytes compared at offsets; pages read while logs are stored |
| Event emitter of the integration test | loop, counter, mutex | Start, the event loop, Stop, the test's condition | sends that fail after they were executed; Stop waiting under the mutex |
| CCIP codecs | none | Encode, Decode of commit and execute reports | limits of a cell: bits, references, chained lists; optional numbers, addresses of any length |
| Txm, TxStore | broadcast channel, two loops, unconfirmed and finalized maps | Enqueue, Close, broadcastLoop, confirmLoop, GetTransactionStatus | sends that fail after they were executed, retries, closing at any moment |
| Trace tracking | tree of received messages, queue | WaitForTrace and its parts, TraceSucceeded, OutcomeExitCode, fees and net credit | other traffic on the same accounts, execution before or after the subscription, bounces |
| Merkle proofs, cell utilities, RMNRemote, CallProxy, Upgradeable, jetton library, examples, relay, accessor, bindings, wrappers, configuration | see `PROJECT.json` | | not modelled, with the reason in section 8 |

What correctness means here, in one line each: operations leave the timelock
only as announced, once and in order; the multi-sig executes exactly what a
quorum signed, by nonce; every send is emitted once, in order, under contiguous
numbers, or thrown; prices and fees are never taken from nothing; a report whose
signatures are all read says only what honest oracles observed, and every accepted
root gets its contract;
the log poller stores what filters cover once and completely, and queries find
exactly what was asked; a report survives its encoding; the transaction
manager records what the chain executed and resolves every request; the trace
tracker reports the trace that happened, with fees that, read once, explain the
balances.

## 2. Modules

TON runs every message as one atomic transaction. A failed requirement throws
and rolls the transaction back, so it is a guard of the action that models the
handler and never a step. Messages from one contract to another arrive in order;
nothing else is ordered. No contract of the repository acts on a bounced
message, so a message whose transaction throws is gone. The Go services are
modelled at the grain of their channel operations, map updates and remote calls.

| Module | Models | State and actions |
|---|---|---|
| `AccessControl` | `C/lib/access/access_control.tolk` | `roles` is the dictionary, total because a missing entry reads like the default one. One action per message; the getters are operators over the order of dictionary keys. |
| `RBACTimelock` | `C/mcms/rbac_timelock.tolk` | extends AccessControl. Variables keep the names of the storage; an operation batch is its id, which determines calls and predecessor. `sent` is what left the contract; `booking` and `blockedSince` are history. `Tick` is the clock. |
| `TimelockLifecycle` | the promise of the timelock | abstract specification: announce with a date, withdraw, release once and not before the date. |
| `MCMSGroups` | group trees and votes in `C/mcms/mcms.tolk` | operators: what setConfig accepts, how setRoot counts; `Successful` is the documented meaning, defined independently. |
| `MCMSQuorum` | the same, per signature | a configuration is accepted, signatures come in one by one. `MCMCMS` runs it beside the contract: a behaviour is of the one or of the other. |
| `Ownable2Step` | `C/lib/access/ownable_2step.tolk` | both messages. |
| `MCMS` | `C/mcms/mcms.tolk` | extends MCMSGroups and Ownable2Step. A signed hash is the pair (root, validUntil); a Merkle proof verifies iff the leaf is in the root's set. `executed`, `approval`, `rootLog` are history. |
| `CCIPBase` | what the CCIP contracts share | dictionaries, and `channel`: the messages in flight per sender and receiver. |
| `FeeQuoter` | `C/ccip/fee_quoter.tolk` | all messages but updateTokenTransferFeeConfigs, which cannot succeed (section 7), and the computation of the fee with the power of ten as a parameter. A message is its data, in cells and bits, and its transfers. |
| `Router`, `OnRamp` | `C/ccip/router.tolk`, `onramp.tolk` | one action per handler. |
| `CCIPSend` | their composition | users send, messages are delivered, owners reconfigure. `OtherQuoter` is a second fee quoter whose answers are arbitrary. `UserMessages` are the messages that are sent; the properties of the fee speak of all `Messages`. |
| `OCR3Base` | `C/lib/ocr` | configuration and verification of signatures. A signature is its key and the hash it covers. A vector has the items an Iterator reads, along the first references, and the size counted from the bits of its whole tree. |
| `OffRamp` | `C/ccip/offramp.tolk`, `merkle_root.tolk`, `C/deployable` | extends OCR3Base; `initializing` holds the messages to root contracts, delivered in any order between different contracts. What oracles observe (`TrueRoots`, `TruePrices`) depends on the digest in force. |
| `CellCodec` | `pkg/ccip/bindings/common`, the cells of tonutils-go | cells as fields with the width they take and references; lists chained by reference or in place, byte arrays over several cells. |
| `ReportCodec` | `pkg/ccip/codec`, `bindings/ocr`, `bindings/onramp` | a report is chosen, encoded, decoded. An address is flags, workchain and data; `Empty` is a missing number. |
| `LogPoller` | `pkg/logpoller`, `pkg/ton/event` | an iteration is several steps (`run`, one fetch per address, one `Process` per message, `Finish`); `Faults` says which lite client calls may fail. The destination of an external message is its bytes, of which the last four are the topic. |
| `LogQuery` | `query.go` and the readers of `store.go` | operators over stored logs. A byte has `BASE` values and a word `WORD` bytes, so that a comparison of several bytes is reached with small counters. |
| `EventEmitter` | `integration-tests/smoke/logpoller/helper` | the event loop, its sends and Stop with the mutex. |
| `LiveIngestion` | `log_poller_test.go`, `C/examples/counter.tolk` | extends the last three: the emitter makes a counter contract emit, the poller stores, a reader pages through the store, the test waits for its condition. |
| `Txm` | `pkg/txm` | both loops and the store. The chain is external: a send that reports an error may have been executed. |
| `TraceTracking` | `pkg/ton/tracetracking` | the accounts' transactions (external) and the tracker, one received message per step. A transaction is aborted before or in its action phase; a caller reads the fees before WaitForTrace or after it, and each reading is a step that changes the message. Amounts and fees are small numbers that differ per message, so that a sum which leaves one out is another sum. |
| `MC*` | instances for TLC | constants; `MCMCMS` also puts the vote count of MCMSQuorum beside the contract. |
| `Lists` | append in Go, sums in a loop, removal from a bag | three operators on sequences for the components with theorems; SequencesExt would be carried into every proof obligation. |
| `*Proofs` | proofs, section 6 | `RecursionProofs` has what recursive functions compute in general; `RBACTimelockProofs` has AccessControl and the timelock, `MCMSProofs` the multisig and its vote count, `SendPipelineProofs` (channels and pipeline) and `CCIPSendProofs` (steps and theorems) the sending side and the fee quoter, `DeliveryProofs` the OffRamp and the transaction manager, `LogPollerProofs` the log poller, `TraceTrackingProofs` the trace tracker. |

Operators named `Mut...` are plausible mistakes in a handler, kept beside the
definition they vary. Replacing the definition by them must violate a property;
the pairs are in `PROJECT.json`.

## 3. Runs

| Run | Question | Properties |
|---|---|---|
| `rbac_timelock` | Can any order of messages, role changes and time make the timelock release calls otherwise than announced, or its counters disagree with its dictionaries? | EveryEntryEnumerable, ExecutedAsBooked, ExecutedOnce, PredecessorsFirst, BlockedAfterBooking, LifecycleSpec (refinement) |
| `mcms` | Do overrides, expiry, clearing, reconfiguration and ownership changes keep execution to what was signed? Is the vote count of setRoot the documented meaning of the tree, and can every accepted configuration be used? | NoncesContiguous, ExecutedUnderRoot, RootSetByQuorum, RootsSetOnce, SkippedOnlyByOverride, RootReachedIffSuccessful, AllSignersSuffice |
| `ccip_send` | What happens to sends when owners reconfigure in the middle of the pipeline? Is a fee ever computed from a gas price nobody pushed, is more data ever cheaper than less? | SequenceContiguous, EmittedOnce, EmittedInOrder, QuotesArePriced, FeeMonotone, EventuallySettled |
| `codec` | Does a report survive its encoding, and is one refused only for something in it that cannot be encoded? | ReportKept, RefusedForAnElement |
| `offramp` | Do changing oracle sets with a faulty oracle ever have a report accepted that nobody observed under the configuration in force; is what was accepted, and nothing else, deployed and kept? | CommittedIsTrue, RootKept, AcceptedIsDeployed |
| `logpoller` | With lite client calls that succeed, is every covered message stored, once, while filters come and go? | NoDuplicates, Complete, Delivered |
| `live` | Emitter, poller and reader side by side, with failing sends, a failing GetAccount at the start of a range and a message without a topic: is anything lost, are queries and pages exact, does the test come to its end? | Complete, PagesReadOnce, QueriesExact, EventuallyIngested |
| `txm` | Is what the store says true, in order and final, and does everything come to an end? | RecordedIsExecuted, RecordedInOrder, StatusIsTrue, EventuallyResolved, CloseReturns |
| `trace` | Is the tree the tracker builds the trace that happened, what does its outcome tell, and do the fees of a message explain the balance of its account, however often they are read? | TraceIsExact, OutcomeIsTrue, FeesExplainBalance, TraceReturns |
| `rbac_timelock_init` | expected violation | InitGrantsAdmin, section 7 |
| `logpoller_list` | expected violation | Complete, section 7 |
| `trace_outcome` | expected violation | SucceededIsExecuted, section 7 |

All other properties hold. What the less obvious ones say:

- *EveryEntryEnumerable*: reading members of a role, or blocked selectors, by
  index up to their counter yields each entry of the dictionary once.
- *BlockedAfterBooking*: a pending operation carries a blocked selector only if
  the selector was blocked after the booking, the one case the code leaves open.
- *RootSetByQuorum* judges the current root by the configuration in force when it
  was set and by the independent definition `Successful`.
- *EmittedInOrder* compares sends priced by the same quoter. Sends of different
  quoters do overtake each other when the owner switches quoters.
- *ReportKept*: what is decoded is the report, but for what the code does not
  encode: the flags of an address, the form of extra arguments beyond their gas
  limit, and token data beyond the first message.
- *FeeMonotone*: of two messages that can be quoted, the one with more data never
  costs less, across the threshold of the calldata rate and the final division.
- *CommittedIsTrue*, its first part, is about an OffRamp that verifies signatures now;
  the code fixes whether it does with the first configuration of a plugin, and the
  proof rests on that. A report accepted with signatures that are all read is true
  under the digest that was in force, not merely under an earlier one. Whether all
  were read is part of the statement, for the reason in section 7 (`utils.tolk`). Its
  other part, that contracts and FeeQuoter get accepted roots and prices only, is
  unconditional.
- *AcceptedIsDeployed*: two accepted roots may have one hash; the contract holds the
  first of them.
- *Complete* counts from the block at which a filter was registered: an
  iteration that has read its addresses does not serve a filter registered later.
- *PagesReadOnce*: a reader in the order of the store gets every log once although
  the poller goes on; one that sorts does so if nothing was stored meanwhile.
- *EventuallyIngested* is the condition of the integration test. It excepts the
  three things that keep the test from it: a send that was executed and reported
  as failed, a message that cannot be decoded, and a range scanned again.
- *EventuallyResolved* says of every request that it is recorded or given up, and
  of the store that the in-flight counts return to zero again and again.
- *OutcomeIsTrue* says what TraceSucceeded and OutcomeExitCode do tell: whether a
  transaction of the trace failed before its action phase, and with which code.
  What the comments say of them is *SucceededIsExecuted*, which does not hold.
- *FeesExplainBalance*: NetCreditResult, the storage fee and
  TotalTransactionExecutionFee of a received message add up to what its transaction
  did to the balance of the account when they are read for the first time, before
  its messages are received or after; each earlier reading makes the sum too small
  by its forward fees (section 7).
- *RecordedIsExecuted*: a request executed twice, because a send reported an
  error after it had been executed, is recorded once, at a logical time at which
  the chain executed it.

## 4. Bounds

| Run | Instance | Why it is enough |
|---|---|---|
| `rbac_timelock` | 4 accounts, one per role; 2 operations, the second after the first and with 2 selectors; delays 0 and 2; times 2 to 4; 1 bypassed batch; admin and proposer role changes; `MaxUint64` 5 | a chain of predecessors, a delay that expires and one that does not, a raised minimum delay, a role that loses and regains members, a timestamp that would overflow (175,592 states) |
| `mcms` | 3 groups, 3 keys, 3 configurations, 2 roots, expiry 1 and 2, times 1 to 3; votes: up to 4 signers, quorums up to 2 | override, continuation, expiry and replay of each root; all trees of depth two, disabled groups, signers at inner groups (47,017 states) |
| `ccip_send` | 1 destination, 3 sends, 2 quoters, 2 OnRamp addresses, 1 user and 1 jetton wallet; 1 token, 2 chain configurations, times 1 and 2; data of 0 to 4 bytes, of a broken byte, of 100 cells, and with a transfer | two sends at the same stage and one behind, a quoter changed and changed back; a price that is fresh, stale and never pushed, a threshold met from both sides, each reason to refuse a message (171,648 states) |
| `offramp` | 5 oracles, 1 of them faulty; 2 source chains, 2 hashes, up to 2 signatures in every layout, 3 commits, 2 digests, a price that is true under the first only | bigF = 1, two overlapping oracle sets that share the faulty oracle, refused configurations, a report committed twice, one that is true under the former configuration, a false root with the hash of a true one (207,012 states) |
| `codec` | lists of 0, 3, 4 and 7 elements, byte arrays of 0, 127, 128 and 255 bytes, addresses of 0, 1, 6, 7, 20, 57, 58, 64 and 65 bytes, missing, negative and zero numbers, extra arguments of each kind; coins of up to 3 bytes | each limit of a cell is met, and passed by one: 3 references and the chain, 127 bytes, two roots with the longest address that fits, 64 bytes of an address (9,861 states) |
| `logpoller` | 2 accounts, 2 topics, 3 filters, pages of 1, 2 blocks, 2 transactions each; bytes of 2 values | more than one page, more than one iteration, a name registered anew for another account (81,066 states) |
| `live` | 2 events to emit, 1 failing send, 3 blocks, pages of 1, iterations start while at most 2 logs are stored (`MAX_LOGS`), words of 2 bytes of 2 values | a counter whose first byte decides and one whose second does, an iteration aborted in the middle and repeated, a reader between two logs (172,358 states) |
| `txm` | 3 requests, one of which does not load; channel of 2; 2 attempts | a full channel, a retry, an execution nobody noticed (144,515 states) |
| `trace` | 3 accounts, 2 roots, 4 messages, exit codes 0 and 7 and a skipped compute phase | two messages along one link, two levels of depth, a bounce, an event, foreign traffic; two readings of the fees (`MAX_READINGS`), of one message or of two, before and after the wait (285,206 states) |

Every bound is a constant of its module and sits in a guard. No symmetry is used.
Deadlock is checked except where the system may stop: in `txm` Close stops the
manager, in `trace` the tracker returns and the chain falls silent, in `live` the
test is over.

## 5. Fairness

- `ccip_send`, `offramp`: weak fairness of every delivery. TON delivers every
  internal message it has accepted. Users, owners and transmitters owe nothing.
- `logpoller`: weak fairness of the steps of an iteration. The ticker calls `run`
  for as long as the service runs, calls to the lite client return, and a server
  that lags catches up.
- `txm`: weak fairness of the broadcast loop and of the confirm loop, without
  requiring WaitForTrace to fail. Strong fairness of Confirm (errors of
  WaitForTrace pass) and of ConfirmStops (a Go select takes each branch that is
  ready again and again). Weak fairness of the settling of traces, which is the
  chain's; without it WaitForTrace, which has no timeout, holds up the loop and
  Close, and neither liveness property holds.
- `live`: weak fairness of the emitter and the poller (goroutines and a ticker), of
  the delivery to the counter contract, and of the check of the condition, which
  require.Eventually repeats. Readers owe nothing.
- `trace`: weak fairness of the chain and of the tracker's goroutine.

## 6. Proofs

All theorems hold for every value of the constants under the named assumptions
of the modules: accounts are numbers (dictionaries order their keys), an initial
storage is consistent, time starts after the sentinel `DONE_TIMESTAMP`, the
addresses of the CCIP contracts differ, no staleness threshold of gas prices exceeds
the time since the epoch, leaves and configurations are well typed, prices, rates and
amounts are naturals,
(OffRamp) a configuration has at most bigF faulty signers, (Txm) at least one
attempt is made, (LogPoller) a page holds at least one transaction and the
name of a filter is its ID, and (TraceTracking) exit codes are naturals with 0 for
success and the other end of an external message is no account. The two theorems about the log poller have
hypotheses of their own, below.

| Theorem | States |
|---|---|
| `MembersLenCorrect` | the storage of roles is well typed and the count of a role is the number of its members |
| `ExecutionIsTimelocked`, `ExecutionHappensOnce`, `ExecutionFollowsPredecessors` | ExecutedAsBooked; ExecutedOnce; PredecessorsFirst |
| `BlockedSelectorsCorrect` | type correctness, exact count of blocked selectors, BlockedAfterBooking |
| `EntriesEnumerable` | EveryEntryEnumerable: enumerations by index and from key to key list every member of a role and every blocked selector, once and in the same order |
| `DoneOperationsStayDone` | no message undoes a done operation |
| `ImplementsLifecycle` | the timelock refines TimelockLifecycle |
| `ExecutionFollowsNonces`, `ExecutionFollowsRoots` | NoncesContiguous; ExecutedUnderRoot |
| `RootsAreOrderly`, `SkippingNeedsOverride` | RootsSetOnce and the op counter in the range of the root; SkippedOnlyByOverride |
| `VoteCountIsMeaning` | RootReachedIffSuccessful: the vote count of setRoot, for any number of groups and signers, is the documented meaning of the tree |
| `AcceptedConfigsAreUsable` | AllSignersSuffice: what setConfig accepts can be met |
| `RootsNeedAQuorum` | RootSetByQuorum, which follows the count into the contract |
| `StorageConsistent` | type correctness, the signers by key are those of the configuration, ownership is never on offer to its holder |
| `NumbersAreContiguous`, `SendsAreEmittedOnce`, `SendsAreEmittedInOrder`, `FeeAnswersAreKnown` | SequenceContiguous; EmittedOnce; EmittedInOrder; a fee answer never names a destination the OnRamp does not know |
| `QuotesNeedPrices` | QuotesArePriced |
| `FeesGrowWithTheMessage` | FeeMonotone: for any rates, thresholds and prices, and data of any size |
| `OnlyTrueIsCommitted`, `RootsAreKept` | CommittedIsTrue, for any sequence of oracle sets and any vectors of signatures; RootKept |
| `LogsStoredOnce` | NoDuplicates, if every message has a topic and GetAccount answers at the start of a range |
| `ProcessedBlocksAreComplete` | Complete, if the calls that read the history succeed (GetAccount at the end of a range and ListTransactions; it may fail at the start) and no two filters share address and topic |
| `RecordedIsTrue`, `RecordsKeepOrder`, `StatusesAreTrue` | RecordedIsExecuted; RecordedInOrder; StatusIsTrue |
| `TraceFollowsTheChain` | TraceIsExact: for any accounts and traffic, and traces of any depth |
| `OutcomeTellsTheTrace` | OutcomeIsTrue: what the two recursive functions compute, for every tree |
| `FeesAreExplained` | FeesExplainBalance: with any number of messages sent, of which any number is received, and after any number of readings |

The arguments, each an inductive invariant:

- **Recursion**: the library states induction with an operator as a parameter,
  which no installed prover can instantiate. `RecursionProofs` does without. Least
  elements of sets of naturals come from *LeastNatural*. The right side of a recursive
  definition is passed as a function `improve` from functions to functions, and
  *RankedRecursion* says that if its value at a place depends on places of lower
  rank only, then a function satisfies the definition; what the function computes
  then follows by looking at a counterexample of least rank. The same module has
  what concatenation, joining and enumeration do to the elements of sequences and
  to their being distinct.
- **AccessControl**: type and count together. Lemmas for `_grantRole` and
  `_revokeRole` show that each keeps one role's data consistent, member or not.
- **Timelock**: ExecutedAsBooked speaks of what was sent and says nothing of what
  is pending. The invariant adds *PendingIsBooked* (the timestamp of a pending
  operation is what its booking says) and *DoneIsSent* (the done mark and the
  history agree), and the counters, without which unblocking could leave the
  naturals. The refinement follows from what a step may do to one timestamp. The
  enumerations follow from the type invariant: dictionaries of the storage are finite,
  and a finite set of numbers has one increasing enumeration, whichever way it is read.
- **MCMS**: *CurrentIsLogged* ties the storage to the last entry of the log of
  roots, *LoggedIsSeen* ties the log to `seenSignedHashes`. Without the second a
  root could be logged again, without the first an op could run under a root that
  is no longer in force.
- **Votes**: the code climbs from the group of a signature as long as a group has
  just hit its quorum; the documentation counts successful children. *VoteClimbs*
  says what one climb does, *AddVoteCountsChildren* that it keeps the number of votes of
  each group that of its voting signers and of its child groups at or above their
  quorum, and *VotesAreSuccessfulChildren*, by induction over the signatures and
  over the tree from its leaves, that these are the successful children. For
  AllSignersSuffice, *ChildrenCounts* says what the backward loop of setConfig counts,
  and *EverybodySucceeds* that with all votes every enabled group reaches its quorum.
- **MCMS, quorum**: setRoot replaces root and approval together, and setConfig
  touches neither unless it clears the root, so that *RootReached*, the quorum as the
  code counted it at the moment of setRoot, is part of the invariant. RootSetByQuorum
  follows from it by what was shown of the count.
- **CCIPSend**: the invariant is that of a pipeline. For every quoter the ids of
  its sends are ordered by stage: those emitted before those answered, those asked
  and those on the way from the Router (*InOrder*), and no id in flight or emitted
  was dropped (*Gone*). `SendPipelineProofs` shows this once for abstract
  channels (a message enters, is handed on, leaves, is emitted), and each
  transaction is one of these.
- **FeeQuoter**: *UnpricedIsOld*, a chain nobody has priced still has the timestamp 0
  it was created with, whatever configurations replace each other; such a price is
  older than every threshold. For FeeMonotone the invariant is the type of the storage,
  which is what lets products and quotients be compared. *CalldataMonotone* takes the
  calldata across the threshold of its rate, and *FeeGrows* the fee through its sums and
  its division.
- **OffRamp**: *VerifiedIsTrue* is the pigeonhole: bigF + 1 signatures that are all
  read are of different signers, and so many hold an honest one, which signs under a
  digest only what is true under it. The invariant adds that Initialize messages in
  flight are of accepted roots (*InFlightIsAccepted*), that every configuration in force
  is fault bounded, and that nothing was accepted before the first configuration.
- **LogPoller**: *AllPages* shows that the page loop reads every message after
  startLT up to endLT once, whatever the page size, and *PollerOK* is what every step
  needs (types, a chain whose transactions are in later and later blocks, a running
  iteration that starts at the processed block). For NoDuplicates, *ReadOnce* says
  that no log is of a message in hand or still to be read: its block is processed, or
  it is in the range of the running iteration, of an account already read, and no
  longer in hand. For Complete, *AllOnTheWay* says of every covered message in the
  range of the running iteration that its account is still to be read, or it is in
  hand, or it is stored; *PairsWatched* keeps filters and watched pairs together. A
  filter registered during an iteration is served from the end of its range on, which
  is what makes the interleaving sound. Each hypothesis excludes behaviour of the code
  shown or listed in section 7: a scan that starts at the first transaction again, an
  iteration that stores logs and then fails on a message without topic, pages
  lost to an error, an Unregister that silences another filter.
- **Txm**: RecordedInOrder speaks of the store alone and is not inductive. The
  invariant follows the requests from acceptance on: each is enqueued once, the
  channel is the tail of what was enqueued (*ChannelIsTail*), the request in the
  hands of the broadcast loop is the one before it (*InHand*), and what is
  recorded comes before that (*RecordedBefore*). A retry can execute a request
  again and not record it again, because the loop moves on once it has recorded
  it. For the statuses, *OneMap* and *OnChain* make the logical time a key of the
  store, and *FinalizedTrue* holds because a trace settles once.
- **TraceTracking**: what tells messages apart is their sender and their time.
  *LedgerInv* says why: the transactions of an account follow one another, what each
  sends has the times between it and the next, and every message executed was sent;
  so a transaction that matches is that of the message (*MatchIsOwn*). *TreeInv*
  keeps the tree one: the messages received of a transaction and those only sent are
  together what it sent, in order (*Splits*), all but the root were received by an
  earlier one (*Linked*, *HasParent*) and no two are the same transaction (*Apart*).
  *Waiting* says that nothing is forgotten: a message that has not received all it
  sent is in the queue, or was received by one that is. When the queue is empty there
  is none. The outcome is an induction over the tree, from the root down
  (*FromTheRoot*: the walk of OutcomeExitCode comes to every message) and from the
  leaves up (*FromTheLeaves*: TraceSucceeded is true if all succeeded). For the fees,
  *FeesAddUp* puts the sums over the received and over the sent messages together
  (*TotalOfParts*), and the invariant says what each reading has added to the field of
  the action fees.

Only model-checked: liveness (EventuallySettled, AcceptedIsDeployed, Delivered,
EventuallyIngested, EventuallyResolved, CloseReturns, TraceReturns), because the
prover does not reason about ENABLED and fairness; both properties of the codec,
whose cells are built by RECURSIVE operators, with which tlapm loses its SMT solver;
QueriesExact and PagesReadOnce, which rest on selecting from and sorting sequences,
operators the provers have no theory of.

## 7. Where the code and its documents disagree

Shown by a run:

- `rbac_timelock_init`: `Timelock_Init` grants its roles in a copy of the role
  data (`rbac_timelock.tolk:508`) and never writes it back. The documentation of
  the message says "`admin`: account to be granted admin role" (line 66).
- `logpoller_list`: an error of ListTransactions comes with an empty batch and
  takes the branch `len(batch) == 0` (`pkg/logpoller/loader.go:127`), commented
  "no more transactions to process". The pages not read are lost, because the
  block is then saved as processed. An error of GetAccount at the end of the range
  is only logged (line 76) and loses the messages of its address the same way
  (`Faults` has it as `"to"`).

- `trace_outcome`: Success of a received message is that of its compute phase
  (`message.go:259`); a transaction aborted in its action phase, whose messages were
  never sent, counts as a success, and so does its trace. Line 76 says of the field
  "Indicates if the transaction was successful", and `txstore.go:112` "isSucceeded
  indicates whether the transaction trace execution succeeded".

Met while modelling, part of the models, and not held against a property:

- `access_control.tolk:438`: renounceRole goes through the admin check of
  revokeRole, so a member that is no admin cannot renounce; line 421 calls it "a
  mechanism for accounts to lose their privileges".
- `utils.tolk:249`: `UMap.min` searches with integer keys of 267 bits, more than the
  TVM allows, so that it throws for every dictionary. updateTokenTransferFeeConfigs
  (`fee_quoter.tolk:114`), its only caller, therefore never succeeds, no token gets a
  transfer fee, and every message with a transfer is refused. The floors, caps and
  rates of transfers in getTokenTransferCost are out of reach and not modelled.
- `fee_quoter.tolk:233`: the network fee of a message without transfers stays in
  cents, while line 286 says "every fee component has been raised to 36 decimals".
- `utils.tolk:52`: countBytes counts the bits of the whole tree of cells under a vector,
  an Iterator (line 40) reads along the first references. transmit takes the number
  of signatures from the one and verifies what the other reads. The two agree for the
  vectors the encoders of the repository build; the contract does not itself require
  it. *CommittedIsTrue* states the guarantee for reports whose signatures are all read;
  for it to cover every report, the count would have to be of the signatures that were
  verified.
- `offramp.tolk:280`: execute computes the Merkle root of a report and does not
  use it yet; line 267 refers to "the root verification".
- `loader.go:200`: any error of GetAccount at the start of a range, not only a
  missing account, makes the scan start at the first transaction, and logs are
  stored again. `live` shows that nothing is lost.
- `log_poller.go:220`: a message whose topic cannot be decoded ends the iteration with
  an error after the logs of the messages before it are stored. The block is not
  saved, so the next iteration reads the range again, stores those logs again and
  fails again. `live` has such a message.
- `filters.go:45`: unregistering one of two filters with the same address and
  topic silences the other; line 62 promises "all FilterIDs that match". The
  filters of the runs have different pairs.
- `filters.go:29`, `:67`: the registry is keyed by the text of an address, which has
  its flags in it. A filter registered with the bounceable form and messages looked up
  with the other would not meet; in the models an address has one form, as in
  GetDistinctAddresses, which parses the registered text back.
- `txm.go:203`: requests are sent from the client's wallet whatever `FromWallet`
  says (`tx.go:15`: "wallet used to send the message").
- `txm.go:134`: `Expiration` is computed and never read.
- `message.go:452`: OutcomeExitCode stops at the first message without success,
  and one whose compute phase was skipped has exit code 0. *OutcomeIsTrue* leaves
  the exit code of such traces open.
- `message.go:107`: TotalActionPhaseFees adds the forward fees to TotalActionFees in
  place, so each further reading counts them again; line 72 describes the field as
  the fees without them. *FeesExplainBalance* says by how much readings differ.
- `event_emitter.go:203`: Stop waits for the event loop under the mutex the loop
  takes at its next tick. A Stop between the last event and that tick waits until
  the context ends. The model has this standstill, and *EventuallyIngested* ends
  where Stop begins. `log_poller_test.go:167` speaks of "loops, which will stop
  itself once the target is reached", which they do when Stop comes later. No line
  promises that Stop returns, so no property asks for it.
- `query.go:154`: the sort is not stable; it orders by logical time only, and logs of
  one transaction may change places between two pages. The logs of the runs have
  different logical times.
- `executecodec.go`: the token data of the first message only is encoded. A source
  pool address of 58 to 64 bytes is valid for its own check and too long for the
  cell of a token transfer; *RefusedForAnElement* counts it as an element that
  cannot be encoded.

## 8. Not modelled

- Gas, balances and excess in the contracts, events and replies that no part of the
  repository acts on, layout of the cells of contracts. (Fees and balances are
  modelled where the trace tracker reports them, cells where the codecs fill them.)
- Cryptography: hashes are free of collisions, signatures are what they cover.
- Merkle proofs and multi-proofs, cell utilities (`C/lib/utils.tolk`, `C/lib/crypto`):
  pure algorithms, represented by their results. The multi-proof of the OffRamp is
  computed and not used (section 7), so no state depends on it yet.
- `RMNRemote`: a stub. CallProxy forwards everything to a fixed target. Upgradeable
  is one assignment of code and storage behind the owner check. Bindings, wrappers,
  mocks, configuration, the command and the TypeScript code: declarations, parsing
  and tests.
- Jetton library: messages and addresses for wallets that are not part of the
  repository; the Router's side of it is in `Router`.
- The Tact examples of `C/test/examples/async-communication`: patterns of messages
  for tests of the trace tracker; no part of the system uses them.
- `pkg/relay`: GetClient writes to a cache that no constructor creates
  (`chain.go:330`), so there is no caching to model; the rest delegates.
- Contract transmitter: the functions that convert a report are nil
  (`contract_transmitter.go:76`, `88`), so Transmit does not reach Txm.Enqueue.
- CCIP accessor and provider: mostly "not implemented".
- Bulk sends of the event emitter (SendBulkTestEvents), and the wait for a
  masterchain block at the end of SendAndWaitForTrace, which changes no state.
- Restarts: the stores of the log poller and the transaction manager are in
  memory only, so a restarted service is the initial state.
- `MaxSendRetryAttempts` = 0, with which the broadcast loop would use a nil
  message, is excluded by `AttemptAssumption`.
- A subscription that ends without a match (`message.go:352`): it runs without a
  deadline and ends only with the client library.

## 9. Plan

Built, in this order: access control, timelock and its lifecycle, multi-sig, fee
quoter, the sending side as a composition, OCR3 and the OffRamp, log poller,
transaction manager, trace tracking; then the codecs, the queries of the log
store, live ingestion as a composition, fees of a trace; proofs for every contract,
the transaction manager, the log poller and the trace tracker.

What would be worth adding as the code grows:

1. Execute of the OffRamp with Merkle multi-proofs, once it uses the root it
   computes, and the replies of the MerkleRoot contract.
2. MCMS, CallProxy and RBACTimelock composed: an op signed by the quorum schedules
   a batch, another executes it; the guarantees of both end to end.
3. Txm and TraceTracking composed: TraceTracking implements the external traces of
   Txm.
4. The database-backed store announced in `store.go:19`, with restarts.
