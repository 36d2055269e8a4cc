---------------------------- MODULE RBACTimelock ----------------------------
(***************************************************************************)
(* The timelock of contracts/contracts/mcms/rbac_timelock.tolk, with its   *)
(* role-based access control (module AccessControl).                       *)
(*                                                                         *)
(* An operation batch is named by its id.  The id is the hash of the       *)
(* batch's calls, predecessor and salt, so an id determines all three:     *)
(* Predecessor and Selectors are functions of it.  Replies, events, gas    *)
(* and balances are left out; a transaction that fails in any phase rolls  *)
(* back and is no step.                                                    *)
(***************************************************************************)
EXTENDS AccessControl, Sequences

CONSTANTS
    Op,             \* ids of operation batches
    Predecessor,    \* [Op -> Op \cup {NoPredecessor}]
    NoPredecessor,  \* predecessor 0
    Selector,       \* function selectors (32-bit op codes)
    Selectors,      \* [Op -> SUBSET Selector], of the batch's calls with a body of 32 bits or more
    Delays,         \* delays a message may carry
    RoleChanges,    \* the (role, account) pairs role messages name
    StartTime,      \* the time of deployment
    MaxUint64,      \* the largest value of a 64-bit field
    MaxTime,        \* bound on the clock
    MaxBypass       \* bound on the number of bypassed batches

VARIABLES
    now,                    \* blockchain.now()
    minDelay,
    timestamps,             \* 0 where the dictionary has no entry
    blockedFnSelectors,
    blockedFnSelectorsLen,
    sent,                   \* the call batches sent to their targets, in order
    booking,                \* history: when, with which delay and under which
                            \* minimum delay a pending operation was scheduled
    blockedSince            \* history: when a blocked selector was blocked

timelockVars ==
    <<now, minDelay, timestamps, blockedFnSelectors, blockedFnSelectorsLen,
      sent, booking, blockedSince>>

vars == <<roles, timelockVars>>

ADMIN_ROLE == "ADMIN_ROLE"
PROPOSER_ROLE == "PROPOSER_ROLE"
CANCELLER_ROLE == "CANCELLER_ROLE"
EXECUTOR_ROLE == "EXECUTOR_ROLE"
BYPASSER_ROLE == "BYPASSER_ROLE"

DONE_TIMESTAMP == 1

ASSUME TimelockRoleAssumption ==
    /\ {ADMIN_ROLE, PROPOSER_ROLE, CANCELLER_ROLE, EXECUTOR_ROLE, BYPASSER_ROLE} \subseteq Role
    /\ RoleChanges \subseteq Role \X Account

ASSUME OperationAssumption ==
    /\ NoPredecessor \notin Op
    /\ Predecessor \in [Op -> Op \cup {NoPredecessor}]
    /\ Selector \subseteq Nat
    /\ Selectors \in [Op -> SUBSET Selector]

\* Unix time is far beyond DONE_TIMESTAMP when a contract is deployed.
ASSUME TimeAssumption ==
    /\ StartTime \in Nat /\ StartTime > DONE_TIMESTAMP
    /\ Delays \subseteq Nat
    /\ MaxTime \in Nat /\ MaxUint64 \in Nat /\ MaxBypass \in Nat

Booking == [at : Nat, delay : Nat, floor : Nat]
NoBooking == [at |-> 0, delay |-> 0, floor |-> 0]

Batch == [kind : {"executed", "bypassed"}, op : Op, at : Nat, booked : Booking]

-----------------------------------------------------------------------------
(* State of an operation. *)

getTimestamp(id) == timestamps[id]

isOperation(id) == getTimestamp(id) > 0

isOperationPending(id) == getTimestamp(id) > DONE_TIMESTAMP

isOperationReady(id) == getTimestamp(id) > DONE_TIMESTAMP /\ getTimestamp(id) <= now

isOperationDone(id) == getTimestamp(id) = DONE_TIMESTAMP

onlyRoleOrAdminRole(role, sender) == hasRole(ADMIN_ROLE, sender) \/ hasRole(role, sender)

MutNothingBlocked(id) == TRUE

checkFunctionSelectorNotBlocked(id) == Selectors[id] \cap blockedFnSelectors = {}

getBlockedFunctionSelectorAt(index) ==
    IF index >= blockedFnSelectorsLen THEN 0 ELSE EntryAt(blockedFnSelectors, index)

getBlockedFunctionSelectorFirst ==
    IF blockedFnSelectorsLen = 0 THEN 0 ELSE EntryAt(blockedFnSelectors, 0)

getBlockedFunctionSelectorNext(pivot) ==
    LET next == EntryAfter(blockedFnSelectors, pivot)
    IN  IF next = NullSlice THEN 0 ELSE next

-----------------------------------------------------------------------------
(* Message handlers. *)

\* Timelock_Init.  The roles are granted in a local copy of the trait's data
\* that the handler never writes back; only minDelay is.
init(sender, delay, admin) ==
    /\ minDelay' = delay
    /\ UNCHANGED <<roles, now, timestamps, blockedFnSelectors, blockedFnSelectorsLen,
                   sent, booking, blockedSince>>

MutScheduleAnyDelay(id, delay) ==
    /\ ~isOperation(id)
    /\ now + delay <= MaxUint64
    /\ timestamps' = [timestamps EXCEPT ![id] = now + delay]

schedule(id, delay) ==
    /\ ~isOperation(id)
    /\ delay >= minDelay
    /\ now + delay <= MaxUint64     \* storeUint(_, 64)
    /\ timestamps' = [timestamps EXCEPT ![id] = now + delay]

scheduleBatch(sender, id, delay) ==
    /\ onlyRoleOrAdminRole(PROPOSER_ROLE, sender)
    /\ schedule(id, delay)
    /\ checkFunctionSelectorNotBlocked(id)
    /\ booking' = [booking EXCEPT ![id] = [at |-> now, delay |-> delay, floor |-> minDelay]]
    /\ UNCHANGED <<roles, now, minDelay, blockedFnSelectors, blockedFnSelectorsLen,
                   sent, blockedSince>>

MutCancelDone(sender, id) ==
    /\ onlyRoleOrAdminRole(CANCELLER_ROLE, sender)
    /\ isOperation(id)
    /\ timestamps' = [timestamps EXCEPT ![id] = 0]
    /\ booking' = [booking EXCEPT ![id] = NoBooking]
    /\ UNCHANGED <<roles, now, minDelay, blockedFnSelectors, blockedFnSelectorsLen,
                   sent, blockedSince>>

cancel(sender, id) ==
    /\ onlyRoleOrAdminRole(CANCELLER_ROLE, sender)
    /\ isOperationPending(id)
    /\ timestamps' = [timestamps EXCEPT ![id] = 0]
    /\ booking' = [booking EXCEPT ![id] = NoBooking]
    /\ UNCHANGED <<roles, now, minDelay, blockedFnSelectors, blockedFnSelectorsLen,
                   sent, blockedSince>>

MutPredecessorScheduled(id, predecessor) ==
    /\ isOperationReady(id)
    /\ predecessor \in {NoPredecessor} \cup {p \in Op : isOperation(p)}

beforeCall(id, predecessor) ==
    /\ isOperationReady(id)
    /\ predecessor \in {NoPredecessor} \cup {p \in Op : isOperationDone(p)}

MutForgetOperation(id) ==
    /\ isOperationReady(id)
    /\ timestamps' = [timestamps EXCEPT ![id] = 0]

afterCall(id) ==
    /\ isOperationReady(id)
    /\ timestamps' = [timestamps EXCEPT ![id] = DONE_TIMESTAMP]

executeBatch(sender, id) ==
    /\ onlyRoleOrAdminRole(EXECUTOR_ROLE, sender)
    /\ beforeCall(id, Predecessor[id])
    /\ sent' = Append(sent, [kind |-> "executed", op |-> id, at |-> now, booked |-> booking[id]])
    /\ afterCall(id)
    /\ booking' = [booking EXCEPT ![id] = NoBooking]
    /\ UNCHANGED <<roles, now, minDelay, blockedFnSelectors, blockedFnSelectorsLen, blockedSince>>

updateDelay(sender, newDelay) ==
    /\ hasRole(ADMIN_ROLE, sender)
    /\ minDelay' = newDelay
    /\ UNCHANGED <<roles, now, timestamps, blockedFnSelectors, blockedFnSelectorsLen,
                   sent, booking, blockedSince>>

\* uDictSetIfNotExists: blocking a blocked selector changes nothing.
blockFunctionSelector(sender, selector) ==
    /\ hasRole(ADMIN_ROLE, sender)
    /\ selector \notin blockedFnSelectors
    /\ blockedFnSelectors' = blockedFnSelectors \cup {selector}
    /\ blockedFnSelectorsLen' = blockedFnSelectorsLen + 1
    /\ blockedSince' = [blockedSince EXCEPT ![selector] = now]
    /\ UNCHANGED <<roles, now, minDelay, timestamps, sent, booking>>

\* uDictDelete: unblocking a selector that is not blocked changes nothing.
unblockFunctionSelector(sender, selector) ==
    /\ hasRole(ADMIN_ROLE, sender)
    /\ selector \in blockedFnSelectors
    /\ blockedFnSelectors' = blockedFnSelectors \ {selector}
    /\ blockedFnSelectorsLen' = blockedFnSelectorsLen - 1
    /\ blockedSince' = [blockedSince EXCEPT ![selector] = 0]
    /\ UNCHANGED <<roles, now, minDelay, timestamps, sent, booking>>

Bypassed == {i \in DOMAIN sent : sent[i].kind = "bypassed"}

\* Sends the calls of a batch whatever the state of the operation.
bypasserExecuteBatch(sender, id) ==
    /\ onlyRoleOrAdminRole(BYPASSER_ROLE, sender)
    /\ Cardinality(Bypassed) < MaxBypass
    /\ sent' = Append(sent, [kind |-> "bypassed", op |-> id, at |-> now, booked |-> NoBooking])
    /\ UNCHANGED <<roles, now, minDelay, timestamps, blockedFnSelectors,
                   blockedFnSelectorsLen, booking, blockedSince>>

\* Any other message goes to the AccessControl trait, whose data is written back.
roleMessage(sender, role, account) ==
    /\ \/ grantRole(sender, role, account)
       \/ revokeRole(sender, role, account)
       \/ renounceRole(sender, role, account)
    /\ UNCHANGED timelockVars

\* Time passes between transactions.
Tick ==
    /\ now < MaxTime
    /\ now' = now + 1
    /\ UNCHANGED <<roles, minDelay, timestamps, blockedFnSelectors, blockedFnSelectorsLen,
                   sent, booking, blockedSince>>

-----------------------------------------------------------------------------

Init ==
    /\ AccessControlInit
    /\ now = StartTime
    /\ minDelay \in Delays
    /\ timestamps = [id \in Op |-> 0]
    /\ blockedFnSelectors = {}
    /\ blockedFnSelectorsLen = 0
    /\ sent = << >>
    /\ booking = [id \in Op |-> NoBooking]
    /\ blockedSince = [selector \in Selector |-> 0]

Next ==
    \/ Tick
    \/ \E sender \in Account :
          \/ \E delay \in Delays, admin \in Account : init(sender, delay, admin)
          \/ \E id \in Op, delay \in Delays : scheduleBatch(sender, id, delay)
          \/ \E id \in Op : cancel(sender, id)
          \/ \E id \in Op : executeBatch(sender, id)
          \/ \E id \in Op : bypasserExecuteBatch(sender, id)
          \/ \E delay \in Delays : updateDelay(sender, delay)
          \/ \E selector \in Selector : blockFunctionSelector(sender, selector)
          \/ \E selector \in Selector : unblockFunctionSelector(sender, selector)
          \/ \E change \in RoleChanges : roleMessage(sender, change[1], change[2])

Spec == Init /\ [][Next]_vars

-----------------------------------------------------------------------------
(* Properties. *)

Executed == {i \in DOMAIN sent : sent[i].kind = "executed"}

\* Type invariant of the storage (struct Timelock_Data) and the histories.
TypeOK ==
    /\ AccessControlTypeOK
    /\ now \in Nat /\ now > DONE_TIMESTAMP
    /\ minDelay \in Nat
    /\ timestamps \in [Op -> Nat]
    /\ blockedFnSelectors \subseteq Selector
    /\ blockedFnSelectorsLen \in Nat
    /\ sent \in Seq(Batch)
    /\ booking \in [Op -> Booking]
    /\ blockedSince \in [Selector -> Nat]

\* executeBatch sends the calls of an operation only when a scheduleBatch that
\* was not cancelled since booked it, the delay it was booked with has passed,
\* and that delay was at least the minimum delay in force when it was booked,
\* whatever updateDelay did in between.
ExecutedAsBooked ==
    \A i \in Executed :
        /\ sent[i].booked # NoBooking
        /\ sent[i].at >= sent[i].booked.at + sent[i].booked.delay
        /\ sent[i].booked.delay >= sent[i].booked.floor

\* An operation is executed through the timelock at most once: the id of a done
\* operation can never be scheduled, cancelled or executed again.
ExecutedOnce ==
    \A i, j \in Executed : sent[i].op = sent[j].op => i = j

\* The calls of an operation leave the timelock after those of its predecessor,
\* and so of every operation before it in the chain of predecessors.
PredecessorsFirst ==
    \A i \in Executed :
        Predecessor[sent[i].op] # NoPredecessor =>
            \E j \in Executed : j < i /\ sent[j].op = Predecessor[sent[i].op]

\* A pending operation carries a selector that is blocked now only when the
\* selector was blocked after the operation was booked, the one case the
\* documentation of blockFunctionSelector leaves open.
BlockedAfterBooking ==
    \A id \in Op :
        isOperationPending(id) =>
            \A selector \in Selectors[id] \cap blockedFnSelectors :
                blockedSince[selector] >= booking[id].at

\* The explicit counter of blocked selectors is their number, however often a
\* selector is blocked or unblocked again.
BlockedLenIsCardinality ==
    /\ IsFiniteSet(blockedFnSelectors)
    /\ blockedFnSelectorsLen = Cardinality(blockedFnSelectors)

\* Reading getBlockedFunctionSelectorAt at every index below the counter yields
\* every blocked selector once, and the getters First and Next follow the same
\* order.
BlockedSelectorsEnumerable ==
    LET last == blockedFnSelectorsLen - 1
        at(i) == getBlockedFunctionSelectorAt(i)
    IN  /\ {at(i) : i \in 0 .. last} = blockedFnSelectors
        /\ getBlockedFunctionSelectorFirst = at(0)
        /\ \A i \in 0 .. last : getBlockedFunctionSelectorNext(at(i)) = at(i + 1)

\* Members of roles and blocked selectors can be enumerated through the getters,
\* completely and in one order, after every sequence of repeated grants,
\* revocations, blockings and unblockings.
EveryEntryEnumerable == EnumerationsAgree /\ BlockedSelectorsEnumerable

\* Once an operation is done no message changes that.
DoneIsForever ==
    [][\A id \in Op : isOperationDone(id) => isOperationDone(id)']_vars

\* What the documentation of Timelock_Init says of a contract nobody holds a
\* role in yet: the account named admin is granted the admin role.
InitGrantsAdmin ==
    [][\A sender \in Account, delay \in Delays, admin \in Account :
          (\A role \in Role : roles[role].hasRole = {}) /\ init(sender, delay, admin)
              => admin \in roles'[ADMIN_ROLE].hasRole]_vars

-----------------------------------------------------------------------------
(* The lifecycle of operations that the timelock implements. *)

phaseOf ==
    [id \in Op |-> IF isOperationDone(id) THEN "released"
                   ELSE IF isOperationPending(id) THEN "announced" ELSE "unset"]

dueOf == [id \in Op |-> IF isOperationPending(id) THEN timestamps[id] ELSE 0]

Lifecycle ==
    INSTANCE TimelockLifecycle
        WITH FirstTime <- StartTime, clock <- now, phase <- phaseOf, due <- dueOf

\* The timelock implements the lifecycle: seen through the state its getters
\* report, every operation goes from unset to pending, from pending back to
\* unset (cancel) or, once its timestamp has passed, to done, and stays there.
LifecycleSpec == Lifecycle!Spec

=============================================================================
