--------------------------- MODULE TraceTracking ---------------------------
(***************************************************************************)
(* Trace tracking (pkg/ton/tracetracking): WaitForTrace follows the        *)
(* messages a transaction caused, through the accounts that receive them,  *)
(* by matching what was sent with the transactions of its destination.     *)
(*                                                                         *)
(* The chain is external.  Accounts execute the internal messages sent to  *)
(* them, each with a transaction of its own; a transaction's logical time  *)
(* is after its account's last and after its message's, and the messages   *)
(* it sends have the times that follow.  Times of different accounts may   *)
(* coincide, and messages of two senders travel in any order.              *)
(***************************************************************************)
EXTENDS Lists

CONSTANTS
    Account,
    Root,           \* the account of the tracked transaction
    Roots,          \* the accounts with a transaction of an external message: Root and
                    \* others, whose messages are traffic beside its own
    Dests,          \* the destinations of the messages a transaction may send, in order;
                    \* External is that of an event
    ExitCodes,      \* of a compute phase; 0 is success
    External,       \* the other end of an external message
    Skipped,        \* the compute phase did not run, as in an account without code
    MAX_MESSAGES,   \* bound: internal messages on the chain
    MAX_READINGS    \* bound: readings of the fees

ASSUME RootAssumption == Roots \subseteq Account /\ Root \in Roots
ASSUME DestAssumption == Dests \subseteq Seq(Account \cup {External}) /\ External \notin Account
ASSUME CodeAssumption == ExitCodes \subseteq Nat /\ 0 \in ExitCodes /\ Skipped \notin ExitCodes

VARIABLES
    txs,            \* chain: [Account -> sequence of its transactions]
    pending,        \* chain: internal messages sent and not executed
    tree,           \* the received messages tracked; tree[1] is the root
    queue,          \* WaitForTrace: positions in tree still to be looked at
    done            \* WaitForTrace has returned

ledger == <<txs, pending>>
vars == <<ledger, tree, queue, done>>

-----------------------------------------------------------------------------
(* The chain. *)

Last(account) == Len(txs[account])

LastLT(account) == IF Last(account) = 0 THEN 0 ELSE txs[account][Last(account)].endLT

\* How many of the messages are internal.
Messages(dests) == Cardinality({i \in DOMAIN dests : dests[i] # External})

\* The messages that account sends in its n-th transaction, at lt.  The id of a
\* message, which transaction sent it and as which of its messages, is not on
\* the chain.
Outgoing(account, n, lt, dests) ==
    [i \in DOMAIN dests |->
        [SrcAddr |-> account, DstAddr |-> dests[i], CreatedLT |-> lt + i, id |-> <<account, n, i>>]]

\* The message of a root.
ExternalIn(account) ==
    [SrcAddr |-> External, DstAddr |-> account, CreatedLT |-> 0, id |-> <<account, 0, 0>>]

\* A transaction for message in with the messages out.
Transaction(lt, in, phase, aborted, out) ==
    [LT |-> lt, endLT |-> lt + Len(out), in |-> in, phase |-> phase, aborted |-> aborted, out |-> out]

IsInternal(msg) == msg.SrcAddr # External /\ msg.DstAddr # External

\* What a message carries and costs its sender, so that no two are alike.
Amount(msg) == 10 * msg.CreatedLT
FwdFee(msg) == 100 + msg.CreatedLT

\* The fees of a transaction by phase; one part of them is in no phase.
ImportFee(tx) == IF IsInternal(tx.in) THEN 0 ELSE 3
GasFee(tx) == IF tx.phase = Skipped THEN 0 ELSE 5
StorageFee == 1
ActionFees(tx) == IF tx.phase = 0 THEN 7 * Len(tx.out) ELSE 0
TotalFees(tx) == ImportFee(tx) + GasFee(tx) + StorageFee + ActionFees(tx) + 2

Internal(tx) == Joined([i \in DOMAIN tx.out |-> IF IsInternal(tx.out[i]) THEN <<tx.out[i]>> ELSE << >>])

SumOf(values) == Total(values)

ForwardFees(tx) == SumOf([i \in DOMAIN Internal(tx) |-> FwdFee(Internal(tx)[i])])

\* The account pays the forward fees of its internal messages beside them.
BalanceChange(tx) ==
    LET out == Internal(tx)
    IN  (IF IsInternal(tx.in) THEN Amount(tx.in) ELSE 0)
            - SumOf([i \in DOMAIN out |-> Amount(out[i])]) - ForwardFees(tx) - TotalFees(tx)

Executed == UNION {{txs[a][i].in : i \in DOMAIN txs[a]} : a \in Account}

\* How many internal messages there are.
Sent == Cardinality(pending \cup {msg \in Executed : IsInternal(msg)})

Later(lt1, lt2) == IF lt1 >= lt2 THEN lt1 ELSE lt2

\* Messages from one account to another arrive in order.  A transaction is
\* aborted if its compute phase fails or, that having succeeded, its action
\* phase does; it may then bounce its message and sends nothing else.
Execute(msg) ==
    /\ msg \in pending
    /\ \A other \in pending :
           other.SrcAddr = msg.SrcAddr /\ other.DstAddr = msg.DstAddr => msg.CreatedLT <= other.CreatedLT
    /\ \E phase \in ExitCodes \cup {Skipped}, aborted \in BOOLEAN :
       \E dests \in IF aborted THEN {<< >>, <<msg.SrcAddr>>} ELSE Dests :
           LET account == msg.DstAddr
               lt == Later(LastLT(account), msg.CreatedLT) + 1
               tx == Transaction(lt, msg, phase, aborted, Outgoing(account, Last(account) + 1, lt, dests))
           IN  /\ phase # 0 => aborted
               /\ Sent + Messages(dests) <= MAX_MESSAGES
               /\ txs' = [txs EXCEPT ![account] = Append(@, tx)]
               /\ pending' = (pending \ {msg}) \cup Range(Internal(tx))
    /\ UNCHANGED <<tree, queue, done>>

-----------------------------------------------------------------------------
(* The tracker. *)

NewSentMessage(msg) == [InternalMsg |-> msg, Amount |-> Amount(msg), FwdFee |-> FwdFee(msg)]

\* Events are kept apart.
mapOutgoingMessages(tx) ==
    LET out == Internal(tx)
    IN  [i \in DOMAIN out |-> NewSentMessage(out[i])]

\* Without a compute phase the defaults stay: no success, exit code 0, no gas.
\* What is left of the total fees after those of the phases is the magic fee.
\* The readings, how often the fees were read, are not in the code.
ReceivedMessage(tx, lamportTime) ==
    [tx |-> tx, LamportTime |-> lamportTime, Success |-> tx.phase = 0,
     ExitCode |-> IF tx.phase = Skipped THEN 0 ELSE tx.phase,
     Amount |-> IF IsInternal(tx.in) THEN Amount(tx.in) ELSE 0,
     FwdFee |-> IF IsInternal(tx.in) THEN FwdFee(tx.in) ELSE 0,
     ImportFee |-> ImportFee(tx), GasFee |-> GasFee(tx), StorageFeeCharged |-> StorageFee,
     TotalActionFees |-> ActionFees(tx),
     MagicFee |-> TotalFees(tx) - ImportFee(tx) - GasFee(tx) - StorageFee - ActionFees(tx),
     sent |-> mapOutgoingMessages(tx), received |-> << >>, readings |-> 0]

MutLamportOfLast(tx) == ReceivedMessage(tx, tx.endLT)

MapToReceivedMessage(tx) == ReceivedMessage(tx, tx.LT)

Status(message) ==
    IF message.sent = << >> THEN "Finalized"
    ELSE IF message.received # << >> THEN "Cascading" ELSE "Received"

MutIgnoresTime(sent, incoming) ==
    incoming.SrcAddr = sent.SrcAddr /\ incoming.DstAddr = sent.DstAddr

MatchesReceived(sent, incoming) ==
    /\ incoming.SrcAddr = sent.SrcAddr
    /\ incoming.DstAddr = sent.DstAddr
    /\ incoming.CreatedLT = sent.CreatedLT

\* Only transactions of internal messages are looked at.
IsReceivedBy(sentMessage, tx) == IsInternal(tx.in) /\ MatchesReceived(sentMessage.InternalMsg, tx.in)

\* The transactions of an account after a logical time, past and to come, by
\* their places in it.
SubscribeToTransactions(account, lt) == {i \in DOMAIN txs[account] : txs[account][i].LT > lt}

\* The first message sent is now the last one received.
Received(n, child) ==
    LET parent == [tree[n] EXCEPT !.sent = Tail(@), !.received = Append(@, Len(tree) + 1)]
    IN  Append([tree EXCEPT ![n] = parent], child)

\* One round of WaitForOutgoingMessagesToBeReceived: it reads the subscription
\* until a transaction matches.
WaitForOutgoingMessage ==
    /\ ~done /\ queue # << >>
    /\ LET n == Head(queue)
           sentMessage == Head(tree[n].sent)
           account == sentMessage.InternalMsg.DstAddr
           transactions == SubscribeToTransactions(account, tree[n].LamportTime)
           matching == {i \in transactions : IsReceivedBy(sentMessage, txs[account][i])}
       IN  /\ Status(tree[n]) # "Finalized"
           /\ \E i \in matching :
                  /\ \A j \in matching : i <= j
                  /\ tree' = Received(n, MapToReceivedMessage(txs[account][i]))
    /\ UNCHANGED <<ledger, queue, done>>

Cascaded(n) == Tail(queue) \o tree[n].received

\* All messages of one transaction are received; those they caused are next.
Cascade ==
    /\ ~done /\ queue # << >>
    /\ Status(tree[Head(queue)]) = "Finalized"
    /\ queue' = Cascaded(Head(queue))
    /\ UNCHANGED <<ledger, tree, done>>

Return ==
    /\ ~done /\ queue = << >>
    /\ done' = TRUE
    /\ UNCHANGED <<ledger, tree, queue>>

-----------------------------------------------------------------------------
(* The amounts and the fees of a message. *)

MutReceivedNotPaid(n) == SumOf([i \in DOMAIN tree[n].sent |-> tree[n].sent[i].Amount])

OutgoingAmount(n) ==
    SumOf([i \in DOMAIN tree[n].sent |-> tree[n].sent[i].Amount])
        + SumOf([i \in DOMAIN tree[n].received |-> tree[tree[n].received[i]].Amount])

NetCreditResult(n) == tree[n].Amount - OutgoingAmount(n)

TotalActionPhaseFees(n) ==
    tree[n].TotalActionFees
        + SumOf([i \in DOMAIN tree[n].sent |-> tree[n].sent[i].FwdFee])
        + SumOf([i \in DOMAIN tree[n].received |-> tree[tree[n].received[i]].FwdFee])

TotalTransactionExecutionFee(n) ==
    tree[n].ImportFee + tree[n].GasFee + TotalActionPhaseFees(n) + tree[n].MagicFee

Readings == SumOf([n \in DOMAIN tree |-> tree[n].readings])

\* A caller of WaitForTrace reads the fees before the call or after it.  The
\* total of the action phase is summed up in the message itself, so that each
\* reading adds the forward fees to what the next one starts from.
ReadFees(n) ==
    /\ done \/ Len(tree) = 1
    /\ Readings < MAX_READINGS
    /\ tree' = [tree EXCEPT ![n].TotalActionFees = TotalActionPhaseFees(n), ![n].readings = @ + 1]
    /\ UNCHANGED <<ledger, queue, done>>

-----------------------------------------------------------------------------
\* SendWaitTransaction has returned the transaction of Root.
Init ==
    /\ \E dests \in [Roots -> Dests] :
           LET root(a) == Transaction(1, ExternalIn(a), 0, FALSE, Outgoing(a, 1, 1, dests[a]))
               message == MapToReceivedMessage(root(Root))
           IN  /\ txs = [a \in Account |-> IF a \in Roots THEN <<root(a)>> ELSE << >>]
               /\ pending = UNION {Range(Internal(root(a))) : a \in Roots}
               /\ Sent <= MAX_MESSAGES
               /\ tree = <<message>>
               /\ queue = IF Status(message) = "Finalized" THEN << >> ELSE <<1>>
    /\ done = FALSE

WaitForTrace == WaitForOutgoingMessage \/ Cascade \/ Return

Next ==
    \/ \E msg \in pending : Execute(msg)
    \/ WaitForTrace
    \/ \E n \in DOMAIN tree : ReadFees(n)

Spec == Init /\ [][Next]_vars

\* The chain executes every message, and the tracker's goroutine runs.
FairSpec ==
    /\ Spec
    /\ WF_vars(\E msg \in pending : Execute(msg))
    /\ WF_vars(WaitForTrace)

-----------------------------------------------------------------------------
(* What the tracker reports. *)

MutRootOnly(n) == tree[n].Success /\ \A k \in DOMAIN tree[n].received : tree[tree[n].received[k]].Success

TraceSucceeded(n) ==
    LET succeeded[m \in DOMAIN tree] ==
            tree[m].Success /\ \A k \in DOMAIN tree[m].received : succeeded[tree[m].received[k]]
    IN  succeeded[n]

FirstFailure(walk) ==
    LET failed == {i \in DOMAIN walk : ~tree[walk[i]].Success}
    IN  IF failed = {} THEN 0 ELSE tree[walk[CHOOSE i \in failed : \A j \in failed : i <= j]].ExitCode

\* A depth-first walk that returns at the first message without success.
OutcomeExitCode(n) ==
    LET preorder[m \in DOMAIN tree] ==
            <<m>> \o Joined([k \in DOMAIN tree[m].received |-> preorder[tree[m].received[k]]])
    IN  FirstFailure(preorder[n])

-----------------------------------------------------------------------------
(* Properties. *)

\* Each message is matched with the transaction that executed it and with no
\* other, although other traffic reaches the same accounts at the same times.
MatchedIsOwn ==
    \A n \in DOMAIN tree : \A k \in DOMAIN tree[n].received :
        tree[tree[n].received[k]].tx.in = Internal(tree[n].tx)[k]

Tracked == {tree[n].tx : n \in DOMAIN tree}

\* When WaitForTrace returns, every message caused by the root, at any depth,
\* has been executed and is tracked once.
TraceComplete ==
    done =>
        /\ \A tx \in Tracked : \A msg \in Range(Internal(tx)) : \E other \in Tracked : other.in = msg
        /\ Cardinality(Tracked) = Len(tree)

\* The tree of the tracker is the tree of the messages the root caused.
TraceIsExact == MatchedIsOwn /\ TraceComplete

\* TraceSucceeded reports a failure exactly if a transaction of the trace was
\* aborted before its action phase.  OutcomeExitCode is then the code of such a
\* transaction, zero only if one whose compute phase was skipped is among them,
\* and otherwise zero.
OutcomeIsTrue ==
    LET failed == {tx \in Tracked : tx.aborted /\ tx.phase # 0}
    IN  done =>
            /\ TraceSucceeded(1) <=> failed = {}
            /\ OutcomeExitCode(1) # 0 => \E tx \in failed : tx.phase = OutcomeExitCode(1)
            /\ OutcomeExitCode(1) = 0 => failed = {} \/ \E tx \in failed : tx.phase = Skipped

\* The trace is reported to have succeeded exactly if no transaction of it was
\* aborted, as the comments on Success and on isSucceeded say.
SucceededIsExecuted == done => (TraceSucceeded(1) <=> \A tx \in Tracked : ~tx.aborted)

\* The credit and the fees of a message, read for the first time, explain what
\* its transaction did to the balance of the account, as the tests of the
\* tracker require, whether its messages are still on their way or received.
\* Read again, they explain it but for the forward fees, which each reading
\* before has added once more.
FeesExplainBalance ==
    \A n \in DOMAIN tree :
        NetCreditResult(n) - tree[n].StorageFeeCharged - TotalTransactionExecutionFee(n)
            = BalanceChange(tree[n].tx) - tree[n].readings * ForwardFees(tree[n].tx)

\* WaitForTrace returns, whatever was executed before it subscribed.
TraceReturns == <>done

=============================================================================
