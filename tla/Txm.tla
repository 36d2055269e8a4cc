-------------------------------- MODULE Txm --------------------------------
(***************************************************************************)
(* The transaction manager of pkg/txm: the broadcast channel callers fill, *)
(* the loop that sends its transactions with retries, the store of what    *)
(* was sent, and the loop that finalizes it.                               *)
(*                                                                         *)
(* The chain is external.  The transactions of the client's wallet are     *)
(* executed in a sequence, whose positions are their logical times, and    *)
(* the trace of each settles some time later.  A send that reports an      *)
(* error may have been executed all the same.                              *)
(***************************************************************************)
EXTENDS Integers, FiniteSets, Sequences, Functions

CONSTANTS
    Request,                    \* what callers enqueue, each once
    BroadcastChanSize,
    MaxSendRetryAttempts

\* With no attempt at all broadcastWithRetry would dereference a nil message.
ASSUME AttemptAssumption == MaxSendRetryAttempts \in Nat \ {0}
ASSUME ChanAssumption == BroadcastChanSize \in Nat

VARIABLES
    BroadcastChan,
    broadcaster,                \* the broadcast loop: where it is, its transaction and attempt
    confirmer,                  \* the confirm loop: where it is, the rest of its snapshot
    Stop,                       \* the channel is closed
    unconfirmedTxs,             \* set of [LT, Tx]
    finalizedTxs,               \* set of [LT, Tx, TraceSucceeded]
    walletTxs,                  \* chain: the transactions of the wallet
    traces,                     \* chain: how far the trace of each is
    enqueued, dropped           \* history: requests accepted; given up with an error logged

store == <<unconfirmedTxs, finalizedTxs>>
chain == <<walletTxs, traces>>
txmVars == <<BroadcastChan, broadcaster, confirmer, Stop, store, chain, enqueued, dropped>>

-----------------------------------------------------------------------------
\* Enqueue fails, and changes nothing, when the channel is full.
Enqueue(request) ==
    /\ request \notin Range(enqueued)
    /\ Len(BroadcastChan) < BroadcastChanSize
    /\ BroadcastChan' = Append(BroadcastChan, request)
    /\ enqueued' = Append(enqueued, request)
    /\ UNCHANGED <<broadcaster, confirmer, Stop, store, chain, dropped>>

Close ==
    /\ ~Stop
    /\ Stop' = TRUE
    /\ UNCHANGED <<BroadcastChan, broadcaster, confirmer, store, chain, enqueued, dropped>>

-----------------------------------------------------------------------------
(* The broadcast loop.  Its select takes either branch when both are ready. *)

Selecting == [at |-> "select"]
Drop(tx) == dropped' = dropped \cup {tx} /\ broadcaster' = Selecting

\* A StateInit that does not load is an error.
ReceiveTx ==
    /\ broadcaster = Selecting
    /\ BroadcastChan # << >>
    /\ BroadcastChan' = Tail(BroadcastChan)
    /\ LET tx == Head(BroadcastChan)
       IN  IF tx.loads
           THEN broadcaster' = [at |-> "send", tx |-> tx, attempt |-> 1] /\ UNCHANGED dropped
           ELSE Drop(tx)
    /\ UNCHANGED <<confirmer, Stop, store, chain, enqueued>>

\* The chain executes what the client sent, always from the client's wallet:
\* the FromWallet of a request is not looked at.
Executes(tx) ==
    /\ walletTxs' = Append(walletTxs, tx)
    /\ traces' = Append(traces, "open")

UnconfirmedTx(lt, tx) == [LT |-> lt, Tx |-> tx]

FinalizedTx(u, success) == [LT |-> u.LT, Tx |-> u.Tx, TraceSucceeded |-> success]

MutRecordsPrevious(lt, tx) ==
    unconfirmedTxs' = unconfirmedTxs \cup {UnconfirmedTx(IF lt > 1 THEN lt - 1 ELSE lt, tx)}

\* The logical time is new: it is in neither map.
AddUnconfirmed(lt, tx) ==
    /\ \A u \in unconfirmedTxs \cup finalizedTxs : u.LT # lt
    /\ unconfirmedTxs' = unconfirmedTxs \cup {UnconfirmedTx(lt, tx)}

SendSucceeds ==
    /\ broadcaster.at = "send"
    /\ Executes(broadcaster.tx)
    /\ AddUnconfirmed(Len(walletTxs'), broadcaster.tx)
    /\ broadcaster' = Selecting
    /\ UNCHANGED <<BroadcastChan, confirmer, Stop, finalizedTxs, enqueued, dropped>>

SendFails ==
    /\ broadcaster.at = "send"
    /\ broadcaster' = [broadcaster EXCEPT !.at = "delay"]
    /\ Executes(broadcaster.tx) \/ UNCHANGED chain
    /\ UNCHANGED <<BroadcastChan, confirmer, Stop, store, enqueued, dropped>>

MutRequeues ==
    /\ broadcaster.at = "delay"
    /\ BroadcastChan' = Append(BroadcastChan, broadcaster.tx)
    /\ broadcaster' = Selecting
    /\ UNCHANGED <<confirmer, Stop, store, chain, enqueued, dropped>>

MutRetriesForever ==
    /\ broadcaster.at = "delay"
    /\ broadcaster' = [broadcaster EXCEPT !.at = "send"]
    /\ UNCHANGED <<BroadcastChan, confirmer, Stop, store, chain, enqueued, dropped>>

\* SendRetryDelay is over.
RetryDelay ==
    /\ broadcaster.at = "delay"
    /\ IF broadcaster.attempt < MaxSendRetryAttempts
       THEN broadcaster' = [broadcaster EXCEPT !.at = "send", !.attempt = @ + 1] /\ UNCHANGED dropped
       ELSE Drop(broadcaster.tx)
    /\ UNCHANGED <<BroadcastChan, confirmer, Stop, store, chain, enqueued>>

AbortDelay ==
    /\ broadcaster.at = "delay" /\ Stop
    /\ Drop(broadcaster.tx)
    /\ UNCHANGED <<BroadcastChan, confirmer, Stop, store, chain, enqueued>>

MutStopConsumed ==
    /\ broadcaster = Selecting /\ Stop
    /\ broadcaster' = [at |-> "stopped"]
    /\ Stop' = FALSE
    /\ UNCHANGED <<BroadcastChan, confirmer, store, chain, enqueued, dropped>>

BroadcastStops ==
    /\ broadcaster = Selecting /\ Stop
    /\ broadcaster' = [at |-> "stopped"]
    /\ UNCHANGED <<BroadcastChan, confirmer, Stop, store, chain, enqueued, dropped>>

-----------------------------------------------------------------------------
(* The confirm loop. *)

\* The transactions of one wallet are in different blocks, so their
\* expirations are in the order of their logical times.
GetUnconfirmed ==
    LET lts == {u.LT : u \in unconfirmedTxs}
    IN  CHOOSE seq \in Bijection(1 .. Cardinality(lts), lts) : \A i, j \in DOMAIN seq : i < j => seq[i] < seq[j]

ConfirmTick ==
    /\ confirmer.at = "select"
    /\ unconfirmedTxs # {}
    /\ confirmer' = [at |-> "check", left |-> GetUnconfirmed]
    /\ UNCHANGED <<BroadcastChan, broadcaster, Stop, store, chain, enqueued, dropped>>

MarkFinalized(lt, success) ==
    \E u \in unconfirmedTxs :
        /\ u.LT = lt
        /\ unconfirmedTxs' = unconfirmedTxs \ {u}
        /\ finalizedTxs' = finalizedTxs \cup {FinalizedTx(u, success)}

MutFinalizesOpen ==
    /\ confirmer.at = "check" /\ confirmer.left # << >>
    /\ MarkFinalized(Head(confirmer.left), traces[Head(confirmer.left)] = "succeeded")
    /\ confirmer' = [confirmer EXCEPT !.left = Tail(@)]
    /\ UNCHANGED <<BroadcastChan, broadcaster, Stop, chain, enqueued, dropped>>

\* WaitForTrace blocks the loop until the trace has settled.
Confirm ==
    /\ confirmer.at = "check" /\ confirmer.left # << >>
    /\ traces[Head(confirmer.left)] # "open"
    /\ MarkFinalized(Head(confirmer.left), traces[Head(confirmer.left)] = "succeeded")
    /\ confirmer' = [confirmer EXCEPT !.left = Tail(@)]
    /\ UNCHANGED <<BroadcastChan, broadcaster, Stop, chain, enqueued, dropped>>

\* WaitForTrace fails; the transaction waits for the next tick.
ConfirmFails ==
    /\ confirmer.at = "check" /\ confirmer.left # << >>
    /\ confirmer' = [confirmer EXCEPT !.left = Tail(@)]
    /\ UNCHANGED <<BroadcastChan, broadcaster, Stop, store, chain, enqueued, dropped>>

ConfirmDone ==
    /\ confirmer.at = "check" /\ confirmer.left = << >>
    /\ confirmer' = [at |-> "select", left |-> << >>]
    /\ UNCHANGED <<BroadcastChan, broadcaster, Stop, store, chain, enqueued, dropped>>

ConfirmStops ==
    /\ confirmer.at = "select" /\ Stop
    /\ confirmer' = [at |-> "stopped", left |-> << >>]
    /\ UNCHANGED <<BroadcastChan, broadcaster, Stop, store, chain, enqueued, dropped>>

-----------------------------------------------------------------------------
(* What callers ask. *)

\* A transaction that is in both maps counts as not finalized.
GetTxState(lt) ==
    IF \E u \in unconfirmedTxs : u.LT = lt THEN "Cascading"
    ELSE IF \E f \in finalizedTxs : f.LT = lt THEN "Finalized" ELSE "NotFound"

GetTransactionStatus(lt) ==
    CASE GetTxState(lt) = "Cascading" -> "Pending"
      [] GetTxState(lt) = "Finalized" ->
             IF \E f \in finalizedTxs : f.LT = lt /\ f.TraceSucceeded THEN "Finalized" ELSE "Failed"
      [] GetTxState(lt) = "NotFound" -> "Unknown"

GetTotalInflightCount == Cardinality(unconfirmedTxs)

\* Transactions waiting to be broadcast, and waiting to be finalized.  The one
\* being broadcast is in neither number.
InflightCount == <<Len(BroadcastChan), GetTotalInflightCount>>

-----------------------------------------------------------------------------
\* The messages a transaction caused have all been received.
TraceSettles(lt) ==
    /\ lt \in DOMAIN traces
    /\ traces[lt] = "open"
    /\ \E outcome \in {"succeeded", "failed"} : traces' = [traces EXCEPT ![lt] = outcome]
    /\ UNCHANGED <<BroadcastChan, broadcaster, confirmer, Stop, store, walletTxs, enqueued, dropped>>

\* The store of the one account the manager sends from.
NewTxStore == unconfirmedTxs = {} /\ finalizedTxs = {}

TxmInit ==
    /\ BroadcastChan = << >>
    /\ broadcaster = Selecting
    /\ confirmer = [at |-> "select", left |-> << >>]
    /\ Stop = FALSE
    /\ NewTxStore
    /\ walletTxs = << >> /\ traces = << >>
    /\ enqueued = << >> /\ dropped = {}

broadcastLoop ==
    ReceiveTx \/ SendSucceeds \/ SendFails \/ RetryDelay \/ AbortDelay \/ BroadcastStops

confirmLoop == ConfirmTick \/ Confirm \/ ConfirmFails \/ ConfirmDone \/ ConfirmStops

TxmNext ==
    \/ \E request \in Request : Enqueue(request)
    \/ Close
    \/ broadcastLoop
    \/ confirmLoop
    \/ \E lt \in DOMAIN traces : TraceSettles(lt)

TxmSpec == TxmInit /\ [][TxmNext]_txmVars

\* Go schedules both goroutines; select picks among its ready branches at
\* random, so a branch ready again and again is taken.  WaitForTrace need not
\* fail while the trace is open, but its errors pass, so a settled trace is not
\* missed forever.
LoopFairness ==
    /\ WF_txmVars(broadcastLoop)
    /\ WF_txmVars(ConfirmTick \/ Confirm \/ ConfirmDone \/ ConfirmStops)
    /\ SF_txmVars(ConfirmStops)
    /\ SF_txmVars(Confirm)

Settling == \A lt \in 1 .. MaxSendRetryAttempts * Cardinality(Request) : WF_txmVars(TraceSettles(lt))

TxmFairSpec == TxmSpec /\ LoopFairness /\ Settling

-----------------------------------------------------------------------------
(* Properties. *)

Recorded == {[LT |-> r.LT, Tx |-> r.Tx] : r \in unconfirmedTxs \cup finalizedTxs}

\* What is recorded at a logical time is the request the chain executed then,
\* each request once, however many of its sends were executed, and in one of
\* the two maps only.
RecordedIsExecuted ==
    /\ \A u \in unconfirmedTxs, f \in finalizedTxs : u.LT # f.LT
    /\ \A r \in Recorded : r.LT \in DOMAIN walletTxs /\ walletTxs[r.LT] = r.Tx
    /\ \A r1, r2 \in Recorded : r1.Tx = r2.Tx => r1 = r2

\* Recorded transactions are executed in the order their requests were
\* accepted, retries and late errors notwithstanding.
RecordedInOrder ==
    \A r1, r2 \in Recorded : r1.LT < r2.LT =>
        \E i, j \in DOMAIN enqueued : i < j /\ enqueued[i] = r1.Tx /\ enqueued[j] = r2.Tx

\* The status reported for a finalized transaction is that of its trace.
StatusIsTrue ==
    \A lt \in DOMAIN walletTxs :
        /\ GetTransactionStatus(lt) = "Finalized" => traces[lt] = "succeeded"
        /\ GetTransactionStatus(lt) = "Failed" => traces[lt] = "failed"

Resolved(request) == request \in dropped \/ \E f \in finalizedTxs : f.Tx = request

\* Every accepted request is eventually finalized or given up with an error,
\* unless the manager is closed, and nothing stays in InflightCount.
EventuallyResolved ==
    /\ \A request \in Request : request \in Range(enqueued) ~> (Resolved(request) \/ Stop)
    /\ []<>(InflightCount = <<0, 0>> \/ Stop)

\* Close returns: both loops stop, wherever Close finds them.
CloseReturns == Stop ~> (broadcaster.at = "stopped" /\ confirmer.at = "stopped")

=============================================================================
