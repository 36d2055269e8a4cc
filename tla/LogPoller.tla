---------------------------- MODULE LogPoller ----------------------------
(***************************************************************************)
(* The TON log poller (pkg/logpoller): the filter registry, the polling    *)
(* iteration with its collector goroutines, and the in-memory log store.   *)
(*                                                                         *)
(* A polling iteration is several steps, because registrations and the     *)
(* chain go on beside it: `run` reads the head and the addresses, one      *)
(* goroutine per address fetches that address's messages, the messages are *)
(* processed one by one, and the iteration ends by saving the block it     *)
(* scanned to.  The chain is external: blocks carry transactions of the    *)
(* watched accounts, and the logical time of a transaction is its place in *)
(* its account's history.                                                  *)
(***************************************************************************)
EXTENDS Lists

CONSTANTS
    Filter,      \* the filters callers register: [Name, Address, EventTopic]
    Address,     \* accounts whose transactions the chain carries
    Byte,        \* what an external address is made of
    Outs,        \* the external messages a transaction may have: their addresses
    PageSize,    \* transactions per ListTransactions call
    Faults,      \* the lite client calls that may fail, see FaultAssumption
    MAX_SEQNO,   \* bound: masterchain blocks
    MAX_TXS,     \* bound: transactions per account
    MAX_LOGS     \* bound: logs in the store when an iteration starts

ASSUME PageAssumption == PageSize \in Nat \ {0}
ASSUME OutAssumption == Outs \subseteq Seq(Seq(Byte))

\* GetAccount at the start of a range, at its end, and ListTransactions.
ASSUME FaultAssumption == Faults \subseteq {"prev", "to", "list"}

\* The name of a filter stands for its ID.
ASSUME FilterAssumption ==
    Filter \subseteq [Name : {flt.Name : flt \in Filter}, Address : Address, EventTopic : Seq(Byte)]

VARIABLES
    head,                 \* SeqNo of the newest masterchain block
    txs,                  \* per account, its transactions: the block and the messages
    filtersByName,        \* the registered filters
    filtersByAddress,     \* the watched (address, topic) pairs
    lastProcessedSeqNo,
    logs,                 \* the in-memory store
    iteration,            \* the running iteration
    since                 \* history: the block each name was registered at

chain == <<head, txs>>
filters == <<filtersByName, filtersByAddress, since>>
vars == <<chain, filters, lastProcessedSeqNo, logs, iteration>>

Name == {flt.Name : flt \in Filter}
EventTopicLength == 4
Idle == [at |-> "idle"]

(***************************************************************************)
(* The chain.                                                              *)
(***************************************************************************)
\* The next masterchain block; each account may have a transaction in it.
NewBlock ==
    /\ head < MAX_SEQNO
    /\ head' = head + 1
    /\ \E active \in SUBSET {a \in Address : Len(txs[a]) < MAX_TXS} :
       \E out \in [active -> Outs] :
          txs' = [a \in Address |->
                    IF a \in active THEN Append(txs[a], [SeqNo |-> head + 1, Out |-> out[a]]) ELSE txs[a]]
    /\ UNCHANGED <<filters, lastProcessedSeqNo, logs, iteration>>

\* GetAccount(block, addr).LastTxLT: zero when the account does not exist.
LastTxLT(addr, seqNo) ==
    Cardinality({lt \in DOMAIN txs[addr] : txs[addr][lt].SeqNo <= seqNo})

(***************************************************************************)
(* The filter registry.                                                    *)
(***************************************************************************)
\* The block from which a filter registered now is served: an iteration that
\* has already read its addresses may not scan for it.
Frontier == IF iteration.at = "idle" THEN lastProcessedSeqNo ELSE iteration.toBlock

\* The pair of a filter replaced under its name stays watched.
RegisterFilter(flt) ==
    /\ filtersByName' = {f \in filtersByName : f.Name # flt.Name} \union {flt}
    /\ filtersByAddress' = filtersByAddress \union {<<flt.Address, flt.EventTopic>>}
    /\ since' = [since EXCEPT ![flt.Name] = IF flt \in filtersByName THEN @ ELSE Frontier]
    /\ UNCHANGED <<chain, lastProcessedSeqNo, logs, iteration>>

MutForgetsAddress(flt) ==
    /\ flt \in filtersByName
    /\ filtersByName' = filtersByName \ {flt}
    /\ filtersByAddress' = {p \in filtersByAddress : p[1] # flt.Address}
    /\ since' = [since EXCEPT ![flt.Name] = 0]
    /\ UNCHANGED <<chain, lastProcessedSeqNo, logs, iteration>>

UnregisterFilter(flt) ==
    /\ flt \in filtersByName
    /\ filtersByName' = filtersByName \ {flt}
    /\ filtersByAddress' = filtersByAddress \ {<<flt.Address, flt.EventTopic>>}
    /\ since' = [since EXCEPT ![flt.Name] = 0]
    /\ UNCHANGED <<chain, lastProcessedSeqNo, logs, iteration>>

GetDistinctAddresses == {p[1] : p \in filtersByAddress}

MatchingFilters(contractAddr, topic) ==
    {flt \in filtersByName :
        /\ <<contractAddr, topic>> \in filtersByAddress
        /\ flt.Address = contractAddr
        /\ flt.EventTopic = topic}

(***************************************************************************)
(* The collector.                                                          *)
(***************************************************************************)
\* The external messages of one transaction, in order, with their context.
MessagesOf(addr, lt) ==
    [i \in DOMAIN txs[addr][lt].Out |->
        [Src |-> addr, LT |-> lt, Index |-> i, Dst |-> txs[addr][lt].Out[i]]]

MutWholePage(addr, startLT, oldest, newest) ==
    Joined([i \in 1 .. newest - oldest + 1 |-> MessagesOf(addr, oldest + i - 1)])

\* The messages of a page: of its transactions after startLT, oldest first.
Page(addr, startLT, oldest, newest) ==
    Joined([i \in 1 .. newest - startLT |->
        IF startLT + i < oldest THEN << >> ELSE MessagesOf(addr, startLT + i)])

Oldest(curLT) == IF curLT > PageSize THEN curLT - PageSize + 1 ELSE 1

\* The page loop of fetchMessagesForAddress, newest page first: it ends at a
\* page that reaches startLT, or at the start of the history.
Pages(addr, startLT, endLT) ==
    LET pages[curLT \in 0 .. endLT] ==
            IF curLT = 0 THEN << >>
            ELSE <<Page(addr, startLT, Oldest(curLT), curLT)>>
                 \o (IF Oldest(curLT) <= startLT THEN << >> ELSE pages[Oldest(curLT) - 1])
    IN  IF startLT >= endLT THEN << >> ELSE pages[endLT]

MutErrorSkips(addr, prevBlock) ==
    {LastTxLT(addr, prevBlock)} \union {LastTxLT(addr, iteration.toBlock) : fault \in Faults \intersect {"prev"}}

\* An error of GetAccount at prevBlock is taken for an account that did not
\* exist then.
StartLT(addr, prevBlock) ==
    {LastTxLT(addr, prevBlock)} \union {0 : fault \in Faults \intersect {"prev"}}

\* An error of ListTransactions comes with no transactions, and ends the loop
\* like the start of the history: the pages read so far are all there is.
Fetched(addr, startLT) ==
    LET pages == Pages(addr, startLT, LastTxLT(addr, iteration.toBlock))
    IN  {pages} \union {SubSeq(pages, 1, n) : n \in {n \in 0 .. Len(pages) : "list" \in Faults}}

\* The goroutine of one address: its messages are appended to those of the
\* others.  Its error, of GetAccount at toBlock, is only logged.
fetchMessagesForAddress(addr) ==
    /\ iteration.at = "fetch"
    /\ addr \in iteration.addresses
    /\ \E startLT \in StartLT(addr, iteration.prevBlock) :
       \E pages \in Fetched(addr, startLT) \union {<< >> : fault \in Faults \intersect {"to"}} :
          iteration' = [iteration EXCEPT !.addresses = @ \ {addr}, !.msgs = @ \o Joined(pages)]
    /\ UNCHANGED <<chain, filters, lastProcessedSeqNo, logs>>

(***************************************************************************)
(* The polling iteration.                                                  *)
(***************************************************************************)
\* run, up to the start of the collectors.  The head is the answer of one lite
\* server, which may lag behind the chain.  prevBlock = 0 is the first run.
run(seen) ==
    /\ iteration.at = "idle" /\ Len(logs) <= MAX_LOGS
    /\ seen > lastProcessedSeqNo
    /\ GetDistinctAddresses # {}
    /\ iteration' = [at |-> "fetch", prevBlock |-> lastProcessedSeqNo, toBlock |-> seen,
                     addresses |-> GetDistinctAddresses, msgs |-> << >>]
    /\ UNCHANGED <<chain, filters, lastProcessedSeqNo, logs>>

\* wg.Wait returns when every goroutine is done.
BackfillForAddresses ==
    /\ iteration.at = "fetch"
    /\ iteration.addresses = {}
    /\ iteration' = [iteration EXCEPT !.at = "process"]
    /\ UNCHANGED <<chain, filters, lastProcessedSeqNo, logs>>

\* A destination address that is missing or too short has no topic.
HasEventTopic(dst) == Len(dst) >= EventTopicLength

\* The last bytes of the destination address, whatever comes before them.
DecodeEventTopic(dst) == SubSeq(dst, Len(dst) - EventTopicLength + 1, Len(dst))

\* One log per matching filter, in the order of a map iteration.
Saved(msg) ==
    LET topic == DecodeEventTopic(msg.Dst)
        log(flt) == [FilterID |-> flt.Name, Address |-> msg.Src, TxLT |-> msg.LT,
                     Index |-> msg.Index, Topic |-> topic]
        all == {log(flt) : flt \in MatchingFilters(msg.Src, topic)}
    IN  Bijection(1 .. Cardinality(all), all)

SaveLogs(saved) == logs' = logs \o saved

\* A message whose topic cannot be decoded ends the iteration with an error;
\* the logs of the messages before it stay.
Process ==
    /\ iteration.at = "process"
    /\ iteration.msgs # << >>
    /\ IF HasEventTopic(Head(iteration.msgs).Dst)
       THEN /\ \E saved \in Saved(Head(iteration.msgs)) : SaveLogs(saved)
            /\ iteration' = [iteration EXCEPT !.msgs = Tail(@)]
       ELSE iteration' = Idle /\ UNCHANGED logs
    /\ UNCHANGED <<chain, filters, lastProcessedSeqNo>>

MutSavesHead ==
    /\ iteration.at = "process"
    /\ iteration.msgs = << >>
    /\ lastProcessedSeqNo' = head
    /\ iteration' = Idle
    /\ UNCHANGED <<chain, filters, logs>>

\* The iteration ends well: the block it scanned to is saved.
Finish ==
    /\ iteration.at = "process"
    /\ iteration.msgs = << >>
    /\ lastProcessedSeqNo' = iteration.toBlock
    /\ iteration' = Idle
    /\ UNCHANGED <<chain, filters, logs>>

newFilters == filtersByName = {} /\ filtersByAddress = {}

NewInMemoryStore == logs = << >>

\* NewLogPoller before any block, and with no filter.
NewLogPoller ==
    /\ head = 0
    /\ txs = [a \in Address |-> << >>]
    /\ lastProcessedSeqNo = 0
    /\ NewInMemoryStore
    /\ iteration = Idle
    /\ since = [n \in Name |-> 0]

Init == NewLogPoller /\ newFilters

\* The steps of the ticker's goroutine and of the collectors it waits for.
Poll ==
    \/ \E seen \in 0 .. head : run(seen)
    \/ \E addr \in Address : fetchMessagesForAddress(addr)
    \/ BackfillForAddresses
    \/ Process
    \/ Finish

Next ==
    \/ NewBlock
    \/ \E flt \in Filter : RegisterFilter(flt) \/ UnregisterFilter(flt)
    \/ Poll

Spec == Init /\ [][Next]_vars

\* The ticker calls run again and again, lite client calls return, and a lite
\* server that lags catches up.
FairSpec == Spec /\ WF_vars(Poll)

-----------------------------------------------------------------------------
(* Properties. *)

IsLogged(flt, addr, lt, i) ==
    \E k \in DOMAIN logs : /\ logs[k].FilterID = flt.Name /\ logs[k].Address = addr
                           /\ logs[k].TxLT = lt /\ logs[k].Index = i

\* The filter is registered and covers a message of the chain.
Wanted(flt, lt, i) ==
    /\ flt \in filtersByName
    /\ lt \in DOMAIN txs[flt.Address]
    /\ txs[flt.Address][lt].SeqNo > since[flt.Name]
    /\ i \in DOMAIN txs[flt.Address][lt].Out
    /\ LET dst == txs[flt.Address][lt].Out[i]
       IN  HasEventTopic(dst) /\ DecodeEventTopic(dst) = flt.EventTopic

MessageIndex == UNION {DOMAIN out : out \in Outs}

\* A message keeps the iterations that read it from ending.
Undecodable ==
    \E addr \in Address, lt \in 1 .. MAX_TXS :
        lt \in DOMAIN txs[addr] /\ \E dst \in Range(txs[addr][lt].Out) : ~HasEventTopic(dst)

\* No message is stored twice for a filter: neither pages nor the ranges of
\* successive iterations overlap, whichever filters come and go and however
\* the lite server's head jumps.
NoDuplicates == \A j, k \in DOMAIN logs : logs[j] = logs[k] => j = k

\* Once a block counts as processed, every message of it that a registered
\* filter covers is in the store.
Complete ==
    \A flt \in filtersByName, lt \in 1 .. MAX_TXS, i \in MessageIndex :
        Wanted(flt, lt, i) /\ txs[flt.Address][lt].SeqNo <= lastProcessedSeqNo =>
            IsLogged(flt, flt.Address, lt, i)

\* Every message a registered filter covers is eventually in the store, or
\* the filter is replaced or unregistered first.
Delivered ==
    \A flt \in Filter, lt \in 1 .. MAX_TXS, i \in MessageIndex :
        Wanted(flt, lt, i) ~> (IsLogged(flt, flt.Address, lt, i) \/ ~Wanted(flt, lt, i))

=============================================================================
