--------------------------- MODULE LiveIngestion ----------------------------
(***************************************************************************)
(* Live ingestion of events, as log_poller_test.go composes it: an emitter *)
(* has a counter contract emit events, the log poller stores them, and     *)
(* a reader queries the store meanwhile.                                   *)
(***************************************************************************)
EXTENDS LogPoller, LogQuery, EventEmitter

CONSTANTS
    Counter,     \* the account of the counter contract
    CountIncreased,
    Limit        \* logs per page of a reader

VARIABLE reader

liveVars == <<vars, emitterVars, reader>>

NoReader == [at |-> "none"]

-----------------------------------------------------------------------------
(* The chain. *)

\* The external address an event is emitted to: the topic after a zero prefix.
ExtOutLogBucket(topic) == <<0>> \o topic

\* The contract increases its value, which is the number of its transactions.
IncreaseCount ==
    /\ inflight > 0 /\ head < MAX_SEQNO
    /\ head' = head + 1
    /\ txs' = [txs EXCEPT ![Counter] = Append(@, [SeqNo |-> head + 1, Out |-> <<ExtOutLogBucket(CountIncreased)>>])]
    /\ inflight' = inflight - 1
    /\ UNCHANGED <<filters, lastProcessedSeqNo, logs, iteration, reader>>
    /\ UNCHANGED <<loop, accepted, sentCounter, fails, unnoticed, stop>>

\* Another watched account sends one message without an address to read a
\* topic from.
OtherTransaction ==
    /\ head < MAX_SEQNO
    /\ \E account \in Address \ {Counter} :
          /\ txs[account] = << >>
          /\ txs' = [txs EXCEPT ![account] = <<[SeqNo |-> head + 1, Out |-> <<<< >>>>]>>]
    /\ head' = head + 1
    /\ UNCHANGED <<filters, lastProcessedSeqNo, logs, iteration, emitterVars, reader>>

\* The payload of a stored event's cell: the id of the contract and its value.
ID == 1
ExtractCellPayload(log) == BigEndian(ID) \o BigEndian(log.TxLT)
Payloads == [log \in Range(logs) |-> ExtractCellPayload(log)]

ParseEvent(data) ==
    FoldLeft(LAMBDA n, byte : n * BASE + byte, 0, SubSeq(data, WORD + 1, 2 * WORD))

-----------------------------------------------------------------------------
(* The test. *)

GetCounterValue == Len(txs[Counter])

\* No value twice, and every value up to the target.
VerifyLoadedEvents(events) ==
    /\ \A i, j \in DOMAIN events : events[i] = events[j] => i = j
    /\ 1 .. TARGET \subseteq Range(events)

\* The condition of require.Eventually: the contract has counted enough and
\* exactly its events are stored.
Ingested ==
    LET stored == GetLogs(logs, Counter)
    IN  /\ GetCounterValue >= TARGET
        /\ Len(stored) = TARGET
        /\ VerifyLoadedEvents([i \in DOMAIN stored |-> ParseEvent(ExtractCellPayload(stored[i]))])

\* The emitter is stopped when the test function returns.
EndTest ==
    /\ Stop
    /\ UNCHANGED <<vars, reader>>
    /\ Ingested

-----------------------------------------------------------------------------
(* A reader of the store, page by page. *)

Ascending == <<[Field |-> "tx_lt", Order |-> "ASC"]>>

Matching == ByTopic(logs, Counter, CountIncreased)

\* A reader that comes before the first event gets one empty page.
StartReading ==
    /\ reader.at = "none" /\ Matching # << >>
    /\ \E sortBy \in {<< >>, Ascending} :
          reader' = [at |-> "reading", sortBy |-> sortBy, got |-> << >>, atStart |-> Len(Matching)]
    /\ UNCHANGED <<vars, emitterVars>>

ReadPage ==
    /\ reader.at = "reading"
    /\ LET options == [SortBy |-> reader.sortBy, Limit |-> Limit, Offset |-> Len(reader.got)]
           page == FilteredLogs(logs, Payloads, Counter, CountIncreased, << >>, options)
       IN  reader' = [reader EXCEPT !.got = @ \o page.Logs,
                                    !.at = IF page.HasMore THEN "reading" ELSE "read"]
    /\ UNCHANGED <<vars, emitterVars>>

-----------------------------------------------------------------------------
\* The filter is registered before the poller starts.
LiveInit ==
    /\ NewLogPoller
    /\ filtersByName = Filter
    /\ filtersByAddress = {<<flt.Address, flt.EventTopic>> : flt \in Filter}
    /\ EmitterInit
    /\ reader = NoReader

Emit == UNCHANGED <<vars, reader>> /\ (eventLoop \/ WalletExecutes \/ StopReturns)

Ingest == UNCHANGED <<emitterVars, reader>> /\ Poll

LiveNext ==
    \/ Emit
    \/ IncreaseCount
    \/ OtherTransaction
    \/ Ingest
    \/ EndTest
    \/ StartReading
    \/ ReadPage

\* Goroutines run, messages are delivered, and require.Eventually checks its
\* condition again and again.
LiveSpec ==
    /\ LiveInit /\ [][LiveNext]_liveVars
    /\ WF_liveVars(Emit) /\ WF_liveVars(IncreaseCount) /\ WF_liveVars(Ingest) /\ WF_liveVars(EndTest)

-----------------------------------------------------------------------------
(* Properties. *)

\* What keeps the test from succeeding: a send that failed and was executed,
\* a message that ends every iteration, and a range scanned again.
Disturbed == unnoticed > 0 \/ Undecodable \/ ~NoDuplicates

\* The events of the emitter come to be stored exactly once each, whatever
\* the order of sends, blocks, polls and pages: the test's condition is met.
EventuallyIngested == <>(stop # "none" \/ Disturbed)

\* The pages of a reader: in the order of the store they hold each log once,
\* and every log that was there at the start, while the poller goes on storing;
\* sorted, they do so if nothing was stored meanwhile.
PagesReadOnce ==
    reader.at = "read" =>
        IF reader.sortBy = << >>
        THEN IsPrefix(reader.got, Matching) /\ Len(reader.got) >= reader.atStart
        ELSE Len(Matching) = reader.atStart => reader.got = ApplySorting(Matching, Ascending)

Between(low, high) ==
    <<CellQuery(WORD, ">", BigEndian(low)), CellQuery(WORD, "<=", BigEndian(high))>>

\* A window from inside the payload that reaches beyond it.
BeyondPayload(operator) == <<CellQuery(WORD + 1, operator, BigEndian(TARGET))>>

Count(log, list) == Len(SelectSeq(list, LAMBDA other : other = log))

\* A query for the bytes of a counter between two values finds the logs with a
\* counter between them, and so does a parser with a filter; sorting orders
\* them by logical time and loses none.  A query of bytes beyond the payload
\* finds nothing, although those that are there would compare.
QueriesExact ==
    LET all == [SortBy |-> Ascending, Limit |-> 0, Offset |-> 0]
        found(queries) == FilteredLogs(logs, Payloads, Counter, CountIncreased, queries, all).Logs
    IN  /\ \A operator \in {"!=", "<="} : found(BeyondPayload(operator)) = << >>
        /\ \A high \in 1 .. TARGET : \A low \in 0 .. high - 1 :
               LET result == found(Between(low, high))
                   wanted == SelectSeq(Matching, LAMBDA log : log.TxLT \in low + 1 .. high)
                   parser == [data \in {d \in Range(Payloads) : Len(d) = 2 * WORD} |-> ParseEvent(data)]
                   parsed == FilteredLogsWithParser(logs, Payloads, Counter, CountIncreased, parser, low + 1 .. high)
               IN  /\ parsed = [i \in DOMAIN wanted |-> wanted[i].TxLT]
                   /\ \A log \in Range(result \o wanted) : Count(log, result) = Count(log, wanted)
                   /\ \A i \in 1 .. Len(result) - 1 : result[i].TxLT <= result[i + 1].TxLT

=============================================================================
