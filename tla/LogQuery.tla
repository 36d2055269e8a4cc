----------------------------- MODULE LogQuery ------------------------------
(***************************************************************************)
(* Queries of the in-memory log store: pkg/logpoller/query.go and the      *)
(* readers of store.go.  The payload of a log is the sequence of the bytes *)
(* of its event; a byte has BASE values.                                   *)
(***************************************************************************)
EXTENDS Integers, FiniteSetsExt, SequencesExt, TLC

CONSTANTS
    BASE,        \* values of a byte: 256, or fewer to reach a carry sooner
    WORD         \* bytes of a uint32: 4, or fewer

ASSUME ByteAssumption == BASE \in Nat \ {0, 1} /\ WORD \in Nat \ {0}

\* binary.BigEndian.PutUint32.
BigEndian(n) == [i \in 1 .. WORD |-> (n \div BASE ^ (WORD - i)) % BASE]

CellQuery(offset, operator, value) == [Offset |-> offset, Operator |-> operator, Value |-> value]

QueryResult(found, hasMore, total) == [Logs |-> found, HasMore |-> hasMore, Total |-> total]

\* bytes.Compare of slices of one length.
Less(a, b) == \E i \in DOMAIN a : a[i] < b[i] /\ \A j \in 1 .. i - 1 : a[j] = b[j]

MutFirstByte(dataSlice, value, operator) ==
    LET matches == CASE operator = "="  -> dataSlice = value
                     [] operator = "!=" -> dataSlice # value
                     [] operator = ">"  -> value[1] < dataSlice[1]
                     [] operator = ">=" -> ~(dataSlice[1] < value[1])
                     [] operator = "<"  -> dataSlice[1] < value[1]
                     [] operator = "<=" -> ~(value[1] < dataSlice[1])
    IN  IF operator \notin {"=", "!=", ">", ">=", "<", "<="} THEN "error"
        ELSE IF matches THEN "pass" ELSE "fail"

compareBytes(dataSlice, value, operator) ==
    LET matches == CASE operator = "="  -> dataSlice = value
                     [] operator = "!=" -> dataSlice # value
                     [] operator = ">"  -> Less(value, dataSlice)
                     [] operator = ">=" -> ~Less(dataSlice, value)
                     [] operator = "<"  -> Less(dataSlice, value)
                     [] operator = "<=" -> ~Less(value, dataSlice)
    IN  IF operator \notin {"=", "!=", ">", ">=", "<", "<="} THEN "error"
        ELSE IF matches THEN "pass" ELSE "fail"

\* The first query that does not match decides.
PassesAllQueries(payload, queries) ==
    LET outcome(q) ==
            IF Len(payload) < q.Offset + Len(q.Value) THEN "fail"
            ELSE compareBytes(SubSeq(payload, q.Offset + 1, q.Offset + Len(q.Value)), q.Value, q.Operator)
        decisive == {j \in DOMAIN queries : outcome(queries[j]) # "pass"}
    IN  IF decisive = {} THEN "pass" ELSE outcome(queries[Min(decisive)])

\* sort.Slice by the first criterion in which the logs differ.  It keeps the
\* order of equal logs as long as there are at most 12.
ApplySorting(logs, sortBy) ==
    LET differs(i, j) == {k \in DOMAIN sortBy : sortBy[k].Field = "tx_lt" /\ logs[i].TxLT # logs[j].TxLT}
        before(i, j) ==
            /\ differs(i, j) # {}
            /\ (logs[i].TxLT > logs[j].TxLT) <=> (sortBy[Min(differs(i, j))].Order = "DESC")
        order == SortSeq([i \in DOMAIN logs |-> i], LAMBDA i, j : before(i, j) \/ (~before(j, i) /\ i < j))
    IN  [k \in DOMAIN logs |-> logs[order[k]]]

MutHasMoreEarly(logs, limit, offset) ==
    LET total == Len(logs)
        end == IF limit > 0 /\ offset + limit < total THEN offset + limit ELSE total
    IN  IF offset >= total THEN QueryResult(<< >>, FALSE, total)
        ELSE QueryResult(SubSeq(logs, offset + 1, end), end + 1 < total, total)

ApplyPagination(logs, limit, offset) ==
    LET total == Len(logs)
        end == IF limit > 0 /\ offset + limit < total THEN offset + limit ELSE total
    IN  IF offset >= total THEN QueryResult(<< >>, FALSE, total)
        ELSE QueryResult(SubSeq(logs, offset + 1, end), end < total, total)

GetLogs(store, address) == SelectSeq(store, LAMBDA log : log.Address = address)

ByTopic(store, address, topic) ==
    SelectSeq(store, LAMBDA log : log.Address = address /\ log.Topic = topic)

\* payloads gives the bytes of a log's cell.  An unsupported operator met in any
\* of the logs fails the whole query.
FilteredLogs(store, payloads, address, topic, queries, options) ==
    LET candidates == ByTopic(store, address, topic)
        passes(log) == PassesAllQueries(payloads[log], queries)
    IN  IF \E i \in DOMAIN candidates : passes(candidates[i]) = "error" THEN [Err |-> TRUE]
        ELSE ApplyPagination(
                 ApplySorting(SelectSeq(candidates, LAMBDA log : passes(log) = "pass"), options.SortBy),
                 options.Limit, options.Offset)

\* Logs the parser, a function on the payloads it can read, cannot read are
\* skipped; filter is the set of events that pass.
FilteredLogsWithParser(store, payloads, address, topic, parser, filter) ==
    LET read == SelectSeq(ByTopic(store, address, topic),
                          LAMBDA log : payloads[log] \in DOMAIN parser /\ parser[payloads[log]] \in filter)
    IN  [i \in DOMAIN read |-> parser[payloads[read[i]]]]

=============================================================================
