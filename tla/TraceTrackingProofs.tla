------------------------ MODULE TraceTrackingProofs ------------------------
(***************************************************************************)
(* Proofs about module TraceTracking, for any accounts, traffic and number *)
(* of messages.                                                            *)
(*                                                                         *)
(* What identifies a message is its sender and its time: the transactions  *)
(* of an account follow one another (AccountsInOrder) and what each sends  *)
(* has the times between it and the next (IsOf), so that a transaction the *)
(* tracker matches is that of the message (MatchIsOwn).  The tree then     *)
(* stays one (TreeInv): every message but the root has been received by an *)
(* earlier one (Linked, HasParent), and no two are the same (Apart).       *)
(* Nothing is forgotten: a message that still waits for what it sent is in *)
(* the queue or was received by one that is (Waiting).                     *)
(***************************************************************************)
EXTENDS TraceTracking, RecursionProofs

-----------------------------------------------------------------------------
(* The chain. *)

Address == Account \cup {External}

Message == [SrcAddr : Address, DstAddr : Address, CreatedLT : Nat, id : Account \X Nat \X Nat]

TransactionType ==
    [LT : Nat, endLT : Nat, in : Message, phase : ExitCodes \cup {Skipped}, aborted : BOOLEAN, out : Seq(Message)]

\* A transaction whose compute phase did not succeed is aborted.
AbortedAfter(phase, aborted) == phase # 0 => aborted

\* A transaction of account: what it sends has the times after its own.
IsOf(account, tx) ==
    /\ tx \in TransactionType
    /\ tx.endLT = tx.LT + Len(tx.out)
    /\ AbortedAfter(tx.phase, tx.aborted)
    /\ \A j \in DOMAIN tx.out : tx.out[j].SrcAddr = account /\ tx.out[j].CreatedLT = tx.LT + j

InOrder(transactions) ==
    \A i, k \in DOMAIN transactions : i < k => transactions[i].endLT < transactions[k].LT

AccountsInOrder ==
    /\ DOMAIN txs = Account
    /\ \A a \in Account :
           /\ txs[a] \in Seq(TransactionType)
           /\ \A i \in DOMAIN txs[a] : IsOf(a, txs[a][i])
           /\ InOrder(txs[a])

OnLedger(a, tx) == \E i \in DOMAIN txs[a] : tx = txs[a][i]

WasSent(msg) == \E a \in Account : \E tx : OnLedger(a, tx) /\ msg \in Range(tx.out)

LedgerInv ==
    /\ AccountsInOrder
    /\ \A msg \in pending : IsInternal(msg) /\ WasSent(msg)
    /\ \A a \in Account : \A tx : OnLedger(a, tx) /\ IsInternal(tx.in) => WasSent(tx.in)

\* What is on the chain is a transaction of its account.
LEMMA LedgerTransaction ==
    ASSUME AccountsInOrder, NEW a \in Account, NEW tx, OnLedger(a, tx)
    PROVE  IsOf(a, tx)
BY Zenon DEF AccountsInOrder, OnLedger

\* Messages of transactions one after the other have different times.
LEMMA TimesApart ==
    ASSUME NEW x \in Nat, NEW y \in Nat, NEW p \in Nat, NEW q \in Nat, NEW j \in 1 .. p, NEW l \in 1 .. q,
           x + j = y + l
    PROVE  ~ (x + p < y) /\ ~ (y + q < x) /\ (x = y => j = l)
OBVIOUS

\* The times of an account's messages tell them apart, and the transactions
\* that sent them.
LEMMA TimeIdentifies ==
    ASSUME AccountsInOrder, NEW a \in Account, NEW b \in Account, NEW t1, NEW t2,
           OnLedger(a, t1), OnLedger(b, t2), NEW m1 \in Range(t1.out), NEW m2 \in Range(t2.out),
           m1.SrcAddr = m2.SrcAddr, m1.CreatedLT = m2.CreatedLT
    PROVE  a = b /\ t1 = t2 /\ m1 = m2
<1>1. PICK i \in DOMAIN txs[a] : t1 = txs[a][i]
  BY DEF OnLedger
<1>2. PICK k \in DOMAIN txs[b] : t2 = txs[b][k]
  BY DEF OnLedger
<1>3. PICK j \in DOMAIN t1.out : m1 = t1.out[j]
  BY DEF Range
<1>4. PICK l \in DOMAIN t2.out : m2 = t2.out[l]
  BY DEF Range
<1>5. IsOf(a, t1) /\ IsOf(b, t2)
  BY <1>1, <1>2, Zenon DEF AccountsInOrder
<1>6. /\ m1.SrcAddr = a /\ m1.CreatedLT = t1.LT + j /\ m2.SrcAddr = b /\ m2.CreatedLT = t2.LT + l
      /\ t1.endLT = t1.LT + Len(t1.out) /\ t2.endLT = t2.LT + Len(t2.out)
  BY <1>3, <1>4, <1>5, Zenon DEF IsOf
<1>7. a = b
  BY <1>6, Zenon
<1>8. t1.out \in Seq(Message) /\ t2.out \in Seq(Message) /\ t1.LT \in Nat /\ t2.LT \in Nat
  BY <1>5 DEF IsOf, TransactionType
<1>9. Len(t1.out) \in Nat /\ Len(t2.out) \in Nat /\ j \in 1 .. Len(t1.out) /\ l \in 1 .. Len(t2.out)
  BY <1>8
<1>10. t1.LT + j = t2.LT + l
  BY <1>6, Zenon
<1>11. ~ (t1.LT + Len(t1.out) < t2.LT) /\ ~ (t2.LT + Len(t2.out) < t1.LT) /\ (t1.LT = t2.LT => j = l)
  <2> DEFINE x == t1.LT
             y == t2.LT
             p == Len(t1.out)
             q == Len(t2.out)
  <2>1. x \in Nat /\ y \in Nat /\ p \in Nat /\ q \in Nat /\ j \in 1 .. p /\ l \in 1 .. q /\ x + j = y + l
    BY <1>8, <1>9, <1>10, Zenon
  <2> HIDE DEF x, y, p, q
  <2>2. ~ (x + p < y) /\ ~ (y + q < x) /\ (x = y => j = l)
    BY <2>1, TimesApart
  <2> QED
    BY <2>2, Zenon DEF x, y, p, q
<1>12. i \in Nat /\ k \in Nat /\ InOrder(txs[a])
  BY DEF AccountsInOrder
<1>13. ~ (i < k) /\ ~ (k < i)
  BY <1>1, <1>2, <1>6, <1>7, <1>11, <1>12, Zenon DEF InOrder
<1>14. i = k
  BY <1>12, <1>13
<1>15. t1 = t2
  BY <1>1, <1>2, <1>7, <1>14, Zenon
<1> QED
  BY <1>3, <1>4, <1>7, <1>11, <1>15, Zenon

\* A message has one sender.
LEMMA OneSender ==
    ASSUME AccountsInOrder, NEW a \in Account, NEW b \in Account, NEW t1, NEW t2,
           OnLedger(a, t1), OnLedger(b, t2), NEW msg, msg \in Range(t1.out), msg \in Range(t2.out)
    PROVE  t1 = t2
BY TimeIdentifies

\* The internal messages of a transaction are among those it sends, and as
\* distinct as they are.
LEMMA InternalFacts ==
    ASSUME NEW a, NEW tx, IsOf(a, tx)
    PROVE  /\ Internal(tx) \in Seq(Message)
           /\ Range(Internal(tx)) = {msg \in Range(tx.out) : IsInternal(msg)}
           /\ Distinct(Internal(tx))
<1> DEFINE ss == [i \in DOMAIN tx.out |-> IF IsInternal(tx.out[i]) THEN <<tx.out[i]>> ELSE << >>]
<1>1. tx.out \in Seq(Message) /\ Len(tx.out) \in Nat /\ DOMAIN tx.out = 1 .. Len(tx.out)
  BY DEF IsOf, TransactionType
<1>2. \A i \in DOMAIN tx.out : tx.out[i] \in Message
  BY <1>1
<1>3. \A i \in DOMAIN tx.out : ss[i] \in Seq(Message)
  BY <1>2
<1>4. ss \in Seq(Seq(Message)) /\ DOMAIN ss = DOMAIN tx.out
  BY <1>1, <1>3
<1>5. ASSUME NEW i \in DOMAIN ss
      PROVE  /\ Range(ss[i]) = IF IsInternal(tx.out[i]) THEN {tx.out[i]} ELSE {}
             /\ Distinct(ss[i])
  <2>1. CASE IsInternal(tx.out[i])
    <3>1. ss[i] = <<tx.out[i]>>
      BY <1>5, <2>1
    <3> HIDE DEF ss
    <3> QED BY <2>1, <3>1 DEF Range, Distinct
  <2>2. CASE ~IsInternal(tx.out[i])
    <3>1. ss[i] = << >>
      BY <1>5, <2>2
    <3> HIDE DEF ss
    <3> QED BY <2>2, <3>1 DEF Range, Distinct
  <2> QED BY <2>1, <2>2
<1>6. \A i, j \in DOMAIN tx.out : tx.out[i] = tx.out[j] => i = j
  <2>1. tx.LT \in Nat /\ \A i \in DOMAIN tx.out : tx.out[i].CreatedLT = tx.LT + i
    BY DEF IsOf, TransactionType
  <2> QED BY <1>1, <2>1
<1>7. Internal(tx) = Joined(ss)
  BY DEF Internal
<1> HIDE DEF ss
<1>8. \A i, j \in DOMAIN ss : i # j => Range(ss[i]) \cap Range(ss[j]) = {}
  <2> SUFFICES ASSUME NEW i \in DOMAIN ss, NEW j \in DOMAIN ss, i # j, NEW x \in Range(ss[i]), x \in Range(ss[j])
               PROVE  FALSE
    OBVIOUS
  <2>1. x = tx.out[i] /\ x = tx.out[j]
    BY <1>5, Zenon
  <2> QED
    BY <1>4, <1>6, <2>1, Zenon
<1>9. AllDistinct(ss)
  BY <1>5, <1>8, Zenon DEF AllDistinct
<1>10. Elements(ss) = {msg \in Range(tx.out) : IsInternal(msg)}
  <2>1. ASSUME NEW x \in Elements(ss) PROVE x \in Range(tx.out) /\ IsInternal(x)
    <3>1. PICK i \in DOMAIN ss : x \in Range(ss[i])
      BY Zenon DEF Elements
    <3>2. x = tx.out[i] /\ IsInternal(tx.out[i])
      BY <1>5, <3>1, Zenon
    <3> QED
      BY <1>4, <3>2, Zenon DEF Range
  <2>2. ASSUME NEW x \in Range(tx.out), IsInternal(x) PROVE x \in Elements(ss)
    <3>1. PICK i \in DOMAIN tx.out : x = tx.out[i]
      BY Zenon DEF Range
    <3>2. i \in DOMAIN ss /\ x \in Range(ss[i])
      BY <1>4, <1>5, <2>2, <3>1, Zenon
    <3> QED
      BY <3>2, Zenon DEF Elements
  <2> QED
    BY <2>1, <2>2, Zenon
<1> QED
  BY <1>4, <1>7, <1>9, <1>10, JoinedElements

\* What Execute and Init make is a transaction.
LEMMA NewTransaction ==
    ASSUME NEW a \in Account, NEW n \in Nat, NEW lt \in Nat, NEW in \in Message,
           NEW phase \in ExitCodes \cup {Skipped}, NEW aborted \in BOOLEAN, AbortedAfter(phase, aborted),
           NEW dests \in Seq(Address)
    PROVE  LET tx == Transaction(lt, in, phase, aborted, Outgoing(a, n, lt, dests))
           IN  IsOf(a, tx) /\ tx.in = in /\ tx.LT = lt
<1> DEFINE out == Outgoing(a, n, lt, dests)
           tx == Transaction(lt, in, phase, aborted, out)
<1>1. Len(dests) \in Nat /\ DOMAIN dests = 1 .. Len(dests) /\ \A i \in DOMAIN dests : dests[i] \in Address
  OBVIOUS
<1>2. ASSUME NEW i \in DOMAIN dests
      PROVE  out[i] \in Message /\ out[i].SrcAddr = a /\ out[i].CreatedLT = lt + i
  <2>1. i \in Nat /\ lt + i \in Nat /\ dests[i] \in Address /\ a \in Address
    BY <1>1 DEF Address
  <2>2. out[i] = [SrcAddr |-> a, DstAddr |-> dests[i], CreatedLT |-> lt + i, id |-> <<a, n, i>>]
    BY DEF Outgoing
  <2> HIDE DEF out
  <2> QED BY <2>1, <2>2 DEF Message
<1>3. DOMAIN out = DOMAIN dests /\ out = [i \in DOMAIN dests |-> out[i]]
  BY DEF Outgoing
<1> HIDE DEF out
<1>4. out \in Seq(Message) /\ Len(out) = Len(dests)
  BY <1>1, <1>2, <1>3
<1>5. tx = [LT |-> lt, endLT |-> lt + Len(out), in |-> in, phase |-> phase, aborted |-> aborted, out |-> out]
  BY DEF Transaction
<1> HIDE DEF tx
<1>6. /\ tx.LT = lt /\ tx.endLT = lt + Len(out) /\ tx.in = in /\ tx.out = out
      /\ tx.phase = phase /\ tx.aborted = aborted
      /\ tx \in TransactionType
  BY <1>1, <1>4, <1>5 DEF TransactionType
<1>7. \A j \in DOMAIN tx.out : tx.out[j].SrcAddr = a /\ tx.out[j].CreatedLT = tx.LT + j
  BY <1>2, <1>3, <1>6, Zenon
<1>8. IsOf(a, tx)
  BY <1>6, <1>7, Zenon DEF IsOf
<1> QED
  BY <1>6, <1>8, Zenon DEF tx, out

\* Nothing of an account is after its last logical time.
LEMMA LastLTFacts ==
    ASSUME AccountsInOrder, NEW a \in Account
    PROVE  LastLT(a) \in Nat /\ \A i \in DOMAIN txs[a] : txs[a][i].endLT <= LastLT(a)
<1> DEFINE s == txs[a]
           n == Len(s)
<1>1. /\ s \in Seq(TransactionType) /\ \A i \in DOMAIN s : IsOf(a, s[i])
      /\ InOrder(s)
  BY DEF AccountsInOrder
<1>2. n \in Nat /\ DOMAIN s = 1 .. n
  BY <1>1
<1>3. LastLT(a) = IF n = 0 THEN 0 ELSE s[n].endLT
  BY DEF LastLT, Last
<1> HIDE DEF s, n
<1>4. CASE n = 0
  BY <1>2, <1>3, <1>4 DEF s
<1>5. CASE n # 0
  <2>1. n \in DOMAIN s /\ LastLT(a) = s[n].endLT
    BY <1>2, <1>3, <1>5
  <2>2. IsOf(a, s[n])
    BY <1>1, <2>1
  <2>3. s[n].endLT = s[n].LT + Len(s[n].out) /\ s[n].out \in Seq(Message) /\ s[n].LT \in Nat /\ s[n].endLT \in Nat
    BY <2>2 DEF IsOf, TransactionType
  <2>4. s[n].LT <= s[n].endLT
    BY <2>3
  <2>5. ASSUME NEW i \in DOMAIN s PROVE s[i].endLT <= s[n].endLT
    <3>1. IsOf(a, s[i])
      BY <1>1
    <3>2. s[i].endLT \in Nat
      BY <3>1 DEF IsOf, TransactionType
    <3>3. i < n => s[i].endLT < s[n].LT
      BY <1>1, <2>1, Zenon DEF InOrder
    <3>4. i < n \/ i = n
      BY <1>2
    <3> QED
      BY <2>3, <2>4, <3>2, <3>3, <3>4
  <2> QED
    BY <2>1, <2>3, <2>5, Zenon DEF s
<1> QED BY <1>4, <1>5

\* A transaction later than all of its account keeps the invariant of the chain
\* and everything that is on it.
LEMMA AppendTransaction ==
    ASSUME LedgerInv, NEW a \in Account, NEW tx, IsOf(a, tx), LastLT(a) < tx.LT,
           IsInternal(tx.in) => WasSent(tx.in),
           txs' = [txs EXCEPT ![a] = Append(@, tx)],
           pending' \subseteq pending \cup Range(Internal(tx))
    PROVE  LedgerInv' /\ \A b \in Account : \A t : OnLedger(b, t) => OnLedger(b, t)'
<1> DEFINE s == txs[a]
           n == Len(s)
<1>1. /\ s \in Seq(TransactionType) /\ \A i \in DOMAIN s : IsOf(a, s[i])
      /\ InOrder(s) /\ AccountsInOrder
  BY DEF AccountsInOrder, LedgerInv
<1>2. txs'[a] = Append(s, tx) /\ DOMAIN txs' = Account /\ \A b \in Account : b # a => txs'[b] = txs[b]
  BY DEF AccountsInOrder, LedgerInv
<1> DEFINE r == txs'[a]
<1>3. tx \in TransactionType
  BY DEF IsOf
<1> HIDE DEF s, r, n
<1>4. /\ n \in Nat /\ DOMAIN s = 1 .. n /\ r \in Seq(TransactionType) /\ DOMAIN r = 1 .. n + 1 /\ r[n + 1] = tx
      /\ \A i \in DOMAIN s : i \in DOMAIN r /\ r[i] = s[i]
  <2>1. r = Append(s, tx)
    BY <1>2, Zenon DEF r
  <2>2. s \in Seq(TransactionType)
    BY <1>1
  <2> QED BY <1>3, <2>1, <2>2 DEF n
<1>5. \A i \in DOMAIN r : i \in Nat /\ (i = n + 1 \/ i \in DOMAIN s)
  BY <1>4
<1>6. n + 1 \in DOMAIN r /\ n + 1 \notin DOMAIN s
  BY <1>4
<1>7. \A b \in Account : \A t : OnLedger(b, t)' <=> OnLedger(b, t) \/ (b = a /\ t = tx)
  <2> SUFFICES ASSUME NEW b \in Account, NEW t
               PROVE  OnLedger(b, t)' <=> OnLedger(b, t) \/ (b = a /\ t = tx)
    OBVIOUS
  <2>1. CASE b # a
    BY <1>2, <2>1 DEF OnLedger
  <2>2. CASE b = a
    <3>1. OnLedger(b, t)' <=> \E i \in DOMAIN r : t = r[i]
      BY <2>2 DEF OnLedger, r
    <3>2. OnLedger(b, t) <=> \E i \in DOMAIN s : t = s[i]
      BY <2>2 DEF OnLedger, s
    <3> QED
      BY <1>4, <1>5, <1>6, <2>2, <3>1, <3>2, Zenon
  <2> QED BY <2>1, <2>2
<1>8. AccountsInOrder'
  <2>1. ASSUME NEW i \in DOMAIN r PROVE IsOf(a, r[i])
    BY <1>1, <1>4, <1>5, Zenon
  <2>2. ASSUME NEW i \in DOMAIN r, NEW k \in DOMAIN r, i < k PROVE r[i].endLT < r[k].LT
    <3>1. i \in DOMAIN s
      BY <1>4, <2>2
    <3>2. CASE k \in DOMAIN s
      BY <1>1, <1>4, <2>2, <3>1, <3>2, Zenon DEF InOrder
    <3>3. CASE k = n + 1
      <4>1. LastLT(a) \in Nat /\ s[i].endLT <= LastLT(a)
        BY <1>1, <3>1, LastLTFacts DEF s
      <4>2. s[i].endLT \in Nat /\ tx.LT \in Nat
        <5>1. IsOf(a, s[i])
          BY <1>1, <3>1
        <5> QED BY <5>1 DEF IsOf, TransactionType
      <4>3. s[i].endLT < tx.LT
        BY <4>1, <4>2
      <4> QED BY <1>4, <3>1, <3>3, <4>3, Zenon
    <3> QED BY <1>5, <3>2, <3>3, Zenon
  <2>3. InOrder(r)
    BY <2>2 DEF InOrder
  <2>4. ASSUME NEW b \in Account, b # a
        PROVE  /\ txs'[b] \in Seq(TransactionType)
               /\ \A i \in DOMAIN txs'[b] : IsOf(b, txs'[b][i])
               /\ InOrder(txs'[b])
    BY <1>1, <1>2, <2>4, Zenon DEF AccountsInOrder
  <2>5. ASSUME NEW b \in Account
        PROVE  /\ txs'[b] \in Seq(TransactionType)
               /\ \A i \in DOMAIN txs'[b] : IsOf(b, txs'[b][i])
               /\ InOrder(txs'[b])
    <3>1. CASE b = a
      BY <1>4, <2>1, <2>3, <3>1, Zenon DEF r
    <3> QED BY <2>4, <3>1, Zenon
  <2>6. \A b, t : IsOf(b, t)' <=> IsOf(b, t)
    BY DEF IsOf
  <2> QED BY <1>2, <2>5, <2>6, Zenon DEF AccountsInOrder, InOrder
<1>9. \A msg : WasSent(msg) => WasSent(msg)'
  BY <1>7, Zenon DEF WasSent
<1>10. ASSUME NEW msg \in Range(Internal(tx)) PROVE IsInternal(msg) /\ WasSent(msg)'
  <2>1. IsInternal(msg) /\ msg \in Range(tx.out)
    BY InternalFacts
  <2> QED BY <1>7, <2>1, Zenon DEF WasSent
<1>11. \A msg \in pending' : IsInternal(msg) /\ WasSent(msg)'
  BY <1>9, <1>10 DEF LedgerInv
<1>12. \A b \in Account : \A t : OnLedger(b, t)' /\ IsInternal(t.in) => WasSent(t.in)'
  BY <1>7, <1>9, Zenon DEF LedgerInv
<1>13. \A msg : IsInternal(msg)' <=> IsInternal(msg)
  BY DEF IsInternal
<1> QED
  BY <1>7, <1>8, <1>11, <1>12, <1>13, Zenon DEF LedgerInv

-----------------------------------------------------------------------------
(* The tracker. *)

SentType == [InternalMsg : Message, Amount : Nat, FwdFee : Nat]

ReceivedType ==
    [tx : TransactionType, LamportTime : Nat, Success : BOOLEAN, ExitCode : Nat, Amount : Nat, FwdFee : Nat,
     ImportFee : Nat, GasFee : Nat, StorageFeeCharged : Nat, TotalActionFees : Nat, MagicFee : Int,
     sent : Seq(SentType), received : Seq(Nat), readings : Nat]

\* A received message reports its transaction.
Reports(node) ==
    /\ node.Success = (node.tx.phase = 0)
    /\ node.ExitCode = IF node.tx.phase = Skipped THEN 0 ELSE node.tx.phase
    /\ node.Amount = IF IsInternal(node.tx.in) THEN Amount(node.tx.in) ELSE 0
    /\ node.FwdFee = IF IsInternal(node.tx.in) THEN FwdFee(node.tx.in) ELSE 0
    /\ node.ImportFee + node.GasFee + node.StorageFeeCharged + ActionFees(node.tx) + node.MagicFee = TotalFees(node.tx)

\* The messages received come before those only sent, in the order they left.
Splits(node) ==
    /\ Len(node.received) + Len(node.sent) = Len(Internal(node.tx))
    /\ \A i \in DOMAIN node.sent : node.sent[i] = NewSentMessage(Internal(node.tx)[Len(node.received) + i])

IsNode(node) == node \in ReceivedType /\ Reports(node) /\ Splits(node)

Linked ==
    \A n \in DOMAIN tree : \A k \in DOMAIN tree[n].received :
        /\ tree[n].received[k] \in DOMAIN tree
        /\ n < tree[n].received[k]
        /\ tree[tree[n].received[k]].tx.in = Internal(tree[n].tx)[k]

HasParent ==
    \A m \in DOMAIN tree : m # 1 =>
        \E n \in DOMAIN tree : \E k \in DOMAIN tree[n].received : tree[n].received[k] = m

Apart == \A m, n \in DOMAIN tree : tree[m].tx = tree[n].tx => m = n

TreeInv ==
    /\ tree \in Seq(ReceivedType) /\ 1 \in DOMAIN tree
    /\ \A n \in DOMAIN tree : IsNode(tree[n]) /\ \E a \in Account : OnLedger(a, tree[n].tx)
    /\ ~IsInternal(tree[1].tx.in)
    /\ Linked /\ HasParent /\ Apart

\* What is not yet looked at is in the queue, or caused by what is.
Waiting ==
    \A m \in DOMAIN tree : tree[m].sent # << >> =>
        \E q \in Range(queue) : m = q \/ m \in Range(tree[q].received)

QueueInv ==
    /\ queue \in Seq(DOMAIN tree)
    /\ done \in BOOLEAN /\ (done => queue = << >>)
    /\ Waiting

\* Each reading has added the forward fees to the fees of the action phase.
Counts(node) == node.TotalActionFees = ActionFees(node.tx) + node.readings * ForwardFees(node.tx)

FeesInv == \A n \in DOMAIN tree : Counts(tree[n])

IInv == LedgerInv /\ TreeInv /\ QueueInv /\ FeesInv

\* A message of time lt carries and costs numbers.
LEMMA AmountTypes == ASSUME NEW msg \in Message PROVE Amount(msg) \in Nat /\ FwdFee(msg) \in Nat
BY DEF Amount, FwdFee, Message

\* The fees of a transaction are numbers.
LEMMA FeeTypes ==
    ASSUME NEW a, NEW tx, IsOf(a, tx)
    PROVE  /\ ImportFee(tx) \in Nat /\ GasFee(tx) \in Nat /\ ActionFees(tx) \in Nat /\ StorageFee \in Nat
           /\ TotalFees(tx) \in Nat
<1>1. tx.out \in Seq(Message)
  BY DEF IsOf, TransactionType
<1>2. ActionFees(tx) \in Nat
  BY <1>1 DEF ActionFees
<1>3. ImportFee(tx) \in Nat /\ GasFee(tx) \in Nat /\ StorageFee \in Nat
  BY DEF ImportFee, GasFee, StorageFee
<1> QED
  BY <1>2, <1>3 DEF TotalFees

\* The forward fees of a transaction are a number.
LEMMA ForwardFeesType == ASSUME NEW a, NEW tx, IsOf(a, tx) PROVE ForwardFees(tx) \in Nat
<1> DEFINE out == Internal(tx)
           of == [i \in DOMAIN out |-> FwdFee(out[i])]
<1>1. out \in Seq(Message)
  BY InternalFacts
<1>2. ForwardFees(tx) = Total(of)
  BY Zenon DEF ForwardFees, SumOf
<1> HIDE DEF out
<1>3. \A i \in DOMAIN out : FwdFee(out[i]) \in Nat
  <2>1. \A i \in DOMAIN out : out[i] \in Message
    BY <1>1
  <2> QED BY <2>1, AmountTypes, Zenon
<1>4. of \in Seq(Nat)
  BY <1>1, <1>3
<1> HIDE DEF of
<1> QED
  BY <1>2, <1>4, TotalType, Zenon

\* What the readings have added, before the first and after one more.
LEMMA NoReadings == ASSUME NEW a \in Nat, NEW f \in Nat PROVE a + 0 * f = a
OBVIOUS

LEMMA OneReading ==
    ASSUME NEW a \in Nat, NEW f \in Nat, NEW r \in Nat
    PROVE  (a + r * f) + f = a + (r + 1) * f /\ r * f \in Nat /\ r + 1 \in Nat
OBVIOUS

\* MapToReceivedMessage reports its transaction, with all messages still to be
\* received.
LEMMA NewNode ==
    ASSUME NEW a, NEW tx, IsOf(a, tx)
    PROVE  LET node == MapToReceivedMessage(tx)
           IN  IsNode(node) /\ node.tx = tx /\ node.received = << >> /\ Counts(node)
<1> DEFINE node == MapToReceivedMessage(tx)
           out == Internal(tx)
           sent == [i \in DOMAIN out |-> NewSentMessage(out[i])]
           magic == TotalFees(tx) - ImportFee(tx) - GasFee(tx) - StorageFee - ActionFees(tx)
           amount == IF IsInternal(tx.in) THEN Amount(tx.in) ELSE 0
           fwdFee == IF IsInternal(tx.in) THEN FwdFee(tx.in) ELSE 0
           code == IF tx.phase = Skipped THEN 0 ELSE tx.phase
<1>1. out \in Seq(Message)
  BY InternalFacts
<1>2. node = [tx |-> tx, LamportTime |-> tx.LT, Success |-> tx.phase = 0, ExitCode |-> code, Amount |-> amount,
              FwdFee |-> fwdFee, ImportFee |-> ImportFee(tx), GasFee |-> GasFee(tx), StorageFeeCharged |-> StorageFee,
              TotalActionFees |-> ActionFees(tx), MagicFee |-> magic, sent |-> sent, received |-> << >>,
              readings |-> 0]
  BY Zenon DEF MapToReceivedMessage, ReceivedMessage, mapOutgoingMessages
<1>3. tx \in TransactionType /\ tx.in \in Message /\ tx.LT \in Nat /\ tx.phase \in ExitCodes \cup {Skipped}
  BY DEF IsOf, TransactionType
<1>4. code \in Nat
  BY <1>3, CodeAssumption, Zenon
<1>5. amount \in Nat /\ fwdFee \in Nat
  BY <1>3, AmountTypes
<1>6. /\ magic \in Int
      /\ ImportFee(tx) + GasFee(tx) + StorageFee + ActionFees(tx) + magic = TotalFees(tx)
  BY FeeTypes
<1>7. \A i \in DOMAIN out : NewSentMessage(out[i]) \in SentType
  <2> SUFFICES ASSUME NEW msg \in Message PROVE NewSentMessage(msg) \in SentType
    BY <1>1
  <2> QED BY AmountTypes DEF NewSentMessage, SentType
<1>8. sent \in Seq(SentType) /\ Len(sent) = Len(out) /\ DOMAIN sent = DOMAIN out
  BY <1>1, <1>7
<1>9. \A i \in DOMAIN sent : sent[i] = NewSentMessage(out[i]) /\ 0 + i = i
  BY <1>1, <1>8
<1>10. ImportFee(tx) \in Nat /\ GasFee(tx) \in Nat /\ StorageFee \in Nat /\ ActionFees(tx) \in Nat
  BY FeeTypes
<1>11. Len(out) \in Nat
  BY <1>1
<1> HIDE DEF node, sent, magic, amount, fwdFee, code
<1>12. node \in ReceivedType
  BY <1>2, <1>3, <1>4, <1>5, <1>6, <1>8, <1>10 DEF ReceivedType
<1>13. /\ node.tx = tx /\ node.Success = (tx.phase = 0) /\ node.ExitCode = code /\ node.Amount = amount
       /\ node.FwdFee = fwdFee /\ node.ImportFee = ImportFee(tx) /\ node.GasFee = GasFee(tx)
       /\ node.StorageFeeCharged = StorageFee /\ node.TotalActionFees = ActionFees(tx) /\ node.MagicFee = magic
       /\ node.sent = sent /\ node.received = << >> /\ node.readings = 0
  BY <1>2
<1>14. Reports(node)
  BY <1>6, <1>13, Zenon DEF Reports, code, amount, fwdFee
<1>15. Len(node.received) = 0
  BY <1>13
<1>16. Splits(node)
  <2>1. 0 + Len(sent) = Len(out)
    BY <1>8, <1>11
  <2> QED BY <1>9, <1>13, <1>15, <2>1, Zenon DEF Splits
<1>17. Counts(node)
  <2>1. ActionFees(tx) + 0 * ForwardFees(tx) = ActionFees(tx)
    BY <1>10, ForwardFeesType, NoReadings, Zenon
  <2> QED BY <1>13, <2>1, Zenon DEF Counts
<1> QED
  BY <1>12, <1>13, <1>14, <1>16, <1>17, Zenon DEF IsNode, node

\* The transaction that matches a message sent executed this very message.
LEMMA MatchIsOwn ==
    ASSUME LedgerInv, NEW a \in Account, NEW b \in Account, NEW sender, NEW tx,
           OnLedger(a, sender), OnLedger(b, tx),
           NEW msg \in Range(Internal(sender)), IsReceivedBy(NewSentMessage(msg), tx)
    PROVE  tx.in = msg
<1>1. IsOf(a, sender)
  BY LedgerTransaction DEF LedgerInv
<1>2. msg \in Range(sender.out)
  BY <1>1, InternalFacts
<1>3. IsInternal(tx.in) /\ tx.in.SrcAddr = msg.SrcAddr /\ tx.in.CreatedLT = msg.CreatedLT
  BY DEF IsReceivedBy, MatchesReceived, NewSentMessage
<1>4. PICK c \in Account : \E t : OnLedger(c, t) /\ tx.in \in Range(t.out)
  BY <1>3, Zenon DEF LedgerInv, WasSent
<1>5. PICK t : OnLedger(c, t) /\ tx.in \in Range(t.out)
  BY <1>4
<1>6. AccountsInOrder
  BY DEF LedgerInv
<1> QED
  BY <1>2, <1>3, <1>5, <1>6, TimeIdentifies

\* What Received makes of the tree.
LEMMA ReceivedFacts ==
    ASSUME TreeInv, NEW n \in DOMAIN tree, tree[n].sent # << >>, NEW child \in ReceivedType,
           tree' = Received(n, child)
    PROVE  /\ tree' \in Seq(ReceivedType) /\ DOMAIN tree' = 1 .. Len(tree) + 1
           /\ DOMAIN tree = 1 .. Len(tree) /\ Len(tree) \in Nat
           /\ \A m \in DOMAIN tree : m # n => tree'[m] = tree[m]
           /\ tree'[Len(tree) + 1] = child
           /\ tree'[n] = [tree[n] EXCEPT !.sent = Tail(@), !.received = Append(@, Len(tree) + 1)]
<1> DEFINE new == [tree[n] EXCEPT !.sent = Tail(@), !.received = Append(@, Len(tree) + 1)]
<1>1. tree \in Seq(ReceivedType) /\ tree[n] \in ReceivedType
  BY DEF TreeInv
<1>2. Len(tree) \in Nat /\ DOMAIN tree = 1 .. Len(tree)
  BY <1>1
<1>3. tree[n].sent \in Seq(SentType) /\ tree[n].received \in Seq(Nat)
  BY <1>1 DEF ReceivedType
<1>4. Tail(tree[n].sent) \in Seq(SentType) /\ Append(tree[n].received, Len(tree) + 1) \in Seq(Nat)
  BY <1>2, <1>3
<1>5. new \in ReceivedType
  BY <1>1, <1>4, Zenon DEF ReceivedType
<1>6. tree' = Append([tree EXCEPT ![n] = new], child)
  BY ZenonT(30) DEF Received
<1> HIDE DEF new
<1>7. /\ [tree EXCEPT ![n] = new] \in Seq(ReceivedType) /\ Len([tree EXCEPT ![n] = new]) = Len(tree)
      /\ [tree EXCEPT ![n] = new][n] = new /\ \A m \in DOMAIN tree : m # n => [tree EXCEPT ![n] = new][m] = tree[m]
  BY <1>1, <1>2, <1>5
<1> DEFINE changed == [tree EXCEPT ![n] = new]
<1> HIDE DEF changed
<1>8. /\ changed \in Seq(ReceivedType) /\ Len(changed) = Len(tree) /\ changed[n] = new
      /\ \A m \in DOMAIN tree : m # n => changed[m] = tree[m]
  BY <1>7, Zenon DEF changed
<1>9. tree' = Append(changed, child)
  BY <1>6, Zenon DEF changed
<1>10. /\ tree' \in Seq(ReceivedType) /\ DOMAIN tree' = 1 .. Len(tree) + 1 /\ tree'[Len(tree) + 1] = child
       /\ \A m \in DOMAIN tree : tree'[m] = changed[m]
  BY <1>2, <1>8, <1>9
<1> QED
  BY <1>2, <1>8, <1>10, Zenon DEF new

\* new is node, with the first message it sent received at m.
MovedInto(node, m, new) ==
    /\ IsNode(new) /\ new.tx = node.tx /\ (Counts(node) => Counts(new))
    /\ new.sent = Tail(node.sent) /\ new.received = Append(node.received, m)
    /\ Len(node.received) \in Nat
    /\ DOMAIN node.received = 1 .. Len(node.received) /\ DOMAIN new.received = 1 .. Len(node.received) + 1
    /\ \A k \in DOMAIN node.received : new.received[k] = node.received[k]
    /\ new.received[Len(node.received) + 1] = m
    /\ Len(node.received) + 1 \in DOMAIN Internal(node.tx)
    /\ Head(node.sent) = NewSentMessage(Internal(node.tx)[Len(node.received) + 1])

\* The first message sent moves to the end of those received.
LEMMA MovedFirst ==
    ASSUME NEW a, NEW node, IsNode(node), IsOf(a, node.tx), node.sent # << >>, NEW m \in Nat,
           NEW new, new = [node EXCEPT !.sent = Tail(@), !.received = Append(@, m)]
    PROVE  MovedInto(node, m, new)
<1> DEFINE sent == node.sent
           received == node.received
           out == Internal(node.tx)
<1>1. node \in ReceivedType /\ sent \in Seq(SentType) /\ received \in Seq(Nat) /\ sent # << >>
  BY DEF IsNode, ReceivedType
<1>2. Tail(sent) \in Seq(SentType) /\ Append(received, m) \in Seq(Nat)
  BY <1>1
<1>3. new \in ReceivedType
  BY <1>1, <1>2, Zenon DEF ReceivedType
<1>4. /\ new.sent = Tail(sent) /\ new.received = Append(received, m) /\ new.tx = node.tx
      /\ new.TotalActionFees = node.TotalActionFees /\ new.readings = node.readings
  BY <1>1 DEF ReceivedType
<1>5. /\ new.Success = node.Success /\ new.ExitCode = node.ExitCode /\ new.Amount = node.Amount
      /\ new.FwdFee = node.FwdFee /\ new.ImportFee = node.ImportFee /\ new.GasFee = node.GasFee
      /\ new.StorageFeeCharged = node.StorageFeeCharged /\ new.MagicFee = node.MagicFee
  BY <1>1 DEF ReceivedType
<1>6. Reports(new)
  BY <1>4, <1>5, Zenon DEF Reports, IsNode
<1>7. /\ Len(received) + Len(sent) = Len(out)
      /\ \A i \in DOMAIN sent : sent[i] = NewSentMessage(out[Len(received) + i])
  BY Zenon DEF IsNode, Splits
<1>8. out \in Seq(Message)
  BY InternalFacts
<1> HIDE DEF sent, received, out
<1>9. /\ Len(received) \in Nat /\ Len(sent) \in Nat \ {0} /\ Len(out) \in Nat /\ DOMAIN out = 1 .. Len(out)
      /\ DOMAIN sent = 1 .. Len(sent) /\ Head(sent) = sent[1] /\ 1 \in DOMAIN sent
      /\ DOMAIN received = 1 .. Len(received)
  BY <1>1, <1>8
<1>10. /\ DOMAIN Tail(sent) = 1 .. Len(sent) - 1 /\ Len(Tail(sent)) = Len(sent) - 1
       /\ \A i \in 1 .. Len(sent) - 1 : Tail(sent)[i] = sent[i + 1]
  BY <1>1, <1>9
<1>11. /\ DOMAIN Append(received, m) = 1 .. Len(received) + 1 /\ Len(Append(received, m)) = Len(received) + 1
       /\ \A k \in DOMAIN received : Append(received, m)[k] = received[k]
       /\ Append(received, m)[Len(received) + 1] = m
  BY <1>1, <1>9
<1>12. Len(received) + 1 \in DOMAIN out
  BY <1>7, <1>9
<1>13. Head(sent) = NewSentMessage(out[Len(received) + 1])
  BY <1>7, <1>9, Zenon
<1>14. Splits(new)
  <2>1. (Len(received) + 1) + (Len(sent) - 1) = Len(out)
    BY <1>7, <1>9
  <2>2. ASSUME NEW i \in 1 .. Len(sent) - 1
        PROVE  Tail(sent)[i] = NewSentMessage(out[(Len(received) + 1) + i])
    <3>1. i + 1 \in DOMAIN sent /\ Len(received) + (i + 1) = (Len(received) + 1) + i
      BY <1>9
    <3> QED BY <1>7, <1>10, <3>1, Zenon
  <2>3. Len(new.received) = Len(received) + 1 /\ Len(new.sent) = Len(sent) - 1 /\ DOMAIN new.sent = 1 .. Len(sent) - 1
    BY <1>4, <1>10, <1>11, Zenon
  <2> QED
    BY <1>4, <2>1, <2>2, <2>3, Zenon DEF Splits, out
<1>15. IsNode(new)
  BY <1>3, <1>6, <1>14, Zenon DEF IsNode
<1>16. Counts(node) => Counts(new)
  BY <1>4, Zenon DEF Counts
<1> QED
  BY <1>4, <1>9, <1>11, <1>12, <1>13, <1>15, <1>16, Zenon DEF sent, received, out, MovedInto

\* The tree has grown by tx, received at n.
Grown(n, tx) ==
    /\ DOMAIN tree' = DOMAIN tree \cup {Len(tree) + 1}
    /\ \A m \in DOMAIN tree : m # n => tree'[m] = tree[m]
    /\ Range(tree'[n].received) = Range(tree[n].received) \cup {Len(tree) + 1}
    /\ tree'[n].tx = tree[n].tx /\ (Counts(tree[n]) => Counts(tree'[n]))
    /\ tree'[Len(tree) + 1].tx = tx /\ Counts(tree'[Len(tree) + 1])

\* A message of the tree's own is received: the tree stays a tree of chain
\* transactions, each once.
LEMMA ReceiveKeepsTree ==
    ASSUME LedgerInv, TreeInv, txs' = txs, NEW n \in DOMAIN tree, tree[n].sent # << >>,
           NEW b \in Account, NEW tx, OnLedger(b, tx),
           tx.in = Internal(tree[n].tx)[Len(tree[n].received) + 1],
           tree' = Received(n, MapToReceivedMessage(tx))
    PROVE  TreeInv' /\ Grown(n, tx)
<1> DEFINE node == tree[n]
           new == tree'[n]
           last == Len(tree) + 1
           child == MapToReceivedMessage(tx)
           k0 == Len(node.received) + 1
<1>1. AccountsInOrder
  BY DEF LedgerInv
<1>2. IsNode(child) /\ child.tx = tx /\ child.received = << >> /\ Counts(child)
  <2>1. IsOf(b, tx)
    BY <1>1, LedgerTransaction
  <2> QED BY <2>1, NewNode, Zenon
<1>3. IsNode(node) /\ node.sent # << >>
  BY DEF TreeInv
<1>4. PICK a \in Account : OnLedger(a, node.tx)
  BY DEF TreeInv
<1>5. IsOf(a, node.tx)
  <2> HIDE DEF node
  <2> QED BY <1>1, <1>4, LedgerTransaction
<1> HIDE DEF child
<1>6. /\ tree' \in Seq(ReceivedType) /\ DOMAIN tree' = 1 .. Len(tree) + 1
      /\ DOMAIN tree = 1 .. Len(tree) /\ Len(tree) \in Nat
      /\ \A m \in DOMAIN tree : m # n => tree'[m] = tree[m]
      /\ tree'[Len(tree) + 1] = child
      /\ new = [node EXCEPT !.sent = Tail(@), !.received = Append(@, Len(tree) + 1)]
  BY <1>2, ReceivedFacts, Zenon DEF IsNode, child
<1>7. /\ last \in Nat /\ DOMAIN tree' = DOMAIN tree \cup {last} /\ last \notin DOMAIN tree /\ tree'[last] = child
      /\ last # 1 /\ \A m \in DOMAIN tree : m < last
  BY <1>6 DEF TreeInv
<1>8. new = [node EXCEPT !.sent = Tail(@), !.received = Append(@, last)]
  BY <1>6, Zenon
<1> HIDE DEF new, node, last
<1>9. /\ IsNode(new) /\ new.tx = node.tx /\ (Counts(node) => Counts(new))
      /\ DOMAIN node.received = 1 .. Len(node.received) /\ DOMAIN new.received = 1 .. Len(node.received) + 1
      /\ \A k \in DOMAIN node.received : new.received[k] = node.received[k]
      /\ new.received[k0] = last
      /\ k0 \in DOMAIN Internal(node.tx) /\ Len(node.received) \in Nat
  <2>1. MovedInto(node, last, new)
    BY <1>3, <1>5, <1>7, <1>8, MovedFirst, Zenon
  <2> QED BY <2>1, Zenon DEF MovedInto
<1>10. /\ k0 \in DOMAIN new.received /\ k0 \notin DOMAIN node.received
       /\ DOMAIN new.received = DOMAIN node.received \cup {k0}
  BY <1>9
<1> HIDE DEF k0
<1>11. \A m \in DOMAIN tree : tree'[m].tx = tree[m].tx
  BY <1>6, <1>9, Zenon DEF new, node
<1>12. Internal(node.tx)[k0] \in Range(Internal(node.tx)) /\ tx.in = Internal(node.tx)[k0]
  BY <1>9, Zenon DEF Range, node, k0
<1>13. IsInternal(tx.in) /\ tx.in \in Range(node.tx.out)
  BY <1>5, <1>12, InternalFacts
<1>14. Linked'
  <2> SUFFICES ASSUME NEW p \in DOMAIN tree', NEW k \in DOMAIN tree'[p].received
               PROVE  /\ tree'[p].received[k] \in DOMAIN tree'
                      /\ p < tree'[p].received[k]
                      /\ tree'[tree'[p].received[k]].tx.in = Internal(tree'[p].tx)[k]
    BY Zenon DEF Linked, Internal, IsInternal
  <2>1. ASSUME NEW q \in DOMAIN tree, NEW j \in DOMAIN tree[q].received
        PROVE  /\ tree[q].received[j] \in DOMAIN tree /\ q < tree[q].received[j]
               /\ tree[tree[q].received[j]].tx.in = Internal(tree[q].tx)[j]
    BY DEF TreeInv, Linked
  <2>2. CASE p = last
    BY <1>2, <1>7, <2>2
  <2>3. CASE p \in DOMAIN tree /\ p # n
    <3>1. tree'[p] = tree[p]
      BY <1>6, <2>3
    <3>2. tree[p].received[k] \in DOMAIN tree /\ p < tree[p].received[k]
      BY <2>1, <2>3, <3>1, Zenon
    <3>3. tree[tree[p].received[k]].tx.in = Internal(tree[p].tx)[k]
      BY <2>1, <2>3, <3>1, Zenon
    <3>4. tree'[tree[p].received[k]].tx = tree[tree[p].received[k]].tx
      BY <1>11, <3>2
    <3>5. tree'[p].received[k] = tree[p].received[k] /\ tree'[p].tx = tree[p].tx
      BY <3>1, Zenon
    <3>6. tree'[tree'[p].received[k]].tx.in = Internal(tree'[p].tx)[k]
      BY <3>3, <3>4, <3>5, Zenon
    <3>7. tree[p].received[k] \in DOMAIN tree'
      BY <1>7, <3>2, Zenon
    <3> QED BY <3>2, <3>5, <3>6, <3>7, Zenon
  <2>4. CASE p = n
    <3>1. tree'[p] = new
      BY <2>4 DEF new
    <3>2. CASE k \in DOMAIN node.received
      <4>1. new.received[k] = tree[n].received[k] /\ k \in DOMAIN tree[n].received
        BY <1>9, <3>2, Zenon DEF node
      <4>2. tree[n].received[k] \in DOMAIN tree /\ n < tree[n].received[k]
        BY <2>1, <4>1, Zenon
      <4>3. tree[tree[n].received[k]].tx.in = Internal(tree[n].tx)[k]
        BY <2>1, <4>1, Zenon
      <4>4. tree'[tree[n].received[k]].tx = tree[tree[n].received[k]].tx
        BY <1>11, <4>2
      <4>5. tree'[p].received[k] = tree[n].received[k] /\ tree'[p].tx = tree[n].tx
        BY <1>9, <3>1, <4>1, Zenon DEF node
      <4>6. tree'[tree'[p].received[k]].tx.in = Internal(tree'[p].tx)[k]
        BY <4>3, <4>4, <4>5, Zenon
      <4>7. tree[n].received[k] \in DOMAIN tree'
        BY <1>7, <4>2, Zenon
      <4> QED BY <2>4, <4>2, <4>5, <4>6, <4>7, Zenon
    <3>3. CASE k = k0
      <4>1. new.received[k] = last /\ n < last
        BY <1>7, <1>9, <3>3, Zenon
      <4> QED BY <1>2, <1>7, <1>9, <1>12, <2>4, <3>1, <3>3, <4>1, Zenon
    <3> QED BY <1>10, <3>1, <3>2, <3>3, Zenon
  <2>5. p = last \/ p \in DOMAIN tree
    BY <1>7
  <2> QED BY <2>2, <2>3, <2>4, <2>5, Zenon
<1>15. HasParent'
  <2> SUFFICES ASSUME NEW m \in DOMAIN tree', m # 1
               PROVE  \E q \in DOMAIN tree' : \E k \in DOMAIN tree'[q].received : tree'[q].received[k] = m
    BY DEF HasParent
  <2>1. CASE m = last
    <3>1. n \in DOMAIN tree' /\ k0 \in DOMAIN tree'[n].received /\ tree'[n].received[k0] = m
      BY <1>7, <1>9, <1>10, <2>1, Zenon DEF new
    <3> QED BY <3>1, Zenon
  <2>2. CASE m \in DOMAIN tree
    <3>1. PICK q \in DOMAIN tree : \E k \in DOMAIN tree[q].received : tree[q].received[k] = m
      BY <2>2, Zenon DEF TreeInv, HasParent
    <3>2. PICK k \in DOMAIN tree[q].received : tree[q].received[k] = m
      BY <3>1
    <3>3. q \in DOMAIN tree' /\ k \in DOMAIN tree'[q].received /\ tree'[q].received[k] = m
      <4>1. CASE q # n
        BY <1>6, <1>7, <3>2, <4>1, Zenon
      <4>2. CASE q = n
        BY <1>7, <1>9, <1>10, <3>2, <4>2, Zenon DEF new, node
      <4> QED BY <4>1, <4>2
    <3> QED BY <3>3, Zenon
  <2> QED BY <1>7, <2>1, <2>2, Zenon
<1>16. ASSUME NEW m \in DOMAIN tree, tree[m].tx = tx PROVE FALSE
  <2>1. m # 1
    BY <1>13, <1>16, Zenon DEF TreeInv
  <2>2. PICK q \in DOMAIN tree : \E k \in DOMAIN tree[q].received : tree[q].received[k] = m
    BY <2>1, Zenon DEF TreeInv, HasParent
  <2>3. PICK k \in DOMAIN tree[q].received : tree[q].received[k] = m
    BY <2>2
  <2>4. tx.in = Internal(tree[q].tx)[k]
    BY <1>16, <2>3, Zenon DEF TreeInv, Linked
  <2>5. PICK c \in Account : OnLedger(c, tree[q].tx)
    BY Zenon DEF TreeInv
  <2>6. IsOf(c, tree[q].tx)
    BY <1>1, <2>5, LedgerTransaction
  <2>7. k \in DOMAIN Internal(tree[q].tx)
    <3>1. IsNode(tree[q])
      BY DEF TreeInv
    <3>2. /\ tree[q].received \in Seq(Nat) /\ tree[q].sent \in Seq(SentType)
          /\ Len(tree[q].received) + Len(tree[q].sent) = Len(Internal(tree[q].tx))
      BY <3>1 DEF IsNode, Splits, ReceivedType
    <3>3. Internal(tree[q].tx) \in Seq(Message)
      BY <2>6, InternalFacts
    <3> DEFINE x == tree[q].received
               y == tree[q].sent
               z == Internal(tree[q].tx)
    <3>4. x \in Seq(Nat) /\ y \in Seq(SentType) /\ z \in Seq(Message) /\ Len(x) + Len(y) = Len(z) /\ k \in DOMAIN x
      BY <3>2, <3>3, Zenon
    <3> HIDE DEF x, y, z
    <3>5. k \in DOMAIN z
      BY <3>4
    <3> QED BY <3>5, Zenon DEF z
  <2>8. tx.in \in Range(Internal(tree[q].tx))
    BY <2>4, <2>7, Zenon DEF Range
  <2>9. tx.in \in Range(tree[q].tx.out)
    BY <2>6, <2>8, InternalFacts
  <2>10. tree[q].tx = node.tx
    <3> DEFINE t == tree[q].tx
    <3>1. OnLedger(c, t) /\ tx.in \in Range(t.out)
      BY <2>5, <2>9, Zenon
    <3> HIDE DEF t
    <3>2. t = node.tx
      BY <1>1, <1>4, <1>13, <3>1, OneSender, Zenon
    <3> QED BY <3>2, Zenon DEF t
  <2>11. q = n
    BY <2>10, Zenon DEF TreeInv, Apart, node
  <2>12. k = k0
    <3>1. Distinct(Internal(node.tx))
      BY <1>5, InternalFacts
    <3> QED BY <1>9, <1>12, <2>4, <2>7, <2>10, <3>1, Zenon DEF Distinct
  <2> QED BY <1>10, <2>3, <2>11, <2>12, Zenon DEF node
<1>17. Apart'
  <2> SUFFICES ASSUME NEW m \in DOMAIN tree', NEW q \in DOMAIN tree', tree'[m].tx = tree'[q].tx
               PROVE  m = q
    BY DEF Apart
  <2>1. \A i, j \in DOMAIN tree : tree[i].tx = tree[j].tx => i = j
    BY DEF TreeInv, Apart
  <2>2. tree'[last].tx = tx
    BY <1>2, <1>7, Zenon
  <2>3. CASE m \in DOMAIN tree /\ q \in DOMAIN tree
    BY <1>11, <2>1, <2>3, Zenon
  <2>4. CASE m \in DOMAIN tree /\ q = last
    BY <1>11, <1>16, <2>2, <2>4, Zenon
  <2>5. CASE m = last /\ q \in DOMAIN tree
    BY <1>11, <1>16, <2>2, <2>5, Zenon
  <2> QED BY <1>7, <2>3, <2>4, <2>5, Zenon
<1>18. ASSUME NEW m \in DOMAIN tree' PROVE IsNode(tree'[m]) /\ \E c \in Account : OnLedger(c, tree'[m].tx)
  <2>1. CASE m = last
    BY <1>2, <1>7, <2>1, Zenon
  <2>2. CASE m \in DOMAIN tree
    <3>1. IsNode(tree[m]) /\ \E c \in Account : OnLedger(c, tree[m].tx)
      BY <2>2, Zenon DEF TreeInv
    <3>2. IsNode(tree'[m])
      BY <1>6, <1>9, <2>2, <3>1, Zenon DEF new
    <3> QED BY <1>11, <2>2, <3>1, <3>2, Zenon
  <2> QED BY <1>7, <2>1, <2>2, Zenon
<1>19. 1 \in DOMAIN tree' /\ ~IsInternal(tree'[1].tx.in)
  BY <1>7, <1>11, Zenon DEF TreeInv
<1>20. /\ \A t : IsNode(t)' <=> IsNode(t)
       /\ \A c, t : OnLedger(c, t)' <=> OnLedger(c, t)
  BY Zenon DEF IsNode, OnLedger
<1>21. IsInternal(tree[1].tx.in)' <=> IsInternal(tree'[1].tx.in)
  BY DEF IsInternal
<1>22. TreeInv'
  BY <1>6, <1>14, <1>15, <1>17, <1>18, <1>19, <1>20, <1>21, Zenon DEF TreeInv
<1>23. Range(new.received) = Range(node.received) \cup {last}
  <2>1. ASSUME NEW x \in Range(new.received) PROVE x \in Range(node.received) \cup {last}
    <3>1. PICK k \in DOMAIN new.received : x = new.received[k]
      BY Zenon DEF Range
    <3> QED BY <1>9, <1>10, <3>1, Zenon DEF Range
  <2>2. ASSUME NEW x \in Range(node.received) PROVE x \in Range(new.received)
    <3>1. PICK k \in DOMAIN node.received : x = node.received[k]
      BY Zenon DEF Range
    <3> QED BY <1>9, <1>10, <3>1, Zenon DEF Range
  <2>3. last \in Range(new.received)
    BY <1>9, <1>10, Zenon DEF Range
  <2> QED BY <2>1, <2>2, <2>3, Zenon
<1>24. Grown(n, tx)
  BY <1>2, <1>6, <1>7, <1>9, <1>23, Zenon DEF Grown, new, node, last
<1> QED
  BY <1>22, <1>24

\* A step that grows the chain at most, and changes no message but in its
\* action fees, keeps the tree.
LEMMA TreeStays ==
    ASSUME TreeInv, \A b \in Account : \A t : OnLedger(b, t) => OnLedger(b, t)',
           tree' \in Seq(ReceivedType), DOMAIN tree' = DOMAIN tree,
           \A m \in DOMAIN tree : /\ IsNode(tree'[m]) /\ tree'[m].tx = tree[m].tx
                                  /\ tree'[m].received = tree[m].received
    PROVE  TreeInv'
<1>1. \A t : IsNode(t)' <=> IsNode(t)
  BY Zenon DEF IsNode
<1>2. \A m \in DOMAIN tree' : \E a \in Account : \E i \in DOMAIN txs'[a] : tree'[m].tx = txs'[a][i]
  <2> SUFFICES ASSUME NEW m \in DOMAIN tree
               PROVE  \E a \in Account : \E i \in DOMAIN txs'[a] : tree'[m].tx = txs'[a][i]
    BY Zenon
  <2>1. PICK a \in Account : OnLedger(a, tree[m].tx)
    BY Zenon DEF TreeInv
  <2>2. PICK t : t = tree[m].tx
    BY Zenon
  <2>3. OnLedger(a, t)'
    BY <2>1, <2>2, Zenon
  <2>4. \E i \in DOMAIN txs'[a] : t = txs'[a][i]
    BY <2>3, Zenon DEF OnLedger
  <2>5. t = tree'[m].tx
    BY <2>2, Zenon
  <2> QED BY <2>4, <2>5, Zenon
<1>3. 1 \in DOMAIN tree' /\ ~IsInternal(tree'[1].tx.in)
  BY Zenon DEF TreeInv
<1>4. Linked'
  <2> SUFFICES ASSUME NEW n \in DOMAIN tree', NEW k \in DOMAIN tree'[n].received
               PROVE  /\ tree'[n].received[k] \in DOMAIN tree'
                      /\ n < tree'[n].received[k]
                      /\ tree'[tree'[n].received[k]].tx.in = Internal(tree'[n].tx)[k]
    BY Zenon DEF Linked, Internal, IsInternal
  <2>0. n \in DOMAIN tree /\ tree'[n].received = tree[n].received /\ tree'[n].tx = tree[n].tx
    BY Zenon
  <2>1. /\ tree[n].received[k] \in DOMAIN tree /\ n < tree[n].received[k]
        /\ tree[tree[n].received[k]].tx.in = Internal(tree[n].tx)[k]
    BY <2>0, Zenon DEF TreeInv, Linked
  <2>2. tree'[tree[n].received[k]].tx = tree[tree[n].received[k]].tx
    BY <2>1
  <2>3. tree'[tree'[n].received[k]].tx.in = Internal(tree'[n].tx)[k]
    BY <2>0, <2>1, <2>2, Zenon
  <2> QED BY <2>0, <2>1, <2>3, Zenon
<1>5. HasParent'
  <2> SUFFICES ASSUME NEW m \in DOMAIN tree, m # 1
               PROVE  \E n \in DOMAIN tree : \E k \in DOMAIN tree'[n].received : tree'[n].received[k] = m
    BY Zenon DEF HasParent
  <2>1. PICK n \in DOMAIN tree : \E k \in DOMAIN tree[n].received : tree[n].received[k] = m
    BY Zenon DEF TreeInv, HasParent
  <2>2. tree'[n].received = tree[n].received
    BY Zenon
  <2> QED BY <2>1, <2>2, Zenon
<1>6. Apart'
  BY Zenon DEF TreeInv, Apart
<1>7. IsInternal(tree[1].tx.in)' <=> IsInternal(tree'[1].tx.in)
  BY Zenon DEF IsInternal
<1> QED
  BY <1>1, <1>2, <1>3, <1>4, <1>5, <1>6, <1>7, Zenon DEF TreeInv, OnLedger

\* The amounts and the forward fees of the messages received and of those only
\* sent add up to what the transaction sent.
LEMMA FeesAddUp ==
    ASSUME LedgerInv, TreeInv, NEW n \in DOMAIN tree, Counts(tree[n])
    PROVE  /\ ActionFees(tree[n].tx) \in Nat /\ ForwardFees(tree[n].tx) \in Nat
           /\ TotalActionPhaseFees(n) = tree[n].TotalActionFees + ForwardFees(tree[n].tx)
           /\ NetCreditResult(n) - tree[n].StorageFeeCharged - TotalTransactionExecutionFee(n)
                  = BalanceChange(tree[n].tx) - tree[n].readings * ForwardFees(tree[n].tx)
<1> DEFINE node == tree[n]
           out == Internal(node.tx)
           received == node.received
           sent == node.sent
           ra == [k \in DOMAIN received |-> tree[received[k]].Amount]
           rf == [k \in DOMAIN received |-> tree[received[k]].FwdFee]
           sa == [i \in DOMAIN sent |-> sent[i].Amount]
           sf == [i \in DOMAIN sent |-> sent[i].FwdFee]
           oa == [i \in DOMAIN out |-> Amount(out[i])]
           of == [i \in DOMAIN out |-> FwdFee(out[i])]
<1>1. IsNode(node) /\ node \in ReceivedType
  BY DEF TreeInv, IsNode
<1>2. PICK a \in Account : OnLedger(a, node.tx)
  BY DEF TreeInv
<1>3. IsOf(a, node.tx)
  <2> HIDE DEF node
  <2> QED BY <1>2, LedgerTransaction DEF LedgerInv
<1>4. out \in Seq(Message) /\ Range(out) = {msg \in Range(node.tx.out) : IsInternal(msg)}
  <2> HIDE DEF node
  <2> QED BY <1>3, InternalFacts
<1>5. received \in Seq(Nat) /\ sent \in Seq(SentType)
  <2> HIDE DEF node
  <2> QED BY <1>1 DEF ReceivedType
<1>6. /\ Len(received) + Len(sent) = Len(out)
      /\ \A i \in DOMAIN sent : sent[i] = NewSentMessage(out[Len(received) + i])
  BY <1>1, Zenon DEF IsNode, Splits
<1>7. ASSUME NEW k \in DOMAIN received
      PROVE  received[k] \in DOMAIN tree /\ tree[received[k]].tx.in = out[k]
  BY Zenon DEF TreeInv, Linked
<1>8. \A m \in DOMAIN tree : Reports(tree[m])
  BY Zenon DEF TreeInv, IsNode
<1> HIDE DEF node, out, received, sent
<1>9. /\ Len(received) \in Nat /\ Len(sent) \in Nat /\ Len(out) \in Nat
      /\ DOMAIN received = 1 .. Len(received) /\ DOMAIN sent = 1 .. Len(sent) /\ DOMAIN out = 1 .. Len(out)
  BY <1>4, <1>5
<1>10. /\ \A k \in DOMAIN received : k \in DOMAIN out
       /\ \A i \in DOMAIN sent : Len(received) + i \in DOMAIN out
  BY <1>6, <1>9
<1>11. ASSUME NEW i \in DOMAIN out
       PROVE  IsInternal(out[i]) /\ Amount(out[i]) \in Nat /\ FwdFee(out[i]) \in Nat
  <2>1. out[i] \in Message /\ out[i] \in Range(out)
    BY <1>4 DEF Range
  <2> QED BY <1>4, <2>1, AmountTypes, Zenon
<1>12. ASSUME NEW k \in DOMAIN received
       PROVE  tree[received[k]].Amount = Amount(out[k]) /\ tree[received[k]].FwdFee = FwdFee(out[k])
  <2>1. Reports(tree[received[k]]) /\ tree[received[k]].tx.in = out[k] /\ IsInternal(out[k])
    BY <1>7, <1>8, <1>10, <1>11, Zenon
  <2> QED BY <2>1, Zenon DEF Reports
<1>13. ASSUME NEW i \in DOMAIN sent
       PROVE  sent[i].Amount = Amount(out[Len(received) + i]) /\ sent[i].FwdFee = FwdFee(out[Len(received) + i])
  <2>1. sent[i] = NewSentMessage(out[Len(received) + i])
    BY <1>6
  <2> QED BY <2>1 DEF NewSentMessage
<1>14. /\ ra \in Seq(Nat) /\ Len(ra) = Len(received) /\ \A k \in 1 .. Len(received) : ra[k] = Amount(out[k])
  BY <1>9, <1>10, <1>11, <1>12
<1>15. /\ rf \in Seq(Nat) /\ Len(rf) = Len(received) /\ \A k \in 1 .. Len(received) : rf[k] = FwdFee(out[k])
  BY <1>9, <1>10, <1>11, <1>12
<1>16. /\ sa \in Seq(Nat) /\ Len(sa) = Len(sent) /\ \A i \in 1 .. Len(sent) : sa[i] = Amount(out[Len(received) + i])
  BY <1>9, <1>10, <1>11, <1>13
<1>17. /\ sf \in Seq(Nat) /\ Len(sf) = Len(sent) /\ \A i \in 1 .. Len(sent) : sf[i] = FwdFee(out[Len(received) + i])
  BY <1>9, <1>10, <1>11, <1>13
<1>18. /\ oa \in Seq(Nat) /\ Len(oa) = Len(out) /\ \A i \in 1 .. Len(out) : oa[i] = Amount(out[i])
       /\ of \in Seq(Nat) /\ Len(of) = Len(out) /\ \A i \in 1 .. Len(out) : of[i] = FwdFee(out[i])
  BY <1>9, <1>11
<1>20. \A k \in 1 .. Len(received) : k \in 1 .. Len(out)
  BY <1>6, <1>9
<1>21. \A i \in 1 .. Len(sent) : Len(received) + i \in 1 .. Len(out)
  BY <1>6, <1>9
<1> DEFINE A == node.Amount
           S == node.StorageFeeCharged
<1>22. /\ OutgoingAmount(n) = Total(sa) + Total(ra)
       /\ TotalActionPhaseFees(n) = node.TotalActionFees + Total(sf) + Total(rf)
       /\ BalanceChange(node.tx)
              = (IF IsInternal(node.tx.in) THEN Amount(node.tx.in) ELSE 0)
                    - Total(oa) - ForwardFees(node.tx) - TotalFees(node.tx)
       /\ ForwardFees(node.tx) = Total(of)
  BY Zenon DEF OutgoingAmount, TotalActionPhaseFees, BalanceChange, ForwardFees, SumOf, node, sent, received, out
<1> HIDE DEF ra, rf, sa, sf, oa, of
<1>23. Total(oa) = Total(ra) + Total(sa)
  <2>1. Len(oa) = Len(ra) + Len(sa)
    BY <1>6, <1>14, <1>16, <1>18, Zenon
  <2>2. \A i \in 1 .. Len(ra) : oa[i] = ra[i]
    BY <1>14, <1>18, <1>20, Zenon
  <2>3. \A i \in 1 .. Len(sa) : oa[Len(ra) + i] = sa[i]
    BY <1>14, <1>16, <1>18, <1>21, Zenon
  <2>4. ra \in Seq(Nat) /\ sa \in Seq(Nat) /\ oa \in Seq(Nat)
    BY <1>14, <1>16, <1>18, Zenon
  <2> QED
    BY <2>1, <2>2, <2>3, <2>4, TotalOfParts, Zenon
<1>24. Total(of) = Total(rf) + Total(sf)
  <2>1. Len(of) = Len(rf) + Len(sf)
    BY <1>6, <1>15, <1>17, <1>18, Zenon
  <2>2. \A i \in 1 .. Len(rf) : of[i] = rf[i]
    BY <1>15, <1>18, <1>20, Zenon
  <2>3. \A i \in 1 .. Len(sf) : of[Len(rf) + i] = sf[i]
    BY <1>15, <1>17, <1>18, <1>21, Zenon
  <2>4. rf \in Seq(Nat) /\ sf \in Seq(Nat) /\ of \in Seq(Nat)
    BY <1>15, <1>17, <1>18
  <2> QED
    BY <2>1, <2>2, <2>3, <2>4, TotalOfParts, Zenon
<1>26. /\ Total(ra) \in Nat /\ Total(rf) \in Nat /\ Total(sa) \in Nat /\ Total(sf) \in Nat
  BY <1>14, <1>15, <1>16, <1>17, TotalType, Zenon
<1> DEFINE I == node.ImportFee
           G == node.GasFee
           F == node.MagicFee
           C == ActionFees(node.tx)
           T == TotalFees(node.tx)
           B == BalanceChange(node.tx)
           W == ForwardFees(node.tx)
           added == node.readings * W
<1>27. /\ A \in Nat /\ S \in Nat /\ I \in Nat /\ G \in Nat /\ F \in Int /\ node.readings \in Nat
  BY <1>1 DEF ReceivedType
<1>28. C \in Nat /\ T \in Nat /\ W \in Nat
  BY <1>3, FeeTypes, ForwardFeesType, Zenon
<1>29. A = (IF IsInternal(node.tx.in) THEN Amount(node.tx.in) ELSE 0) /\ I + G + S + C + F = T
  BY <1>1, Zenon DEF IsNode, Reports
<1>30. node.TotalActionFees = C + added
  BY Zenon DEF node, Counts
<1>31. NetCreditResult(n) = A - OutgoingAmount(n)
  BY Zenon DEF NetCreditResult, node
<1>32. TotalTransactionExecutionFee(n) = I + G + TotalActionPhaseFees(n) + F
  BY Zenon DEF TotalTransactionExecutionFee, node
<1>33. B = A - Total(oa) - W - T
  BY <1>22, <1>29, Zenon
<1>34. TotalActionPhaseFees(n) = node.TotalActionFees + Total(sf) + Total(rf)
  BY <1>22, Zenon
<1>35. OutgoingAmount(n) = Total(sa) + Total(ra)
  BY <1>22, Zenon
<1>36. W = Total(rf) + Total(sf) /\ Total(oa) = Total(ra) + Total(sa)
  BY <1>22, <1>23, <1>24, Zenon
<1>37. added \in Nat
  <2> HIDE DEF W
  <2> QED BY <1>27, <1>28, OneReading, Zenon
<1> HIDE DEF A, S, I, G, F, C, T, B, W, added
<1> DEFINE tra == Total(ra)
           tsa == Total(sa)
           trf == Total(rf)
           tsf == Total(sf)
<1> HIDE DEF tra, tsa, trf, tsf
<1>38. /\ (C + added) + tsf + trf = (C + added) + (trf + tsf)
       /\ (A - (tsa + tra)) - S - (I + G + ((C + added) + (trf + tsf)) + F)
              = (A - (tra + tsa) - (trf + tsf) - (I + G + S + C + F)) - added
  <2>1. tra \in Nat /\ tsa \in Nat /\ trf \in Nat /\ tsf \in Nat
    BY <1>26, Zenon DEF tra, tsa, trf, tsf
  <2>2. A \in Nat /\ S \in Nat /\ I \in Nat /\ G \in Nat /\ F \in Int /\ C \in Nat
    BY <1>27, <1>28, Zenon
  <2> QED BY <1>37, <2>1, <2>2, SMTT(30)
<1>39. TotalActionPhaseFees(n) = node.TotalActionFees + W
  BY <1>30, <1>34, <1>36, <1>38, Zenon DEF trf, tsf
<1>40. NetCreditResult(n) - S - TotalTransactionExecutionFee(n) = B - added
  <2>1. NetCreditResult(n) = A - (tsa + tra)
    BY <1>31, <1>35, Zenon DEF tsa, tra
  <2>2. TotalTransactionExecutionFee(n) = I + G + ((C + added) + (trf + tsf)) + F
    BY <1>30, <1>32, <1>36, <1>39, Zenon DEF trf, tsf
  <2>3. B = A - (tra + tsa) - (trf + tsf) - (I + G + S + C + F)
    BY <1>29, <1>33, <1>36, Zenon DEF tra, tsa, trf, tsf
  <2> QED BY <1>38, <2>1, <2>2, <2>3, Zenon
<1> QED
  BY <1>28, <1>39, <1>40, Zenon DEF S, B, C, W, added, node

-----------------------------------------------------------------------------
(* The steps. *)

\* The sequences of no and of one element.
LEMMA ShortSequences == ASSUME NEW S, NEW x \in S PROVE << >> \in Seq(S) /\ <<x>> \in Seq(S)
OBVIOUS

\* The tracker leaves the chain alone.
LEMMA LedgerStays ==
    ASSUME LedgerInv, txs' = txs, pending' = pending
    PROVE  LedgerInv'
<1>1. \A a, t : OnLedger(a, t)' <=> OnLedger(a, t)
  BY Zenon DEF OnLedger
<1>2. \A msg : WasSent(msg)' <=> WasSent(msg)
  BY <1>1, Zenon DEF WasSent
<1>3. \A msg : IsInternal(msg)' <=> IsInternal(msg)
  BY Zenon DEF IsInternal
<1>4. AccountsInOrder'
  <2>1. \A a, t : IsOf(a, t)' <=> IsOf(a, t)
    BY Zenon DEF IsOf, TransactionType, Message, Address
  <2>2. \A s : InOrder(s)' <=> InOrder(s)
    BY Zenon DEF InOrder
  <2> QED BY <2>1, <2>2, Zenon DEF LedgerInv, AccountsInOrder, TransactionType, Message, Address
<1> QED
  BY <1>1, <1>2, <1>3, <1>4, Zenon DEF LedgerInv

\* A step of neither the chain nor the tree keeps the tree.
LEMMA TreeUnchanged ==
    ASSUME TreeInv, txs' = txs, tree' = tree
    PROVE  TreeInv'
<1>1. \A b \in Account : \A t : OnLedger(b, t) => OnLedger(b, t)'
  BY Zenon DEF OnLedger
<1>2. /\ tree' \in Seq(ReceivedType) /\ DOMAIN tree' = DOMAIN tree
      /\ \A m \in DOMAIN tree : IsNode(tree'[m]) /\ tree'[m].tx = tree[m].tx /\ tree'[m].received = tree[m].received
  BY Zenon DEF TreeInv
<1> QED
  BY <1>1, <1>2, TreeStays

\* Execute appends a transaction for a message in flight.
LEMMA ExecuteStep ==
    ASSUME IInv, NEW msg \in pending, Execute(msg)
    PROVE  IInv'
<1>1. AccountsInOrder /\ LedgerInv /\ IsInternal(msg) /\ WasSent(msg)
  BY Zenon DEF IInv, LedgerInv
<1>2. PICK a \in Account : \E tx : OnLedger(a, tx) /\ msg \in Range(tx.out)
  BY <1>1, Zenon DEF WasSent
<1>3. PICK sender : OnLedger(a, sender) /\ msg \in Range(sender.out)
  BY <1>2
<1>4. IsOf(a, sender)
  BY <1>1, <1>3, LedgerTransaction
<1>5. PICK j \in DOMAIN sender.out : msg = sender.out[j]
  BY <1>3 DEF Range
<1>6. sender.out \in Seq(Message) /\ msg.SrcAddr = a
  BY <1>4, <1>5 DEF IsOf, TransactionType
<1>7. msg \in Message
  BY <1>5, <1>6
<1>8. msg.DstAddr \in Account /\ msg.CreatedLT \in Nat /\ msg.SrcAddr \in Address
  BY <1>1, <1>7 DEF Message, Address, IsInternal
<1> DEFINE account == msg.DstAddr
           lt == Later(LastLT(account), msg.CreatedLT) + 1
           new(phase, aborted, dests) ==
               Transaction(lt, msg, phase, aborted, Outgoing(account, Last(account) + 1, lt, dests))
<1>9. PICK phase \in ExitCodes \cup {Skipped}, aborted \in BOOLEAN :
         \E dests \in IF aborted THEN {<< >>, <<msg.SrcAddr>>} ELSE Dests :
            /\ phase # 0 => aborted
            /\ txs' = [txs EXCEPT ![account] = Append(@, new(phase, aborted, dests))]
            /\ pending' = (pending \ {msg}) \cup Range(Internal(new(phase, aborted, dests)))
  BY Zenon DEF Execute
<1>10. PICK dests \in IF aborted THEN {<< >>, <<msg.SrcAddr>>} ELSE Dests :
            /\ phase # 0 => aborted
            /\ txs' = [txs EXCEPT ![account] = Append(@, new(phase, aborted, dests))]
            /\ pending' = (pending \ {msg}) \cup Range(Internal(new(phase, aborted, dests)))
  BY <1>9, Zenon
<1>11. dests \in Seq(Address)
  <2>1. CASE aborted
    <3>1. dests = << >> \/ dests = <<msg.SrcAddr>>
      BY <2>1, Zenon
    <3> QED BY <1>8, <3>1, ShortSequences, Zenon
  <2>2. CASE ~aborted
    BY <2>2, DestAssumption DEF Address
  <2> QED BY <2>1, <2>2
<1>12. LastLT(account) \in Nat
  BY <1>1, <1>8, LastLTFacts
<1>13. lt \in Nat /\ LastLT(account) < lt
  BY <1>8, <1>12 DEF Later
<1>14. Last(account) + 1 \in Nat
  <2>1. txs[account] \in Seq(TransactionType)
    BY <1>1, <1>8, Zenon DEF AccountsInOrder
  <2> QED BY <2>1 DEF Last
<1> DEFINE tx == new(phase, aborted, dests)
<1>15. IsOf(account, tx) /\ tx.in = msg /\ tx.LT = lt
  <2> HIDE DEF account, lt
  <2>1. account \in Account
    BY <1>8 DEF account
  <2>2. lt \in Nat /\ Last(account) + 1 \in Nat
    BY <1>13, <1>14 DEF account, lt
  <2>3. AbortedAfter(phase, aborted)
    BY <1>10, Zenon DEF AbortedAfter
  <2> QED BY <1>7, <1>11, <2>1, <2>2, <2>3, NewTransaction
<1> HIDE DEF tx, lt
<1>16. LastLT(account) < tx.LT
  BY <1>13, <1>15, Zenon
<1>17. IsInternal(tx.in) => WasSent(tx.in)
  BY <1>1, <1>15, Zenon
<1>18. txs' = [txs EXCEPT ![account] = Append(@, tx)]
  BY <1>10, Zenon DEF tx
<1>19. pending' \subseteq pending \cup Range(Internal(tx))
  BY <1>10, Zenon DEF tx
<1>20. account \in Account
  BY <1>8, Zenon DEF account
<1> HIDE DEF account
<1>21. LedgerInv' /\ \A b \in Account : \A t : OnLedger(b, t) => OnLedger(b, t)'
  BY <1>1, <1>15, <1>16, <1>17, <1>18, <1>19, <1>20, AppendTransaction, Zenon
<1>22. UNCHANGED <<tree, queue, done>>
  BY DEF Execute
<1>23. TreeInv
  BY DEF IInv
<1>24. /\ tree' \in Seq(ReceivedType) /\ DOMAIN tree' = DOMAIN tree
       /\ \A m \in DOMAIN tree : IsNode(tree'[m]) /\ tree'[m].tx = tree[m].tx /\ tree'[m].received = tree[m].received
  BY <1>22, <1>23, Zenon DEF TreeInv
<1>25. TreeInv'
  BY <1>21, <1>23, <1>24, TreeStays
<1>26. QueueInv'
  BY <1>22, Zenon DEF IInv, QueueInv, Waiting
<1>27. FeesInv'
  BY <1>22, Zenon DEF IInv, FeesInv
<1> QED
  BY <1>21, <1>25, <1>26, <1>27, Zenon DEF IInv

\* One message is received.
LEMMA WaitStep ==
    ASSUME IInv, WaitForOutgoingMessage
    PROVE  IInv'
<1>1. /\ LedgerInv /\ TreeInv /\ AccountsInOrder /\ queue \in Seq(DOMAIN tree) /\ queue # << >> /\ ~done
      /\ Waiting /\ UNCHANGED <<txs, pending, queue, done>>
  BY Zenon DEF IInv, LedgerInv, QueueInv, WaitForOutgoingMessage, ledger
<1> DEFINE n == Head(queue)
           account == Head(tree[n].sent).InternalMsg.DstAddr
<1>2. n \in DOMAIN tree /\ n \in Range(queue)
  <2> DEFINE D == DOMAIN tree
  <2>1. queue \in Seq(D) /\ queue # << >>
    BY <1>1
  <2> HIDE DEF D
  <2>2. Head(queue) \in D /\ Head(queue) \in Range(queue)
    BY <2>1, HeadAndTail
  <2> QED BY <2>2, Zenon DEF D
<1>3. tree[n].sent # << >>
  BY Zenon DEF WaitForOutgoingMessage, Status
<1>4. PICK i \in DOMAIN txs[account] :
          /\ IsReceivedBy(Head(tree[n].sent), txs[account][i])
          /\ tree' = Received(n, MapToReceivedMessage(txs[account][i]))
  BY Zenon DEF WaitForOutgoingMessage, SubscribeToTransactions
<1> HIDE DEF n
<1>5. IsNode(tree[n])
  BY <1>1, <1>2, Zenon DEF TreeInv
<1>6. PICK a \in Account : OnLedger(a, tree[n].tx)
  BY <1>1, <1>2, Zenon DEF TreeInv
<1> DEFINE node == tree[n]
           out == Internal(node.tx)
           k == Len(node.received) + 1
<1>7. IsOf(a, node.tx)
  <2> HIDE DEF node
  <2>1. OnLedger(a, node.tx)
    BY <1>6 DEF node
  <2> QED BY <1>1, <2>1, LedgerTransaction
<1>8. k \in DOMAIN out /\ Head(node.sent) = NewSentMessage(out[k])
  <2> DEFINE new == [node EXCEPT !.sent = Tail(@), !.received = Append(@, 1)]
  <2>1. IsNode(node) /\ node.sent # << >>
    BY <1>3, <1>5
  <2> HIDE DEF node, new
  <2>2. MovedInto(node, 1, new)
    BY <1>7, <2>1, MovedFirst, Zenon DEF new
  <2> QED BY <2>2, Zenon DEF MovedInto
<1> HIDE DEF node, out, k
<1>9. out[k] \in Range(out)
  BY <1>8, Zenon DEF Range
<1>10. IsInternal(out[k]) /\ out \in Seq(Message)
  <2>1. Range(out) = {msg \in Range(node.tx.out) : IsInternal(msg)} /\ out \in Seq(Message)
    BY <1>7, InternalFacts DEF out
  <2> QED BY <1>9, <2>1, Zenon
<1>11. account = out[k].DstAddr
  <2>1. NewSentMessage(out[k]).InternalMsg = out[k]
    BY DEF NewSentMessage
  <2> QED BY <1>8, <2>1, Zenon DEF node
<1>12. account \in Account
  <2>1. out[k] \in Message
    BY <1>8, <1>10
  <2> QED BY <1>10, <1>11, <2>1 DEF Message, Address, IsInternal
<1> DEFINE tx == txs[account][i]
<1>13. OnLedger(account, tx)
  BY Zenon DEF OnLedger
<1>14. IsReceivedBy(NewSentMessage(out[k]), tx)
  BY <1>4, <1>8, Zenon DEF node
<1>15. tree' = Received(n, MapToReceivedMessage(tx))
  BY <1>4, Zenon
<1> HIDE DEF account, tx
<1>16. tx.in = out[k]
  BY <1>1, <1>6, <1>9, <1>12, <1>13, <1>14, MatchIsOwn, Zenon DEF node, out
<1>17. TreeInv' /\ Grown(n, tx)
  BY <1>1, <1>2, <1>3, <1>12, <1>13, <1>15, <1>16, ReceiveKeepsTree, Zenon DEF node, out, k
<1>18. LedgerInv'
  BY <1>1, LedgerStays, Zenon
<1>19. QueueInv'
  <2>1. DOMAIN tree \subseteq DOMAIN tree'
    BY <1>17, Zenon DEF Grown
  <2>2. queue' \in Seq(DOMAIN tree')
    <3> DEFINE D == DOMAIN tree
               E == DOMAIN tree'
    <3>1. queue' \in Seq(D) /\ D \subseteq E
      BY <1>1, <2>1, Zenon
    <3> HIDE DEF D, E
    <3>2. queue' \in Seq(E)
      BY <3>1
    <3> QED BY <3>2, Zenon DEF E
  <2>3. ASSUME NEW m \in DOMAIN tree', tree'[m].sent # << >>
        PROVE  \E q \in Range(queue) : m = q \/ m \in Range(tree'[q].received)
    <3>1. CASE m = Len(tree) + 1
      BY <1>2, <1>17, <3>1, Zenon DEF Grown
    <3>2. CASE m = n
      BY <1>2, <3>2, Zenon
    <3>3. CASE m # Len(tree) + 1 /\ m # n
      <4>1. m \in DOMAIN tree /\ tree[m].sent # << >>
        BY <1>17, <2>3, <3>3, Zenon DEF Grown
      <4>2. PICK q \in Range(queue) : m = q \/ m \in Range(tree[q].received)
        BY <1>1, <4>1, Zenon DEF Waiting
      <4>3. q \in DOMAIN tree
        <5> DEFINE D == DOMAIN tree
        <5>1. queue \in Seq(D) /\ q \in Range(queue)
          BY <1>1, <4>2, Zenon
        <5> HIDE DEF D
        <5>2. q \in D
          BY <5>1 DEF Range
        <5> QED BY <5>2, Zenon DEF D
      <4>4. m \in Range(tree[q].received) => m \in Range(tree'[q].received)
        BY <1>17, <4>3, Zenon DEF Grown
      <4> QED BY <4>2, <4>4, Zenon
    <3> QED BY <3>1, <3>2, <3>3, Zenon
  <2> QED BY <1>1, <2>2, <2>3, Zenon DEF IInv, QueueInv, Waiting
<1>20. FeesInv'
  <2>1. \A l \in DOMAIN tree : Counts(tree[l])
    BY Zenon DEF IInv, FeesInv
  <2>2. \A m \in DOMAIN tree' : Counts(tree'[m])
    BY <1>2, <1>17, <2>1, Zenon DEF Grown
  <2> QED BY <2>2, Zenon DEF FeesInv, Counts, ActionFees, ForwardFees, SumOf, Internal, IsInternal, FwdFee
<1> QED
  BY <1>17, <1>18, <1>19, <1>20, Zenon DEF IInv

\* The messages of a transaction are received, and those they caused are next.
LEMMA CascadeStep ==
    ASSUME IInv, Cascade
    PROVE  IInv'
<1> DEFINE n == Head(queue)
           D == DOMAIN tree
<1>1. /\ UNCHANGED <<txs, pending, tree, done>> /\ ~done /\ queue # << >>
      /\ queue' = Tail(queue) \o tree[n].received /\ Status(tree[n]) = "Finalized"
  BY Zenon DEF Cascade, Cascaded, ledger
<1>2. LedgerInv /\ TreeInv /\ queue \in Seq(D) /\ Waiting
  BY Zenon DEF IInv, QueueInv
<1>3. tree[n].sent = << >>
  BY <1>1 DEF Status
<1>4. n \in D /\ Tail(queue) \in Seq(D) /\ Range(queue) = {n} \cup Range(Tail(queue))
  <2> HIDE DEF D
  <2> QED BY <1>1, <1>2, HeadAndTail
<1> HIDE DEF n
<1>5. tree[n].received \in Seq(D)
  <2> DEFINE received == tree[n].received
  <2>1. received \in Seq(Nat)
    BY <1>2, <1>4, Zenon DEF TreeInv, IsNode, ReceivedType
  <2>2. \A k \in DOMAIN received : received[k] \in D
    BY <1>2, <1>4, Zenon DEF TreeInv, Linked
  <2> HIDE DEF received, D
  <2>3. received \in Seq(D)
    BY <2>1, <2>2
  <2> QED BY <2>3, Zenon DEF received
<1>6. queue' \in Seq(D) /\ Range(queue') = Range(Tail(queue)) \cup Range(tree[n].received)
  <2> DEFINE received == tree[n].received
             rest == Tail(queue)
  <2>1. received \in Seq(D) /\ rest \in Seq(D) /\ queue' = rest \o received
    BY <1>1, <1>4, <1>5, Zenon
  <2> HIDE DEF received, rest, D
  <2>2. queue' \in Seq(D) /\ Range(queue') = Range(rest) \cup Range(received)
    BY <2>1, ConcatElements
  <2> QED BY <2>2, Zenon DEF received, rest
<1>7. QueueInv'
  <2>1. ASSUME NEW m \in D, tree[m].sent # << >>
        PROVE  \E q \in Range(queue') : m = q \/ m \in Range(tree[q].received)
    <3>1. PICK q \in Range(queue) : m = q \/ m \in Range(tree[q].received)
      BY <1>2, <2>1, Zenon DEF Waiting
    <3> QED BY <1>3, <1>4, <1>6, <2>1, <3>1, Zenon
  <2>2. done' = FALSE
    BY <1>1, Zenon DEF IInv, QueueInv
  <2> QED BY <1>1, <1>6, <2>1, <2>2, Zenon DEF QueueInv, Waiting
<1>8. LedgerInv'
  BY <1>1, <1>2, LedgerStays, Zenon
<1>9. TreeInv'
  BY <1>1, <1>2, TreeUnchanged, Zenon
<1>10. FeesInv'
  BY <1>1, Zenon DEF IInv, FeesInv
<1> QED
  BY <1>7, <1>8, <1>9, <1>10, Zenon DEF IInv

\* The trace is complete.
LEMMA ReturnStep ==
    ASSUME IInv, Return
    PROVE  IInv'
<1>1. UNCHANGED <<txs, pending, tree, queue>> /\ done' = TRUE /\ queue = << >>
  BY Zenon DEF Return, ledger
<1>2. LedgerInv'
  BY <1>1, LedgerStays, Zenon DEF IInv
<1>3. TreeInv'
  BY <1>1, TreeUnchanged, Zenon DEF IInv
<1>4. QueueInv'
  BY <1>1, Zenon DEF IInv, QueueInv, Waiting
<1>5. FeesInv'
  BY <1>1, Zenon DEF IInv, FeesInv
<1> QED
  BY <1>2, <1>3, <1>4, <1>5, Zenon DEF IInv

\* The fees of a message are read.
LEMMA ReadFeesStep ==
    ASSUME IInv, NEW n \in DOMAIN tree, ReadFees(n)
    PROVE  IInv'
<1> DEFINE fees == TotalActionPhaseFees(n)
           more == tree[n].readings + 1
           new == [tree[n] EXCEPT !.TotalActionFees = fees, !.readings = more]
           C == ActionFees(tree[n].tx)
           W == ForwardFees(tree[n].tx)
<1>1. LedgerInv /\ TreeInv /\ QueueInv /\ Counts(tree[n])
  BY Zenon DEF IInv, FeesInv
<1>2. fees \in Nat /\ more \in Nat /\ fees = C + more * W
  <2> DEFINE r == tree[n].readings
  <2>1. C \in Nat /\ W \in Nat /\ fees = tree[n].TotalActionFees + W
    BY <1>1, FeesAddUp, Zenon
  <2>2. r \in Nat /\ tree[n].TotalActionFees \in Nat
    BY <1>1, Zenon DEF TreeInv, IsNode, ReceivedType
  <2>3. tree[n].TotalActionFees = C + r * W
    BY <1>1, Zenon DEF Counts
  <2>4. (C + r * W) + W = C + (r + 1) * W /\ r + 1 \in Nat
    <3> HIDE DEF C, W, r
    <3> QED BY <2>1, <2>2, OneReading, Zenon
  <2>5. tree[n].TotalActionFees + W \in Nat
    BY <2>1, <2>2
  <2> QED BY <2>1, <2>3, <2>4, <2>5, Zenon
<1>3. tree' = [tree EXCEPT ![n] = new] /\ UNCHANGED <<txs, pending, queue, done>>
  BY Zenon DEF ReadFees, ledger
<1>4. tree \in Seq(ReceivedType) /\ IsNode(tree[n]) /\ tree[n] \in ReceivedType
  BY <1>1, Zenon DEF TreeInv, IsNode
<1>5. /\ new \in ReceivedType /\ new.tx = tree[n].tx /\ new.received = tree[n].received /\ new.sent = tree[n].sent
      /\ new.StorageFeeCharged = tree[n].StorageFeeCharged /\ new.TotalActionFees = fees /\ new.readings = more
  <2> HIDE DEF fees, more
  <2> QED BY <1>2, <1>4, Zenon DEF ReceivedType
<1>6. Reports(new) /\ Splits(new)
  <2>1. /\ new.Success = tree[n].Success /\ new.ExitCode = tree[n].ExitCode /\ new.Amount = tree[n].Amount
        /\ new.FwdFee = tree[n].FwdFee /\ new.ImportFee = tree[n].ImportFee /\ new.GasFee = tree[n].GasFee
        /\ new.MagicFee = tree[n].MagicFee
    <3> HIDE DEF fees, more
    <3> QED BY <1>4 DEF ReceivedType
  <2> HIDE DEF new
  <2> QED BY <1>4, <1>5, <2>1, Zenon DEF IsNode, Reports, Splits
<1> HIDE DEF fees, more, new
<1>7. /\ tree' \in Seq(ReceivedType) /\ DOMAIN tree' = DOMAIN tree /\ tree'[n] = new
      /\ \A m \in DOMAIN tree : m # n => tree'[m] = tree[m]
  BY <1>3, <1>4, <1>5
<1>8. \A m \in DOMAIN tree : /\ IsNode(tree'[m]) /\ tree'[m].tx = tree[m].tx
                             /\ tree'[m].received = tree[m].received /\ tree'[m].sent = tree[m].sent
  BY <1>1, <1>5, <1>6, <1>7, Zenon DEF TreeInv, IsNode
<1>9. TreeInv'
  <2>1. \A b \in Account : \A t : OnLedger(b, t) => OnLedger(b, t)'
    BY <1>3, Zenon DEF OnLedger
  <2> QED BY <1>1, <1>7, <1>8, <2>1, TreeStays, Zenon
<1>10. LedgerInv'
  BY <1>1, <1>3, LedgerStays, Zenon
<1>11. QueueInv'
  <2>1. ASSUME NEW m \in DOMAIN tree', tree'[m].sent # << >>
        PROVE  \E q \in Range(queue) : m = q \/ m \in Range(tree'[q].received)
    <3>1. PICK q \in Range(queue) : m = q \/ m \in Range(tree[q].received)
      BY <1>1, <1>7, <1>8, <2>1, Zenon DEF QueueInv, Waiting
    <3>2. q \in DOMAIN tree
      <4> DEFINE D == DOMAIN tree
      <4>1. queue \in Seq(D)
        BY <1>1, Zenon DEF QueueInv
      <4> HIDE DEF D
      <4>2. q \in D
        BY <3>1, <4>1 DEF Range
      <4> QED BY <4>2, Zenon DEF D
    <3> QED BY <1>8, <3>1, <3>2, Zenon
  <2> QED BY <1>1, <1>3, <1>7, <2>1, Zenon DEF QueueInv, Waiting
<1>12. FeesInv'
  <2>1. Counts(new)
    BY <1>2, <1>5, Zenon DEF Counts
  <2>2. \A m \in DOMAIN tree' : Counts(tree'[m])
    BY <1>7, <2>1, Zenon DEF IInv, FeesInv
  <2> QED BY <2>2, Zenon DEF FeesInv, Counts, ActionFees, ForwardFees, SumOf, Internal, IsInternal, FwdFee
<1> QED
  BY <1>9, <1>10, <1>11, <1>12, Zenon DEF IInv

\* The transactions of the roots are on the chain, and the root is tracked.
LEMMA InitIInv == Init => IInv
<1> SUFFICES ASSUME Init PROVE IInv
  OBVIOUS
<1> DEFINE root(a, dests) == Transaction(1, ExternalIn(a), 0, FALSE, Outgoing(a, 1, 1, dests[a]))
<1>1. PICK dests \in [Roots -> Dests] :
         LET message == MapToReceivedMessage(root(Root, dests))
         IN  /\ txs = [a \in Account |-> IF a \in Roots THEN <<root(a, dests)>> ELSE << >>]
             /\ pending = UNION {Range(Internal(root(a, dests))) : a \in Roots}
             /\ tree = <<message>>
             /\ queue = IF Status(message) = "Finalized" THEN << >> ELSE <<1>>
  BY Zenon DEF Init
<1> DEFINE tx(a) == root(a, dests)
           message == MapToReceivedMessage(tx(Root))
<1>2. /\ txs = [a \in Account |-> IF a \in Roots THEN <<tx(a)>> ELSE << >>]
      /\ pending = UNION {Range(Internal(tx(a))) : a \in Roots}
      /\ tree = <<message>>
      /\ queue = IF Status(message) = "Finalized" THEN << >> ELSE <<1>>
      /\ done = FALSE
  BY <1>1, Zenon DEF Init
<1>3. ASSUME NEW a \in Roots
      PROVE  a \in Account /\ IsOf(a, tx(a)) /\ ~IsInternal(tx(a).in)
  <2>1. a \in Account /\ a \in Address /\ External \in Address
    BY RootAssumption DEF Address
  <2>2. ExternalIn(a) \in Message /\ ~IsInternal(ExternalIn(a))
    BY <2>1 DEF ExternalIn, Message, IsInternal
  <2>3. dests[a] \in Seq(Address)
    BY DestAssumption DEF Address
  <2>4. 0 \in ExitCodes \cup {Skipped} /\ FALSE \in BOOLEAN /\ 1 \in Nat
    BY CodeAssumption
  <2>5. IsOf(a, tx(a)) /\ tx(a).in = ExternalIn(a)
    <3>0. PICK one \in Nat, phase \in ExitCodes \cup {Skipped}, aborted \in BOOLEAN :
              one = 1 /\ phase = 0 /\ aborted = FALSE /\ AbortedAfter(phase, aborted)
      BY <2>4, Zenon DEF AbortedAfter
    <3> DEFINE in == ExternalIn(a)
               d == dests[a]
               t == Transaction(one, in, phase, aborted, Outgoing(a, one, one, d))
    <3>1. tx(a) = t
      BY <3>0, Zenon
    <3>2. in \in Message /\ d \in Seq(Address)
      BY <2>2, <2>3, Zenon
    <3> HIDE DEF in, d, root, tx
    <3>3. IsOf(a, t) /\ t.in = in
      BY <2>1, <3>0, <3>2, NewTransaction
    <3> HIDE DEF t
    <3> QED BY <3>1, <3>3, Zenon DEF in
  <2> QED BY <2>1, <2>2, <2>5, Zenon
<1> HIDE DEF root, tx
<1>4. \A a \in Account : txs[a] = IF a \in Roots THEN <<tx(a)>> ELSE << >>
  BY <1>2, Zenon
<1>5. \A a \in Account : \A t : OnLedger(a, t) <=> a \in Roots /\ t = tx(a)
  <2> SUFFICES ASSUME NEW a \in Account, NEW t
               PROVE  OnLedger(a, t) <=> a \in Roots /\ t = tx(a)
    BY Zenon
  <2>1. CASE a \in Roots
    <3>1. txs[a] = <<tx(a)>>
      BY <1>4, <2>1, Zenon
    <3>2. DOMAIN txs[a] = {1} /\ txs[a][1] = tx(a)
      BY <3>1
    <3> QED BY <2>1, <3>2, Zenon DEF OnLedger
  <2>2. CASE a \notin Roots
    <3>1. txs[a] = << >>
      BY <1>4, <2>2, Zenon
    <3>2. DOMAIN txs[a] = {}
      BY <3>1
    <3> QED BY <2>2, <3>2, Zenon DEF OnLedger
  <2> QED BY <2>1, <2>2, Zenon
<1>6. AccountsInOrder
  <2>1. DOMAIN txs = Account
    BY <1>2, Zenon
  <2> SUFFICES ASSUME NEW a \in Account
               PROVE  /\ txs[a] \in Seq(TransactionType)
                      /\ \A i \in DOMAIN txs[a] : IsOf(a, txs[a][i])
                      /\ InOrder(txs[a])
    BY <2>1, Zenon DEF AccountsInOrder
  <2>2. \A i \in DOMAIN txs[a] : IsOf(a, txs[a][i])
    BY <1>3, <1>5, Zenon DEF OnLedger
  <2>3. CASE a \in Roots
    <3>1. txs[a] = <<tx(a)>> /\ tx(a) \in TransactionType
      BY <1>3, <1>4, <2>3, Zenon DEF IsOf
    <3>2. txs[a] \in Seq(TransactionType)
      BY <3>1, ShortSequences, Zenon
    <3>3. DOMAIN txs[a] = {1}
      BY <3>1
    <3>4. InOrder(txs[a])
      BY <3>3 DEF InOrder
    <3> QED BY <2>2, <3>2, <3>4, Zenon
  <2>4. CASE a \notin Roots
    <3>1. txs[a] = << >>
      BY <1>4, <2>4, Zenon
    <3>2. txs[a] \in Seq(TransactionType) /\ DOMAIN txs[a] = {}
      BY <3>1
    <3>3. InOrder(txs[a])
      BY <3>2, Zenon DEF InOrder
    <3> QED BY <2>2, <3>2, <3>3, Zenon
  <2> QED BY <2>3, <2>4, Zenon
<1>7. LedgerInv
  <2>1. ASSUME NEW msg \in pending
        PROVE  IsInternal(msg) /\ WasSent(msg)
    <3>1. PICK a \in Roots : msg \in Range(Internal(tx(a)))
      BY <1>2, Zenon
    <3>2. a \in Account /\ IsOf(a, tx(a)) /\ OnLedger(a, tx(a))
      BY <1>3, <1>5, <3>1, Zenon
    <3>3. msg \in Range(tx(a).out) /\ IsInternal(msg)
      BY <3>1, <3>2, InternalFacts
    <3> QED BY <3>2, <3>3, Zenon DEF WasSent
  <2>2. \A a \in Account : \A t : OnLedger(a, t) => ~IsInternal(t.in)
    BY <1>3, <1>5, Zenon
  <2> QED BY <1>6, <2>1, <2>2, Zenon DEF LedgerInv
<1>8. Root \in Roots /\ Root \in Account
  BY RootAssumption
<1> HIDE DEF message
<1>9. /\ IsNode(message) /\ message \in ReceivedType /\ message.tx = tx(Root) /\ message.received = << >>
      /\ Counts(message)
  <2>1. IsOf(Root, tx(Root))
    BY <1>3, <1>8, Zenon
  <2> DEFINE t == tx(Root)
  <2> HIDE DEF t
  <2>2. LET node == MapToReceivedMessage(t)
        IN  IsNode(node) /\ node.tx = t /\ node.received = << >> /\ Counts(node)
    BY <2>1, NewNode DEF t
  <2> QED BY <2>2, Zenon DEF message, IsNode, t
<1>10. DOMAIN tree = {1} /\ tree[1] = message /\ tree \in Seq(ReceivedType)
  <2>1. tree = <<message>>
    BY <1>2, Zenon DEF message
  <2> QED BY <1>9, <2>1
<1>11. DOMAIN message.received = {}
  BY <1>9
<1>12. TreeInv
  <2>1. Linked /\ HasParent /\ Apart
    BY <1>10, <1>11, Zenon DEF Linked, HasParent, Apart
  <2>2. OnLedger(Root, message.tx) /\ ~IsInternal(message.tx.in)
    BY <1>3, <1>5, <1>8, <1>9, Zenon
  <2> QED BY <1>8, <1>9, <1>10, <2>1, <2>2, Zenon DEF TreeInv
<1>13. QueueInv
  <2>1. queue = IF Status(message) = "Finalized" THEN << >> ELSE <<1>>
    BY <1>2, Zenon DEF message
  <2>2. CASE message.sent = << >>
    <3>1. queue = << >>
      BY <2>1, <2>2, Zenon DEF Status
    <3>2. queue \in Seq(DOMAIN tree)
      BY <3>1
    <3>3. Waiting
      BY <1>10, <2>2, Zenon DEF Waiting
    <3> QED BY <1>2, <3>1, <3>2, <3>3, Zenon DEF QueueInv
  <2>3. CASE message.sent # << >>
    <3>1. Status(message) # "Finalized"
      BY <2>3 DEF Status
    <3>2. queue = <<1>>
      BY <2>1, <3>1, Zenon
    <3>3. queue \in Seq({1}) /\ 1 \in Range(queue)
      BY <3>2 DEF Range
    <3>4. Waiting
      BY <1>10, <3>3, Zenon DEF Waiting
    <3> QED BY <1>2, <1>10, <3>3, <3>4, Zenon DEF QueueInv
  <2> QED BY <2>2, <2>3, Zenon
<1>14. FeesInv
  BY <1>9, <1>10, Zenon DEF FeesInv
<1> QED
  BY <1>7, <1>12, <1>13, <1>14, Zenon DEF IInv

\* No step leaves the invariant.
LEMMA NextIInv == IInv /\ [Next]_vars => IInv'
<1> SUFFICES ASSUME IInv, [Next]_vars PROVE IInv'
  OBVIOUS
<1>1. CASE UNCHANGED vars
  <2>1. UNCHANGED <<txs, pending, tree, queue, done>>
    BY <1>1, Zenon DEF vars, ledger
  <2>2. LedgerInv'
    BY <2>1, LedgerStays, Zenon DEF IInv
  <2>3. TreeInv'
    BY <2>1, TreeUnchanged, Zenon DEF IInv
  <2>4. QueueInv' /\ FeesInv'
    BY <2>1, Zenon DEF IInv, QueueInv, Waiting, FeesInv
  <2> QED BY <2>2, <2>3, <2>4, Zenon DEF IInv
<1>2. CASE Next
  BY <1>2, ExecuteStep, WaitStep, CascadeStep, ReturnStep, ReadFeesStep, Zenon DEF Next, WaitForTrace
<1> QED
  BY <1>1, <1>2, Zenon

\* The invariant always holds.
LEMMA InvariantHolds == Spec => []IInv
BY InitIInv, NextIInv, PTL DEF Spec

-----------------------------------------------------------------------------
(* What the tracker reports. *)

\* There are n numbers from 1 to n.
LEMMA UpTo == ASSUME NEW n \in Nat PROVE IsFiniteSet(1 .. n) /\ Cardinality(1 .. n) = n
<1> DEFINE S == 1 .. n
<1>1. IsFiniteSet(S) /\ Cardinality(S) = IF 1 > n THEN 0 ELSE n - 1 + 1
  BY FS_Interval
<1> HIDE DEF S
<1>2. (IF 1 > n THEN 0 ELSE n - 1 + 1) = n
  OBVIOUS
<1>3. IsFiniteSet(S) /\ Cardinality(S) = n
  BY <1>1, <1>2
<1> QED
  BY <1>3, Zenon DEF S

\* The messages a trace tracks are as many as the transactions it tracks.
LEMMA TrackedOnce ==
    ASSUME TreeInv
    PROVE  Cardinality(Tracked) = Len(tree)
<1> DEFINE S == 1 .. Len(tree)
           T == Tracked
           f == [n \in S |-> tree[n].tx]
<1>1. DOMAIN tree = S /\ Len(tree) \in Nat
  <2>1. tree \in Seq(ReceivedType)
    BY Zenon DEF TreeInv
  <2> QED BY <2>1
<1>2. IsFiniteSet(S) /\ Cardinality(S) = Len(tree)
  BY <1>1, UpTo, Zenon
<1>3. f \in [S -> T] /\ \A t \in T : \E n \in S : f[n] = t
  BY <1>1, Zenon DEF Tracked
<1>4. \A m, n \in S : f[m] = f[n] => m = n
  BY <1>1, Zenon DEF TreeInv, Apart
<1>5. f \in Bijection(S, T)
  <2> HIDE DEF f, S, T
  <2> QED BY <1>3, <1>4, Zenon DEF Bijection, Injection, IsInjective, Surjection
<1>6. ExistsBijection(S, T)
  BY <1>5, Zenon DEF ExistsBijection
<1> HIDE DEF S, T
<1>7. Cardinality(T) = Cardinality(S)
  BY <1>2, <1>6, FS_Bijection, Zenon
<1> QED
  BY <1>2, <1>7, Zenon DEF T

\* Each message a tracked transaction sent is in a tracked transaction, once
\* WaitForTrace returned.
LEMMA AllReceived ==
    ASSUME IInv, done
    PROVE  \A n \in DOMAIN tree : DOMAIN tree[n].received = DOMAIN Internal(tree[n].tx)
<1> SUFFICES ASSUME NEW n \in DOMAIN tree
             PROVE  DOMAIN tree[n].received = DOMAIN Internal(tree[n].tx)
  BY Zenon
<1>1. queue = << >> /\ Waiting /\ TreeInv /\ LedgerInv
  BY Zenon DEF IInv, QueueInv
<1>2. Range(queue) = {}
  BY <1>1 DEF Range
<1>3. tree[n].sent = << >>
  BY <1>1, <1>2, Zenon DEF Waiting
<1>4. Len(tree[n].received) + Len(tree[n].sent) = Len(Internal(tree[n].tx)) /\ tree[n] \in ReceivedType
  BY <1>1, Zenon DEF TreeInv, IsNode, Splits
<1>5. PICK a \in Account : OnLedger(a, tree[n].tx)
  BY <1>1, Zenon DEF TreeInv
<1> DEFINE t == tree[n].tx
           received == tree[n].received
<1>6. IsOf(a, t)
  <2>1. AccountsInOrder /\ OnLedger(a, t)
    BY <1>1, <1>5, Zenon DEF LedgerInv
  <2> HIDE DEF t
  <2> QED BY <2>1, LedgerTransaction
<1>7. received \in Seq(Nat)
  BY <1>4, Zenon DEF ReceivedType
<1> HIDE DEF t, received
<1>8. Internal(t) \in Seq(Message)
  BY <1>6, InternalFacts
<1>9. Len(received) = Len(Internal(t))
  <2>1. Len(received) + Len(<< >>) = Len(Internal(t))
    BY <1>3, <1>4, Zenon DEF t, received
  <2> DEFINE out == Internal(t)
  <2> HIDE DEF out
  <2>2. Len(received) + Len(<< >>) = Len(out)
    BY <2>1 DEF out
  <2>3. Len(received) = Len(out)
    BY <1>7, <2>2
  <2> QED BY <2>3, Zenon DEF out
<1>10. DOMAIN received = 1 .. Len(received) /\ DOMAIN Internal(t) = 1 .. Len(Internal(t))
  BY <1>7, <1>8
<1>11. DOMAIN received = DOMAIN Internal(t)
  BY <1>9, <1>10, Zenon
<1> QED
  BY <1>11, Zenon DEF t, received

\* WaitForTrace matches every message with the transaction that executed it,
\* and when it returns it has tracked the transaction of every message that the
\* root caused, each once (TraceIsExact), whatever other traffic there is.
THEOREM TraceFollowsTheChain == Spec => []TraceIsExact
<1>1. IInv => TraceIsExact
  <2> SUFFICES ASSUME IInv PROVE TraceIsExact
    OBVIOUS
  <2>1. TreeInv /\ Linked
    BY Zenon DEF IInv, TreeInv
  <2>2. MatchedIsOwn
    BY <2>1, Zenon DEF Linked, MatchedIsOwn
  <2>3. ASSUME done, NEW tx \in Tracked, NEW msg \in Range(Internal(tx))
        PROVE  \E other \in Tracked : other.in = msg
    <3>1. PICK n \in DOMAIN tree : tx = tree[n].tx
      BY <2>3, Zenon DEF Tracked
    <3>2. PICK k \in DOMAIN Internal(tx) : msg = Internal(tx)[k]
      BY <2>3, Zenon DEF Range
    <3>3. k \in DOMAIN tree[n].received
      BY <2>3, <3>1, <3>2, AllReceived, Zenon
    <3>4. tree[n].received[k] \in DOMAIN tree /\ tree[tree[n].received[k]].tx.in = Internal(tree[n].tx)[k]
      BY <2>1, <3>1, <3>3, Zenon DEF Linked
    <3> QED BY <3>1, <3>2, <3>4, Zenon DEF Tracked
  <2>4. Cardinality(Tracked) = Len(tree)
    BY <2>1, TrackedOnce, Zenon
  <2> QED BY <2>2, <2>3, <2>4, Zenon DEF TraceIsExact, TraceComplete
<1> QED
  BY <1>1, InvariantHolds, PTL

\* The credit and the fees of a tracked message explain what its transaction
\* did to the balance, but for the forward fees that each reading of them has
\* added to TotalActionFees (FeesExplainBalance), for any number of messages,
\* received or not, and of readings.
THEOREM FeesAreExplained == Spec => []FeesExplainBalance
<1>1. IInv => FeesExplainBalance
  BY FeesAddUp, Zenon DEF IInv, FeesInv, FeesExplainBalance
<1> QED
  BY <1>1, InvariantHolds, PTL

\* What holds of the root and passes from a message to those it caused holds of
\* every message tracked.
LEMMA FromTheRoot ==
    ASSUME TreeInv, NEW T, 1 \in T,
           \A n \in DOMAIN tree : n \in T => \A k \in DOMAIN tree[n].received : tree[n].received[k] \in T
    PROVE  DOMAIN tree \subseteq T
<1> DEFINE D == DOMAIN tree
           bad == {m \in D : m \notin T}
<1>1. D \subseteq Nat
  <2>1. tree \in Seq(ReceivedType)
    BY Zenon DEF TreeInv
  <2> QED BY <2>1
<1>2. ASSUME bad # {} PROVE FALSE
  <2>1. bad \subseteq Nat
    BY <1>1, Zenon
  <2> HIDE DEF bad
  <2>2. PICK m \in bad : \A l \in bad : m <= l
    BY <1>2, <2>1, LeastNatural, Zenon
  <2>3. m \in D /\ m \notin T /\ m # 1
    BY <2>2, Zenon DEF bad
  <2>4. PICK n \in D : \E k \in DOMAIN tree[n].received : tree[n].received[k] = m
    BY <2>3, Zenon DEF TreeInv, HasParent
  <2>5. n \notin T /\ n < m
    BY <2>3, <2>4, Zenon DEF TreeInv, Linked
  <2>6. n \in bad /\ n \in Nat /\ m \in Nat
    BY <1>1, <2>3, <2>4, <2>5, Zenon DEF bad
  <2>7. m <= n
    BY <2>2, <2>6, Zenon
  <2> HIDE DEF D
  <2> QED BY <2>5, <2>6, <2>7
<1> QED
  BY <1>2, Zenon

\* What holds of a message if it holds of those it caused holds of every one.
LEMMA FromTheLeaves ==
    ASSUME TreeInv, NEW T,
           \A n \in DOMAIN tree : (\A k \in DOMAIN tree[n].received : tree[n].received[k] \in T) => n \in T
    PROVE  DOMAIN tree \subseteq T
<1> DEFINE D == DOMAIN tree
           N == Len(tree)
           bad == {m \in D : m \notin T}
           ranks == {N - m : m \in bad}
<1>1. D = 1 .. N /\ N \in Nat
  <2>1. tree \in Seq(ReceivedType)
    BY Zenon DEF TreeInv
  <2> QED BY <2>1
<1> HIDE DEF N
<1>2. \A m \in D : m \in Nat /\ N - m \in Nat
  <2> HIDE DEF D
  <2> QED BY <1>1
<1>3. ASSUME bad # {} PROVE FALSE
  <2>1. ranks \subseteq Nat /\ ranks # {}
    BY <1>2, <1>3, Zenon
  <2> HIDE DEF ranks
  <2>2. PICK r \in ranks : \A l \in ranks : r <= l
    BY <2>1, LeastNatural, Zenon
  <2>3. PICK m \in bad : r = N - m
    BY <2>2, Zenon DEF ranks
  <2>4. m \in D /\ m \notin T
    BY <2>3, Zenon
  <2>5. PICK k \in DOMAIN tree[m].received : tree[m].received[k] \notin T
    BY <2>4, Zenon
  <2> DEFINE l == tree[m].received[k]
  <2>6. l \in D /\ m < l
    BY <2>4, <2>5, Zenon DEF TreeInv, Linked
  <2> HIDE DEF l
  <2>7. N - l \in ranks
    BY <2>5, <2>6, Zenon DEF ranks, l
  <2>8. N - m <= N - l
    BY <2>2, <2>3, <2>7, Zenon
  <2>9. m \in Nat /\ l \in Nat /\ N \in Nat
    BY <1>1, <1>2, <2>4, <2>6, Zenon
  <2> HIDE DEF D, bad
  <2> QED BY <2>6, <2>8, <2>9
<1> QED
  BY <1>3, Zenon

Rank == [m \in DOMAIN tree |-> Len(tree) - m]

\* A message is further from the end than those it caused.
LEMMA RankFacts ==
    ASSUME TreeInv
    PROVE  /\ Rank \in [DOMAIN tree -> Nat]
           /\ \A n \in DOMAIN tree : \A k \in DOMAIN tree[n].received :
                  /\ tree[n].received[k] \in DOMAIN tree
                  /\ Rank[tree[n].received[k]] < Rank[n]
<1> DEFINE D == DOMAIN tree
           N == Len(tree)
<1>1. D = 1 .. N /\ N \in Nat
  <2>1. tree \in Seq(ReceivedType)
    BY Zenon DEF TreeInv
  <2> QED BY <2>1
<1>2. Rank = [m \in D |-> N - m]
  BY Zenon DEF Rank
<1> HIDE DEF D, N
<1>3. Rank \in [D -> Nat] /\ \A m, l \in D : m < l => Rank[l] < Rank[m]
  BY <1>1, <1>2
<1>4. \A n \in D : \A k \in DOMAIN tree[n].received : tree[n].received[k] \in D /\ n < tree[n].received[k]
  BY Zenon DEF TreeInv, Linked, D
<1>5. \A n \in D : \A k \in DOMAIN tree[n].received :
          tree[n].received[k] \in D /\ Rank[tree[n].received[k]] < Rank[n]
  BY <1>3, <1>4, Zenon
<1> QED
  BY <1>3, <1>5, Zenon DEF D

\* TraceSucceeded tells whether every message tracked did.
LEMMA SucceededIsAll ==
    ASSUME TreeInv
    PROVE  TraceSucceeded(1) <=> \A n \in DOMAIN tree : tree[n].Success
<1> DEFINE D == DOMAIN tree
           ok(f, m) == tree[m].Success /\ \A k \in DOMAIN tree[m].received : f[tree[m].received[k]]
           body(f) == [m \in D |-> ok(f, m)]
           improve == [f \in [D -> BOOLEAN] |-> body(f)]
<1>1. \A f : body(f) \in [D -> BOOLEAN]
  <2>1. \A f, m : ok(f, m) \in BOOLEAN
    BY Zenon
  <2> HIDE DEF ok
  <2> QED BY <2>1, Zenon
<1>2. \E f \in [D -> BOOLEAN] : Solves(f, improve)
  <2>1. improve \in [[D -> BOOLEAN] -> [D -> BOOLEAN]]
    <3> HIDE DEF body
    <3> QED BY <1>1, Zenon
  <2>2. Rank \in [D -> Nat]
    BY RankFacts, Zenon
  <2>3. ASSUME NEW x \in D, NEW g \in [D -> BOOLEAN], NEW h \in [D -> BOOLEAN],
               \A y \in D : Rank[y] < Rank[x] => g[y] = h[y]
        PROVE  improve[g][x] = improve[h][x]
    <3>1. \A k \in DOMAIN tree[x].received : g[tree[x].received[k]] = h[tree[x].received[k]]
      BY <2>3, RankFacts, Zenon
    <3>2. ok(g, x) = ok(h, x)
      BY <3>1, Zenon
    <3> HIDE DEF ok
    <3> QED BY <2>3, <3>2, Zenon
  <2> HIDE DEF improve, D
  <2>4. UsesLowerRanks(D, BOOLEAN, Rank, improve)
    BY <2>3, Zenon DEF UsesLowerRanks
  <2> QED BY <2>1, <2>2, <2>4, RankedRecursion, Zenon
<1>3. PICK f \in [D -> BOOLEAN] : f = body(f)
  <2> HIDE DEF body
  <2> QED BY <1>2, Zenon DEF Solves
<1> DEFINE succeeded == CHOOSE r : r = body(r)
<1>4. succeeded = body(succeeded)
  <2> HIDE DEF body
  <2> QED BY <1>3, Zenon
<1>5. TraceSucceeded(1) = succeeded[1]
  BY DEF TraceSucceeded
<1> HIDE DEF succeeded
<1>6. \A m \in D : succeeded[m] = ok(succeeded, m)
  BY <1>4, Zenon
<1> DEFINE T == {m \in D : succeeded[m]}
<1>7. ASSUME succeeded[1] PROVE \A n \in D : tree[n].Success
  <2>1. 1 \in T
    BY <1>7, Zenon DEF TreeInv
  <2>2. \A n \in D : n \in T => \A k \in DOMAIN tree[n].received : tree[n].received[k] \in T
    BY <1>6, RankFacts, Zenon
  <2> HIDE DEF T
  <2>3. D \subseteq T
    BY <2>1, <2>2, FromTheRoot, Zenon
  <2> QED BY <1>6, <2>3, Zenon DEF T
<1>8. ASSUME \A n \in D : tree[n].Success PROVE succeeded[1]
  <2>1. \A n \in D : (\A k \in DOMAIN tree[n].received : tree[n].received[k] \in T) => n \in T
    BY <1>6, <1>8, Zenon
  <2> HIDE DEF T
  <2>2. D \subseteq T
    BY <2>1, FromTheLeaves, Zenon
  <2>3. 1 \in D
    BY Zenon DEF TreeInv
  <2> QED BY <2>2, <2>3, Zenon DEF T
<1> QED
  BY <1>5, <1>7, <1>8, Zenon

\* The empty sequence is one of any elements.
LEMMA EmptySequence == ASSUME NEW S PROVE << >> \in Seq(S)
OBVIOUS

\* The walk of OutcomeExitCode through the tree.
Walk(f, m) == <<m>> \o Joined([k \in DOMAIN tree[m].received |-> f[tree[m].received[k]]])

\* A function of the elements of a sequence makes a sequence.
LEMMA Mapped ==
    ASSUME NEW V, NEW s \in Seq(Nat), NEW f, \A k \in DOMAIN s : f[s[k]] \in V
    PROVE  [k \in DOMAIN s |-> f[s[k]]] \in Seq(V)
<1>1. Len(s) \in Nat /\ DOMAIN s = 1 .. Len(s)
  OBVIOUS
<1> DEFINE g == [k \in DOMAIN s |-> f[s[k]]]
<1>2. g \in [1 .. Len(s) -> V]
  BY <1>1, Zenon
<1> HIDE DEF g
<1>3. g \in Seq(V)
  BY <1>1, <1>2
<1> QED
  BY <1>3, Zenon DEF g

\* A message comes first in its own walk, and then the walks of those it caused.
LEMMA WalkFacts ==
    ASSUME TreeInv, NEW f, \A m \in DOMAIN tree : f[m] \in Seq(DOMAIN tree), NEW n \in DOMAIN tree
    PROVE  /\ Walk(f, n) \in Seq(DOMAIN tree)
           /\ n \in Range(Walk(f, n))
           /\ \A k \in DOMAIN tree[n].received : Range(f[tree[n].received[k]]) \subseteq Range(Walk(f, n))
<1> DEFINE D == DOMAIN tree
           received == tree[n].received
           walks == [k \in DOMAIN received |-> f[received[k]]]
<1>1. received \in Seq(Nat)
  BY Zenon DEF TreeInv, IsNode, ReceivedType
<1>2. \A k \in DOMAIN received : received[k] \in D
  BY Zenon DEF TreeInv, Linked
<1>3. \A k \in DOMAIN received : f[received[k]] \in Seq(D)
  BY <1>2, Zenon
<1>4. Walk(f, n) = <<n>> \o Joined(walks)
  BY Zenon DEF Walk
<1>5. n \in D
  BY Zenon
<1> HIDE DEF D, received
<1>6. walks \in Seq(Seq(D)) /\ DOMAIN walks = DOMAIN received /\ \A k \in DOMAIN received : walks[k] = f[received[k]]
  <2>1. walks \in Seq(Seq(D))
    BY <1>1, <1>3, Mapped, Zenon
  <2> QED BY <2>1, Zenon
<1> HIDE DEF walks
<1>7. Joined(walks) \in Seq(D) /\ Range(Joined(walks)) = Elements(walks)
  BY <1>6, JoinedElements, Zenon
<1> DEFINE one == <<n>>
           rest == Joined(walks)
<1>8. one \in Seq(D) /\ Range(one) = {n}
  BY <1>5 DEF Range
<1> HIDE DEF one, rest
<1>9. one \o rest \in Seq(D) /\ Range(one \o rest) = Range(one) \cup Range(rest)
  <2>1. one \in Seq(D) /\ rest \in Seq(D)
    BY <1>7, <1>8, Zenon DEF rest
  <2> QED BY <2>1, ConcatElements
<1>10. Walk(f, n) \in Seq(D) /\ Range(Walk(f, n)) = {n} \cup Elements(walks)
  BY <1>4, <1>7, <1>8, <1>9, Zenon DEF one, rest
<1>11. \A k \in DOMAIN received : Range(f[received[k]]) \subseteq Elements(walks)
  BY <1>6, Zenon DEF Elements
<1> QED
  BY <1>10, <1>11, Zenon DEF D, received

\* The walk of OutcomeExitCode comes to every message tracked.
LEMMA WalkReachesAll ==
    ASSUME TreeInv
    PROVE  \E walk \in Seq(DOMAIN tree) :
               OutcomeExitCode(1) = FirstFailure(walk) /\ Range(walk) = DOMAIN tree
<1> DEFINE D == DOMAIN tree
           V == Seq(D)
           body(f) == [m \in D |-> Walk(f, m)]
           improve == [f \in [D -> V] |-> body(f)]
<1>1. \A f \in [D -> V] : body(f) \in [D -> V]
  <2> SUFFICES ASSUME NEW f \in [D -> V] PROVE body(f) \in [D -> V]
    BY Zenon
  <2>1. \A m \in D : f[m] \in Seq(D)
    BY Zenon
  <2>2. \A m \in D : Walk(f, m) \in V
    BY <2>1, WalkFacts, Zenon
  <2> HIDE DEF V, D
  <2> QED BY <2>2, Zenon
<1>2. \E f \in [D -> V] : Solves(f, improve)
  <2>1. improve \in [[D -> V] -> [D -> V]]
    <3> HIDE DEF body, D, V
    <3> QED BY <1>1, Zenon
  <2>2. Rank \in [D -> Nat]
    BY RankFacts, Zenon
  <2>3. ASSUME NEW x \in D, NEW g \in [D -> V], NEW h \in [D -> V],
               \A y \in D : Rank[y] < Rank[x] => g[y] = h[y]
        PROVE  improve[g][x] = improve[h][x]
    <3>1. \A k \in DOMAIN tree[x].received : g[tree[x].received[k]] = h[tree[x].received[k]]
      BY <2>3, RankFacts, Zenon
    <3>2. [k \in DOMAIN tree[x].received |-> g[tree[x].received[k]]]
              = [k \in DOMAIN tree[x].received |-> h[tree[x].received[k]]]
      BY <3>1, Zenon
    <3>3. Walk(g, x) = Walk(h, x)
      BY <3>2, Zenon DEF Walk
    <3> HIDE DEF D, V
    <3> QED BY <2>3, <3>3, Zenon
  <2>4. << >> \in V
    OBVIOUS
  <2> HIDE DEF improve, D, V
  <2>5. UsesLowerRanks(D, V, Rank, improve)
    BY <2>3, Zenon DEF UsesLowerRanks
  <2> QED BY <2>1, <2>2, <2>4, <2>5, RankedRecursion, Zenon
<1>3. PICK f \in [D -> V] : f = body(f)
  <2> HIDE DEF body
  <2> QED BY <1>2, Zenon DEF Solves
<1> DEFINE preorder == CHOOSE r : r = body(r)
<1>4. preorder = body(preorder)
  <2> HIDE DEF body
  <2> QED BY <1>3, Zenon
<1>5. OutcomeExitCode(1) = FirstFailure(preorder[1])
  BY DEF OutcomeExitCode, Walk
<1> HIDE DEF preorder
<1>6. \A m \in D : preorder[m] = Walk(preorder, m)
  BY <1>4, Zenon
<1> DEFINE T == {m \in D : preorder[m] \in V}
<1>7. \A m \in D : preorder[m] \in V
  <2>1. ASSUME NEW n \in D, \A k \in DOMAIN tree[n].received : tree[n].received[k] \in T
        PROVE  Walk(preorder, n) \in V
    <3> DEFINE g == [m \in D |-> IF m \in T THEN preorder[m] ELSE << >>]
    <3>1. \A m \in D : g[m] \in Seq(D)
      BY EmptySequence, Zenon
    <3>2. \A k \in DOMAIN tree[n].received : g[tree[n].received[k]] = preorder[tree[n].received[k]]
      BY <2>1, Zenon
    <3> HIDE DEF g
    <3>3. Walk(g, n) \in V
      BY <3>1, WalkFacts, Zenon
    <3>4. [k \in DOMAIN tree[n].received |-> g[tree[n].received[k]]]
              = [k \in DOMAIN tree[n].received |-> preorder[tree[n].received[k]]]
      BY <3>2, Zenon
    <3>5. Walk(g, n) = Walk(preorder, n)
      BY <3>4, Zenon DEF Walk
    <3> QED BY <3>3, <3>5, Zenon
  <2>2. \A n \in D : (\A k \in DOMAIN tree[n].received : tree[n].received[k] \in T) => n \in T
    BY <1>6, <2>1, Zenon
  <2> HIDE DEF T
  <2>3. D \subseteq T
    BY <2>2, FromTheLeaves, Zenon
  <2> QED BY <2>3, Zenon DEF T
<1>8. /\ \A m \in D : m \in Range(preorder[m])
      /\ \A m \in D : \A k \in DOMAIN tree[m].received : Range(preorder[tree[m].received[k]]) \subseteq Range(preorder[m])
  BY <1>6, <1>7, WalkFacts, Zenon
<1> DEFINE below == {m \in D : Range(preorder[m]) \subseteq Range(preorder[1])}
<1>9. 1 \in D
  BY Zenon DEF TreeInv
<1>10. D \subseteq below
  <2>1. 1 \in below
    BY <1>9, Zenon
  <2>2. \A n \in D : n \in below => \A k \in DOMAIN tree[n].received : tree[n].received[k] \in below
    BY <1>8, RankFacts, Zenon
  <2> HIDE DEF below
  <2> QED BY <2>1, <2>2, FromTheRoot, Zenon
<1>11. D \subseteq Range(preorder[1])
  BY <1>8, <1>10, Zenon
<1>12. Range(preorder[1]) \subseteq D
  <2> DEFINE walk == preorder[1]
  <2>1. walk \in Seq(D)
    BY <1>7, <1>9, Zenon
  <2> HIDE DEF walk, D
  <2>2. Range(walk) \subseteq D
    BY <2>1 DEF Range
  <2> QED BY <2>2, Zenon DEF walk
<1> QED
  BY <1>5, <1>7, <1>9, <1>11, <1>12, Zenon

\* FirstFailure is the code of a message without success, if there is one.
LEMMA FirstFailureFacts ==
    ASSUME NEW S, NEW walk \in Seq(S)
    PROVE  \/ FirstFailure(walk) = 0 /\ \A m \in Range(walk) : tree[m].Success
           \/ \E m \in Range(walk) : ~tree[m].Success /\ FirstFailure(walk) = tree[m].ExitCode
<1> DEFINE failed == {i \in DOMAIN walk : ~tree[walk[i]].Success}
           first == CHOOSE i \in failed : \A j \in failed : i <= j
<1>1. FirstFailure(walk) = IF failed = {} THEN 0 ELSE tree[walk[first]].ExitCode
  BY Zenon DEF FirstFailure
<1>2. CASE failed = {}
  BY <1>1, <1>2, Zenon DEF Range
<1>3. CASE failed # {}
  <2>1. DOMAIN walk \subseteq Nat
    OBVIOUS
  <2>2. failed \subseteq Nat
    BY <2>1, Zenon
  <2> HIDE DEF failed
  <2>3. \E i \in failed : \A j \in failed : i <= j
    BY <1>3, <2>2, LeastNatural, Zenon
  <2>4. first \in failed
    BY <2>3, Zenon
  <2> HIDE DEF first
  <2> QED BY <1>1, <1>3, <2>4, Zenon DEF Range, failed
<1> QED
  BY <1>2, <1>3, Zenon

\* TraceSucceeded reports a failure exactly if a transaction of the trace was
\* aborted before its action phase, and OutcomeExitCode is the code of one that
\* was (OutcomeIsTrue), for every tree of messages.
THEOREM OutcomeTellsTheTrace == Spec => []OutcomeIsTrue
<1>1. IInv => OutcomeIsTrue
  <2> SUFFICES ASSUME IInv PROVE OutcomeIsTrue
    OBVIOUS
  <2> DEFINE failed == {tx \in Tracked : tx.aborted /\ tx.phase # 0}
  <2>1. TreeInv /\ LedgerInv
    BY Zenon DEF IInv
  <2>2. \A n \in DOMAIN tree :
            /\ tree[n].Success <=> tree[n].tx.phase = 0
            /\ tree[n].ExitCode = IF tree[n].tx.phase = Skipped THEN 0 ELSE tree[n].tx.phase
    BY <2>1, Zenon DEF TreeInv, IsNode, Reports
  <2>3. \A n \in DOMAIN tree : ~tree[n].Success <=> tree[n].tx \in failed
    <3>1. \A n \in DOMAIN tree : tree[n].tx.phase # 0 => tree[n].tx.aborted
      <4> SUFFICES ASSUME NEW n \in DOMAIN tree PROVE tree[n].tx.phase # 0 => tree[n].tx.aborted
        OBVIOUS
      <4>1. PICK a \in Account : OnLedger(a, tree[n].tx)
        BY <2>1, Zenon DEF TreeInv
      <4>2. IsOf(a, tree[n].tx)
        BY <2>1, <4>1, LedgerTransaction, Zenon DEF LedgerInv
      <4> QED BY <4>2, Zenon DEF IsOf, AbortedAfter
    <3> QED BY <2>2, <3>1, Zenon DEF Tracked
  <2>4. TraceSucceeded(1) <=> failed = {}
    BY <2>1, <2>3, SucceededIsAll, Zenon DEF Tracked
  <2>5. PICK walk \in Seq(DOMAIN tree) : OutcomeExitCode(1) = FirstFailure(walk) /\ Range(walk) = DOMAIN tree
    BY <2>1, WalkReachesAll, Zenon
  <2>6. \/ OutcomeExitCode(1) = 0 /\ \A m \in DOMAIN tree : tree[m].Success
        \/ \E m \in DOMAIN tree : ~tree[m].Success /\ OutcomeExitCode(1) = tree[m].ExitCode
    BY <2>5, FirstFailureFacts, Zenon
  <2>7. CASE OutcomeExitCode(1) = 0 /\ \A m \in DOMAIN tree : tree[m].Success
    BY <2>1, <2>4, <2>7, SucceededIsAll, Zenon DEF OutcomeIsTrue
  <2>8. CASE \E m \in DOMAIN tree : ~tree[m].Success /\ OutcomeExitCode(1) = tree[m].ExitCode
    <3>1. PICK m \in DOMAIN tree : ~tree[m].Success /\ OutcomeExitCode(1) = tree[m].ExitCode
      BY <2>8
    <3>2. tree[m].tx \in failed
      BY <2>3, <3>1, Zenon
    <3>3. OutcomeExitCode(1) # 0 => tree[m].tx.phase = OutcomeExitCode(1)
      BY <2>2, <3>1, Zenon
    <3>4. OutcomeExitCode(1) = 0 => tree[m].tx.phase = Skipped
      BY <2>2, <3>1, <3>2, Zenon
    <3> QED BY <2>4, <3>2, <3>3, <3>4, Zenon DEF OutcomeIsTrue
  <2> QED BY <2>6, <2>7, <2>8, Zenon
<1> QED
  BY <1>1, InvariantHolds, PTL

=============================================================================
