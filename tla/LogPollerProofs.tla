-------------------------- MODULE LogPollerProofs --------------------------
(***************************************************************************)
(* Theorems about the log poller: no message is stored twice for a filter, *)
(* and a block that counts as processed has all its covered messages in    *)
(* the store.                                                              *)
(*                                                                         *)
(* First come what the collector reads (the page loop, a recursive         *)
(* function), then PollerOK, what every theorem needs of the state, then   *)
(* one invariant for each theorem: ReadOnce and AllOnTheWay.               *)
(***************************************************************************)
EXTENDS LogPoller, RecursionProofs

-----------------------------------------------------------------------------
(* What the collector reads. *)

Tx == [SeqNo : Nat, Out : Outs]

\* The transactions of an account are in later and later blocks.
ChainOK ==
    /\ head \in Nat /\ txs \in [Address -> Seq(Tx)]
    /\ \A a \in Address : \A lt \in DOMAIN txs[a] :
          /\ 1 <= txs[a][lt].SeqNo /\ txs[a][lt].SeqNo <= head
          /\ \A k \in DOMAIN txs[a] : k < lt => txs[a][k].SeqNo < txs[a][lt].SeqNo

Msg == [Src : Address, LT : Nat, Index : Nat, Dst : Seq(Byte)]

\* The message is on the chain.
OnChain(m) ==
    /\ m \in Msg /\ m.LT \in DOMAIN txs[m.Src]
    /\ m.Index \in DOMAIN txs[m.Src][m.LT].Out
    /\ m.Dst = txs[m.Src][m.LT].Out[m.Index]

\* The messages of an account after the transaction lo, up to hi.
Between(addr, lo, hi) == {m \in Msg : OnChain(m) /\ m.Src = addr /\ lo < m.LT /\ m.LT <= hi}

\* What a transaction is made of.
LEMMA TransactionType ==
    ASSUME ChainOK, NEW addr \in Address
    PROVE  /\ txs[addr] \in Seq(Tx) /\ Len(txs[addr]) \in Nat
           /\ DOMAIN txs[addr] = 1 .. Len(txs[addr])
           /\ \A lt \in DOMAIN txs[addr] :
                 /\ lt \in Nat /\ txs[addr][lt] \in Tx
                 /\ txs[addr][lt].SeqNo \in Nat /\ txs[addr][lt].Out \in Seq(Seq(Byte))
<1> DEFINE t == txs[addr]
<1>1. t \in Seq(Tx)
  BY DEF ChainOK
<1> HIDE DEF t
<1>2. Len(t) \in Nat /\ DOMAIN t = 1 .. Len(t) /\ \A lt \in DOMAIN t : lt \in Nat /\ t[lt] \in Tx
  BY <1>1
<1>3. \A x \in Tx : x.SeqNo \in Nat /\ x.Out \in Seq(Seq(Byte))
  BY OutAssumption DEF Tx
<1> QED
  BY <1>1, <1>2, <1>3 DEF t

\* Transactions are numbered in the order of their blocks.
LEMMA LastTx ==
    ASSUME ChainOK, NEW addr \in Address, NEW s \in Nat
    PROVE  /\ LastTxLT(addr, s) \in 0 .. Len(txs[addr]) /\ Len(txs[addr]) \in Nat
           /\ DOMAIN txs[addr] = 1 .. Len(txs[addr])
           /\ \A lt \in DOMAIN txs[addr] : txs[addr][lt].SeqNo <= s <=> lt <= LastTxLT(addr, s)
<1> DEFINE t == txs[addr]
           n == Len(t)
           S == {lt \in DOMAIN t : t[lt].SeqNo <= s}
           T == {k \in Nat : k \in 1 .. n + 1 /\ k \notin S}
<1>1. t \in Seq(Tx) /\ n \in Nat /\ DOMAIN t = 1 .. n /\ \A lt \in 1 .. n : t[lt].SeqNo \in Nat
  BY TransactionType
<1>2. \A k, lt \in 1 .. n : k < lt => t[k].SeqNo < t[lt].SeqNo
  BY <1>1, Zenon DEF ChainOK
<1> HIDE DEF t, n
<1>3. n + 1 \in T
  BY <1>1
<1>4. PICK k \in T : \A j \in T : k <= j
  <2>1. T \subseteq Nat /\ T # {}
    BY <1>3
  <2> HIDE DEF T
  <2> QED BY <2>1, LeastNatural, Zenon
<1>5. k \in Nat /\ k - 1 \in 0 .. n /\ k - 1 \in Nat /\ k \in 1 .. n + 1 /\ k \notin S
  BY <1>1, <1>4
<1>6. S = 1 .. k - 1
  <2>1. ASSUME NEW lt \in S PROVE lt \in 1 .. k - 1
    <3>1. lt \in 1 .. n /\ t[lt].SeqNo <= s /\ t[lt].SeqNo \in Nat
      BY <1>1
    <3>2. CASE k < lt
      <4>1. k \in 1 .. n /\ t[k].SeqNo < t[lt].SeqNo /\ t[k].SeqNo \in Nat
        BY <1>1, <1>2, <1>5, <3>1, <3>2
      <4>2. k \in S
        BY <1>1, <3>1, <4>1
      <4> QED
        BY <1>5, <4>2
    <3>3. CASE lt < k
      BY <1>1, <1>5, <3>1, <3>3
    <3>4. lt # k
      BY <1>5
    <3> QED
      BY <1>1, <1>5, <3>1, <3>2, <3>3, <3>4
  <2>2. ASSUME NEW lt \in 1 .. k - 1 PROVE lt \in S
    <3>1. lt \in Nat /\ lt \in 1 .. n + 1 /\ lt < k
      BY <1>1, <1>5
    <3>2. lt \notin T
      BY <1>4, <1>5, <3>1
    <3> QED
      BY <3>1, <3>2
  <2> QED
    BY <2>1, <2>2
<1>7. Cardinality(S) = k - 1
  <2>1. Cardinality(1 .. k - 1) = k - 1
    BY <1>5, FS_Interval
  <2> QED
    BY <1>6, <2>1, Zenon
<1>8. LastTxLT(addr, s) = k - 1
  BY <1>7 DEF LastTxLT, t
<1>9. \A lt \in DOMAIN t : t[lt].SeqNo <= s <=> lt <= k - 1
  BY <1>1, <1>5, <1>6
<1> QED
  BY <1>1, <1>5, <1>8, <1>9 DEF t, n

\* The messages of one transaction.
LEMMA OneTransaction ==
    ASSUME ChainOK, NEW addr \in Address, NEW lt \in DOMAIN txs[addr]
    PROVE  /\ MessagesOf(addr, lt) \in Seq(Msg) /\ Distinct(MessagesOf(addr, lt))
           /\ Range(MessagesOf(addr, lt)) = Between(addr, lt - 1, lt)
<1> DEFINE out == txs[addr][lt].Out
           s == MessagesOf(addr, lt)
<1>1. out \in Seq(Seq(Byte)) /\ lt \in Nat
  BY TransactionType
<1>2. s = [i \in DOMAIN out |-> [Src |-> addr, LT |-> lt, Index |-> i, Dst |-> out[i]]]
  BY DEF MessagesOf
<1>3. Len(out) \in Nat /\ DOMAIN out = 1 .. Len(out) /\ \A i \in DOMAIN out : i \in Nat /\ out[i] \in Seq(Byte)
  BY <1>1
<1>4. \A i \in DOMAIN out : s[i] \in Msg /\ s[i].Index = i /\ s[i].Src = addr /\ s[i].LT = lt /\ s[i].Dst = out[i]
  BY <1>1, <1>2, <1>3 DEF Msg
<1>5. s \in Seq(Msg) /\ DOMAIN s = DOMAIN out
  <2>1. DOMAIN s = 1 .. Len(out) /\ s = [i \in 1 .. Len(out) |-> s[i]]
    BY <1>2, <1>3
  <2>2. \A i \in 1 .. Len(out) : s[i] \in Msg
    BY <1>3, <1>4
  <2> HIDE DEF s, out
  <2> QED
    BY <1>3, <2>1, <2>2
<1>6. Distinct(s)
  BY <1>4, <1>5, SMTT(30) DEF Distinct
<1>7. ASSUME NEW m \in Range(s) PROVE m \in Between(addr, lt - 1, lt)
  <2>1. PICK i \in DOMAIN out : m = s[i]
    BY <1>5 DEF Range
  <2> QED
    BY <1>1, <1>4, <2>1, SMTT(30) DEF Between, OnChain
<1>8. ASSUME NEW m \in Between(addr, lt - 1, lt) PROVE m \in Range(s)
  <2>1. m \in Msg /\ m.LT \in Nat /\ m.LT = lt /\ m.Src = addr /\ m.Index \in DOMAIN out /\ m.Dst = out[m.Index]
    BY <1>1 DEF Between, OnChain, Msg
  <2>2. m = s[m.Index]
    <3>1. m = [Src |-> m.Src, LT |-> m.LT, Index |-> m.Index, Dst |-> m.Dst]
      BY <2>1 DEF Msg
    <3> QED
      BY <1>2, <2>1, <3>1
  <2> QED
    BY <1>5, <2>1, <2>2 DEF Range
<1> QED
  BY <1>5, <1>6, <1>7, <1>8, Zenon

\* The transaction before the first one a page has messages of.
Before(startLT, oldest) == IF oldest <= startLT THEN startLT ELSE oldest - 1

\* The messages of a page.
LEMMA OnePage ==
    ASSUME ChainOK, NEW addr \in Address, NEW startLT \in Nat, NEW oldest \in Nat,
           NEW newest \in 0 .. Len(txs[addr])
    PROVE  /\ Page(addr, startLT, oldest, newest) \in Seq(Msg)
           /\ Distinct(Page(addr, startLT, oldest, newest))
           /\ Range(Page(addr, startLT, oldest, newest)) = Between(addr, Before(startLT, oldest), newest)
<1> DEFINE lo == Before(startLT, oldest)
           n == IF newest > startLT THEN newest - startLT ELSE 0
           ss == [i \in 1 .. newest - startLT |->
                     IF startLT + i < oldest THEN << >> ELSE MessagesOf(addr, startLT + i)]
<1>1. DOMAIN txs[addr] = 1 .. Len(txs[addr]) /\ Len(txs[addr]) \in Nat /\ newest \in Nat
  BY TransactionType
<1>10. lo \in Nat /\ lo = IF oldest <= startLT THEN startLT ELSE oldest - 1
  BY DEF Before
<1> HIDE DEF lo
<1>2. n \in Nat /\ 1 .. newest - startLT = 1 .. n
  BY <1>1
<1>3. ASSUME NEW i \in 1 .. n
      PROVE  /\ startLT + i \in DOMAIN txs[addr] /\ startLT + i \in Nat /\ startLT + i <= newest
             /\ startLT + i < oldest <=> ~ lo < startLT + i
  BY <1>1, <1>2, <1>10
<1>4. DOMAIN ss = 1 .. n
  BY <1>2
<1>5. ASSUME NEW i \in 1 .. n
      PROVE  /\ ss[i] \in Seq(Msg) /\ Distinct(ss[i])
             /\ Range(ss[i]) = {m \in Between(addr, startLT + i - 1, startLT + i) : lo < m.LT}
             /\ \A m \in Range(ss[i]) : m.LT = startLT + i
  <2> DEFINE B == Between(addr, startLT + i - 1, startLT + i)
  <2>0. startLT + i \in DOMAIN txs[addr] /\ startLT + i \in Nat /\ (startLT + i < oldest <=> ~ lo < startLT + i)
    BY <1>3
  <2>1. \A m \in B : m.LT = startLT + i
    BY <2>0 DEF Between, Msg
  <2>2. CASE startLT + i < oldest
    <3>1. ss[i] = << >>
      BY <1>2, <2>2
    <3>2. {m \in B : lo < m.LT} = {}
      BY <2>0, <2>1, <2>2
    <3>3. Range(<< >>) = {} /\ Distinct(<< >>) /\ << >> \in Seq(Msg)
      BY DEF Range, Distinct
    <3> HIDE DEF ss, B
    <3> QED
      BY <3>1, <3>2, <3>3 DEF B
  <2>3. CASE ~ startLT + i < oldest
    <3>1. ss[i] = MessagesOf(addr, startLT + i)
      BY <1>2, <2>3
    <3>2. {m \in B : lo < m.LT} = B
      BY <2>0, <2>1, <2>3
    <3> HIDE DEF ss, B
    <3>3. /\ MessagesOf(addr, startLT + i) \in Seq(Msg) /\ Distinct(MessagesOf(addr, startLT + i))
          /\ Range(MessagesOf(addr, startLT + i)) = B
      BY <2>0, OneTransaction DEF B
    <3> QED
      BY <2>1, <3>1, <3>2, <3>3 DEF B
  <2> QED
    BY <2>2, <2>3, Zenon
<1>6. Page(addr, startLT, oldest, newest) = Joined(ss)
  BY DEF Page
<1>7. ss \in Seq(Seq(Msg))
  <2>1. ss = [i \in 1 .. n |-> ss[i]]
    BY <1>2
  <2> HIDE DEF ss, n
  <2> QED
    BY <1>2, <1>5, <2>1, SMTT(30)
<1> HIDE DEF ss, n
<1>8. AllDistinct(ss)
  <2>1. ASSUME NEW i \in DOMAIN ss, NEW j \in DOMAIN ss, i # j
        PROVE  Range(ss[i]) \cap Range(ss[j]) = {}
    <3>1. startLT + i # startLT + j
      BY <1>2, <1>4, <2>1
    <3> QED
      BY <1>4, <1>5, <3>1
  <2> QED
    BY <1>4, <1>5, <2>1 DEF AllDistinct
<1>9. Elements(ss) = Between(addr, lo, newest)
  <2>1. ASSUME NEW m \in Elements(ss) PROVE m \in Between(addr, lo, newest)
    <3>1. PICK i \in 1 .. n : m \in Range(ss[i])
      BY <1>4 DEF Elements
    <3>2. m \in Between(addr, startLT + i - 1, startLT + i) /\ lo < m.LT /\ m.LT = startLT + i
      BY <1>5, <3>1
    <3> QED
      BY <1>3, <3>2 DEF Between
  <2>2. ASSUME NEW m \in Between(addr, lo, newest) PROVE m \in Elements(ss)
    <3>1. m \in Msg /\ OnChain(m) /\ m.Src = addr /\ lo < m.LT /\ m.LT <= newest /\ m.LT \in Nat
      BY DEF Between, Msg
    <3>2. m.LT - startLT \in 1 .. n
      BY <1>1, <1>2, <1>10, <3>1 DEF n
    <3> DEFINE i == m.LT - startLT
    <3>3. startLT + i = m.LT /\ startLT + i - 1 < m.LT /\ i \in 1 .. n
      BY <3>1, <3>2
    <3> HIDE DEF i
    <3>4. m \in Between(addr, startLT + i - 1, startLT + i)
      BY <3>1, <3>3 DEF Between
    <3>5. m \in Range(ss[i])
      BY <1>5, <1>10, <3>1, <3>3, <3>4
    <3> QED
      BY <1>4, <3>3, <3>5 DEF Elements
  <2> QED
    BY <2>1, <2>2, Zenon
<1> QED
  BY <1>6, <1>7, <1>8, <1>9, JoinedElements DEF lo

\* What the page loop reads: every message after startLT, once.
LEMMA AllPages ==
    ASSUME ChainOK, NEW addr \in Address, NEW startLT \in Nat, NEW endLT \in 0 .. Len(txs[addr])
    PROVE  /\ Pages(addr, startLT, endLT) \in Seq(Seq(Msg))
           /\ AllDistinct(Pages(addr, startLT, endLT))
           /\ Elements(Pages(addr, startLT, endLT)) = Between(addr, startLT, endLT)
<1> DEFINE D == 0 .. endLT
           V == Seq(Seq(Msg))
           page(cur) == Page(addr, startLT, Oldest(cur), cur)
           body(f) == [cur \in D |-> IF cur = 0 THEN << >>
                                     ELSE <<page(cur)>>
                                          \o (IF Oldest(cur) <= startLT THEN << >> ELSE f[Oldest(cur) - 1])]
           improve == [f \in [D -> V] |-> body(f)]
           rank == [cur \in D |-> cur]
<1>0. Len(txs[addr]) \in Nat /\ endLT \in Nat /\ D \subseteq Nat
  BY TransactionType
<1>1. ASSUME NEW cur \in D, cur # 0
      PROVE  /\ Oldest(cur) \in Nat /\ Oldest(cur) >= 1 /\ Oldest(cur) <= cur
             /\ Oldest(cur) - 1 \in D /\ Oldest(cur) - 1 < cur
  BY <1>0, <1>1, PageAssumption DEF Oldest
<1>2. ASSUME NEW cur \in D, cur # 0
      PROVE  /\ page(cur) \in Seq(Msg) /\ Distinct(page(cur))
             /\ Range(page(cur)) = Between(addr, Before(startLT, Oldest(cur)), cur)
  <2>1. Oldest(cur) \in Nat /\ cur \in 0 .. Len(txs[addr])
    BY <1>0, <1>1, <1>2
  <2> QED
    BY <2>1, OnePage, Zenon
<1> HIDE DEF page
<1>3. \E f \in [D -> V] : Solves(f, improve)
  <2>1. rank \in [D -> Nat] /\ << >> \in V
    BY <1>0
  <2>2. improve \in [[D -> V] -> [D -> V]]
    <3> SUFFICES ASSUME NEW f \in [D -> V], NEW cur \in D
                 PROVE  (IF cur = 0 THEN << >>
                         ELSE <<page(cur)>>
                              \o (IF Oldest(cur) <= startLT THEN << >> ELSE f[Oldest(cur) - 1])) \in V
      BY Zenon
    <3>1. CASE cur = 0
      BY <2>1, <3>1
    <3>2. CASE cur # 0
      <4> DEFINE rest == IF Oldest(cur) <= startLT THEN << >> ELSE f[Oldest(cur) - 1]
      <4>1. rest \in Seq(Seq(Msg)) /\ page(cur) \in Seq(Msg)
        BY <1>1, <1>2, <2>1, <3>2, Zenon
      <4> HIDE DEF rest
      <4>2. <<page(cur)>> \o rest \in Seq(Seq(Msg))
        BY <4>1, PrependElements
      <4> QED
        BY <3>2, <4>2 DEF rest
    <3> QED
      BY <3>1, <3>2
  <2>3. ASSUME NEW cur \in D, NEW f \in [D -> V], NEW h \in [D -> V],
               \A j \in D : rank[j] < rank[cur] => f[j] = h[j]
        PROVE  improve[f][cur] = improve[h][cur]
    <3>1. CASE cur = 0
      BY <3>1
    <3>2. CASE cur # 0
      <4>1. f[Oldest(cur) - 1] = h[Oldest(cur) - 1]
        BY <1>1, <2>3, <3>2, Zenon
      <4> QED
        BY <3>2, <4>1, Zenon
    <3> QED
      BY <3>1, <3>2
  <2> HIDE DEF improve, rank, D, V
  <2>4. UsesLowerRanks(D, V, rank, improve)
    BY <2>3 DEF UsesLowerRanks
  <2> QED
    BY <2>1, <2>2, <2>4, RankedRecursion, Zenon
<1>4. PICK f \in [D -> V] : f = body(f)
  BY <1>3, Zenon DEF Solves
<1> DEFINE pages == CHOOSE r : r = body(r)
<1>5. pages = body(pages)
  <2> HIDE DEF body
  <2> QED BY <1>4
<1>6. Pages(addr, startLT, endLT) = IF startLT >= endLT THEN << >> ELSE pages[endLT]
  BY DEF Pages, page
<1>7. ASSUME NEW cur \in D
      PROVE  pages[cur] = IF cur = 0 THEN << >>
                          ELSE <<page(cur)>>
                               \o (IF Oldest(cur) <= startLT THEN << >> ELSE pages[Oldest(cur) - 1])
  BY <1>5, Zenon
<1> HIDE DEF pages, body, improve, rank
<1> DEFINE Right(cur) == /\ pages[cur] \in Seq(Seq(Msg)) /\ AllDistinct(pages[cur])
                         /\ Elements(pages[cur]) = Between(addr, startLT, cur)
           T == {cur \in D : startLT <= cur /\ ~ Right(cur)}
<1>8. /\ << >> \in Seq(Seq(Msg)) /\ AllDistinct(<< >>) /\ Elements(<< >>) = {}
      /\ \A lo, hi \in Nat : hi <= lo => Between(addr, lo, hi) = {}
  <2>1. /\ << >> \in Seq(Seq(Msg)) /\ AllDistinct(<< >>) /\ Elements(<< >>) = {}
    BY DEF AllDistinct, Elements
  <2>2. ASSUME NEW lo \in Nat, NEW hi \in Nat, hi <= lo PROVE Between(addr, lo, hi) = {}
    BY <2>2 DEF Between, Msg
  <2> QED
    BY <2>1, <2>2
<1>9. ASSUME NEW cur \in D, startLT <= cur,
             \A j \in D : startLT <= j /\ j < cur => Right(j)
      PROVE  Right(cur)
  <2>1. CASE cur = 0
    <3>1. pages[cur] = << >> /\ Between(addr, startLT, cur) = {}
      <4>1. pages[cur] = << >>
        BY <1>7, <2>1, Zenon
      <4>2. cur \in Nat /\ cur <= startLT
        BY <2>1
      <4> QED
        BY <1>8, <4>1, <4>2
    <3> QED
      BY <1>8, <3>1
  <2>2. CASE cur # 0 /\ Oldest(cur) <= startLT
    <3>1. pages[cur] = <<page(cur)>> \o << >>
      BY <1>7, <2>2, Zenon
    <3>2. page(cur) \in Seq(Msg) /\ Distinct(page(cur)) /\ Range(page(cur)) = Between(addr, startLT, cur)
      BY <1>2, <2>2 DEF Before
    <3>3. /\ <<page(cur)>> \o << >> \in Seq(Seq(Msg))
          /\ Elements(<<page(cur)>> \o << >>) = Range(page(cur)) \cup Elements(<< >>)
          /\ Distinct(page(cur)) /\ AllDistinct(<< >>) /\ Range(page(cur)) \cap Elements(<< >>) = {}
                => AllDistinct(<<page(cur)>> \o << >>)
      BY <1>8, <3>2, PrependElements, Zenon
    <3> QED
      BY <1>8, <3>1, <3>2, <3>3, Zenon
  <2>3. CASE cur # 0 /\ ~ Oldest(cur) <= startLT
    <3> DEFINE next == Oldest(cur) - 1
               rest == pages[next]
    <3>1. next \in D /\ next < cur /\ startLT <= next /\ next \in Nat
      BY <1>0, <1>1, <2>3
    <3>2. pages[cur] = <<page(cur)>> \o rest
      BY <1>7, <2>3, Zenon
    <3>3. page(cur) \in Seq(Msg) /\ Distinct(page(cur)) /\ Range(page(cur)) = Between(addr, next, cur)
      BY <1>2, <2>3 DEF Before
    <3> HIDE DEF next
    <3>4. rest \in Seq(Seq(Msg)) /\ AllDistinct(rest) /\ Elements(rest) = Between(addr, startLT, next)
      BY <1>9, <3>1
    <3> HIDE DEF rest
    <3>5. /\ <<page(cur)>> \o rest \in Seq(Seq(Msg))
          /\ Elements(<<page(cur)>> \o rest) = Range(page(cur)) \cup Elements(rest)
          /\ Distinct(page(cur)) /\ AllDistinct(rest) /\ Range(page(cur)) \cap Elements(rest) = {}
                => AllDistinct(<<page(cur)>> \o rest)
      BY <3>3, <3>4, PrependElements
    <3>6. /\ Between(addr, next, cur) \cap Between(addr, startLT, next) = {}
          /\ Between(addr, next, cur) \cup Between(addr, startLT, next) = Between(addr, startLT, cur)
      BY <1>0, <3>1 DEF Between, Msg
    <3> QED
      BY <3>2, <3>3, <3>4, <3>5, <3>6, Zenon
  <2> QED
    BY <2>1, <2>2, <2>3
<1> HIDE DEF Right
<1>10. T = {}
  <2> SUFFICES ASSUME T # {} PROVE FALSE
    OBVIOUS
  <2>1. T \subseteq Nat
    BY <1>0
  <2>2. PICK cur \in T : \A j \in T : cur <= j
    <3> HIDE DEF T
    <3> QED BY <2>1, LeastNatural, Zenon
  <2>3. ASSUME NEW j \in D, startLT <= j, j < cur PROVE Right(j)
    <3>1. j \notin T
      BY <1>0, <2>1, <2>2, <2>3
    <3> QED
      BY <2>3, <3>1
  <2> QED
    BY <1>9, <2>2, <2>3
<1>11. CASE startLT >= endLT
  <2>1. Pages(addr, startLT, endLT) = << >> /\ Between(addr, startLT, endLT) = {}
    BY <1>0, <1>6, <1>8, <1>11
  <2> QED
    BY <1>8, <2>1
<1>12. CASE ~ startLT >= endLT
  <2>1. endLT \in D /\ startLT <= endLT
    BY <1>0, <1>12
  <2>2. Right(endLT)
    BY <1>10, <2>1, Zenon
  <2> QED
    BY <1>6, <1>12, <2>2 DEF Right
<1> QED
  BY <1>11, <1>12

\* What the goroutine of an address can bring, from startLT on.
LEMMA WhatIsFetched ==
    ASSUME ChainOK, NEW addr \in Address, NEW startLT \in Nat, iteration.toBlock \in Nat,
           NEW pages \in Fetched(addr, startLT) \cup {<< >> : fault \in Faults \cap {"to"}}
    PROVE  /\ Joined(pages) \in Seq(Msg) /\ Distinct(Joined(pages))
           /\ Range(Joined(pages)) \subseteq Between(addr, startLT, LastTxLT(addr, iteration.toBlock))
           /\ Faults \subseteq {"prev"} => Range(Joined(pages)) = Between(addr, startLT, LastTxLT(addr, iteration.toBlock))
<1> DEFINE endLT == LastTxLT(addr, iteration.toBlock)
           all == Pages(addr, startLT, endLT)
           B == Between(addr, startLT, endLT)
<1>1. endLT \in 0 .. Len(txs[addr])
  BY LastTx, Zenon
<1> HIDE DEF endLT
<1>2. all \in Seq(Seq(Msg)) /\ AllDistinct(all) /\ Elements(all) = B
  BY <1>1, AllPages
<1>3. \/ pages = all
      \/ "list" \in Faults /\ \E n \in 0 .. Len(all) : pages = SubSeq(all, 1, n)
      \/ "to" \in Faults /\ pages = << >>
  BY DEF Fetched, endLT
<1> HIDE DEF all, B
<1>4. /\ pages \in Seq(Seq(Msg)) /\ AllDistinct(pages) /\ Elements(pages) \subseteq B
      /\ Faults \subseteq {"prev"} => Elements(pages) = B
  <2>1. CASE pages = all
    BY <1>2, <2>1
  <2>2. CASE "list" \in Faults /\ \E n \in 0 .. Len(all) : pages = SubSeq(all, 1, n)
    <3>1. PICK n \in 0 .. Len(all) : pages = SubSeq(all, 1, n)
      BY <2>2
    <3>2. /\ SubSeq(all, 1, n) \in Seq(Seq(Msg)) /\ AllDistinct(SubSeq(all, 1, n))
          /\ Elements(SubSeq(all, 1, n)) \subseteq Elements(all)
      BY <1>2, FirstPages
    <3> QED
      BY <1>2, <2>2, <3>1, <3>2
  <2>3. CASE "to" \in Faults /\ pages = << >>
    <3>1. << >> \in Seq(Seq(Msg)) /\ AllDistinct(<< >>) /\ Elements(<< >>) = {}
      BY DEF AllDistinct, Elements
    <3> QED
      BY <2>3, <3>1
  <2> QED
    BY <1>3, <2>1, <2>2, <2>3
<1>5. /\ Joined(pages) \in Seq(Msg) /\ Range(Joined(pages)) = Elements(pages)
      /\ AllDistinct(pages) => Distinct(Joined(pages))
  BY <1>4, JoinedElements
<1> QED
  BY <1>4, <1>5 DEF B, endLT

-----------------------------------------------------------------------------
(* The state of the poller, and what its steps do to it. *)

SeqNoOf(addr, lt) == txs[addr][lt].SeqNo

Log == [FilterID : Name, Address : Address, TxLT : Nat, Index : Nat, Topic : Seq(Byte)]

Running ==
    [at : {"fetch", "process"}, prevBlock : Nat, toBlock : Nat, addresses : SUBSET Address, msgs : Seq(Msg)]

\* A name stands for one filter.
FiltersOK ==
    /\ filtersByName \subseteq Filter /\ IsFiniteSet(filtersByName)
    /\ \A f, g \in filtersByName : f.Name = g.Name => f = g
    /\ filtersByAddress \subseteq Address \X Seq(Byte)
    /\ since \in [Name -> Nat]

\* A running iteration scans from the processed block to a known one, and the
\* messages in hand are of accounts it is done reading.
IterationOK ==
    \/ iteration = Idle
    \/ /\ iteration \in Running
       /\ iteration.prevBlock = lastProcessedSeqNo
       /\ iteration.prevBlock < iteration.toBlock /\ iteration.toBlock <= head
       /\ iteration.at = "process" => iteration.addresses = {}
       /\ \A m \in Range(iteration.msgs) : OnChain(m) /\ m.Src \notin iteration.addresses

PollerOK ==
    /\ ChainOK /\ FiltersOK /\ IterationOK
    /\ lastProcessedSeqNo \in Nat /\ lastProcessedSeqNo <= head
    /\ logs \in Seq(Log)

MessageAt(addr, lt, i) == [Src |-> addr, LT |-> lt, Index |-> i, Dst |-> txs[addr][lt].Out[i]]

\* A block adds transactions to histories and changes none of theirs.
LEMMA ChainGrows ==
    ASSUME ChainOK, NewBlock
    PROVE  /\ ChainOK'
           /\ \A addr \in Address : \A lt \in DOMAIN txs[addr] :
                 lt \in DOMAIN txs'[addr] /\ txs'[addr][lt] = txs[addr][lt]
           /\ \A addr \in Address : \A lt \in DOMAIN txs'[addr] :
                 lt \in DOMAIN txs[addr] \/ txs'[addr][lt].SeqNo = head + 1
<1>1. PICK active \in SUBSET {a \in Address : Len(txs[a]) < MAX_TXS} : \E out \in [active -> Outs] :
          txs' = [a \in Address |->
                    IF a \in active THEN Append(txs[a], [SeqNo |-> head + 1, Out |-> out[a]]) ELSE txs[a]]
  BY Zenon DEF NewBlock
<1>2. PICK out \in [active -> Outs] :
          txs' = [a \in Address |->
                    IF a \in active THEN Append(txs[a], [SeqNo |-> head + 1, Out |-> out[a]]) ELSE txs[a]]
  BY <1>1
<1>3. head \in Nat /\ head' = head + 1
  BY DEF NewBlock, ChainOK
<1>4. ASSUME NEW addr \in Address
      PROVE  /\ txs'[addr] \in Seq(Tx)
             /\ \A lt \in DOMAIN txs[addr] : lt \in DOMAIN txs'[addr] /\ txs'[addr][lt] = txs[addr][lt]
             /\ \A lt \in DOMAIN txs'[addr] :
                   \/ lt \in DOMAIN txs[addr]
                   \/ txs'[addr][lt].SeqNo = head + 1 /\ \A k \in DOMAIN txs'[addr] : k < lt => k \in DOMAIN txs[addr]
  <2> DEFINE t == txs[addr]
  <2>1. t \in Seq(Tx)
    BY TransactionType
  <2>2. CASE addr \in active
    <3> DEFINE x == [SeqNo |-> head + 1, Out |-> out[addr]]
    <3>1. x \in Tx /\ x.SeqNo = head + 1
      BY <1>2, <1>3, <2>2 DEF Tx
    <3>2. txs'[addr] = Append(t, x)
      BY <1>2, <2>2
    <3> HIDE DEF t, x
    <3>3. /\ Append(t, x) \in Seq(Tx) /\ DOMAIN Append(t, x) = 1 .. Len(t) + 1 /\ DOMAIN t = 1 .. Len(t)
          /\ \A i \in 1 .. Len(t) : Append(t, x)[i] = t[i]
          /\ Append(t, x)[Len(t) + 1] = x /\ Len(t) \in Nat
      BY <2>1, <3>1
    <3> QED
      BY <3>1, <3>2, <3>3 DEF t
  <2>3. CASE addr \notin active
    <3>1. txs'[addr] = t
      BY <1>2, <2>3
    <3> QED
      BY <2>1, <3>1
  <2> QED
    BY <2>2, <2>3
<1>5. txs' \in [Address -> Seq(Tx)]
  <2>1. txs' = [a \in Address |-> txs'[a]]
    BY <1>2
  <2> QED
    BY <1>4, <2>1
<1>6. ASSUME NEW addr \in Address, NEW lt \in DOMAIN txs'[addr]
      PROVE  /\ 1 <= txs'[addr][lt].SeqNo /\ txs'[addr][lt].SeqNo <= head + 1
             /\ \A k \in DOMAIN txs'[addr] : k < lt => txs'[addr][k].SeqNo < txs'[addr][lt].SeqNo
  <2>1. \A k \in DOMAIN txs[addr] : txs[addr][k].SeqNo \in Nat /\ txs[addr][k].SeqNo <= head /\ k \in Nat
    BY TransactionType DEF ChainOK
  <2>2. txs'[addr] \in Seq(Tx) /\ \A k \in DOMAIN txs'[addr] : k \in Nat
    BY <1>4
  <2>3. CASE lt \in DOMAIN txs[addr]
    <3>1. \A k \in DOMAIN txs'[addr] : k < lt => k \in DOMAIN txs[addr]
      <4>1. DOMAIN txs[addr] = 1 .. Len(txs[addr]) /\ Len(txs[addr]) \in Nat
        BY TransactionType
      <4>2. DOMAIN txs'[addr] = 1 .. Len(txs'[addr])
        BY <2>2
      <4> QED
        BY <2>3, <4>1, <4>2, <2>2
    <3>2. txs'[addr][lt] = txs[addr][lt] /\ \A k \in DOMAIN txs[addr] : txs'[addr][k] = txs[addr][k]
      BY <1>4, <2>3
    <3>3. /\ 1 <= txs[addr][lt].SeqNo /\ txs[addr][lt].SeqNo <= head
          /\ \A k \in DOMAIN txs[addr] : k < lt => txs[addr][k].SeqNo < txs[addr][lt].SeqNo
      BY <2>3 DEF ChainOK
    <3> QED
      BY <1>3, <2>1, <2>3, <3>1, <3>2, <3>3
  <2>4. CASE lt \notin DOMAIN txs[addr]
    <3>1. txs'[addr][lt].SeqNo = head + 1 /\ \A k \in DOMAIN txs'[addr] : k < lt => k \in DOMAIN txs[addr]
      BY <1>4, <2>4
    <3>2. \A k \in DOMAIN txs[addr] : txs'[addr][k] = txs[addr][k]
      BY <1>4
    <3> QED
      BY <1>3, <2>1, <3>1, <3>2
  <2> QED
    BY <2>3, <2>4
<1>7. ChainOK'
  BY <1>3, <1>5, <1>6 DEF ChainOK
<1> QED
  BY <1>4, <1>7

\* What the goroutine of an address brings is on the chain, in the range of
\* the iteration if the start of that is known, and all there is in it if the
\* history is read to its end.
Brought(addr, new) ==
    /\ new \in Seq(Msg) /\ Distinct(new)
    /\ \A m \in Range(new) :
          /\ OnChain(m) /\ m.Src = addr /\ SeqNoOf(m.Src, m.LT) <= iteration.toBlock
          /\ "prev" \notin Faults => iteration.prevBlock < SeqNoOf(m.Src, m.LT)
    /\ Faults \subseteq {"prev"} => \A m \in Msg :
          /\ OnChain(m) /\ m.Src = addr
          /\ iteration.prevBlock < SeqNoOf(m.Src, m.LT) /\ SeqNoOf(m.Src, m.LT) <= iteration.toBlock
          => m \in Range(new)

LogOf(flt, msg) ==
    [FilterID |-> flt.Name, Address |-> msg.Src, TxLT |-> msg.LT,
     Index |-> msg.Index, Topic |-> DecodeEventTopic(msg.Dst)]

\* The logs of a message: one per matching filter.
StoredFor(msg, saved) ==
    /\ saved \in Seq(Log) /\ Distinct(saved)
    /\ Range(saved) = {LogOf(flt, msg) : flt \in MatchingFilters(msg.Src, DecodeEventTopic(msg.Dst))}

\* The record of a filter.
LEMMA FilterType ==
    ASSUME NEW flt \in Filter
    PROVE  flt.Name \in Name /\ flt.Address \in Address /\ flt.EventTopic \in Seq(Byte)
BY FilterAssumption DEF Name

\* A running iteration has the fields run gave it.
LEMMA RunningType ==
    ASSUME PollerOK, iteration.at # "idle"
    PROVE  /\ iteration \in Running /\ iteration # Idle
           /\ iteration.at \in {"fetch", "process"}
           /\ iteration.prevBlock \in Nat /\ iteration.toBlock \in Nat
           /\ iteration.addresses \subseteq Address /\ iteration.msgs \in Seq(Msg)
BY DEF PollerOK, IterationOK, Running, Idle

\* fetchMessagesForAddress appends what it brought.
LEMMA FetchEffect ==
    ASSUME PollerOK, NEW addr \in Address, fetchMessagesForAddress(addr)
    PROVE  \E new : /\ Brought(addr, new)
                    /\ iteration' = [iteration EXCEPT !.addresses = @ \ {addr}, !.msgs = @ \o new]
<1>1. iteration.at # "idle" /\ ChainOK
  BY DEF fetchMessagesForAddress, PollerOK
<1>2. iteration.prevBlock \in Nat /\ iteration.toBlock \in Nat
  BY <1>1, RunningType
<1>3. PICK startLT \in StartLT(addr, iteration.prevBlock) :
         \E pages \in Fetched(addr, startLT) \cup {<< >> : fault \in Faults \cap {"to"}} :
             iteration' = [iteration EXCEPT !.addresses = @ \ {addr}, !.msgs = @ \o Joined(pages)]
  BY Zenon DEF fetchMessagesForAddress
<1>4. PICK pages \in Fetched(addr, startLT) \cup {<< >> : fault \in Faults \cap {"to"}} :
             iteration' = [iteration EXCEPT !.addresses = @ \ {addr}, !.msgs = @ \o Joined(pages)]
  BY <1>3, Zenon
<1> DEFINE new == Joined(pages)
           prev == iteration.prevBlock
           to == iteration.toBlock
           first == LastTxLT(addr, prev)
           last == LastTxLT(addr, to)
<1>5. /\ first \in Nat /\ last \in Nat
      /\ \A lt \in DOMAIN txs[addr] : txs[addr][lt].SeqNo <= prev <=> lt <= first
      /\ \A lt \in DOMAIN txs[addr] : txs[addr][lt].SeqNo <= to <=> lt <= last
  <2>1. /\ first \in 0 .. Len(txs[addr]) /\ Len(txs[addr]) \in Nat
        /\ \A lt \in DOMAIN txs[addr] : txs[addr][lt].SeqNo <= prev <=> lt <= first
    BY <1>1, <1>2, LastTx, Zenon
  <2>2. /\ last \in 0 .. Len(txs[addr])
        /\ \A lt \in DOMAIN txs[addr] : txs[addr][lt].SeqNo <= to <=> lt <= last
    BY <1>1, <1>2, LastTx, Zenon
  <2> HIDE DEF prev, to, first, last
  <2>3. first \in Nat /\ last \in Nat
    BY <2>1, <2>2
  <2> QED
    BY <2>1, <2>2, <2>3
<1>6. \A lt \in DOMAIN txs[addr] : lt \in Nat /\ txs[addr][lt].SeqNo \in Nat
  BY <1>1, TransactionType
<1>7. startLT \in Nat /\ startLT <= first /\ ("prev" \notin Faults => startLT = first)
  BY <1>5 DEF StartLT
<1>8. /\ new \in Seq(Msg) /\ Distinct(new)
      /\ Range(new) \subseteq Between(addr, startLT, last)
      /\ Faults \subseteq {"prev"} => Range(new) = Between(addr, startLT, last)
  BY <1>1, <1>2, <1>7, WhatIsFetched
<1> HIDE DEF new, prev, to, first, last
<1>9. ASSUME NEW m \in Range(new)
      PROVE  /\ OnChain(m) /\ m.Src = addr /\ SeqNoOf(m.Src, m.LT) <= to
             /\ "prev" \notin Faults => prev < SeqNoOf(m.Src, m.LT)
  <2>1. OnChain(m) /\ m.Src = addr /\ startLT < m.LT /\ m.LT <= last
    BY <1>8 DEF Between
  <2>2. m.LT \in DOMAIN txs[addr]
    BY <2>1 DEF OnChain
  <2>3. prev \in Nat /\ txs[addr][m.LT].SeqNo \in Nat /\ m.LT \in Nat
    BY <1>2, <1>6, <2>2 DEF prev
  <2> QED
    BY <1>5, <1>7, <2>1, <2>2, <2>3 DEF SeqNoOf
<1>10. ASSUME Faults \subseteq {"prev"}, NEW m \in Msg, OnChain(m), m.Src = addr,
              prev < SeqNoOf(m.Src, m.LT), SeqNoOf(m.Src, m.LT) <= to
       PROVE  m \in Range(new)
  <2>1. m.LT \in DOMAIN txs[addr]
    BY <1>10 DEF OnChain
  <2>2. prev \in Nat /\ txs[addr][m.LT].SeqNo \in Nat /\ m.LT \in Nat
    BY <1>2, <1>6, <2>1 DEF prev
  <2>3. first < m.LT /\ m.LT <= last
    BY <1>5, <1>10, <2>1, <2>2 DEF SeqNoOf
  <2>4. startLT < m.LT
    BY <1>5, <1>7, <2>2, <2>3
  <2> QED
    BY <1>8, <1>10, <2>3, <2>4 DEF Between
<1>11. Brought(addr, new)
  BY <1>8, <1>9, <1>10 DEF Brought, prev, to
<1> QED
  BY <1>4, <1>11, Zenon DEF new

\* SaveLog stores one log per matching filter.
LEMMA SaveEffect ==
    ASSUME PollerOK, NEW msg \in Msg, HasEventTopic(msg.Dst), NEW saved \in Saved(msg)
    PROVE  StoredFor(msg, saved)
<1> DEFINE MF == MatchingFilters(msg.Src, DecodeEventTopic(msg.Dst))
           S == {LogOf(flt, msg) : flt \in MF}
           f == [flt \in MF |-> LogOf(flt, msg)]
<1>1. MF \subseteq filtersByName /\ IsFiniteSet(filtersByName) /\ filtersByName \subseteq Filter
  BY DEF MatchingFilters, PollerOK, FiltersOK
<1>2. IsFiniteSet(MF)
  BY <1>1, FS_Subset
<1>3. f \in Surjection(MF, S)
  BY DEF Surjection
<1>4. saved \in Bijection(1 .. Cardinality(S), S)
  BY DEF Saved, LogOf
<1> HIDE DEF f, S, MF
<1>5. IsFiniteSet(S)
  BY <1>2, <1>3, FS_Surjection
<1>6. saved \in Seq(S) /\ Range(saved) = S /\ Distinct(saved)
  BY <1>4, <1>5, BijectionElements
<1>7. DecodeEventTopic(msg.Dst) \in Seq(Byte)
  <2> DEFINE d == msg.Dst
  <2>1. d \in Seq(Byte)
    BY DEF Msg
  <2>2. Len(d) \in Nat /\ Len(d) >= 4
    BY <2>1 DEF HasEventTopic, EventTopicLength
  <2> HIDE DEF d
  <2>3. SubSeq(d, Len(d) - 4 + 1, Len(d)) \in Seq(Byte)
    BY <2>1, <2>2
  <2> QED
    BY <2>3 DEF d, DecodeEventTopic, EventTopicLength
<1>8. msg.Src \in Address /\ msg.LT \in Nat /\ msg.Index \in Nat
  BY DEF Msg
<1>9. ASSUME NEW flt \in MF PROVE LogOf(flt, msg) \in Log
  BY <1>1, <1>7, <1>8, FilterType DEF LogOf, Log
<1>10. S \subseteq Log
  BY <1>9 DEF S
<1>11. saved \in Seq(Log)
  BY <1>6, <1>10
<1> QED
  BY <1>6, <1>11 DEF StoredFor, S, MF

\* What holds before the first block.
LEMMA PollerInit == Init => PollerOK
<1> SUFFICES ASSUME Init PROVE PollerOK
  OBVIOUS
<1> USE DEF Init, NewLogPoller, newFilters, NewInMemoryStore
<1>1. ChainOK
  <2>1. \A a \in Address : txs[a] = << >> /\ DOMAIN txs[a] = {}
    OBVIOUS
  <2>2. txs \in [Address -> Seq(Tx)]
    OBVIOUS
  <2> QED
    BY <2>1, <2>2 DEF ChainOK
<1>2. FiltersOK
  <2>1. IsFiniteSet({})
    BY FS_EmptySet
  <2> QED
    BY <2>1 DEF FiltersOK
<1> QED
  BY <1>1, <1>2 DEF PollerOK, IterationOK

\* A message in hand stays on the chain.
LEMMA StaysOnChain ==
    ASSUME ChainOK, NewBlock \/ UNCHANGED txs, NEW m, OnChain(m)
    PROVE  OnChain(m)' /\ SeqNoOf(m.Src, m.LT)' = SeqNoOf(m.Src, m.LT)
<1>1. m.Src \in Address /\ m.LT \in DOMAIN txs[m.Src]
  BY DEF OnChain, Msg
<1>2. m.LT \in DOMAIN txs'[m.Src] /\ txs'[m.Src][m.LT] = txs[m.Src][m.LT]
  BY <1>1, ChainGrows
<1> QED
  BY <1>2 DEF OnChain, SeqNoOf

\* Steps that leave the iteration alone.
LEMMA SameIteration ==
    ASSUME PollerOK, NewBlock \/ UNCHANGED chain, UNCHANGED <<iteration, lastProcessedSeqNo, logs>>, FiltersOK'
    PROVE  PollerOK'
<1>1. ChainOK' /\ head \in Nat /\ head' \in Nat /\ head <= head'
  <2>1. CASE NewBlock
    <3>1. ChainOK'
      BY <2>1, ChainGrows DEF PollerOK
    <3> QED
      BY <2>1, <3>1 DEF NewBlock, PollerOK, ChainOK
  <2>2. CASE UNCHANGED chain
    BY <2>2 DEF chain, PollerOK, ChainOK
  <2> QED
    BY <2>1, <2>2, Zenon
<1>2. IterationOK'
  <2>1. CASE iteration = Idle
    BY <2>1 DEF IterationOK
  <2>2. CASE iteration # Idle
    <3>1. IterationOK /\ ChainOK
      BY DEF PollerOK
    <3>2. \A m \in Range(iteration.msgs) : OnChain(m)'
      BY <2>2, <3>1, StaysOnChain DEF IterationOK, chain
    <3>3. iteration.toBlock \in Nat
      BY <2>2, <3>1 DEF IterationOK, Running
    <3>4. iteration.toBlock <= head'
      BY <1>1, <2>2, <3>1, <3>3 DEF IterationOK
    <3> QED
      BY <2>2, <3>1, <3>2, <3>4 DEF IterationOK
  <2> QED
    BY <2>1, <2>2
<1> QED
  BY <1>1, <1>2 DEF PollerOK

\* Steps that leave the chain and the filters alone.
LEMMA SameChain ==
    ASSUME PollerOK, UNCHANGED <<chain, filters>>
    PROVE  ChainOK' /\ FiltersOK' /\ UNCHANGED <<head, txs, filtersByName, filtersByAddress, since>>
BY DEF PollerOK, ChainOK, FiltersOK, chain, filters

\* A filter registered under a name takes the place of the one before it.
LEMMA PollerRegister ==
    ASSUME PollerOK, NEW flt \in Filter, RegisterFilter(flt)
    PROVE  PollerOK'
<1>1. flt.Name \in Name /\ flt.Address \in Address /\ flt.EventTopic \in Seq(Byte)
  BY FilterType
<1>2. Frontier \in Nat
  BY RunningType DEF Frontier, PollerOK
<1>3. FiltersOK
  BY DEF PollerOK
<1>4. filtersByName' \subseteq Filter /\ \A f, g \in filtersByName' : f.Name = g.Name => f = g
  BY <1>3 DEF RegisterFilter, FiltersOK
<1>5. IsFiniteSet(filtersByName')
  <2>1. IsFiniteSet({f \in filtersByName : f.Name # flt.Name})
    BY <1>3, FS_Subset DEF FiltersOK
  <2>2. IsFiniteSet({f \in filtersByName : f.Name # flt.Name} \cup {flt})
    BY <2>1, FS_AddElement
  <2> QED
    BY <2>2 DEF RegisterFilter
<1>6. filtersByAddress' \subseteq Address \X Seq(Byte)
  BY <1>1, <1>3 DEF RegisterFilter, FiltersOK
<1>7. since' \in [Name -> Nat]
  BY <1>1, <1>2, <1>3 DEF RegisterFilter, FiltersOK
<1>8. FiltersOK'
  BY <1>4, <1>5, <1>6, <1>7 DEF FiltersOK
<1> QED
  BY <1>8, SameIteration DEF RegisterFilter

\* UnregisterFilter leaves fewer filters and pairs.
LEMMA PollerUnregister ==
    ASSUME PollerOK, NEW flt \in Filter, UnregisterFilter(flt)
    PROVE  PollerOK'
<1>1. flt.Name \in Name
  BY FilterType
<1>2. FiltersOK
  BY DEF PollerOK
<1>3. IsFiniteSet(filtersByName')
  BY <1>2, FS_Subset DEF FiltersOK, UnregisterFilter
<1>4. FiltersOK'
  BY <1>1, <1>2, <1>3 DEF FiltersOK, UnregisterFilter
<1> QED
  BY <1>4, SameIteration DEF UnregisterFilter

\* The messages fetchMessagesForAddress brings are on the chain, and of the
\* account it is done with.
LEMMA PollerFetch ==
    ASSUME PollerOK, NEW addr \in Address, fetchMessagesForAddress(addr)
    PROVE  PollerOK'
<1>1. ChainOK' /\ FiltersOK' /\ UNCHANGED <<head, txs>>
  BY SameChain, Zenon DEF fetchMessagesForAddress
<1>2. PICK new : /\ Brought(addr, new)
                 /\ iteration' = [iteration EXCEPT !.addresses = @ \ {addr}, !.msgs = @ \o new]
  BY FetchEffect, Zenon
<1>3. iteration \in Running /\ iteration # Idle /\ iteration.msgs \in Seq(Msg) /\ iteration.at = "fetch"
  BY RunningType DEF fetchMessagesForAddress
<1> DEFINE old == iteration.msgs
<1>4. new \in Seq(Msg) /\ \A m \in Range(new) : OnChain(m) /\ m.Src = addr
  BY <1>2 DEF Brought
<1>5. /\ old \o new \in Seq(Msg)
      /\ Range(old \o new) = Range(old) \cup Range(new)
  BY <1>3, <1>4, ConcatElements
<1>6. /\ iteration' \in Running
      /\ iteration'.at = "fetch" /\ iteration'.msgs = old \o new
      /\ iteration'.addresses = iteration.addresses \ {addr}
      /\ iteration'.prevBlock = iteration.prevBlock /\ iteration'.toBlock = iteration.toBlock
  BY <1>2, <1>3, <1>5, Zenon DEF Running
<1>7. IterationOK
  BY DEF PollerOK
<1>8. ASSUME NEW m \in Range(old \o new) PROVE OnChain(m)' /\ m.Src \notin iteration.addresses \ {addr}
  <2>1. OnChain(m) /\ m.Src \notin iteration.addresses \ {addr}
    BY <1>3, <1>4, <1>5, <1>7, Zenon DEF IterationOK
  <2> QED
    BY <1>1, <2>1 DEF OnChain
<1>9. IterationOK'
  <2>1. lastProcessedSeqNo' = lastProcessedSeqNo
    BY DEF fetchMessagesForAddress
  <2>2. /\ iteration.prevBlock = lastProcessedSeqNo
        /\ iteration.prevBlock < iteration.toBlock /\ iteration.toBlock <= head
    BY <1>3, <1>7 DEF IterationOK
  <2> HIDE DEF old
  <2>3. \A m \in Range(iteration'.msgs) : OnChain(m)' /\ m.Src \notin iteration'.addresses
    BY <1>6, <1>8
  <2> QED
    BY <1>1, <1>6, <2>1, <2>2, <2>3 DEF IterationOK
<1> QED
  BY <1>1, <1>9 DEF PollerOK, fetchMessagesForAddress

\* Process stores logs of a message in hand, or gives up the iteration.
LEMMA PollerProcess ==
    ASSUME PollerOK, Process
    PROVE  PollerOK'
<1>1. ChainOK' /\ FiltersOK' /\ UNCHANGED <<head, txs, lastProcessedSeqNo>>
  BY SameChain DEF Process
<1>2. iteration \in Running /\ iteration # Idle /\ iteration.msgs \in Seq(Msg) /\ iteration.at = "process"
  BY RunningType DEF Process
<1> DEFINE msgs == iteration.msgs
<1>3. Head(msgs) \in Msg /\ Tail(msgs) \in Seq(Msg) /\ Range(msgs) = {Head(msgs)} \cup Range(Tail(msgs))
  BY <1>2, HeadAndTail DEF Process
<1>4. CASE ~HasEventTopic(Head(msgs).Dst)
  BY <1>1, <1>4 DEF Process, PollerOK, IterationOK
<1>5. CASE HasEventTopic(Head(msgs).Dst)
  <2>1. PICK saved \in Saved(Head(msgs)) : logs' = logs \o saved
    BY <1>5, Zenon DEF Process, SaveLogs
  <2>2. saved \in Seq(Log)
    BY <1>3, <1>5, SaveEffect DEF StoredFor
  <2>3. logs' \in Seq(Log)
    BY <2>1, <2>2, ConcatElements DEF PollerOK
  <2>4. iteration' = [iteration EXCEPT !.msgs = Tail(@)]
    BY <1>5 DEF Process
  <2>5. /\ iteration' \in Running
        /\ iteration'.at = "process" /\ iteration'.msgs = Tail(msgs)
        /\ iteration'.addresses = iteration.addresses
        /\ iteration'.prevBlock = iteration.prevBlock /\ iteration'.toBlock = iteration.toBlock
    BY <1>2, <1>3, <2>4, Zenon DEF Running
  <2>6. IterationOK
    BY ZenonT(30) DEF PollerOK
  <2>7. \A m \in Range(Tail(msgs)) : OnChain(m)' /\ m.Src \notin iteration'.addresses
    BY <1>1, <1>2, <1>3, <2>5, <2>6 DEF IterationOK, OnChain
  <2>8. IterationOK'
    BY <1>1, <1>2, <2>5, <2>6, <2>7 DEF IterationOK
  <2> QED
    BY <1>1, <2>3, <2>8 DEF PollerOK
<1> QED
  BY <1>4, <1>5

\* PollerOK is inductive.
LEMMA PollerNext == PollerOK /\ [Next]_vars => PollerOK'
<1> SUFFICES ASSUME PollerOK, [Next]_vars PROVE PollerOK'
  OBVIOUS
<1>1. CASE NewBlock
  <2>1. FiltersOK' /\ UNCHANGED <<iteration, lastProcessedSeqNo, logs>>
    BY <1>1 DEF PollerOK, FiltersOK, NewBlock, filters
  <2> QED
    BY <1>1, <2>1, SameIteration
<1>2. ASSUME NEW flt \in Filter, RegisterFilter(flt) \/ UnregisterFilter(flt) PROVE PollerOK'
  BY <1>2, PollerRegister, PollerUnregister
<1>3. ASSUME NEW seen \in 0 .. head, run(seen) PROVE PollerOK'
  <2>1. ChainOK' /\ FiltersOK' /\ UNCHANGED <<head, txs, lastProcessedSeqNo, logs>>
    BY <1>3, SameChain DEF run
  <2>2. iteration' = [at |-> "fetch", prevBlock |-> lastProcessedSeqNo, toBlock |-> seen,
                      addresses |-> GetDistinctAddresses, msgs |-> << >>]
        /\ seen > lastProcessedSeqNo
    BY <1>3 DEF run
  <2>3. seen \in Nat /\ seen <= head /\ lastProcessedSeqNo \in Nat
    BY DEF PollerOK, ChainOK
  <2>4. GetDistinctAddresses \subseteq Address
    BY DEF GetDistinctAddresses, PollerOK, FiltersOK
  <2>5. iteration' \in Running
    BY <2>2, <2>3, <2>4 DEF Running
  <2>6. Range(iteration'.msgs) = {}
    BY <2>2 DEF Range
  <2>7. IterationOK'
    BY <2>1, <2>2, <2>3, <2>5, <2>6 DEF IterationOK
  <2> QED
    BY <2>1, <2>7 DEF PollerOK
<1>4. ASSUME NEW addr \in Address, fetchMessagesForAddress(addr) PROVE PollerOK'
  BY <1>4, PollerFetch
<1>5. CASE BackfillForAddresses
  <2>1. ChainOK' /\ FiltersOK' /\ UNCHANGED <<head, txs, lastProcessedSeqNo, logs>>
    BY <1>5, SameChain DEF BackfillForAddresses
  <2>2. iteration \in Running /\ iteration # Idle
    BY <1>5, RunningType DEF BackfillForAddresses
  <2>3. /\ iteration' \in Running /\ iteration'.addresses = {}
        /\ iteration'.msgs = iteration.msgs /\ iteration.addresses = {}
        /\ iteration'.prevBlock = iteration.prevBlock /\ iteration'.toBlock = iteration.toBlock
    BY <1>5, <2>2 DEF BackfillForAddresses, Running
  <2>4. IterationOK
    BY DEF PollerOK
  <2>5. IterationOK'
    BY <2>1, <2>2, <2>3, <2>4, Zenon DEF IterationOK, OnChain
  <2> QED
    BY <2>1, <2>5 DEF PollerOK
<1>6. CASE Process
  BY <1>6, PollerProcess
<1>7. CASE Finish
  <2>1. ChainOK' /\ FiltersOK' /\ UNCHANGED <<head, txs, logs>>
    BY <1>7, SameChain DEF Finish
  <2>2. iteration \in Running /\ iteration # Idle /\ iteration.toBlock \in Nat
    BY <1>7, RunningType DEF Finish
  <2>3. iteration.toBlock <= head
    BY <2>2 DEF PollerOK, IterationOK
  <2> QED
    BY <1>7, <2>1, <2>2, <2>3 DEF PollerOK, IterationOK, Finish
<1>8. CASE UNCHANGED vars
  <2>1. UNCHANGED <<chain, filters, lastProcessedSeqNo, logs, iteration>>
    BY <1>8 DEF vars
  <2>2. FiltersOK'
    BY <2>1, SameChain
  <2> QED
    BY <2>1, <2>2, SameIteration
<1> QED
  BY <1>1, <1>2, <1>3, <1>4, <1>5, <1>6, <1>7, <1>8 DEF Next, Poll

-----------------------------------------------------------------------------
(* No message is stored twice. *)

\* Every message the chain carries has a topic.
Decodable == \A out \in Outs : \A dst \in Range(out) : HasEventTopic(dst)

\* The log is of the message.
LogFor(l, m) == m.Src = l.Address /\ m.LT = l.TxLT /\ m.Index = l.Index

\* The block of a log is processed, or the running iteration has read it and
\* is done with its message.
DoneWith(l) ==
    /\ l.TxLT \in DOMAIN txs[l.Address]
    /\ \/ SeqNoOf(l.Address, l.TxLT) <= lastProcessedSeqNo
       \/ /\ iteration # Idle
          /\ SeqNoOf(l.Address, l.TxLT) <= iteration.toBlock
          /\ l.Address \notin iteration.addresses
          /\ \A m \in Range(iteration.msgs) : ~LogFor(l, m)

\* The messages in hand are new, and none is there twice.
NewMessages ==
    iteration # Idle =>
        /\ Distinct(iteration.msgs)
        /\ \A m \in Range(iteration.msgs) :
              /\ iteration.prevBlock < SeqNoOf(m.Src, m.LT)
              /\ SeqNoOf(m.Src, m.LT) <= iteration.toBlock

\* The invariant of the theorem: no log is there twice, and none is of a message
\* that is in hand or still to be read.
ReadOnce == Distinct(logs) /\ NewMessages /\ \A l \in Range(logs) : DoneWith(l)

\* The fields of a stored log.
LEMMA LogType ==
    ASSUME PollerOK, NEW l \in Range(logs)
    PROVE  l.Address \in Address /\ l.TxLT \in Nat /\ l.Index \in Nat
<1>1. logs \in Seq(Log)
  BY DEF PollerOK
<1>2. l \in Log
  BY <1>1 DEF Range
<1> QED
  BY <1>2 DEF Log

\* Steps that leave the poller alone.
LEMMA ReadOnceBeside ==
    ASSUME PollerOK, ReadOnce, NewBlock \/ UNCHANGED chain, UNCHANGED <<iteration, lastProcessedSeqNo, logs>>
    PROVE  ReadOnce'
<1>0. ChainOK /\ (NewBlock \/ UNCHANGED txs)
  BY DEF PollerOK, chain
<1>1. ASSUME NEW l \in Range(logs) PROVE DoneWith(l)'
  <2>1. l.Address \in Address /\ DoneWith(l)
    BY LogType DEF ReadOnce
  <2>2. l.TxLT \in DOMAIN txs'[l.Address] /\ txs'[l.Address][l.TxLT] = txs[l.Address][l.TxLT]
    BY <1>0, <2>1, ChainGrows DEF DoneWith
  <2> QED
    BY <2>1, <2>2 DEF DoneWith, SeqNoOf
<1>2. NewMessages'
  <2>1. SUFFICES ASSUME iteration # Idle, NEW m \in Range(iteration.msgs)
                 PROVE  SeqNoOf(m.Src, m.LT)' = SeqNoOf(m.Src, m.LT)
    BY DEF NewMessages, ReadOnce
  <2>2. OnChain(m)
    BY <2>1 DEF PollerOK, IterationOK
  <2> QED
    BY <1>0, <2>2, StaysOnChain
<1> QED
  BY <1>1, <1>2 DEF ReadOnce

\* What fetchMessagesForAddress brings is in the range of the iteration and of an
\* account nothing in hand is of, so it is new.
LEMMA ReadOnceFetch ==
    ASSUME PollerOK, ReadOnce, "prev" \notin Faults, NEW addr \in Address, fetchMessagesForAddress(addr)
    PROVE  ReadOnce'
<1>1. UNCHANGED <<head, txs, lastProcessedSeqNo, logs>> /\ addr \in iteration.addresses
  BY DEF fetchMessagesForAddress, chain
<1>2. PICK new : /\ Brought(addr, new)
                 /\ iteration' = [iteration EXCEPT !.addresses = @ \ {addr}, !.msgs = @ \o new]
  BY FetchEffect, Zenon
<1>3. iteration \in Running /\ iteration # Idle /\ iteration.msgs \in Seq(Msg)
  BY RunningType DEF fetchMessagesForAddress
<1> DEFINE old == iteration.msgs
<1>4. /\ new \in Seq(Msg) /\ Distinct(new)
      /\ \A m \in Range(new) : /\ m.Src = addr /\ iteration.prevBlock < SeqNoOf(m.Src, m.LT)
                               /\ SeqNoOf(m.Src, m.LT) <= iteration.toBlock
  BY <1>2 DEF Brought
<1>5. \A m \in Range(old) : m.Src \notin iteration.addresses
  BY <1>3 DEF PollerOK, IterationOK
<1>6. Range(old) \cap Range(new) = {} /\ Distinct(old)
  BY <1>1, <1>3, <1>4, <1>5 DEF ReadOnce, NewMessages
<1>7. Range(old \o new) = Range(old) \cup Range(new) /\ Distinct(old \o new)
  BY <1>3, <1>4, <1>6, ConcatElements
<1>8. /\ iteration' # Idle /\ iteration'.msgs = old \o new
      /\ iteration'.addresses = iteration.addresses \ {addr}
      /\ iteration'.prevBlock = iteration.prevBlock /\ iteration'.toBlock = iteration.toBlock
  <2>1. iteration.at = "fetch"
    BY DEF fetchMessagesForAddress
  <2> QED
    BY <1>2, <1>3, <2>1, Zenon DEF Running, Idle
<1>9. NewMessages /\ \A l \in Range(logs) : DoneWith(l)
  BY Zenon DEF ReadOnce
<1> HIDE DEF old
<1>10. NewMessages'
  <2>1. \A m \in Range(old) : /\ iteration.prevBlock < SeqNoOf(m.Src, m.LT)
                              /\ SeqNoOf(m.Src, m.LT) <= iteration.toBlock
    BY <1>3, <1>9 DEF NewMessages, old
  <2> QED
    BY <1>1, <1>4, <1>7, <1>8, <2>1 DEF NewMessages, SeqNoOf
<1>11. ASSUME NEW l \in Range(logs) PROVE DoneWith(l)'
  <2>1. CASE SeqNoOf(l.Address, l.TxLT) <= lastProcessedSeqNo
    BY <1>1, <1>9, <2>1, Zenon DEF DoneWith, SeqNoOf
  <2>2. CASE ~(SeqNoOf(l.Address, l.TxLT) <= lastProcessedSeqNo)
    <3>1. /\ SeqNoOf(l.Address, l.TxLT) <= iteration.toBlock
          /\ l.Address \notin iteration.addresses
          /\ \A m \in Range(old) : ~LogFor(l, m)
          /\ l.TxLT \in DOMAIN txs[l.Address]
      BY <1>9, <2>2 DEF DoneWith, old
    <3>2. \A m \in Range(new) : ~LogFor(l, m)
      BY <1>1, <1>4, <3>1 DEF LogFor
    <3>3. \A m \in Range(iteration'.msgs) : ~LogFor(l, m)
      BY <1>7, <1>8, <3>1, <3>2
    <3> QED
      BY <1>1, <1>8, <3>1, <3>3, Zenon DEF DoneWith, SeqNoOf
  <2> QED
    BY <2>1, <2>2, Zenon
<1> QED
  BY <1>1, <1>9, <1>10, <1>11 DEF ReadOnce

\* A message on the chain can be decoded when all can.
LEMMA DecodableMessage ==
    ASSUME ChainOK, Decodable, NEW m, OnChain(m)
    PROVE  HasEventTopic(m.Dst)
<1> DEFINE out == txs[m.Src][m.LT].Out
<1>1. m.Src \in Address /\ m.LT \in DOMAIN txs[m.Src] /\ m.Index \in DOMAIN out /\ m.Dst = out[m.Index]
  BY DEF OnChain, Msg
<1>2. txs[m.Src][m.LT] \in Tx
  BY <1>1, TransactionType
<1>3. out \in Outs
  BY <1>2 DEF Tx
<1> HIDE DEF out
<1>4. m.Dst \in Range(out)
  BY <1>1 DEF Range
<1> QED
  BY <1>3, <1>4 DEF Decodable

\* The logs Process stores are of the first message in hand, which no log is of
\* yet and which is no longer in hand afterwards.
LEMMA ReadOnceProcess ==
    ASSUME PollerOK, ReadOnce, Decodable, Process
    PROVE  ReadOnce'
<1> DEFINE msgs == iteration.msgs
           msg == Head(msgs)
<1>1. UNCHANGED <<head, txs, lastProcessedSeqNo>> /\ msgs # << >> /\ iteration.at = "process"
  BY DEF Process, chain
<1>2. iteration \in Running /\ iteration # Idle /\ msgs \in Seq(Msg)
  BY <1>1, RunningType
<1>3. NewMessages /\ Distinct(logs) /\ \A l \in Range(logs) : DoneWith(l)
  BY DEF ReadOnce
<1>4. Distinct(msgs) /\ \A m \in Range(msgs) : /\ iteration.prevBlock < SeqNoOf(m.Src, m.LT)
                                               /\ SeqNoOf(m.Src, m.LT) <= iteration.toBlock
  BY <1>2, <1>3 DEF NewMessages
<1>5. /\ msg \in Msg /\ Tail(msgs) \in Seq(Msg) /\ Range(msgs) = {msg} \cup Range(Tail(msgs))
      /\ Distinct(Tail(msgs)) /\ msg \notin Range(Tail(msgs))
  BY <1>1, <1>2, <1>4, HeadAndTail
<1>6. /\ iteration.prevBlock = lastProcessedSeqNo
      /\ \A m \in Range(msgs) : OnChain(m) /\ m.Src \notin iteration.addresses
  BY <1>2 DEF PollerOK, IterationOK
<1>7. HasEventTopic(msg.Dst)
  BY <1>5, <1>6, DecodableMessage DEF PollerOK
<1>8. PICK saved \in Saved(msg) : logs' = logs \o saved
  BY <1>7, Zenon DEF Process, SaveLogs
<1>9. saved \in Seq(Log) /\ Distinct(saved) /\ \A l \in Range(saved) : LogFor(l, msg)
  BY <1>5, <1>7, SaveEffect DEF StoredFor, LogOf, LogFor
<1>10. iteration' = [iteration EXCEPT !.msgs = Tail(@)]
  BY <1>7 DEF Process
<1>11. /\ iteration' # Idle /\ iteration'.msgs = Tail(msgs)
       /\ iteration'.addresses = iteration.addresses
       /\ iteration'.prevBlock = iteration.prevBlock /\ iteration'.toBlock = iteration.toBlock
  BY <1>1, <1>2, <1>10 DEF Running, Idle
<1> HIDE DEF msgs, msg
<1>12. msg \in Range(msgs) /\ iteration.msgs = msgs
  BY <1>5 DEF msgs
<1>13. ASSUME NEW l \in Range(logs) PROVE ~LogFor(l, msg)
  <2>1. SUFFICES ASSUME LogFor(l, msg) PROVE FALSE
    OBVIOUS
  <2>2. l.Address = msg.Src /\ l.TxLT = msg.LT
    BY <2>1 DEF LogFor
  <2>3. SeqNoOf(msg.Src, msg.LT) <= lastProcessedSeqNo
    BY <1>3, <1>12, <2>1, <2>2, ZenonT(30) DEF DoneWith
  <2>4. SeqNoOf(msg.Src, msg.LT) \in Nat /\ lastProcessedSeqNo \in Nat
    BY <1>6, <1>12, TransactionType DEF PollerOK, OnChain, Msg, SeqNoOf
  <2> QED
    BY <1>4, <1>6, <1>12, <2>3, <2>4
<1>14. Range(logs) \cap Range(saved) = {}
  BY <1>9, <1>13
<1>15. Range(logs') = Range(logs) \cup Range(saved) /\ Distinct(logs')
  BY <1>3, <1>8, <1>9, <1>14, ConcatElements, SMTT(30) DEF PollerOK
<1>16. NewMessages'
  BY <1>1, <1>4, <1>5, <1>11, Zenon DEF NewMessages, SeqNoOf
<1>17. ASSUME NEW l \in Range(logs) PROVE DoneWith(l)'
  BY <1>1, <1>3, <1>5, <1>11, <1>12, ZenonT(30) DEF DoneWith, SeqNoOf
<1>18. ASSUME NEW l \in Range(saved) PROVE DoneWith(l)'
  <2>1. l.Address = msg.Src /\ l.TxLT = msg.LT /\ l.Index = msg.Index
    BY <1>9 DEF LogFor
  <2>2. ASSUME NEW m \in Range(Tail(msgs)), LogFor(l, m) PROVE FALSE
    <3>1. m.Src = msg.Src /\ m.LT = msg.LT /\ m.Index = msg.Index
      BY <2>1, <2>2 DEF LogFor
    <3>2. OnChain(m) /\ OnChain(msg)
      BY <1>5, <1>6, <1>12, ZenonT(30)
    <3>3. m = msg
      BY <3>1, <3>2 DEF OnChain, Msg
    <3> QED
      BY <1>5, <3>3
  <2>3. OnChain(msg) /\ msg.Src \notin iteration.addresses /\ SeqNoOf(msg.Src, msg.LT) <= iteration.toBlock
    BY <1>4, <1>6, <1>12
  <2> QED
    BY <1>1, <1>11, <2>1, <2>2, <2>3, ZenonT(30) DEF DoneWith, SeqNoOf, OnChain
<1> QED
  BY <1>15, <1>16, <1>17, <1>18 DEF ReadOnce

\* ReadOnce is inductive, beside PollerOK, when every message can be decoded
\* and the start of a range is known.
LEMMA ReadOnceNext ==
    ASSUME "prev" \notin Faults, Decodable, PollerOK, ReadOnce, [Next]_vars
    PROVE  ReadOnce'
<1>1. CASE NewBlock
  BY <1>1, ReadOnceBeside, Zenon DEF NewBlock
<1>2. ASSUME NEW flt \in Filter, RegisterFilter(flt) \/ UnregisterFilter(flt) PROVE ReadOnce'
  BY <1>2, ReadOnceBeside DEF RegisterFilter, UnregisterFilter
<1>3. ASSUME NEW seen \in 0 .. head, run(seen) PROVE ReadOnce'
  <2>1. UNCHANGED <<head, txs, lastProcessedSeqNo, logs>> /\ iteration.at = "idle"
    BY <1>3 DEF run, chain
  <2>2. iteration = Idle
    BY <2>1 DEF PollerOK, IterationOK, Running
  <2>3. iteration'.msgs = << >>
    BY <1>3 DEF run
  <2>4. Distinct(iteration'.msgs) /\ Range(iteration'.msgs) = {}
    BY <2>3, SMTT(30) DEF Distinct, Range
  <2>5. \A l \in Range(logs) : DoneWith(l)'
    BY <2>1, <2>2 DEF ReadOnce, DoneWith, SeqNoOf
  <2> QED
    BY <2>1, <2>4, <2>5 DEF ReadOnce, NewMessages
<1>4. ASSUME NEW addr \in Address, fetchMessagesForAddress(addr) PROVE ReadOnce'
  BY <1>4, ReadOnceFetch
<1>5. CASE BackfillForAddresses
  <2>1. UNCHANGED <<head, txs, lastProcessedSeqNo, logs>> /\ iteration.at = "fetch"
    BY <1>5 DEF BackfillForAddresses, chain
  <2>2. iteration \in Running /\ iteration # Idle
    BY <2>1, RunningType
  <2>3. /\ iteration'.addresses = iteration.addresses /\ iteration'.msgs = iteration.msgs
        /\ iteration'.prevBlock = iteration.prevBlock /\ iteration'.toBlock = iteration.toBlock
        /\ iteration' # Idle
    BY <1>5, <2>2, Zenon DEF BackfillForAddresses, Running, Idle
  <2>4. NewMessages'
    BY <2>1, <2>2, <2>3, ZenonT(30) DEF ReadOnce, NewMessages, SeqNoOf
  <2>5. \A l \in Range(logs) : DoneWith(l)'
    BY <2>1, <2>2, <2>3 DEF ReadOnce, DoneWith, SeqNoOf
  <2> QED
    BY <2>1, <2>4, <2>5 DEF ReadOnce
<1>6. CASE Process
  BY <1>6, ReadOnceProcess
<1>7. CASE Finish
  <2>1. UNCHANGED <<head, txs, logs>> /\ lastProcessedSeqNo' = iteration.toBlock /\ iteration' = Idle
        /\ iteration.at = "process"
    BY <1>7, ZenonT(30) DEF Finish, chain
  <2>2. /\ iteration.toBlock \in Nat /\ lastProcessedSeqNo \in Nat /\ lastProcessedSeqNo < iteration.toBlock
        /\ ChainOK
    BY <2>1, RunningType DEF PollerOK, IterationOK
  <2>3. ASSUME NEW l \in Range(logs) PROVE DoneWith(l)'
    <3>1. l.TxLT \in DOMAIN txs[l.Address] /\ l.Address \in Address
      BY LogType DEF ReadOnce, DoneWith
    <3>2. SeqNoOf(l.Address, l.TxLT) \in Nat
      BY <2>2, <3>1, TransactionType, SMTT(30) DEF SeqNoOf
    <3>3. SeqNoOf(l.Address, l.TxLT) <= iteration.toBlock
      BY <2>2, <3>2 DEF ReadOnce, DoneWith
    <3> QED
      BY <2>1, <3>1, <3>3, ZenonT(30) DEF DoneWith, SeqNoOf
  <2> QED
    BY <2>1, <2>3 DEF ReadOnce, NewMessages
<1>8. CASE UNCHANGED vars
  BY <1>8, ReadOnceBeside DEF vars
<1> QED
  BY <1>1, <1>2, <1>3, <1>4, <1>5, <1>6, <1>7, <1>8, Zenon DEF Next, Poll

\* No message is stored twice for a filter, however many accounts, pages and
\* iterations there are, whichever filters come and go, and whether or not
\* ListTransactions or GetAccount at the end of a range fails.  Both hypotheses
\* are needed: an error of GetAccount at the start of a range is taken for a new
\* account and the whole history is read again, and a message without a topic
\* ends the iteration after the logs before it are stored, so that the next
\* iteration stores them again.
THEOREM LogsStoredOnce ==
    ASSUME "prev" \notin Faults, Decodable
    PROVE  Spec => []NoDuplicates
<1>1. Init => PollerOK
  BY PollerInit
<1>2. Init => ReadOnce
  BY DEF Init, NewLogPoller, NewInMemoryStore, ReadOnce, NewMessages, Distinct, Range
<1>3. PollerOK /\ [Next]_vars => PollerOK'
  BY PollerNext
<1>4. PollerOK /\ ReadOnce /\ [Next]_vars => ReadOnce'
  BY ReadOnceNext
<1>5. ReadOnce => NoDuplicates
  BY DEF ReadOnce, NoDuplicates, Distinct
<1> QED
  BY <1>1, <1>2, <1>3, <1>4, <1>5, PTL DEF Spec

-----------------------------------------------------------------------------
(* Processed blocks are complete. *)

\* No two filters watch the same topic of an account.
DistinctPairs ==
    \A f, g \in Filter : f.Address = g.Address /\ f.EventTopic = g.EventTopic => f = g

\* The pair of a registered filter is watched.
PairsWatched == \A flt \in filtersByName : <<flt.Address, flt.EventTopic>> \in filtersByAddress

\* A message is logged once its block is processed; in the range of the running
\* iteration its account is still to be read, or it is in hand, or logged.
OnTheWay(flt, lt, i) ==
    /\ SeqNoOf(flt.Address, lt) <= lastProcessedSeqNo => IsLogged(flt, flt.Address, lt, i)
    /\ /\ iteration # Idle
       /\ iteration.prevBlock < SeqNoOf(flt.Address, lt)
       /\ SeqNoOf(flt.Address, lt) <= iteration.toBlock
       => \/ flt.Address \in iteration.addresses
          \/ MessageAt(flt.Address, lt, i) \in Range(iteration.msgs)
          \/ IsLogged(flt, flt.Address, lt, i)

\* The invariant of the theorem.
AllOnTheWay ==
    \A flt \in filtersByName, lt \in Nat, i \in Nat : Wanted(flt, lt, i) => OnTheWay(flt, lt, i)

\* A covered message is a message of the chain.
LEMMA WantedType ==
    ASSUME PollerOK, NEW flt, NEW lt, NEW i, Wanted(flt, lt, i)
    PROVE  /\ flt \in filtersByName /\ flt \in Filter /\ flt.Address \in Address /\ flt.Name \in Name
           /\ lt \in DOMAIN txs[flt.Address] /\ lt \in Nat /\ i \in Nat
           /\ SeqNoOf(flt.Address, lt) \in Nat /\ SeqNoOf(flt.Address, lt) <= head
           /\ MessageAt(flt.Address, lt, i) \in Msg /\ OnChain(MessageAt(flt.Address, lt, i))
<1>1. flt \in filtersByName /\ flt \in Filter /\ ChainOK
  BY DEF Wanted, PollerOK, FiltersOK
<1>2. flt.Address \in Address /\ flt.Name \in Name
  BY <1>1, FilterType
<1> DEFINE out == txs[flt.Address][lt].Out
<1>3. lt \in DOMAIN txs[flt.Address] /\ i \in DOMAIN out
  BY DEF Wanted
<1>4. lt \in Nat /\ txs[flt.Address][lt].SeqNo \in Nat /\ out \in Seq(Seq(Byte))
  BY <1>1, <1>2, <1>3, TransactionType
<1>5. txs[flt.Address][lt].SeqNo <= head
  BY <1>1, <1>2, <1>3 DEF ChainOK
<1>6. i \in Nat /\ out[i] \in Seq(Byte)
  <2> HIDE DEF out
  <2> QED
    BY <1>3, <1>4
<1> HIDE DEF out
<1>7. MessageAt(flt.Address, lt, i) = [Src |-> flt.Address, LT |-> lt, Index |-> i, Dst |-> out[i]]
  BY SMTT(30) DEF MessageAt, out
<1>8. MessageAt(flt.Address, lt, i) \in Msg
  BY <1>2, <1>4, <1>6, <1>7, SMTT(30) DEF Msg
<1>9. OnChain(MessageAt(flt.Address, lt, i))
  BY <1>3, <1>7, <1>8, SMTT(30) DEF OnChain, out
<1> QED
  BY <1>1, <1>2, <1>3, <1>4, <1>5, <1>6, <1>8, <1>9, ZenonT(30) DEF SeqNoOf

\* The store only grows.
LEMMA LoggedGrows ==
    ASSUME PollerOK, NEW saved \in Seq(Log), logs' = logs \o saved, NEW flt, NEW addr, NEW lt, NEW i
    PROVE  /\ IsLogged(flt, addr, lt, i) => IsLogged(flt, addr, lt, i)'
           /\ (\E l \in Range(saved) : /\ l.FilterID = flt.Name /\ l.Address = addr
                                       /\ l.TxLT = lt /\ l.Index = i)
                 => IsLogged(flt, addr, lt, i)'
<1> DEFINE P(l) == l.FilterID = flt.Name /\ l.Address = addr /\ l.TxLT = lt /\ l.Index = i
<1>1. IsLogged(flt, addr, lt, i) <=> \E l \in Range(logs) : P(l)
  BY Zenon DEF IsLogged, Range
<1>2. IsLogged(flt, addr, lt, i)' <=> \E l \in Range(logs') : P(l)
  BY Zenon DEF IsLogged, Range
<1>3. Range(logs') = Range(logs) \cup Range(saved)
  BY ConcatElements DEF PollerOK
<1> QED
  BY <1>1, <1>2, <1>3, Zenon

\* A step that leaves the poller alone leaves a message covered before on its way.
LEMMA StillOnTheWay ==
    ASSUME PollerOK, NewBlock \/ UNCHANGED chain, UNCHANGED <<iteration, lastProcessedSeqNo, logs>>,
           NEW flt, NEW lt, NEW i, Wanted(flt, lt, i), OnTheWay(flt, lt, i)
    PROVE  OnTheWay(flt, lt, i)'
<1>1. flt.Address \in Address /\ lt \in DOMAIN txs[flt.Address]
  BY WantedType, ZenonT(30)
<1>2. txs'[flt.Address][lt] = txs[flt.Address][lt]
  BY <1>1, ChainGrows DEF PollerOK, chain
<1> QED
  BY <1>2, ZenonT(30) DEF OnTheWay, SeqNoOf, MessageAt, IsLogged

\* UnregisterFilter takes away the pair of no other filter.
LEMMA PairsWatchedNext ==
    ASSUME DistinctPairs, PollerOK, PairsWatched, [Next]_vars
    PROVE  PairsWatched'
<1>0. filtersByName \subseteq Filter
  BY DEF PollerOK, FiltersOK
<1>1. ASSUME NEW flt \in Filter, RegisterFilter(flt) PROVE PairsWatched'
  BY <1>1, Zenon DEF RegisterFilter, PairsWatched
<1>2. ASSUME NEW flt \in Filter, UnregisterFilter(flt) PROVE PairsWatched'
  <2>1. ASSUME NEW g \in filtersByName, g # flt PROVE <<g.Address, g.EventTopic>> \in filtersByAddress'
    <3>1. <<g.Address, g.EventTopic>> # <<flt.Address, flt.EventTopic>>
      BY <1>0, <1>2, <2>1 DEF DistinctPairs, UnregisterFilter
    <3> QED
      BY <1>2, <2>1, <3>1 DEF UnregisterFilter, PairsWatched
  <2> QED
    BY <1>2, <2>1, Zenon DEF UnregisterFilter, PairsWatched
<1>3. CASE UNCHANGED filters
  BY <1>3, Zenon DEF filters, PairsWatched
<1>4. NewBlock \/ Poll => UNCHANGED filters
  BY Zenon DEF NewBlock, Poll, run, fetchMessagesForAddress, BackfillForAddresses, Process, Finish
<1>5. UNCHANGED vars => UNCHANGED filters
  BY DEF vars
<1> QED
  BY <1>1, <1>2, <1>3, <1>4, <1>5 DEF Next

\* A message of a new block is after every range scanned so far.
LEMMA WayBlock ==
    ASSUME PollerOK, AllOnTheWay, NewBlock
    PROVE  AllOnTheWay'
<1> SUFFICES ASSUME NEW flt \in filtersByName', NEW lt \in Nat, NEW i \in Nat, Wanted(flt, lt, i)'
             PROVE  OnTheWay(flt, lt, i)'
  BY DEF AllOnTheWay
<1>1. UNCHANGED <<filtersByName, since, iteration, lastProcessedSeqNo, logs>> /\ ChainOK
  BY DEF NewBlock, filters, PollerOK
<1>2. flt \in Filter /\ flt.Address \in Address
  BY <1>1, FilterType DEF PollerOK, FiltersOK
<1>3. CASE lt \in DOMAIN txs[flt.Address]
  <2>1. txs'[flt.Address][lt] = txs[flt.Address][lt]
    BY <1>1, <1>2, <1>3, ChainGrows, Zenon
  <2>2. Wanted(flt, lt, i)
    BY <1>1, <1>3, <2>1, ZenonT(30) DEF Wanted
  <2> QED
    BY <1>1, <2>2, StillOnTheWay DEF AllOnTheWay
<1>4. CASE lt \notin DOMAIN txs[flt.Address]
  <2>1. SeqNoOf(flt.Address, lt)' = head + 1
    BY <1>1, <1>2, <1>4, ChainGrows DEF Wanted, SeqNoOf
  <2>2. head \in Nat /\ lastProcessedSeqNo \in Nat /\ lastProcessedSeqNo <= head
    BY DEF PollerOK, ChainOK
  <2>3. iteration # Idle => iteration.toBlock \in Nat /\ iteration.toBlock <= head
    BY DEF PollerOK, IterationOK, Running
  <2> QED
    BY <1>1, <2>1, <2>2, <2>3, SMTT(30) DEF OnTheWay
<1> QED
  BY <1>3, <1>4

\* A filter registered during an iteration is served from the end of its range
\* on, so it covers nothing the iteration may have missed.
LEMMA WayRegister ==
    ASSUME PollerOK, AllOnTheWay, NEW g \in Filter, RegisterFilter(g) \/ UnregisterFilter(g)
    PROVE  AllOnTheWay'
<1> SUFFICES ASSUME NEW flt \in filtersByName', NEW lt \in Nat, NEW i \in Nat, Wanted(flt, lt, i)'
             PROVE  OnTheWay(flt, lt, i)'
  BY DEF AllOnTheWay
<1>1. UNCHANGED <<head, txs, iteration, lastProcessedSeqNo, logs>>
  BY DEF RegisterFilter, UnregisterFilter, chain
<1>2. /\ filtersByName \subseteq Filter /\ since \in [Name -> Nat] /\ g.Name \in Name
      /\ \A e, f \in filtersByName : e.Name = f.Name => e = f
  BY FilterType DEF PollerOK, FiltersOK
<1>3. CASE flt \in filtersByName
  <2>1. flt.Name \in Name
    BY <1>2, <1>3, FilterType
  <2>2. since'[flt.Name] = since[flt.Name]
    <3>1. CASE RegisterFilter(g)
      BY <1>2, <1>3, <2>1, <3>1 DEF RegisterFilter
    <3>2. CASE UnregisterFilter(g)
      BY <1>2, <1>3, <2>1, <3>2, Zenon DEF UnregisterFilter
    <3> QED
      BY <3>1, <3>2
  <2>3. Wanted(flt, lt, i)
    BY <1>1, <1>3, <2>2, Zenon DEF Wanted
  <2> QED
    BY <1>1, <1>3, <2>3, StillOnTheWay DEF AllOnTheWay, chain
<1>4. CASE flt \notin filtersByName
  <2>1. RegisterFilter(g) /\ flt = g
    BY <1>4 DEF RegisterFilter, UnregisterFilter
  <2>2. since'[flt.Name] = Frontier
    BY <1>2, <1>4, <2>1, Zenon DEF RegisterFilter
  <2>3. SeqNoOf(flt.Address, lt)' > Frontier
    BY <2>2 DEF Wanted, SeqNoOf
  <2>4. /\ Frontier \in Nat /\ lastProcessedSeqNo \in Nat /\ lastProcessedSeqNo <= Frontier
        /\ iteration # Idle => iteration.toBlock = Frontier
    <3>1. CASE iteration = Idle
      BY <3>1 DEF Frontier, Idle, PollerOK
    <3>2. CASE iteration # Idle
      BY <3>2, SMTT(30) DEF Frontier, PollerOK, IterationOK, Running
    <3> QED
      BY <3>1, <3>2
  <2>5. SeqNoOf(flt.Address, lt)' \in Nat
    BY <1>1, <2>1, FilterType, TransactionType DEF Wanted, SeqNoOf, PollerOK
  <2> QED
    BY <1>1, <2>3, <2>4, <2>5, SMTT(30) DEF OnTheWay
<1> QED
  BY <1>3, <1>4

\* fetchMessagesForAddress brings every message of its account in the range.
LEMMA WayFetch ==
    ASSUME PollerOK, AllOnTheWay, Faults \subseteq {"prev"}, NEW addr \in Address, fetchMessagesForAddress(addr)
    PROVE  AllOnTheWay'
<1> SUFFICES ASSUME NEW flt \in filtersByName', NEW lt \in Nat, NEW i \in Nat, Wanted(flt, lt, i)'
             PROVE  OnTheWay(flt, lt, i)'
  BY DEF AllOnTheWay
<1>1. UNCHANGED <<txs, filtersByName, since, lastProcessedSeqNo, logs>>
  BY DEF fetchMessagesForAddress, chain, filters
<1>2. Wanted(flt, lt, i)
  BY <1>1, Zenon DEF Wanted
<1>3. OnTheWay(flt, lt, i)
  BY <1>1, <1>2 DEF AllOnTheWay
<1>4. PICK new : /\ Brought(addr, new)
                 /\ iteration' = [iteration EXCEPT !.addresses = @ \ {addr}, !.msgs = @ \o new]
  BY FetchEffect, Zenon
<1>5. iteration \in Running /\ iteration # Idle /\ iteration.msgs \in Seq(Msg)
  BY RunningType DEF fetchMessagesForAddress
<1> DEFINE old == iteration.msgs
           m == MessageAt(flt.Address, lt, i)
<1>6. new \in Seq(Msg)
  BY <1>4 DEF Brought
<1>7. Range(old \o new) = Range(old) \cup Range(new)
  BY <1>5, <1>6, ConcatElements
<1>8. /\ iteration'.msgs = old \o new
      /\ iteration'.addresses = iteration.addresses \ {addr}
      /\ iteration'.prevBlock = iteration.prevBlock /\ iteration'.toBlock = iteration.toBlock
  BY <1>4, <1>5, Zenon DEF Running
<1>9. m \in Msg /\ OnChain(m) /\ m.Src = flt.Address /\ m.LT = lt /\ MessageAt(flt.Address, lt, i)' = m
  BY <1>1, <1>2, WantedType, Zenon DEF MessageAt
<1> HIDE DEF old, m
<1>10. ASSUME flt.Address = addr, iteration.prevBlock < SeqNoOf(flt.Address, lt),
              SeqNoOf(flt.Address, lt) <= iteration.toBlock
       PROVE  m \in Range(new)
  BY <1>4, <1>9, <1>10, Zenon DEF Brought
<1>11. /\ SeqNoOf(flt.Address, lt)' = SeqNoOf(flt.Address, lt)
       /\ IsLogged(flt, flt.Address, lt, i)' <=> IsLogged(flt, flt.Address, lt, i)
  BY <1>1, Zenon DEF SeqNoOf, IsLogged
<1>12. ASSUME iteration.prevBlock < SeqNoOf(flt.Address, lt), SeqNoOf(flt.Address, lt) <= iteration.toBlock
       PROVE  \/ flt.Address \in iteration'.addresses
              \/ m \in Range(iteration'.msgs)
              \/ IsLogged(flt, flt.Address, lt, i)
  BY <1>3, <1>5, <1>7, <1>8, <1>10, <1>12, ZenonT(30) DEF OnTheWay, old, m
<1> QED
  BY <1>1, <1>3, <1>8, <1>9, <1>11, <1>12, Zenon DEF OnTheWay

\* Process stores a log of the first message in hand for every filter that covers
\* it: the pair of the filter is watched, and the name stands for no other.
LEMMA WayProcess ==
    ASSUME PollerOK, AllOnTheWay, PairsWatched, Process
    PROVE  AllOnTheWay'
<1> SUFFICES ASSUME NEW flt \in filtersByName', NEW lt \in Nat, NEW i \in Nat, Wanted(flt, lt, i)'
             PROVE  OnTheWay(flt, lt, i)'
  BY DEF AllOnTheWay
<1>1. UNCHANGED <<txs, filtersByName, since, lastProcessedSeqNo>>
  BY ZenonT(30) DEF Process, chain, filters
<1>2. Wanted(flt, lt, i)
  BY <1>1 DEF Wanted
<1>3. OnTheWay(flt, lt, i)
  BY <1>1, <1>2 DEF AllOnTheWay
<1> DEFINE msgs == iteration.msgs
           msg == Head(msgs)
           m == MessageAt(flt.Address, lt, i)
<1>4. iteration \in Running /\ iteration # Idle /\ msgs \in Seq(Msg) /\ msgs # << >>
  BY RunningType DEF Process
<1>5. msg \in Msg /\ Range(msgs) = {msg} \cup Range(Tail(msgs))
  BY <1>4, HeadAndTail, Zenon
<1>6. CASE ~HasEventTopic(msg.Dst)
  <2>1. iteration' = Idle /\ logs' = logs
    BY <1>6, Zenon DEF Process
  <2> QED
    BY <1>1, <1>3, <2>1 DEF OnTheWay, SeqNoOf, IsLogged
<1>7. CASE HasEventTopic(msg.Dst)
  <2>1. PICK saved \in Saved(msg) : logs' = logs \o saved
    BY <1>7, Zenon DEF Process, SaveLogs
  <2>2. StoredFor(msg, saved)
    BY <1>5, <1>7, SaveEffect
  <2>3. IsLogged(flt, flt.Address, lt, i) => IsLogged(flt, flt.Address, lt, i)'
    BY <2>1, <2>2, LoggedGrows, Zenon DEF StoredFor
  <2>4. ASSUME m = msg PROVE IsLogged(flt, flt.Address, lt, i)'
    <3>0. m.Src = flt.Address /\ m.LT = lt /\ m.Index = i /\ m.Dst = txs[flt.Address][lt].Out[i]
      BY DEF MessageAt
    <3>1. /\ msg.Src = flt.Address /\ msg.LT = lt /\ msg.Index = i
          /\ DecodeEventTopic(msg.Dst) = flt.EventTopic
      BY <1>2, <2>4, <3>0, Zenon DEF Wanted
    <3>2. flt \in MatchingFilters(msg.Src, DecodeEventTopic(msg.Dst))
      BY <1>1, <3>1, Zenon DEF MatchingFilters, PairsWatched
    <3>3. LogOf(flt, msg) \in Range(saved)
      BY <2>2, <3>2, ZenonT(30) DEF StoredFor
    <3>4. /\ LogOf(flt, msg).FilterID = flt.Name /\ LogOf(flt, msg).Address = flt.Address
          /\ LogOf(flt, msg).TxLT = lt /\ LogOf(flt, msg).Index = i
      BY <3>1 DEF LogOf
    <3> QED
      BY <2>1, <2>2, <3>3, <3>4, LoggedGrows, ZenonT(30) DEF StoredFor
  <2>5. iteration' = [iteration EXCEPT !.msgs = Tail(@)]
    BY <1>7 DEF Process
  <2>6. /\ iteration'.msgs = Tail(msgs) /\ iteration'.addresses = iteration.addresses
        /\ iteration'.prevBlock = iteration.prevBlock /\ iteration'.toBlock = iteration.toBlock
    BY <1>4, <2>5, Zenon DEF Running
  <2>7. SeqNoOf(flt.Address, lt)' = SeqNoOf(flt.Address, lt) /\ MessageAt(flt.Address, lt, i)' = m
    BY <1>1 DEF SeqNoOf, MessageAt
  <2> HIDE DEF msg, m
  <2>8. m \in Range(msgs) => m \in Range(Tail(msgs)) \/ IsLogged(flt, flt.Address, lt, i)'
    BY <1>5, <2>4
  <2> QED
    BY <1>1, <1>3, <1>4, <2>3, <2>6, <2>7, <2>8, ZenonT(30) DEF OnTheWay, m
<1> QED
  BY <1>6, <1>7

\* AllOnTheWay is inductive, beside PollerOK and PairsWatched, when the history
\* is read to its end.
LEMMA WayNext ==
    ASSUME Faults \subseteq {"prev"}, PollerOK, PairsWatched, AllOnTheWay, [Next]_vars
    PROVE  AllOnTheWay'
<1>1. CASE NewBlock
  BY <1>1, WayBlock
<1>2. ASSUME NEW flt \in Filter, RegisterFilter(flt) \/ UnregisterFilter(flt) PROVE AllOnTheWay'
  BY <1>2, WayRegister, Zenon
<1>3. ASSUME NEW seen \in 0 .. head, run(seen) PROVE AllOnTheWay'
  <2> SUFFICES ASSUME NEW flt \in filtersByName', NEW lt \in Nat, NEW i \in Nat, Wanted(flt, lt, i)'
               PROVE  OnTheWay(flt, lt, i)'
    BY DEF AllOnTheWay
  <2>1. UNCHANGED <<txs, filtersByName, since, lastProcessedSeqNo, logs>>
    BY <1>3, ZenonT(30) DEF run, chain, filters
  <2>2. OnTheWay(flt, lt, i)
    BY <2>1, Zenon DEF AllOnTheWay, Wanted
  <2>3. flt.Address \in GetDistinctAddresses
    <3> DEFINE p == <<flt.Address, flt.EventTopic>>
    <3>1. p \in filtersByAddress /\ p[1] = flt.Address
      BY <2>1 DEF PairsWatched
    <3> QED
      BY <3>1 DEF GetDistinctAddresses
  <2>4. iteration'.addresses = GetDistinctAddresses
    BY <1>3 DEF run
  <2> QED
    BY <2>1, <2>2, <2>3, <2>4 DEF OnTheWay, SeqNoOf, IsLogged
<1>4. ASSUME NEW addr \in Address, fetchMessagesForAddress(addr) PROVE AllOnTheWay'
  BY <1>4, WayFetch
<1>5. CASE BackfillForAddresses
  <2> SUFFICES ASSUME NEW flt \in filtersByName', NEW lt \in Nat, NEW i \in Nat, Wanted(flt, lt, i)'
               PROVE  OnTheWay(flt, lt, i)'
    BY DEF AllOnTheWay
  <2>1. UNCHANGED <<txs, filtersByName, since, lastProcessedSeqNo, logs>>
    BY <1>5 DEF BackfillForAddresses, chain, filters
  <2>2. OnTheWay(flt, lt, i)
    BY <2>1, Zenon DEF AllOnTheWay, Wanted
  <2>3. iteration \in Running /\ iteration # Idle
    BY <1>5, RunningType DEF BackfillForAddresses
  <2>4. /\ iteration'.msgs = iteration.msgs /\ iteration'.addresses = iteration.addresses
        /\ iteration'.prevBlock = iteration.prevBlock /\ iteration'.toBlock = iteration.toBlock
    BY <1>5, <2>3 DEF BackfillForAddresses, Running
  <2> QED
    BY <2>1, <2>2, <2>3, <2>4, Zenon DEF OnTheWay, SeqNoOf, IsLogged, MessageAt
<1>6. CASE Process
  BY <1>6, WayProcess
<1>7. CASE Finish
  <2> SUFFICES ASSUME NEW flt \in filtersByName', NEW lt \in Nat, NEW i \in Nat, Wanted(flt, lt, i)'
               PROVE  OnTheWay(flt, lt, i)'
    BY DEF AllOnTheWay
  <2>1. /\ UNCHANGED <<txs, filtersByName, since, logs>> /\ iteration' = Idle
        /\ lastProcessedSeqNo' = iteration.toBlock /\ iteration.msgs = << >> /\ iteration.at = "process"
    BY <1>7, Zenon DEF Finish, chain, filters
  <2>2. Wanted(flt, lt, i)
    BY <2>1, Zenon DEF Wanted
  <2>3. OnTheWay(flt, lt, i)
    BY <2>1, <2>2, ZenonT(30) DEF AllOnTheWay
  <2>4. /\ iteration # Idle /\ iteration.addresses = {} /\ iteration.prevBlock = lastProcessedSeqNo
        /\ lastProcessedSeqNo \in Nat
    BY <2>1, RunningType DEF PollerOK, IterationOK
  <2>5. Range(iteration.msgs) = {}
    BY <2>1 DEF Range
  <2>6. SeqNoOf(flt.Address, lt) \in Nat
    BY <2>2, WantedType, ZenonT(30)
  <2>7. SeqNoOf(flt.Address, lt) <= iteration.toBlock => IsLogged(flt, flt.Address, lt, i)
    BY <2>3, <2>4, <2>5, <2>6 DEF OnTheWay
  <2> QED
    BY <2>1, <2>7, Zenon DEF OnTheWay, SeqNoOf, IsLogged
<1>8. CASE UNCHANGED vars
  <2>1. UNCHANGED <<chain, filtersByName, since, iteration, lastProcessedSeqNo, logs>> /\ UNCHANGED txs
    BY <1>8 DEF vars, filters, chain
  <2>2. ASSUME NEW flt \in filtersByName, NEW lt \in Nat, NEW i \in Nat, Wanted(flt, lt, i)'
        PROVE  OnTheWay(flt, lt, i)'
    <3>1. Wanted(flt, lt, i)
      BY <2>1, <2>2 DEF Wanted
    <3> QED
      BY <2>1, <3>1, StillOnTheWay, ZenonT(30) DEF AllOnTheWay
  <2> QED
    BY <2>1, <2>2 DEF AllOnTheWay
<1> QED
  BY <1>1, <1>2, <1>3, <1>4, <1>5, <1>6, <1>7, <1>8 DEF Next, Poll

\* Once a block counts as processed, every message of it that a registered
\* filter covers is in the store: nothing falls between two pages, two ranges, or
\* an iteration and a registration beside it, for any number of accounts, filters
\* and blocks, also when GetAccount fails at the start of a range or a message
\* without a topic ends iterations.  Both hypotheses are needed: an error of
\* ListTransactions is taken for the end of the history, one of GetAccount at the
\* end of a range is only logged, and the block is saved as processed all the
\* same; and UnregisterFilter stops the watch on the pair of the filter, which
\* another filter may share.
THEOREM ProcessedBlocksAreComplete ==
    ASSUME Faults \subseteq {"prev"}, DistinctPairs
    PROVE  Spec => []Complete
<1>1. Init => PollerOK
  BY PollerInit
<1>2. Init => PairsWatched /\ AllOnTheWay
  BY DEF Init, newFilters, PairsWatched, AllOnTheWay
<1>3. PollerOK /\ [Next]_vars => PollerOK'
  BY PollerNext
<1>4. PollerOK /\ PairsWatched /\ [Next]_vars => PairsWatched'
  BY PairsWatchedNext
<1>5. PollerOK /\ PairsWatched /\ AllOnTheWay /\ [Next]_vars => AllOnTheWay'
  BY WayNext, Zenon
<1>6. PollerOK /\ AllOnTheWay => Complete
  <2> SUFFICES ASSUME PollerOK, AllOnTheWay, NEW flt \in filtersByName, NEW lt \in 1 .. MAX_TXS,
                      NEW i \in MessageIndex, Wanted(flt, lt, i),
                      txs[flt.Address][lt].SeqNo <= lastProcessedSeqNo
               PROVE  IsLogged(flt, flt.Address, lt, i)
    BY DEF Complete
  <2>1. lt \in Nat /\ i \in Nat
    BY WantedType
  <2> QED
    BY <2>1, Zenon DEF AllOnTheWay, OnTheWay, SeqNoOf
<1> QED
  BY <1>1, <1>2, <1>3, <1>4, <1>5, <1>6, PTL DEF Spec

=============================================================================
