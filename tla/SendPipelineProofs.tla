-------------------------- MODULE SendPipelineProofs --------------------------
(***************************************************************************)
(* Facts about the messages in flight between the CCIP contracts, used in  *)
(* the proofs about module CCIPSend: what a transaction that takes the     *)
(* oldest message of a link, and one that also sends a message, do to the  *)
(* channels, and that the sends of a fee quoter move through the stages of *)
(* a pipeline in the order of their ids.  The last section has the         *)
(* inductive invariant of CCIPSend and the steps that leave the pipeline   *)
(* alone or enter it; module CCIPSendProofs has the others.                *)
(***************************************************************************)
EXTENDS CCIPSend, TLAPS

\* The ids in flight along each link.
IdsOf(c) == [l \in Link |-> {c[l][i].id : i \in DOMAIN c[l]}]

IsSeq(s) == \E S : s \in Seq(S)

\* Each link carries messages of M, in the order of their ids.
ChannelsOK(c, M) ==
    /\ c = [l \in Link |-> c[l]]
    /\ \A l \in Link :
          /\ IsSeq(c[l])
          /\ \A i \in DOMAIN c[l] : c[l][i].id \in Nat /\ c[l][i].msg \in M
          /\ \A i, j \in DOMAIN c[l] : i < j => c[l][i].id < c[l][j].id

\* Where the ids of the links go, from f to g, when a transaction takes the
\* message of send h from link a and sends one on along link b.
Moves(f, g, a, b, h) ==
    /\ h \in f[a] /\ h \in Nat
    /\ \A k \in Link : k # a /\ k # b => g[k] = f[k]
    /\ g[a] = f[a] \ {h} /\ \A n \in g[a] : h < n
    /\ g[b] = f[b] \cup {h}

-----------------------------------------------------------------------------
(* Sequences. *)

\* Appending adds one element, the last.
LEMMA AppendFacts ==
    ASSUME NEW s, IsSeq(s), NEW x
    PROVE  /\ IsSeq(Append(s, x))
           /\ Len(s) \in Nat /\ DOMAIN s = 1 .. Len(s)
           /\ Len(Append(s, x)) = Len(s) + 1
           /\ DOMAIN Append(s, x) = DOMAIN s \cup {Len(s) + 1}
           /\ \A i \in DOMAIN s : Append(s, x)[i] = s[i]
           /\ Append(s, x)[Len(s) + 1] = x
<1>1. PICK S : s \in Seq(S)
  BY DEF IsSeq
<1>2. s \in Seq(S \cup {x}) /\ x \in S \cup {x}
  BY <1>1
<1>3. Append(s, x) \in Seq(S \cup {x})
  BY <1>2
<1> QED
  BY <1>2, <1>3 DEF IsSeq

\* Taking the head moves the other elements down by one.
LEMMA TailFacts ==
    ASSUME NEW s, IsSeq(s), s # << >>
    PROVE  /\ IsSeq(Tail(s))
           /\ Len(s) \in Nat \ {0} /\ DOMAIN s = 1 .. Len(s)
           /\ DOMAIN Tail(s) = 1 .. Len(s) - 1
           /\ \A i \in 1 .. Len(s) - 1 : Tail(s)[i] = s[i + 1]
           /\ Head(s) = s[1] /\ 1 \in DOMAIN s
<1>1. PICK S : s \in Seq(S)
  BY DEF IsSeq
<1> QED
  BY <1>1 DEF IsSeq

-----------------------------------------------------------------------------
(* Channels. *)

\* What is left of the channels when the oldest message of link l is taken.
Took(c, l) == [c EXCEPT ![l] = Tail(@)]

\* From c to t, link l has lost its oldest message, h.
TakesFrom(c, t, l, h, M) ==
    /\ ChannelsOK(t, M)
    /\ \A k \in Link : k # l => t[k] = c[k] /\ IdsOf(t)[k] = IdsOf(c)[k]
    /\ h.id \in IdsOf(c)[l] /\ h.id \in Nat /\ h.msg \in M
    /\ IdsOf(t)[l] = IdsOf(c)[l] \ {h.id}
    /\ \A n \in IdsOf(t)[l] : h.id < n
    /\ \A k \in Link : \A i \in DOMAIN t[k] : \E j \in DOMAIN c[k] : t[k][i] = c[k][j]
    /\ \E j \in DOMAIN c[l] : h = c[l][j]

\* A transaction takes the oldest message of its link.
LEMMA TakeOne ==
    ASSUME NEW M, NEW c, ChannelsOK(c, M), NEW l \in Link, c[l] # << >>
    PROVE  TakesFrom(c, Took(c, l), l, Head(c[l]), M)
<1> DEFINE t == Took(c, l)
<1>1. /\ IsSeq(c[l])
      /\ \A i \in DOMAIN c[l] : c[l][i].id \in Nat /\ c[l][i].msg \in M
      /\ \A i, j \in DOMAIN c[l] : i < j => c[l][i].id < c[l][j].id
  BY DEF ChannelsOK
<1>2. /\ DOMAIN c = Link /\ DOMAIN t = Link
      /\ t[l] = Tail(c[l])
      /\ \A k \in Link : k # l => t[k] = c[k]
      /\ t = [k \in Link |-> t[k]]
  <2>1. c = [k \in Link |-> c[k]]
    BY DEF ChannelsOK
  <2> QED
    BY <2>1, Zenon DEF Took
<1> HIDE DEF t
<1>3. /\ IsSeq(t[l])
      /\ Len(c[l]) \in Nat \ {0} /\ DOMAIN c[l] = 1 .. Len(c[l])
      /\ DOMAIN t[l] = 1 .. Len(c[l]) - 1
      /\ \A i \in 1 .. Len(c[l]) - 1 : t[l][i] = c[l][i + 1]
      /\ Head(c[l]) = c[l][1] /\ 1 \in DOMAIN c[l]
  BY <1>1, <1>2, TailFacts
<1>4. /\ \A i \in DOMAIN t[l] : i + 1 \in DOMAIN c[l] /\ 1 < i + 1 /\ t[l][i] = c[l][i + 1]
      /\ \A j \in DOMAIN c[l] : j # 1 => j - 1 \in DOMAIN t[l] /\ t[l][j - 1] = c[l][j]
  BY <1>3, SMTT(30)
<1>5. ChannelsOK(t, M)
  <2>1. \A i \in DOMAIN t[l] : t[l][i].id \in Nat /\ t[l][i].msg \in M
    BY <1>1, <1>4
  <2>2. ASSUME NEW i \in DOMAIN t[l], NEW j \in DOMAIN t[l], i < j
        PROVE  t[l][i].id < t[l][j].id
    <3>1. /\ i + 1 \in DOMAIN c[l] /\ j + 1 \in DOMAIN c[l] /\ i + 1 < j + 1
          /\ t[l][i] = c[l][i + 1] /\ t[l][j] = c[l][j + 1]
      BY <1>3, <1>4, <2>2
    <3> QED
      BY <3>1, <1>1
  <2>3. ASSUME NEW k \in Link
        PROVE  /\ IsSeq(t[k])
               /\ \A i \in DOMAIN t[k] : t[k][i].id \in Nat /\ t[k][i].msg \in M
               /\ \A i, j \in DOMAIN t[k] : i < j => t[k][i].id < t[k][j].id
    <3>1. CASE k = l
      BY <3>1, <1>3, <2>1, <2>2
    <3>2. CASE k # l
      BY <3>2, <1>2 DEF ChannelsOK
    <3> QED
      BY <3>1, <3>2
  <2> QED
    BY <1>2, <2>3 DEF ChannelsOK
<1>6. \A k \in Link : k # l => t[k] = c[k] /\ IdsOf(t)[k] = IdsOf(c)[k]
  BY <1>2 DEF IdsOf
<1>7. Head(c[l]).id \in IdsOf(c)[l] /\ Head(c[l]).id \in Nat /\ Head(c[l]).msg \in M
  BY <1>1, <1>3 DEF IdsOf
<1>8. ASSUME NEW n \in IdsOf(t)[l]
      PROVE  n \in IdsOf(c)[l] /\ Head(c[l]).id < n
  <2>1. PICK i \in DOMAIN t[l] : n = t[l][i].id
    BY <1>8 DEF IdsOf
  <2>2. /\ i + 1 \in DOMAIN c[l] /\ 1 \in DOMAIN c[l] /\ 1 < i + 1
        /\ n = c[l][i + 1].id
    BY <2>1, <1>3, <1>4
  <2>3. c[l][1].id < n
    BY <2>2, <1>1
  <2>4. n \in IdsOf(c)[l]
    BY <2>2 DEF IdsOf
  <2> QED
    BY <2>3, <2>4, <1>3
<1>9. ASSUME NEW n \in IdsOf(c)[l], n # Head(c[l]).id
      PROVE  n \in IdsOf(t)[l]
  <2>1. PICK j \in DOMAIN c[l] : n = c[l][j].id
    BY <1>9 DEF IdsOf
  <2>2. j # 1
    BY <2>1, <1>3, <1>9
  <2> QED
    BY <2>1, <2>2, <1>4 DEF IdsOf
<1>10. IdsOf(t)[l] = IdsOf(c)[l] \ {Head(c[l]).id}
  <2>1. \A n \in IdsOf(t)[l] : n # Head(c[l]).id
    <3> SUFFICES ASSUME NEW n \in IdsOf(t)[l], n = Head(c[l]).id PROVE FALSE
      OBVIOUS
    <3> DEFINE h == Head(c[l]).id
    <3>1. h < n /\ h \in Nat /\ n = h
      BY <1>8, <1>7
    <3> HIDE DEF h
    <3> QED
      BY <3>1
  <2> QED
    BY <1>8, <1>9, <2>1
<1>11. ASSUME NEW k \in Link, NEW i \in DOMAIN t[k]
       PROVE  \E j \in DOMAIN c[k] : t[k][i] = c[k][j]
  <2>1. CASE k = l
    BY <2>1, <1>4
  <2>2. CASE k # l
    BY <2>2, <1>2
  <2> QED
    BY <2>1, <2>2
<1> QED
  BY <1>3, <1>5, <1>6, <1>7, <1>8, <1>10, <1>11 DEF t, TakesFrom

\* From c to d, link l has gained message m, and the others are as they were.
SendsAlong(c, d, l, m, M) ==
    /\ ChannelsOK(d, M)
    /\ \A k \in Link : k # l => d[k] = c[k] /\ IdsOf(d)[k] = IdsOf(c)[k]
    /\ IdsOf(d)[l] = IdsOf(c)[l] \cup {m.id}
    /\ \A k \in Link : \A i \in DOMAIN d[k] :
          \/ \E j \in DOMAIN c[k] : d[k][i] = c[k][j]
          \/ k = l /\ d[k][i] = m

\* A message sent is the youngest of its link, when its send is younger than
\* those already there.
LEMMA SendOne ==
    ASSUME NEW M, NEW c, ChannelsOK(c, M), NEW from, NEW to, <<from, to>> \in Link,
           NEW m, m.id \in Nat, m.msg \in M,
           \A n \in IdsOf(c)[<<from, to>>] : n < m.id
    PROVE  SendsAlong(c, Sent(c, from, to, m), <<from, to>>, m, M)
<1> DEFINE l == <<from, to>>
           t == Sent(c, from, to, m)
<1>1. /\ t = [k \in Link |-> t[k]]
      /\ t[l] = Append(c[l], m)
      /\ \A k \in Link : k # l => t[k] = c[k]
  BY DEF Sent
<1>2. /\ IsSeq(c[l])
      /\ \A i \in DOMAIN c[l] : c[l][i].id \in Nat /\ c[l][i].msg \in M
      /\ \A i, j \in DOMAIN c[l] : i < j => c[l][i].id < c[l][j].id
  BY DEF ChannelsOK
<1>3. \A i \in DOMAIN c[l] : c[l][i].id < m.id
  BY DEF IdsOf
<1> HIDE DEF t, l
<1>4. /\ IsSeq(t[l])
      /\ Len(c[l]) \in Nat /\ DOMAIN c[l] = 1 .. Len(c[l])
      /\ DOMAIN t[l] = DOMAIN c[l] \cup {Len(c[l]) + 1}
      /\ \A i \in DOMAIN c[l] : t[l][i] = c[l][i]
      /\ t[l][Len(c[l]) + 1] = m
  <2>1. /\ IsSeq(Append(c[l], m))
        /\ Len(c[l]) \in Nat /\ DOMAIN c[l] = 1 .. Len(c[l])
        /\ DOMAIN Append(c[l], m) = DOMAIN c[l] \cup {Len(c[l]) + 1}
        /\ \A i \in DOMAIN c[l] : Append(c[l], m)[i] = c[l][i]
        /\ Append(c[l], m)[Len(c[l]) + 1] = m
    BY <1>2, AppendFacts
  <2> QED
    BY <1>1, <2>1, Zenon
<1>5. \A i \in DOMAIN t[l] : t[l][i].id \in Nat /\ t[l][i].msg \in M
  BY <1>2, <1>4
<1>6. ASSUME NEW i \in DOMAIN t[l], NEW j \in DOMAIN t[l], i < j
      PROVE  t[l][i].id < t[l][j].id
  <2>1. i \in DOMAIN c[l]
    BY <1>4, <1>6
  <2>2. CASE j \in DOMAIN c[l]
    BY <2>1, <2>2, <1>2, <1>4, <1>6
  <2>3. CASE j = Len(c[l]) + 1
    BY <2>1, <2>3, <1>3, <1>4
  <2> QED
    BY <2>2, <2>3, <1>4
<1>7. ChannelsOK(t, M)
  <2>1. ASSUME NEW k \in Link
        PROVE  /\ IsSeq(t[k])
               /\ \A i \in DOMAIN t[k] : t[k][i].id \in Nat /\ t[k][i].msg \in M
               /\ \A i, j \in DOMAIN t[k] : i < j => t[k][i].id < t[k][j].id
    <3>1. CASE k = l
      BY <3>1, <1>4, <1>5, <1>6
    <3>2. CASE k # l
      BY <3>2, <1>1 DEF ChannelsOK
    <3> QED
      BY <3>1, <3>2
  <2> QED
    BY <1>1, <2>1 DEF ChannelsOK
<1>8. \A k \in Link : k # l => IdsOf(t)[k] = IdsOf(c)[k]
  BY <1>1 DEF IdsOf
<1>9. IdsOf(t)[l] = IdsOf(c)[l] \cup {m.id}
  <2>1. l \in Link
    BY DEF l
  <2>2. /\ IdsOf(t)[l] = {t[l][i].id : i \in DOMAIN t[l]}
        /\ IdsOf(c)[l] = {c[l][i].id : i \in DOMAIN c[l]}
    BY <2>1 DEF IdsOf
  <2> QED
    BY <2>2, <1>4
<1>10. ASSUME NEW k \in Link, NEW i \in DOMAIN t[k]
       PROVE  \/ \E j \in DOMAIN c[k] : t[k][i] = c[k][j]
              \/ k = l /\ t[k][i] = m
  <2>1. CASE k = l
    BY <2>1, <1>4
  <2>2. CASE k # l
    BY <2>2, <1>1
  <2> QED
    BY <2>1, <2>2
<1> QED
  BY <1>1, <1>7, <1>8, <1>9, <1>10, Zenon DEF l, t, SendsAlong

\* From c to d, a transaction has taken a message from link a and sent m on
\* along link b.
HandsOn(c, d, a, b, m, M) ==
    /\ ChannelsOK(d, M)
    /\ Moves(IdsOf(c), IdsOf(d), a, b, m.id)
    /\ \E j \in DOMAIN c[a] : c[a][j].msg = m.msg
    /\ \A k \in Link : \A i \in DOMAIN d[k] :
          \/ \E j \in DOMAIN c[k] : d[k][i] = c[k][j]
          \/ k = b /\ d[k][i] = m

\* A transaction that hands a message on moves its id.
LEMMA HandOn ==
    ASSUME NEW M, NEW c, ChannelsOK(c, M), NEW a \in Link,
           NEW b1, NEW b2, <<b1, b2>> \in Link, a # <<b1, b2>>,
           c[a] # << >>, NEW m, m.id = Head(c[a]).id, m.msg = Head(c[a]).msg,
           \A n \in IdsOf(c)[<<b1, b2>>] : n < m.id
    PROVE  HandsOn(c, Sent(Took(c, a), b1, b2, m), a, <<b1, b2>>, m, M)
<1> DEFINE t == Took(c, a)
           b == <<b1, b2>>
           d == Sent(t, b1, b2, m)
           h == Head(c[a])
<1>1. TakesFrom(c, t, a, h, M)
  BY TakeOne
<1>2. m.id = h.id /\ m.msg = h.msg /\ b \in Link /\ a # b
  OBVIOUS
<1> HIDE DEF t, h
<1>3. /\ ChannelsOK(t, M)
      /\ m.id \in Nat /\ m.msg \in M
      /\ \A n \in IdsOf(t)[b] : n < m.id
  BY <1>1, <1>2 DEF TakesFrom
<1>4. SendsAlong(t, d, b, m, M)
  BY <1>3, SendOne
<1> HIDE DEF b, d
<1>5. Moves(IdsOf(c), IdsOf(d), a, b, m.id)
  BY <1>1, <1>2, <1>4 DEF TakesFrom, SendsAlong, Moves
<1>6. \E j \in DOMAIN c[a] : c[a][j].msg = m.msg
  BY <1>1, <1>2 DEF TakesFrom
<1>7. ASSUME NEW k \in Link, NEW i \in DOMAIN d[k]
      PROVE  \/ \E j \in DOMAIN c[k] : d[k][i] = c[k][j]
             \/ k = b /\ d[k][i] = m
  BY <1>1, <1>4 DEF TakesFrom, SendsAlong
<1>8. HandsOn(c, d, a, b, m, M)
  BY <1>4, <1>5, <1>6, <1>7 DEF HandsOn, SendsAlong
<1> QED
  BY <1>8 DEF b, d, t

-----------------------------------------------------------------------------
(* The stages of a send. *)

FromRouter == <<RouterAddr, OnRampAddr>>
Asked(q) == <<OnRampAddr, q>>
Answered(q) == <<q, OnRampAddr>>

\* Every id is larger than every id of older.
Behind(ids, older) == \A n \in ids, k \in older : k < n

\* The sends quoter q was asked about, when f gives the ids in flight along
\* each link and ev those emitted per quoter.
Handled(f, ev, q) == (ev[q] \cup f[Answered(q)]) \cup f[Asked(q)]

\* The stages of each quoter's pipeline are in order, and the pipelines of two
\* quoters share no send.
InOrder(f, ev, n) ==
    /\ n \in Nat
    /\ \A l \in Link : f[l] \subseteq 1 .. n
    /\ \A q \in Quoter :
          /\ ev[q] \subseteq 1 .. n
          /\ Behind(f[Answered(q)], ev[q])
          /\ Behind(f[Asked(q)], ev[q])
          /\ Behind(f[Asked(q)], f[Answered(q)])
          /\ Behind(f[FromRouter], Handled(f, ev, q))
    /\ \A p, q \in Quoter : p # q => Handled(f, ev, p) \cap Handled(f, ev, q) = {}

\* What was dropped is neither in flight nor emitted.
Gone(f, ev, n, gone) ==
    /\ gone \subseteq 1 .. n
    /\ gone \cap f[FromRouter] = {}
    /\ \A q \in Quoter : gone \cap Handled(f, ev, q) = {}

\* The links the contracts use are distinct.
LinksDistinct ==
    /\ FromRouter \in Link
    /\ \A q \in Quoter :
          /\ Asked(q) \in Link /\ Answered(q) \in Link
          /\ FromRouter # Asked(q) /\ FromRouter # Answered(q)
          /\ \A p \in Quoter :
                /\ Asked(q) # Answered(p)
                /\ Asked(q) = Asked(p) => q = p
                /\ Answered(q) = Answered(p) => q = p
    /\ \A l \in Link : l = FromRouter \/ \E q \in Quoter : l = Asked(q) \/ l = Answered(q)

\* A new send enters behind all others.
LEMMA Enter ==
    ASSUME LinksDistinct, NEW f, NEW g, NEW ev, NEW n, NEW gone, InOrder(f, ev, n), Gone(f, ev, n, gone),
           g[FromRouter] = f[FromRouter] \cup {n + 1},
           \A k \in Link : k # FromRouter => g[k] = f[k]
    PROVE  InOrder(g, ev, n + 1) /\ Gone(g, ev, n + 1, gone)
<1>1. \A q \in Quoter : /\ g[Asked(q)] = f[Asked(q)] /\ g[Answered(q)] = f[Answered(q)]
                        /\ Handled(g, ev, q) = Handled(f, ev, q)
                        /\ Handled(f, ev, q) \subseteq 1 .. n
  BY Zenon DEF Handled, InOrder, LinksDistinct
<1>2. InOrder(g, ev, n + 1)
  BY <1>1 DEF InOrder, Behind, LinksDistinct
<1>3. Gone(g, ev, n + 1, gone)
  BY <1>1 DEF InOrder, Gone, LinksDistinct
<1> QED
  BY <1>2, <1>3

\* A send that goes to another OnRamp is dropped at once.
LEMMA Bypass ==
    ASSUME LinksDistinct, NEW f, NEW ev, NEW n, NEW gone, InOrder(f, ev, n), Gone(f, ev, n, gone)
    PROVE  InOrder(f, ev, n + 1) /\ Gone(f, ev, n + 1, gone \cup {n + 1})
<1>1. /\ n \in Nat /\ f[FromRouter] \subseteq 1 .. n
      /\ \A q \in Quoter : Handled(f, ev, q) \subseteq 1 .. n
  <2>1. \A q \in Quoter :
          ev[q] \subseteq 1 .. n /\ f[Asked(q)] \subseteq 1 .. n /\ f[Answered(q)] \subseteq 1 .. n
    BY DEF InOrder, LinksDistinct
  <2>2. n \in Nat /\ f[FromRouter] \subseteq 1 .. n
    BY DEF InOrder, LinksDistinct
  <2> QED
    BY <2>1, <2>2 DEF Handled
<1>2. n + 1 \notin 1 .. n /\ n + 1 \in 1 .. n + 1 /\ 1 .. n \subseteq 1 .. n + 1 /\ n + 1 \in Nat
  BY <1>1
<1>3. InOrder(f, ev, n + 1)
  BY <1>2 DEF InOrder
<1>4. Gone(f, ev, n + 1, gone \cup {n + 1})
  <2>1. gone \cup {n + 1} \subseteq 1 .. n + 1
    BY <1>2, Zenon DEF Gone
  <2>2. n + 1 \notin f[FromRouter] /\ \A q \in Quoter : n + 1 \notin Handled(f, ev, q)
    BY <1>1, <1>2
  <2> QED
    BY <2>1, <2>2 DEF Gone
<1> QED
  BY <1>3, <1>4

\* A send passes from the Router to quoter q.
LEMMA Ask ==
    ASSUME LinksDistinct, NEW f, NEW g, NEW ev, NEW n, NEW gone, InOrder(f, ev, n), Gone(f, ev, n, gone),
           NEW q \in Quoter, NEW h, Moves(f, g, FromRouter, Asked(q), h)
    PROVE  InOrder(g, ev, n) /\ Gone(g, ev, n, gone)
<1>1. /\ h \in f[FromRouter] /\ h \in Nat
      /\ g[FromRouter] = f[FromRouter] \ {h} /\ \A i \in g[FromRouter] : h < i
      /\ g[Asked(q)] = f[Asked(q)] \cup {h}
      /\ \A p \in Quoter : g[Answered(p)] = f[Answered(p)] /\ (p # q => g[Asked(p)] = f[Asked(p)])
  BY DEF Moves, LinksDistinct
<1>2. /\ Handled(g, ev, q) = Handled(f, ev, q) \cup {h}
      /\ \A p \in Quoter : p # q => Handled(g, ev, p) = Handled(f, ev, p)
  BY <1>1 DEF Handled
<1>3. \A p \in Quoter : \A i \in Handled(f, ev, p) : i < h
  BY <1>1 DEF InOrder, Behind
<1>4. \A l \in Link : g[l] \subseteq 1 .. n
  <2>1. h \in 1 .. n
    BY <1>1 DEF InOrder, LinksDistinct
  <2> QED
    BY <2>1 DEF InOrder, Moves, LinksDistinct
<1>5. ASSUME NEW p \in Quoter
      PROVE  /\ ev[p] \subseteq 1 .. n
             /\ Behind(g[Answered(p)], ev[p])
             /\ Behind(g[Asked(p)], ev[p])
             /\ Behind(g[Asked(p)], g[Answered(p)])
             /\ Behind(g[FromRouter], Handled(g, ev, p))
  <2>1. (\A i \in ev[p] : i < h) /\ (\A i \in f[Answered(p)] : i < h)
    BY <1>3 DEF Handled
  <2>2. CASE p = q
    BY <2>1, <2>2, <1>1, <1>2 DEF InOrder, Behind
  <2>3. CASE p # q
    BY <2>3, <1>1, <1>2 DEF InOrder, Behind
  <2> QED
    BY <2>2, <2>3
<1>6. \A p \in Quoter : h \notin Handled(f, ev, p)
  <2>1. ~(h < h)
    BY <1>1
  <2> QED
    BY <2>1, <1>3
<1>7. ASSUME NEW p \in Quoter, NEW r \in Quoter, p # r
      PROVE  Handled(g, ev, p) \cap Handled(g, ev, r) = {}
  <2>1. Handled(f, ev, p) \cap Handled(f, ev, r) = {}
    BY <1>7, Zenon DEF InOrder
  <2> QED
    BY <2>1, <1>2, <1>6, <1>7
<1>8. InOrder(g, ev, n)
  BY <1>4, <1>5, <1>7 DEF InOrder
<1>9. Gone(g, ev, n, gone)
  <2>1. h \notin gone
    BY <1>1 DEF Gone
  <2>2. \A p \in Quoter : gone \cap Handled(g, ev, p) = {}
    BY <2>1, <1>2 DEF Gone
  <2> QED
    BY <2>2, <1>1 DEF Gone
<1> QED
  BY <1>8, <1>9

\* The answer of quoter q takes the place of the question.
LEMMA Answer ==
    ASSUME LinksDistinct, NEW f, NEW g, NEW ev, NEW n, NEW gone, InOrder(f, ev, n), Gone(f, ev, n, gone),
           NEW q \in Quoter, NEW h, Moves(f, g, Asked(q), Answered(q), h)
    PROVE  InOrder(g, ev, n) /\ Gone(g, ev, n, gone)
<1>1. /\ h \in f[Asked(q)] /\ h \in Nat
      /\ g[FromRouter] = f[FromRouter]
      /\ g[Asked(q)] = f[Asked(q)] \ {h} /\ \A i \in g[Asked(q)] : h < i
      /\ g[Answered(q)] = f[Answered(q)] \cup {h}
      /\ \A p \in Quoter : p # q => g[Asked(p)] = f[Asked(p)] /\ g[Answered(p)] = f[Answered(p)]
  BY DEF Moves, LinksDistinct
<1>2. \A p \in Quoter : Handled(g, ev, p) = Handled(f, ev, p)
  BY <1>1 DEF Handled
<1>3. \A l \in Link : g[l] \subseteq 1 .. n
  BY DEF InOrder, Moves, LinksDistinct
<1>4. ASSUME NEW p \in Quoter
      PROVE  /\ ev[p] \subseteq 1 .. n
             /\ Behind(g[Answered(p)], ev[p])
             /\ Behind(g[Asked(p)], ev[p])
             /\ Behind(g[Asked(p)], g[Answered(p)])
  BY <1>1, Zenon DEF InOrder, Behind
<1>5. InOrder(g, ev, n)
  BY <1>1, <1>2, <1>3, <1>4, Zenon DEF InOrder
<1>6. Gone(g, ev, n, gone)
  BY <1>1, <1>2, Zenon DEF Gone
<1> QED
  BY <1>5, <1>6

\* From f to g, the oldest send h leaves link l.
Leaves(f, g, l, h) ==
    /\ h \in f[l] /\ h \in Nat
    /\ \A k \in Link : k # l => g[k] = f[k]
    /\ g[l] = f[l] \ {h} /\ \A n \in g[l] : h < n

\* A send in flight is at one place only, and has not been emitted.
LEMMA AtOnePlace ==
    ASSUME LinksDistinct, NEW f, NEW g, NEW ev, NEW n, InOrder(f, ev, n),
           NEW l \in Link, NEW h, Leaves(f, g, l, h)
    PROVE  /\ \A k \in Link : h \notin g[k]
           /\ \A q \in Quoter : h \notin ev[q]
<1>1. h \in f[l] /\ h \in Nat /\ h \notin g[l] /\ ~(h < h) /\ \A k \in Link : k # l => g[k] = f[k]
  BY DEF Leaves
<1>2. ASSUME NEW q \in Quoter, l = FromRouter
      PROVE  h \notin ev[q] /\ h \notin f[Asked(q)] /\ h \notin f[Answered(q)]
  BY <1>1, <1>2 DEF InOrder, Behind, Handled
<1>3. ASSUME NEW p \in Quoter, l = Asked(p) \/ l = Answered(p), NEW q \in Quoter, p # q
      PROVE  h \notin ev[q] /\ h \notin f[Asked(q)] /\ h \notin f[Answered(q)]
  <2>1. h \in Handled(f, ev, p)
    BY <1>1, <1>3 DEF Handled
  <2>2. h \notin Handled(f, ev, q)
    BY <2>1, <1>3 DEF InOrder
  <2> QED
    BY <2>2 DEF Handled
<1>4. ASSUME NEW p \in Quoter, l = Asked(p) \/ l = Answered(p)
      PROVE  h \notin ev[p] /\ h \notin f[FromRouter]
  <2>1. h \notin ev[p]
    BY <1>1, <1>4 DEF InOrder, Behind
  <2>2. h \in Handled(f, ev, p)
    BY <1>1, <1>4 DEF Handled
  <2> QED
    BY <2>1, <2>2, <1>1 DEF InOrder, Behind
<1>5. ASSUME NEW p \in Quoter, l = Asked(p)
      PROVE  h \notin f[Answered(p)]
  BY <1>1, <1>5 DEF InOrder, Behind
<1>6. ASSUME NEW p \in Quoter, l = Answered(p)
      PROVE  h \notin f[Asked(p)]
  BY <1>1, <1>6 DEF InOrder, Behind
<1>7. ASSUME NEW q \in Quoter
      PROVE  h \notin ev[q]
  <2>1. CASE l = FromRouter
    BY <2>1, <1>2
  <2>2. CASE \E p \in Quoter : l = Asked(p) \/ l = Answered(p)
    BY <2>2, <1>3, <1>4
  <2> QED
    BY <2>1, <2>2 DEF LinksDistinct
<1>8. ASSUME NEW k \in Link, k # l
      PROVE  h \notin f[k]
  <2>1. CASE l = FromRouter
    <3>1. PICK q \in Quoter : k = Asked(q) \/ k = Answered(q)
      BY <2>1, <1>8 DEF LinksDistinct
    <3> QED
      BY <3>1, <2>1, <1>2
  <2>2. CASE \E p \in Quoter : l = Asked(p) \/ l = Answered(p)
    <3>1. PICK p \in Quoter : l = Asked(p) \/ l = Answered(p)
      BY <2>2
    <3>2. CASE k = FromRouter
      BY <3>1, <3>2, <1>4
    <3>3. ASSUME NEW q \in Quoter, k = Asked(q) \/ k = Answered(q)
          PROVE  h \notin f[k]
      <4>1. CASE p = q
        BY <3>1, <3>3, <4>1, <1>5, <1>6, <1>8
      <4>2. CASE p # q
        BY <3>1, <3>3, <4>2, <1>3
      <4> QED
        BY <4>1, <4>2
    <3> QED
      BY <3>2, <3>3 DEF LinksDistinct
  <2> QED
    BY <2>1, <2>2 DEF LinksDistinct
<1> QED
  BY <1>1, <1>7, <1>8

\* A transaction that throws drops its send.
LEMMA Drop ==
    ASSUME LinksDistinct, NEW f, NEW g, NEW ev, NEW n, NEW gone, InOrder(f, ev, n), Gone(f, ev, n, gone),
           NEW l \in Link, NEW h, Leaves(f, g, l, h)
    PROVE  InOrder(g, ev, n) /\ Gone(g, ev, n, gone \cup {h})
<1>1. \A k \in Link : g[k] \subseteq f[k]
  BY DEF Leaves
<1>2. /\ g[FromRouter] \subseteq f[FromRouter]
      /\ \A q \in Quoter : g[Asked(q)] \subseteq f[Asked(q)] /\ g[Answered(q)] \subseteq f[Answered(q)]
  BY <1>1, Zenon DEF LinksDistinct
<1>3. \A q \in Quoter : Handled(g, ev, q) \subseteq Handled(f, ev, q)
  BY <1>2, Zenon DEF Handled
<1>4. InOrder(g, ev, n)
  <2>2. n \in Nat /\ \A k \in Link : g[k] \subseteq 1 .. n
    BY <1>1, Zenon DEF InOrder
  <2>3. ASSUME NEW q \in Quoter
        PROVE  /\ ev[q] \subseteq 1 .. n
               /\ Behind(g[Answered(q)], ev[q])
               /\ Behind(g[Asked(q)], ev[q])
               /\ Behind(g[Asked(q)], g[Answered(q)])
               /\ Behind(g[FromRouter], Handled(g, ev, q))
    <3>1. /\ ev[q] \subseteq 1 .. n
          /\ Behind(f[Answered(q)], ev[q])
          /\ Behind(f[Asked(q)], ev[q])
          /\ Behind(f[Asked(q)], f[Answered(q)])
          /\ Behind(f[FromRouter], Handled(f, ev, q))
      BY Zenon DEF InOrder
    <3>2. /\ g[Answered(q)] \subseteq f[Answered(q)] /\ g[Asked(q)] \subseteq f[Asked(q)]
          /\ g[FromRouter] \subseteq f[FromRouter] /\ Handled(g, ev, q) \subseteq Handled(f, ev, q)
          /\ ev[q] \subseteq ev[q]
      BY <1>2, <1>3
    <3>3. Behind(g[Answered(q)], ev[q]) /\ Behind(g[Asked(q)], ev[q])
      BY <3>1, <3>2, Zenon DEF Behind
    <3>4. Behind(g[Asked(q)], g[Answered(q)])
      BY <3>1, <3>2, Zenon DEF Behind
    <3>5. Behind(g[FromRouter], Handled(g, ev, q))
      BY <3>1, <3>2, Zenon DEF Behind
    <3> QED
      BY <3>1, <3>3, <3>4, <3>5, Zenon
  <2>4. ASSUME NEW p \in Quoter, NEW q \in Quoter, p # q
        PROVE  Handled(g, ev, p) \cap Handled(g, ev, q) = {}
    <3>1. Handled(f, ev, p) \cap Handled(f, ev, q) = {}
      BY <2>4, Zenon DEF InOrder
    <3> QED
      BY <1>3, <3>1, Zenon
  <2> QED
    BY <2>2, <2>3, <2>4, Zenon DEF InOrder
<1>5. (\A k \in Link : h \notin g[k]) /\ \A q \in Quoter : h \notin ev[q]
  BY AtOnePlace, SMTT(30)
<1>6. h \notin g[FromRouter] /\ \A q \in Quoter : h \notin Handled(g, ev, q)
  BY <1>5 DEF Handled, LinksDistinct
<1>7. h \in 1 .. n
  BY DEF InOrder, Leaves
<1>8. Gone(g, ev, n, gone \cup {h})
  BY <1>2, <1>3, <1>6, <1>7 DEF Gone
<1> QED
  BY <1>4, <1>8

\* A send answered by quoter q is emitted after the earlier ones of q.
LEMMA Emit ==
    ASSUME LinksDistinct, NEW f, NEW g, NEW ev, NEW dv, NEW n, NEW gone, InOrder(f, ev, n), Gone(f, ev, n, gone),
           NEW q \in Quoter, NEW h, Leaves(f, g, Answered(q), h),
           dv[q] = ev[q] \cup {h}, \A p \in Quoter : p # q => dv[p] = ev[p]
    PROVE  /\ InOrder(g, dv, n) /\ Gone(g, dv, n, gone)
           /\ h \notin gone /\ \A i \in ev[q] : i < h
<1>1. /\ h \in f[Answered(q)] /\ h \in Nat
      /\ g[FromRouter] = f[FromRouter]
      /\ g[Answered(q)] = f[Answered(q)] \ {h} /\ \A i \in g[Answered(q)] : h < i
      /\ \A p \in Quoter : g[Asked(p)] = f[Asked(p)] /\ (p # q => g[Answered(p)] = f[Answered(p)])
  BY Zenon DEF Leaves, LinksDistinct
<1>2. \A p \in Quoter : Handled(g, dv, p) = Handled(f, ev, p)
  BY <1>1, ZenonT(30) DEF Handled
<1>3. \A l \in Link : g[l] \subseteq 1 .. n
  BY Zenon DEF InOrder, Leaves, LinksDistinct
<1>4. h \in 1 .. n
  BY <1>1, Zenon DEF InOrder, LinksDistinct
<1>5. ASSUME NEW p \in Quoter
      PROVE  /\ dv[p] \subseteq 1 .. n
             /\ Behind(g[Answered(p)], dv[p])
             /\ Behind(g[Asked(p)], dv[p])
             /\ Behind(g[Asked(p)], g[Answered(p)])
  <2>1. CASE p = q
    BY <2>1, <1>1, <1>4, ZenonT(30) DEF InOrder, Behind
  <2>2. CASE p # q
    BY <2>2, <1>1, Zenon DEF InOrder, Behind
  <2> QED
    BY <2>1, <2>2, Zenon
<1>6. InOrder(g, dv, n)
  <2>1. n \in Nat
    BY Zenon DEF InOrder
  <2>2. ASSUME NEW p \in Quoter PROVE Behind(g[FromRouter], Handled(g, dv, p))
    <3>1. Behind(f[FromRouter], Handled(f, ev, p))
      BY Zenon DEF InOrder
    <3> QED
      BY <1>1, <1>2, <3>1, Zenon
  <2>3. ASSUME NEW p \in Quoter, NEW r \in Quoter, p # r
        PROVE  Handled(g, dv, p) \cap Handled(g, dv, r) = {}
    <3>1. Handled(f, ev, p) \cap Handled(f, ev, r) = {}
      BY <2>3, Zenon DEF InOrder
    <3> QED
      BY <1>2, <3>1, Zenon
  <2> QED
    BY <1>3, <1>5, <2>1, <2>2, <2>3, Zenon DEF InOrder
<1>7. Gone(g, dv, n, gone)
  BY <1>1, <1>2 DEF Gone
<1>8. h \notin gone
  BY <1>1 DEF Gone, Handled
<1>9. \A i \in ev[q] : i < h
  BY <1>1 DEF InOrder, Behind
<1> QED
  BY <1>6, <1>7, <1>8, <1>9

-----------------------------------------------------------------------------
(* The invariant of CCIPSend. *)

flying == IdsOf(channel)

events ==
    [q \in Quoter |-> {n \in Nat : \E d \in Dest : \E i \in DOMAIN emitted[d] :
                           emitted[d][i].id = n /\ emitted[d][i].quoter = q}]

Pipeline == InOrder(flying, events, sends) /\ Gone(flying, events, sends, dropped)

\* Both directions of a quoter's links carry sends to destinations with an entry.
AskedAreKnown ==
    \A q \in Quoter : \A l \in {Asked(q), Answered(q)} : \A i \in DOMAIN channel[l] :
        dests[channel[l][i].msg.dest] # Absent

RampTyped ==
    /\ feeQuoter \in Quoter
    /\ dests \in [Dest -> DestEntry \cup {Absent}]
    /\ emitted = [d \in Dest |-> emitted[d]]
    /\ \A d \in Dest :
          /\ IsSeq(emitted[d])
          /\ \A i \in DOMAIN emitted[d] : emitted[d][i].id \in Nat /\ emitted[d][i].quoter \in Quoter

IInv ==
    /\ ChannelsOK(channel, Messages)
    /\ RampTyped
    /\ Pipeline
    /\ AskedAreKnown
    /\ SequenceContiguous
    /\ EmittedOnce
    /\ EmittedInOrder

-----------------------------------------------------------------------------
(* The steps. *)

\* The addresses of the contracts are such that the links differ.
LEMMA LinksAreDistinct == LinksDistinct
BY AddressAssumption DEF LinksDistinct, FromRouter, Asked, Answered

\* Storage and events do not depend on the channels.
LEMMA RampUnchanged ==
    ASSUME IInv, UNCHANGED <<feeQuoter, dests, emitted>>
    PROVE  events' = events /\ RampTyped' /\ SequenceContiguous' /\ EmittedInOrder'
<1>1. events' = events
  BY DEF events
<1>2. RampTyped' /\ SequenceContiguous'
  BY DEF IInv, RampTyped, SequenceContiguous
<1>3. EmittedInOrder'
  BY DEF IInv, EmittedInOrder
<1> QED
  BY <1>1, <1>2, <1>3

\* The sends emitted stay emitted once when more are dropped, none of them
\* emitted.
LEMMA OnceUnchanged ==
    ASSUME IInv, emitted' = emitted, NEW h, \A q \in Quoter : h \notin events[q],
           dropped' \subseteq dropped \cup {h}
    PROVE  EmittedOnce'
<1>1. ASSUME NEW d \in Dest, NEW i \in DOMAIN emitted[d]
      PROVE  emitted[d][i].id # h
  <2>1. emitted[d][i].id \in Nat /\ emitted[d][i].quoter \in Quoter
    BY DEF IInv, RampTyped
  <2>2. emitted[d][i].id \in events[emitted[d][i].quoter]
    BY <2>1 DEF events
  <2> QED
    BY <2>1, <2>2
<1>2. ASSUME NEW d \in Dest, NEW i \in DOMAIN emitted[d]
      PROVE  /\ emitted[d][i].id \notin dropped'
             /\ \A e \in Dest : \A j \in DOMAIN emitted[e] :
                    emitted[d][i].id = emitted[e][j].id => d = e /\ i = j
  BY <1>1 DEF IInv, EmittedOnce
<1> QED
  BY <1>2 DEF EmittedOnce

\* The invariant speaks of the channels, the counters and the OnRamp only.
LEMMA UnchangedIInv ==
    ASSUME IInv, UNCHANGED <<channel, sends, feeQuoter, dests, emitted, dropped>>
    PROVE  IInv'
<1>1. ChannelsOK(channel', Messages) /\ flying' = flying
  BY DEF IInv, flying
<1>2. events' = events /\ RampTyped' /\ SequenceContiguous' /\ EmittedInOrder'
  BY RampUnchanged
<1>3. AskedAreKnown' /\ EmittedOnce'
  BY DEF IInv, AskedAreKnown, EmittedOnce
<1>4. Pipeline'
  BY <1>1, <1>2 DEF IInv, Pipeline
<1> QED
  BY <1>1, <1>2, <1>3, <1>4 DEF IInv

\* What was in the channels keeps its destination known.
LEMMA KnownUnchanged ==
    ASSUME IInv, dests' = dests, NEW m, dests[m.msg.dest] # Absent,
           \A k \in Link : \A i \in DOMAIN channel'[k] :
               \/ \E j \in DOMAIN channel[k] : channel'[k][i] = channel[k][j]
               \/ k # FromRouter /\ channel'[k][i] = m
               \/ k = FromRouter
    PROVE  AskedAreKnown'
<1> SUFFICES ASSUME NEW q \in Quoter, NEW l \in {Asked(q), Answered(q)}, NEW i \in DOMAIN channel'[l]
             PROVE  dests[channel'[l][i].msg.dest] # Absent
  BY DEF AskedAreKnown
<1>1. l \in Link /\ l # FromRouter
  BY LinksAreDistinct DEF LinksDistinct
<1>2. CASE channel'[l][i] = m
  BY <1>2
<1>3. CASE \E j \in DOMAIN channel[l] : channel'[l][i] = channel[l][j]
  BY <1>3 DEF IInv, AskedAreKnown
<1> QED
  BY <1>1, <1>2, <1>3

\* A new send enters behind all others, or is handed to another OnRamp.
LEMMA UserSendsIInv ==
    ASSUME IInv, UserSends
    PROVE  IInv'
<1>1. /\ UNCHANGED <<feeQuoter, dests, emitted>>
      /\ sends' = sends + 1
      /\ dropped' = IF onRamp = OnRampAddr THEN dropped ELSE dropped \cup {sends + 1}
  BY Zenon DEF UserSends, onSend, onTransferNotification, ccipSend, rampVars
<1>2. PICK user \in User, msg \in Messages :
        channel' = Sent(channel, RouterAddr, onRamp,
                        [id |-> sends + 1, sender |-> user, msg |-> msg])
  <2>0. UserMessages \subseteq Messages
    BY AddressAssumption
  <2>1. CASE \E msg \in UserMessages, user \in User : onSend(msg, user)
    BY <2>0, <2>1 DEF onSend, ccipSend
  <2>2. CASE \E msg \in UserMessages \cup {Absent}, user \in User, wallet \in Wallet :
                 onTransferNotification([sender |-> user, forwardPayload |-> msg], wallet)
    <3>1. PICK msg \in UserMessages \cup {Absent}, user \in User, wallet \in Wallet :
              onTransferNotification([sender |-> user, forwardPayload |-> msg], wallet)
      BY <2>2
    <3>2. msg \in Messages
      BY <2>0, <3>1 DEF onTransferNotification
    <3> QED
      BY <3>1, <3>2 DEF onTransferNotification, ccipSend
  <2> QED
    BY <2>1, <2>2, Zenon DEF UserSends
<1> DEFINE m == [id |-> sends + 1, sender |-> user, msg |-> msg]
<1>3. m.id = sends + 1 /\ m.msg \in Messages
  OBVIOUS
<1>4. channel' = Sent(channel, RouterAddr, onRamp, m)
  BY <1>2
<1> HIDE DEF m
<1>5. /\ ChannelsOK(channel, Messages)
      /\ InOrder(flying, events, sends) /\ Gone(flying, events, sends, dropped)
  BY DEF IInv, Pipeline
<1>6. events' = events /\ RampTyped' /\ SequenceContiguous' /\ EmittedInOrder'
  BY <1>1, RampUnchanged, ZenonT(30)
<1>7. sends \in Nat /\ (\A q \in Quoter : sends + 1 \notin events[q]) /\ flying[FromRouter] \subseteq 1 .. sends
  BY <1>5, LinksAreDistinct, SMTT(30) DEF InOrder, LinksDistinct
<1>8. EmittedOnce'
  <2>1. dropped' \subseteq dropped \cup {sends + 1}
    BY <1>1, Zenon
  <2> QED
    BY <2>1, <1>1, <1>7, OnceUnchanged
<1>9. CASE onRamp = OnRampAddr
  <2>1. SendsAlong(channel, channel', FromRouter, m, Messages)
    <3>1. channel' = Sent(channel, RouterAddr, OnRampAddr, m)
      BY <1>4, <1>9, Zenon
    <3>2. <<RouterAddr, OnRampAddr>> \in Link /\ m.id \in Nat
      BY <1>3, <1>7, LinksAreDistinct DEF FromRouter, LinksDistinct
    <3>3. \A n \in IdsOf(channel)[<<RouterAddr, OnRampAddr>>] : n < m.id
      BY <1>3, <1>7, SMTT(30) DEF flying, FromRouter
    <3>4. SendsAlong(channel, Sent(channel, RouterAddr, OnRampAddr, m), <<RouterAddr, OnRampAddr>>,
                     m, Messages)
      BY <3>2, <3>3, <1>3, <1>5, SendOne
    <3> QED
      BY <3>1, <3>4 DEF FromRouter
  <2>2. Pipeline'
    <3>1. /\ flying'[FromRouter] = flying[FromRouter] \cup {sends + 1}
          /\ \A k \in Link : k # FromRouter => flying'[k] = flying[k]
      BY <2>1, <1>3, Zenon DEF SendsAlong, flying
    <3>2. InOrder(flying', events, sends + 1) /\ Gone(flying', events, sends + 1, dropped)
      BY <3>1, <1>5, Enter, LinksAreDistinct, Zenon
    <3> QED
      BY <3>2, <1>1, <1>6, <1>9 DEF Pipeline
  <2>3. AskedAreKnown'
    <3> SUFFICES ASSUME NEW q \in Quoter, NEW l \in {Asked(q), Answered(q)}, NEW i \in DOMAIN channel'[l]
                 PROVE  dests[channel'[l][i].msg.dest] # Absent
      BY <1>1 DEF AskedAreKnown
    <3>1. l \in Link /\ l # FromRouter
      BY LinksAreDistinct DEF LinksDistinct
    <3>2. channel'[l] = channel[l]
      BY <3>1, <2>1 DEF SendsAlong
    <3> QED
      BY <3>2 DEF IInv, AskedAreKnown
  <2> QED
    BY <1>6, <1>8, <2>1, <2>2, <2>3 DEF IInv, SendsAlong
<1>10. CASE onRamp # OnRampAddr
  <2>1. channel' = channel
    <3>1. \A l \in Link : l # <<RouterAddr, onRamp>>
      BY <1>10, AddressAssumption
    <3>2. channel' = [l \in Link |-> channel[l]]
      BY <1>4, <3>1 DEF Sent
    <3> QED
      BY <3>2, <1>5 DEF ChannelsOK
  <2>2. Pipeline'
    <3>1. InOrder(flying, events, sends + 1) /\ Gone(flying, events, sends + 1, dropped \cup {sends + 1})
      BY <1>5, Bypass, LinksAreDistinct
    <3>2. flying' = flying
      BY <2>1 DEF flying
    <3> QED
      BY <3>1, <3>2, <1>1, <1>6, <1>10 DEF Pipeline
  <2>3. AskedAreKnown'
    BY <2>1, <1>1 DEF IInv, AskedAreKnown
  <2> QED
    BY <2>1, <2>2, <2>3, <1>5, <1>6, <1>8 DEF IInv
<1> QED
  BY <1>9, <1>10

=============================================================================
