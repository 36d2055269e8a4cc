--------------------------- MODULE CCIPSendProofs ---------------------------
(***************************************************************************)
(* Proofs about module CCIPSend, for all sets of destinations, users,      *)
(* messages and fee quoter inputs.                                         *)
(*                                                                         *)
(* The argument about CCIPSend is that of a pipeline: the sends a quoter   *)
(* handles pass from the Router to the OnRamp, to the quoter, back to the  *)
(* OnRamp and into the events, and at every stage the older ones are ahead.*)
(***************************************************************************)
EXTENDS SendPipelineProofs

\* A message goes to a destination.
LEMMA MessageDest == \A msg \in Messages : msg.dest \in Dest
BY InputAssumption DEF CCIPMessage

\* What an entry of destChainConfigs of the onramp holds.
LEMMA EntryFields ==
    ASSUME NEW x \in DestEntry
    PROVE  /\ x.sequenceNumber \in Nat /\ x.sequenceNumber + 1 \in Nat
           /\ x.allowlistEnabled \in BOOLEAN /\ x.allowedSenders \in SUBSET {RouterAddr}
BY DEF DestEntry

\* A sequence number, a flag and a set of senders are an entry.
LEMMA EntryMade ==
    ASSUME NEW n \in Nat, NEW on \in BOOLEAN, NEW allowed \in SUBSET {RouterAddr}
    PROVE  [sequenceNumber |-> n, allowlistEnabled |-> on, allowedSenders |-> allowed] \in DestEntry
BY DEF DestEntry

\* The OnRamp hands a send to the configured fee quoter.
LEMMA SendIInv ==
    ASSUME IInv, send(RouterAddr), UNCHANGED <<sends, dropped>>
    PROVE  IInv'
<1> DEFINE m == NextIn(RouterAddr, OnRampAddr)
           b == Asked(feeQuoter)
<1>1. /\ feeQuoter \in Quoter /\ ChannelsOK(channel, Messages)
      /\ InOrder(flying, events, sends) /\ Gone(flying, events, sends, dropped)
  BY DEF IInv, RampTyped, Pipeline
<1>2. /\ dests[m.msg.dest] # Absent
      /\ UNCHANGED <<feeQuoter, dests, emitted>>
      /\ channel[FromRouter] # << >> /\ m = Head(channel[FromRouter])
  BY DEF send, MaySend, rampVars, Pending, NextIn, FromRouter
<1>3. channel' = Sent(Took(channel, FromRouter), OnRampAddr, feeQuoter, m)
  BY DEF send, Took, Taken, FromRouter
<1> HIDE DEF m
<1>4. /\ FromRouter \in Link /\ b \in Link /\ FromRouter # b
  BY <1>1, LinksAreDistinct DEF LinksDistinct
<1>5. HandsOn(channel, channel', FromRouter, b, m, Messages)
  <2>1. TakesFrom(channel, Took(channel, FromRouter), FromRouter, m, Messages)
    BY <1>1, <1>2, <1>4, TakeOne
  <2>2. \A n \in IdsOf(channel)[b] : n < m.id
    BY <2>1, <1>1 DEF TakesFrom, InOrder, Behind, Handled, flying
  <2>3. HandsOn(channel, Sent(Took(channel, FromRouter), OnRampAddr, feeQuoter, m), FromRouter,
                <<OnRampAddr, feeQuoter>>, m, Messages)
    BY <2>2, <1>1, <1>2, <1>4, HandOn DEF Asked
  <2> QED
    BY <2>3, <1>3 DEF Asked
<1> HIDE DEF b
<1>6. events' = events /\ RampTyped' /\ SequenceContiguous' /\ EmittedInOrder'
  BY <1>2, RampUnchanged
<1>7. EmittedOnce'
  BY <1>2 DEF IInv, EmittedOnce
<1>8. Pipeline'
  <2>1. Moves(flying, flying', FromRouter, Asked(feeQuoter), m.id)
    BY <1>5 DEF HandsOn, flying, b
  <2>2. InOrder(flying', events, sends) /\ Gone(flying', events, sends, dropped)
    BY <2>1, <1>1, Ask, LinksAreDistinct
  <2> QED
    BY <2>2, <1>6 DEF Pipeline
<1>9. AskedAreKnown'
  <2>1. \A k \in Link : \A i \in DOMAIN channel'[k] :
            \/ \E j \in DOMAIN channel[k] : channel'[k][i] = channel[k][j]
            \/ channel'[k][i] = m
    BY <1>5 DEF HandsOn
  <2> QED
    BY <2>1, <1>2, KnownUnchanged, Zenon
<1> QED
  BY <1>5, <1>6, <1>7, <1>8, <1>9 DEF IInv, HandsOn

\* Quoter q answers the oldest question with some fee.
Answers(q, fee) ==
    /\ Pending(OnRampAddr, q)
    /\ channel' = Sent(Taken(OnRampAddr, q), q, OnRampAddr,
                       [id |-> NextIn(OnRampAddr, q).id, sender |-> NextIn(OnRampAddr, q).sender,
                        msg |-> NextIn(OnRampAddr, q).msg, fee |-> fee])

\* A fee quoter's answer takes the place of the question.
LEMMA AnswerIInv ==
    ASSUME IInv, NEW q \in Quoter, NEW fee, Answers(q, fee),
           UNCHANGED <<sends, feeQuoter, dests, emitted, dropped>>
    PROVE  IInv'
<1> DEFINE a == Asked(q)
           b == Answered(q)
           m == [id |-> NextIn(OnRampAddr, q).id, sender |-> NextIn(OnRampAddr, q).sender,
                 msg |-> NextIn(OnRampAddr, q).msg, fee |-> fee]
<1>1. /\ ChannelsOK(channel, Messages)
      /\ InOrder(flying, events, sends) /\ Gone(flying, events, sends, dropped)
  BY DEF IInv, Pipeline
<1>2. /\ channel[a] # << >>
      /\ m.id = Head(channel[a]).id /\ m.msg = Head(channel[a]).msg
  BY DEF Answers, Pending, NextIn, Asked
<1>3. channel' = Sent(Took(channel, a), q, OnRampAddr, m)
  BY DEF Answers, Taken, Took, Asked
<1> HIDE DEF m
<1>4. a \in Link /\ b \in Link /\ a # b
  BY LinksAreDistinct DEF LinksDistinct
<1>5. HandsOn(channel, channel', a, b, m, Messages)
  <2>1. TakesFrom(channel, Took(channel, a), a, Head(channel[a]), Messages)
    BY <1>1, <1>2, <1>4, TakeOne
  <2>2. m.id \in flying[a]
    BY <2>1, <1>2 DEF TakesFrom, flying
  <2>3. \A n \in IdsOf(channel)[b] : n < m.id
    BY <2>2, <1>1 DEF InOrder, Behind, flying
  <2>4. HandsOn(channel, Sent(Took(channel, a), q, OnRampAddr, m), a, <<q, OnRampAddr>>, m, Messages)
    <3>1. <<q, OnRampAddr>> \in Link /\ a # <<q, OnRampAddr>>
          /\ \A n \in IdsOf(channel)[<<q, OnRampAddr>>] : n < m.id
      BY <2>3, <1>4 DEF Answered
    <3> HIDE DEF a
    <3> QED
      BY <3>1, <1>1, <1>2, <1>4, HandOn
  <2> QED
    BY <2>4, <1>3 DEF Answered
<1> HIDE DEF a, b
<1>6. events' = events /\ RampTyped' /\ SequenceContiguous' /\ EmittedInOrder'
  BY RampUnchanged
<1>7. EmittedOnce'
  BY DEF IInv, EmittedOnce
<1>8. Pipeline'
  <2>1. Moves(flying, flying', Asked(q), Answered(q), m.id)
    BY <1>5 DEF HandsOn, flying, a, b
  <2>2. InOrder(flying', events, sends) /\ Gone(flying', events, sends, dropped)
    BY <2>1, <1>1, Answer, LinksAreDistinct
  <2> QED
    BY <2>2, <1>6 DEF Pipeline
<1>9. AskedAreKnown'
  <2>1. dests[m.msg.dest] # Absent
    BY <1>5 DEF IInv, AskedAreKnown, HandsOn, a
  <2>2. \A k \in Link : \A i \in DOMAIN channel'[k] :
            \/ \E j \in DOMAIN channel[k] : channel'[k][i] = channel[k][j]
            \/ channel'[k][i] = m
    BY <1>5 DEF HandsOn
  <2> QED
    BY <2>1, <2>2, KnownUnchanged, Zenon
<1> QED
  BY <1>5, <1>6, <1>7, <1>8, <1>9 DEF IInv, HandsOn

\* A transaction that throws removes the oldest message of its link.
LEMMA ThrowsIInv ==
    ASSUME IInv, NEW from, NEW to, <<from, to>> \in Link, Pending(from, to), Throws(from, to)
    PROVE  IInv'
<1> DEFINE a == <<from, to>>
           m == Head(channel[a])
<1>1. /\ ChannelsOK(channel, Messages)
      /\ InOrder(flying, events, sends) /\ Gone(flying, events, sends, dropped)
  BY DEF IInv, Pipeline
<1>2. /\ a \in Link /\ channel[a] # << >> /\ channel' = Took(channel, a)
      /\ dropped' = dropped \cup {m.id}
      /\ UNCHANGED <<sends, feeQuoter, dests, emitted>>
  BY DEF Pending, Throws, NextIn, Taken, Took, rampVars
<1> HIDE DEF a
<1>3. TakesFrom(channel, channel', a, m, Messages)
  BY <1>1, <1>2, TakeOne
<1> HIDE DEF m
<1>4. Leaves(flying, flying', a, m.id)
  BY <1>3 DEF TakesFrom, Leaves, flying
<1>5. events' = events /\ RampTyped' /\ SequenceContiguous' /\ EmittedInOrder'
  BY <1>2, RampUnchanged
<1>6. \A q \in Quoter : m.id \notin events[q]
  BY <1>1, <1>2, <1>4, AtOnePlace, LinksAreDistinct, Zenon
<1>7. EmittedOnce'
  <2>1. dropped' \subseteq dropped \cup {m.id}
    BY <1>2
  <2> QED
    BY <2>1, <1>2, <1>6, OnceUnchanged
<1>8. Pipeline'
  <2>1. InOrder(flying', events, sends) /\ Gone(flying', events, sends, dropped \cup {m.id})
    BY <1>1, <1>2, <1>4, Drop, LinksAreDistinct, Zenon
  <2> QED
    BY <2>1, <1>2, <1>5 DEF Pipeline
<1>9. AskedAreKnown'
  <2> SUFFICES ASSUME NEW p \in Quoter, NEW l \in {Asked(p), Answered(p)}, NEW i \in DOMAIN channel'[l]
               PROVE  dests[channel'[l][i].msg.dest] # Absent
    BY <1>2 DEF AskedAreKnown
  <2>1. l \in Link
    BY LinksAreDistinct DEF LinksDistinct
  <2>2. PICK j \in DOMAIN channel[l] : channel'[l][i] = channel[l][j]
    BY <2>1, <1>3 DEF TakesFrom
  <2> QED
    BY <2>2 DEF IInv, AskedAreKnown
<1> QED
  BY <1>3, <1>5, <1>7, <1>8, <1>9 DEF IInv, TakesFrom

\* The OnRamp numbers and emits the send whose fee it was told.
LEMMA EmitIInv ==
    ASSUME IInv, NEW q \in Quoter, onMessageValidated(q), UNCHANGED <<sends, dropped>>
    PROVE  IInv'
<1> DEFINE a == Answered(q)
           m == Head(channel[a])
           e == m.msg.dest
           ev == Event(m, q)
<1>1. /\ ChannelsOK(channel, Messages) /\ RampTyped /\ AskedAreKnown
      /\ InOrder(flying, events, sends) /\ Gone(flying, events, sends, dropped)
      /\ SequenceContiguous /\ EmittedOnce /\ EmittedInOrder
  BY ZenonT(30) DEF IInv, Pipeline
<1>2. /\ a \in Link /\ channel[a] # << >> /\ channel' = Took(channel, a)
      /\ dests[e] # Absent
      /\ dests' = [dests EXCEPT ![e].sequenceNumber = @ + 1]
      /\ emitted' = [emitted EXCEPT ![e] = Append(@, ev)]
      /\ feeQuoter' = feeQuoter
  <2>1. a \in Link
    BY LinksAreDistinct DEF Answered, LinksDistinct
  <2> QED
    BY <2>1, Zenon DEF onMessageValidated, MayEmit, Pending, NextIn, Taken, Took, Answered
<1>3. ev.id = m.id /\ ev.quoter = q /\ ev.sequenceNumber = dests[e].sequenceNumber
  BY Zenon DEF Event
<1> HIDE DEF a, ev
<1>4. TakesFrom(channel, channel', a, m, Messages)
  BY <1>1, <1>2, TakeOne, Zenon
<1>5. e \in Dest
  BY <1>4, MessageDest DEF TakesFrom
<1> DEFINE h == m.id
<1> HIDE DEF m, e
<1>6. h \in Nat /\ Leaves(flying, flying', a, h)
  BY <1>4 DEF TakesFrom, Leaves, flying
<1> HIDE DEF h
<1>7. /\ emitted = [d \in Dest |-> emitted[d]] /\ emitted' = [d \in Dest |-> emitted'[d]]
      /\ \A d \in Dest : d # e => emitted'[d] = emitted[d]
      /\ emitted'[e] = Append(emitted[e], ev)
  BY <1>1, <1>2, <1>5, Zenon DEF RampTyped
<1>8. /\ IsSeq(emitted[e]) /\ IsSeq(emitted'[e])
      /\ Len(emitted[e]) \in Nat /\ DOMAIN emitted[e] = 1 .. Len(emitted[e])
      /\ Len(emitted'[e]) = Len(emitted[e]) + 1
      /\ DOMAIN emitted'[e] = DOMAIN emitted[e] \cup {Len(emitted[e]) + 1}
      /\ \A i \in DOMAIN emitted[e] : emitted'[e][i] = emitted[e][i]
      /\ emitted'[e][Len(emitted[e]) + 1] = ev
  <2>1. IsSeq(emitted[e])
    BY <1>1, <1>5 DEF RampTyped
  <2>2. /\ IsSeq(Append(emitted[e], ev))
        /\ Len(emitted[e]) \in Nat /\ DOMAIN emitted[e] = 1 .. Len(emitted[e])
        /\ Len(Append(emitted[e], ev)) = Len(emitted[e]) + 1
        /\ DOMAIN Append(emitted[e], ev) = DOMAIN emitted[e] \cup {Len(emitted[e]) + 1}
        /\ \A i \in DOMAIN emitted[e] : Append(emitted[e], ev)[i] = emitted[e][i]
        /\ Append(emitted[e], ev)[Len(emitted[e]) + 1] = ev
    BY <2>1, AppendFacts
  <2> QED
    BY <2>1, <2>2, <1>7
<1> DEFINE last == Len(emitted[e]) + 1
<1>9. ASSUME NEW d \in Dest, NEW i \in DOMAIN emitted'[d]
      PROVE  \/ d = e /\ i = last /\ emitted'[d][i] = ev
             \/ /\ i \in DOMAIN emitted[d] /\ emitted'[d][i] = emitted[d][i]
                /\ d = e => i < last
  <2>1. CASE d = e
    BY <2>1, <1>8
  <2>2. CASE d # e
    BY <2>2, <1>7
  <2> QED
    BY <2>1, <2>2
<1>10. ev.id = h /\ ev.quoter = q
  BY <1>3 DEF h, m
<1>11. ASSUME NEW d \in Dest, NEW i \in DOMAIN emitted[d]
       PROVE  /\ emitted[d][i].id \in Nat /\ emitted[d][i].quoter \in Quoter
              /\ emitted[d][i].id \in events[emitted[d][i].quoter]
  BY <1>1 DEF RampTyped, events
<1>12. /\ events'[q] = events[q] \cup {h}
       /\ \A p \in Quoter : p # q => events'[p] = events[p]
  <2>1. ASSUME NEW p \in Quoter, NEW n \in events'[p]
        PROVE  n \in events[p] \/ (p = q /\ n = h)
    <3>1. PICK d \in Dest : \E i \in DOMAIN emitted'[d] :
              emitted'[d][i].id = n /\ emitted'[d][i].quoter = p
      BY <2>1 DEF events
    <3>2. PICK i \in DOMAIN emitted'[d] : emitted'[d][i].id = n /\ emitted'[d][i].quoter = p
      BY <3>1
    <3>3. CASE emitted'[d][i] = ev
      BY <3>2, <3>3, <1>10
    <3>4. CASE i \in DOMAIN emitted[d] /\ emitted'[d][i] = emitted[d][i]
      BY <3>2, <3>4, <1>11
    <3> QED
      BY <3>3, <3>4, <1>9
  <2>2. ASSUME NEW p \in Quoter, NEW n \in events[p]
        PROVE  n \in events'[p]
    <3>1. PICK d \in Dest : \E i \in DOMAIN emitted[d] :
              emitted[d][i].id = n /\ emitted[d][i].quoter = p
      BY <2>2 DEF events
    <3>2. PICK i \in DOMAIN emitted[d] : emitted[d][i].id = n /\ emitted[d][i].quoter = p
      BY <3>1
    <3>3. i \in DOMAIN emitted'[d] /\ emitted'[d][i] = emitted[d][i]
      BY <1>7, <1>8, Zenon
    <3>4. n \in Nat
      BY <2>2 DEF events
    <3> QED
      BY <3>2, <3>3, <3>4 DEF events
  <2>3. h \in events'[q]
    <3>1. last \in DOMAIN emitted'[e] /\ emitted'[e][last].id = h /\ emitted'[e][last].quoter = q
      BY <1>8, <1>10
    <3> QED
      BY <3>1, <1>5, <1>6 DEF events
  <2> QED
    BY <2>1, <2>2, <2>3, Zenon
<1>13. /\ InOrder(flying', events', sends) /\ Gone(flying', events', sends, dropped)
       /\ h \notin dropped /\ \A i \in events[q] : i < h
  BY <1>1, <1>6, <1>12, Emit, LinksAreDistinct, Zenon DEF a
<1>14. Pipeline'
  BY <1>13 DEF Pipeline
<1>15. /\ DOMAIN dests = Dest
       /\ \A d \in Dest : d # e => dests'[d] = dests[d]
       /\ dests'[e] = [sequenceNumber |-> dests[e].sequenceNumber + 1,
                       allowlistEnabled |-> dests[e].allowlistEnabled,
                       allowedSenders |-> dests[e].allowedSenders]
       /\ dests' \in [Dest -> DestEntry \cup {Absent}]
  <2>1. dests[e] \in DestEntry
    BY <1>1, <1>2, <1>5 DEF RampTyped
  <2>2. DOMAIN dests = Dest /\ \A d \in Dest : d # e => dests'[d] = dests[d]
    BY <1>1, <1>2, <1>5 DEF RampTyped
  <2>3. dests'[e] = [dests[e] EXCEPT !.sequenceNumber = @ + 1]
    BY <1>2, <1>5, <2>2
  <2>4. dests'[e] = [sequenceNumber |-> dests[e].sequenceNumber + 1,
                     allowlistEnabled |-> dests[e].allowlistEnabled,
                     allowedSenders |-> dests[e].allowedSenders]
    BY <2>1, <2>3 DEF DestEntry
  <2>5. dests' = [d \in Dest |-> dests'[d]]
    BY <1>2, <2>2, Zenon
  <2> QED
    BY <2>1, <2>2, <2>4, <2>5, <1>1 DEF RampTyped, DestEntry
<1>16. dests'[e] # Absent
  <2>1. dests[e] \in DestEntry
    BY <1>1, <1>2, <1>5 DEF RampTyped
  <2>2. dests'[e] \in DestEntry
    <3>1. [sequenceNumber |-> dests[e].sequenceNumber + 1,
           allowlistEnabled |-> dests[e].allowlistEnabled,
           allowedSenders |-> dests[e].allowedSenders] \in DestEntry
      <4>1. /\ dests[e].sequenceNumber + 1 \in Nat /\ dests[e].allowlistEnabled \in BOOLEAN
            /\ dests[e].allowedSenders \in SUBSET {RouterAddr}
        BY <2>1, EntryFields, Zenon
      <4> QED BY <4>1, EntryMade, Zenon
    <3> QED BY <3>1, <1>15, Zenon
  <2> QED
    BY <2>2, AbsentAssumption, Zenon
<1>17. AskedAreKnown'
  <2> SUFFICES ASSUME NEW p \in Quoter, NEW l \in {Asked(p), Answered(p)}, NEW i \in DOMAIN channel'[l]
               PROVE  dests'[channel'[l][i].msg.dest] # Absent
    BY DEF AskedAreKnown
  <2>1. l \in Link
    BY LinksAreDistinct DEF LinksDistinct
  <2>2. PICK j \in DOMAIN channel[l] : channel'[l][i] = channel[l][j]
    BY <2>1, <1>4 DEF TakesFrom
  <2>3. dests[channel[l][j].msg.dest] # Absent /\ channel[l][j].msg.dest \in Dest
    BY <2>1, <1>1, MessageDest, Zenon DEF AskedAreKnown, ChannelsOK
  <2> QED
    BY <2>2, <2>3, <1>15, <1>16
<1>18. RampTyped'
  <2>1. ASSUME NEW d \in Dest
        PROVE  /\ IsSeq(emitted'[d])
               /\ \A i \in DOMAIN emitted'[d] :
                     emitted'[d][i].id \in Nat /\ emitted'[d][i].quoter \in Quoter
    <3>1. IsSeq(emitted'[d])
      BY <1>1, <1>7, <1>8, Zenon DEF RampTyped
    <3>2. ASSUME NEW i \in DOMAIN emitted'[d]
          PROVE  emitted'[d][i].id \in Nat /\ emitted'[d][i].quoter \in Quoter
      BY <1>6, <1>9, <1>10, <1>11
    <3> QED
      BY <3>1, <3>2
  <2> QED
    BY <2>1, <1>1, <1>2, <1>7, <1>15 DEF RampTyped
<1>19. SequenceContiguous'
  <2>1. dests[e].sequenceNumber = Len(emitted[e])
    BY <1>1, <1>2, <1>5 DEF SequenceContiguous
  <2>2. ASSUME NEW d \in Dest, NEW i \in DOMAIN emitted'[d]
        PROVE  emitted'[d][i].sequenceNumber = i - 1
    <3>1. CASE i = last /\ emitted'[d][i] = ev
      BY <3>1, <2>1, <1>3, <1>8
    <3>2. CASE i \in DOMAIN emitted[d] /\ emitted'[d][i] = emitted[d][i]
      BY <3>2, <1>1 DEF SequenceContiguous
    <3> QED
      BY <3>1, <3>2, <1>9
  <2>3. ASSUME NEW d \in Dest
        PROVE  /\ dests'[d] = Absent => emitted'[d] = << >>
               /\ dests'[d] # Absent => dests'[d].sequenceNumber = Len(emitted'[d])
    <3>1. CASE d = e
      BY <3>1, <2>1, <1>8, <1>15, <1>16
    <3>2. CASE d # e
      BY <3>2, <1>1, <1>7, <1>15 DEF SequenceContiguous
    <3> QED
      BY <3>1, <3>2
  <2> QED
    BY <2>2, <2>3 DEF SequenceContiguous
<1>20. \A p \in Quoter : h \notin events[p]
  BY <1>1, <1>2, <1>6, AtOnePlace, LinksAreDistinct, Zenon
<1>21. EmittedOnce'
  <2>2. ASSUME NEW d \in Dest, NEW i \in DOMAIN emitted'[d]
        PROVE  emitted'[d][i].id \notin dropped
    BY <1>1, <1>9, <1>10, <1>13 DEF EmittedOnce
  <2>3. ASSUME NEW d \in Dest, NEW i \in DOMAIN emitted'[d], emitted'[d][i].id = h
        PROVE  d = e /\ i = last
    BY <2>3, <1>9, <1>11, <1>20
  <2>4. ASSUME NEW d \in Dest, NEW i \in DOMAIN emitted'[d],
               NEW f \in Dest, NEW j \in DOMAIN emitted'[f], emitted'[d][i].id = emitted'[f][j].id
        PROVE  d = f /\ i = j
    <3>1. CASE emitted'[d][i].id = h
      BY <3>1, <2>3, <2>4
    <3>2. CASE emitted'[d][i].id # h
      <4>1. /\ i \in DOMAIN emitted[d] /\ emitted'[d][i] = emitted[d][i]
            /\ j \in DOMAIN emitted[f] /\ emitted'[f][j] = emitted[f][j]
        BY <3>2, <2>4, <1>9, <1>10
      <4> QED
        BY <4>1, <2>4, <1>1 DEF EmittedOnce
    <3> QED
      BY <3>1, <3>2
  <2>5. dropped' = dropped
    OBVIOUS
  <2> QED
    BY <2>2, <2>4, <2>5, ZenonT(30) DEF EmittedOnce
<1>22. EmittedInOrder'
  <2> SUFFICES ASSUME NEW d \in Dest, NEW i \in DOMAIN emitted'[d], NEW j \in DOMAIN emitted'[d],
                      i < j, emitted'[d][i].quoter = emitted'[d][j].quoter
               PROVE  emitted'[d][i].id < emitted'[d][j].id
    BY DEF EmittedInOrder
  <2>1. i \in DOMAIN emitted[d] /\ emitted'[d][i] = emitted[d][i]
    <3>1. CASE d = e
      BY <3>1, <1>8
    <3>2. CASE d # e
      BY <3>2, <1>9
    <3> QED
      BY <3>1, <3>2
  <2>2. CASE emitted'[d][j] = ev
    <3>1. emitted[d][i].id \in events[q]
      BY <2>1, <2>2, <1>10, <1>11, ZenonT(30)
    <3> QED
      BY <3>1, <2>1, <2>2, <1>10, <1>13, Zenon
  <2>3. CASE j \in DOMAIN emitted[d] /\ emitted'[d][j] = emitted[d][j]
    BY <2>1, <2>3, <1>1 DEF EmittedInOrder
  <2> QED
    BY <2>2, <2>3, <1>9
<1> QED
  BY <1>4, <1>14, <1>17, <1>18, <1>19, <1>21, <1>22 DEF IInv, TakesFrom

\* Reconfiguration keeps the entries there are, and their counters.
LEMMA DestsIInv ==
    ASSUME IInv, feeQuoter' \in Quoter, dests' \in [Dest -> DestEntry \cup {Absent}],
           \A d \in Dest : dests[d] # Absent =>
               dests'[d] # Absent /\ dests'[d].sequenceNumber = dests[d].sequenceNumber,
           \A d \in Dest : dests[d] = Absent => dests'[d] = Absent \/ dests'[d].sequenceNumber = 0,
           UNCHANGED <<channel, sends, emitted, dropped>>
    PROVE  IInv'
<1>1. ChannelsOK(channel', Messages)
  BY DEF IInv
<1>2. flying' = flying /\ events' = events
  BY DEF flying, events
<1>3. RampTyped'
  BY DEF IInv, RampTyped
<1>4. AskedAreKnown'
  <2> SUFFICES ASSUME NEW p \in Quoter, NEW l \in {Asked(p), Answered(p)}, NEW i \in DOMAIN channel[l]
               PROVE  dests'[channel[l][i].msg.dest] # Absent
    BY DEF AskedAreKnown
  <2>1. l \in Link
    BY LinksAreDistinct, Zenon DEF LinksDistinct
  <2>2. dests[channel[l][i].msg.dest] # Absent
    BY DEF IInv, AskedAreKnown
  <2>3. channel[l][i].msg \in Messages
    BY <2>1 DEF IInv, ChannelsOK
  <2>4. channel[l][i].msg.dest \in Dest
    BY <2>3, MessageDest
  <2> QED
    BY <2>2, <2>4
<1>5. SequenceContiguous'
  <2>1. ASSUME NEW d \in Dest
        PROVE  /\ \A i \in DOMAIN emitted[d] : emitted[d][i].sequenceNumber = i - 1
               /\ dests'[d] = Absent => emitted[d] = << >>
               /\ dests'[d] # Absent => dests'[d].sequenceNumber = Len(emitted[d])
    <3>1. CASE dests[d] = Absent
      BY <3>1 DEF IInv, SequenceContiguous
    <3>2. CASE dests[d] # Absent
      BY <3>2 DEF IInv, SequenceContiguous
    <3> QED
      BY <3>1, <3>2
  <2> QED
    BY <2>1 DEF SequenceContiguous
<1>6. EmittedOnce' /\ EmittedInOrder'
  BY DEF IInv, EmittedOnce, EmittedInOrder
<1>7. Pipeline'
  BY <1>2 DEF IInv, Pipeline
<1> QED
  BY <1>1, <1>3, <1>4, <1>5, <1>6, <1>7, ZenonT(30) DEF IInv

\* Destinations are added or updated in place.
LEMMA DestUpdatesIInv ==
    ASSUME IInv, UNCHANGED <<sends, dropped>>, NEW sender, NEW updates \in Entries(Dest, BOOLEAN),
           applyDestChainConfigUpdates(sender, updates)
    PROVE  IInv'
<1>1. feeQuoter \in Quoter /\ dests \in [Dest -> DestEntry \cup {Absent}]
  BY DEF IInv, RampTyped
<1>2. \A d \in DOMAIN updates : updates[d] \in BOOLEAN
  <2>1. PICK ks \in SUBSET Dest : updates \in [ks -> BOOLEAN]
    BY DEF Entries
  <2> QED
    BY <2>1
<1>3. ASSUME NEW d \in Dest
      PROVE  /\ dests'[d] \in DestEntry \cup {Absent}
             /\ dests[d] # Absent =>
                   dests'[d] # Absent /\ dests'[d].sequenceNumber = dests[d].sequenceNumber
             /\ dests[d] = Absent => dests'[d] = Absent \/ dests'[d].sequenceNumber = 0
  <2>1. CASE d \notin DOMAIN updates
    BY <2>1, <1>1, ZenonT(30) DEF applyDestChainConfigUpdates
  <2>2. CASE d \in DOMAIN updates /\ dests[d] = Absent
    BY <2>2, <1>2 DEF applyDestChainConfigUpdates, NewDest, DestEntry
  <2>3. CASE d \in DOMAIN updates /\ dests[d] # Absent
    <3>1. dests[d] \in DestEntry
      BY <2>3, <1>1
    <3>2. dests'[d] = [sequenceNumber |-> dests[d].sequenceNumber,
                       allowlistEnabled |-> updates[d],
                       allowedSenders |-> dests[d].allowedSenders]
      BY <2>3 DEF applyDestChainConfigUpdates
    <3>3. dests'[d] \in DestEntry
      BY <3>1, <3>2, <2>3, <1>2 DEF DestEntry
    <3>4. dests'[d] # Absent
      BY <3>3, AbsentAssumption
    <3>5. dests'[d].sequenceNumber = dests[d].sequenceNumber
      BY <3>2
    <3> QED
      BY <3>3, <3>4, <3>5, <2>3
  <2> QED
    BY <2>1, <2>2, <2>3, Zenon
<1>4. /\ dests' = [d \in Dest |-> dests'[d]]
      /\ UNCHANGED <<channel, feeQuoter, emitted>>
  BY DEF applyDestChainConfigUpdates
<1>5. dests' \in [Dest -> DestEntry \cup {Absent}]
  BY <1>3, <1>4
<1> QED
  BY <1>1, <1>3, <1>4, <1>5, DestsIInv

\* The allowlists of known destinations change.
LEMMA AllowlistIInv ==
    ASSUME IInv, UNCHANGED <<sends, dropped>>, NEW sender,
           NEW updates \in Entries(Dest, [add : SUBSET {RouterAddr}, remove : SUBSET {RouterAddr}]),
           applyAllowlistUpdates(sender, updates)
    PROVE  IInv'
<1>1. feeQuoter \in Quoter /\ dests \in [Dest -> DestEntry \cup {Absent}]
  BY DEF IInv, RampTyped
<1>2. \A d \in DOMAIN updates : updates[d].add \subseteq {RouterAddr}
  <2>1. PICK ks \in SUBSET Dest :
            updates \in [ks -> [add : SUBSET {RouterAddr}, remove : SUBSET {RouterAddr}]]
    BY DEF Entries
  <2> QED
    BY <2>1
<1>3. ASSUME NEW d \in Dest
      PROVE  /\ dests'[d] \in DestEntry \cup {Absent}
             /\ dests[d] # Absent =>
                   dests'[d] # Absent /\ dests'[d].sequenceNumber = dests[d].sequenceNumber
             /\ dests[d] = Absent => dests'[d] = Absent
  <2>1. CASE d \notin DOMAIN updates
    BY <2>1, <1>1, Zenon DEF applyAllowlistUpdates
  <2>2. CASE d \in DOMAIN updates
    <3>1. dests[d] # Absent /\ dests[d] \in DestEntry
      BY <2>2, <1>1, ZenonT(30) DEF applyAllowlistUpdates
    <3>2. dests'[d] = [sequenceNumber |-> dests[d].sequenceNumber,
                       allowlistEnabled |-> dests[d].allowlistEnabled,
                       allowedSenders |->
                           (dests[d].allowedSenders \cup updates[d].add) \ updates[d].remove]
      BY <2>2 DEF applyAllowlistUpdates
    <3>3. dests'[d] \in DestEntry
      <4>1. /\ dests[d].sequenceNumber \in Nat /\ dests[d].allowlistEnabled \in BOOLEAN
            /\ dests[d].allowedSenders \in SUBSET {RouterAddr}
        BY <3>1, EntryFields, Zenon
      <4>2. (dests[d].allowedSenders \cup updates[d].add) \ updates[d].remove \in SUBSET {RouterAddr}
        BY <4>1, <2>2, <1>2, Zenon
      <4> QED BY <3>2, <4>1, <4>2, EntryMade, Zenon
    <3>4. dests'[d] # Absent
      BY <3>3, AbsentAssumption, ZenonT(30)
    <3>5. dests'[d].sequenceNumber = dests[d].sequenceNumber
      BY <3>2, SMTT(30)
    <3> QED
      BY <3>1, <3>3, <3>4, <3>5
  <2> QED
    BY <2>1, <2>2
<1>4. /\ dests' = [d \in Dest |-> dests'[d]]
      /\ UNCHANGED <<channel, feeQuoter, emitted>>
  BY DEF applyAllowlistUpdates
<1>5. dests' \in [Dest -> DestEntry \cup {Absent}]
  BY <1>3, <1>4
<1> QED
  BY <1>1, <1>3, <1>4, <1>5, DestsIInv

\* The invariant holds of an unused lane.
LEMMA InitIInv == Init => IInv
<1> SUFFICES ASSUME Init PROVE IInv
  OBVIOUS
<1> USE DEF Init, NothingSent, RouterInit, RampInit
<1>1. IsSeq(<< >>) /\ DOMAIN << >> = {}
  BY DEF IsSeq
<1>2. ChannelsOK(channel, Messages)
  BY <1>1 DEF ChannelsOK
<1>3. /\ \A l \in Link : flying[l] = {}
      /\ \A q \in Quoter : events[q] = {}
  BY <1>1 DEF flying, IdsOf, events
<1>4. \A q \in Quoter : Handled(flying, events, q) = {}
  BY <1>3, LinksAreDistinct DEF Handled, LinksDistinct
<1>5. RampTyped /\ AskedAreKnown
  BY <1>1, LinksAreDistinct DEF RampTyped, AskedAreKnown, LinksDistinct
<1>6. SequenceContiguous /\ EmittedOnce /\ EmittedInOrder
  BY <1>1 DEF SequenceContiguous, EmittedOnce, EmittedInOrder
<1>7. Pipeline
  BY <1>3, <1>4, LinksAreDistinct DEF Pipeline, InOrder, Gone, Behind, LinksDistinct
<1> QED
  BY <1>2, <1>5, <1>6, <1>7 DEF IInv

\* Every step preserves the invariant.
LEMMA NextIInv == IInv /\ [Next]_vars => IInv'
<1> SUFFICES ASSUME IInv, [Next]_vars PROVE IInv'
  OBVIOUS
<1>1. CASE UserSends
  BY <1>1, UserSendsIInv
<1>2. CASE DeliverSend
  <2>1. CASE send(RouterAddr) /\ UNCHANGED <<onRamp, sends, now, quoterVars, dropped>>
    BY <2>1, SendIInv
  <2>2. CASE Pending(RouterAddr, OnRampAddr) /\ Throws(RouterAddr, OnRampAddr)
    BY <2>2, LinksAreDistinct, ThrowsIInv DEF FromRouter, LinksDistinct
  <2> QED
    BY <1>2, <2>1, <2>2 DEF DeliverSend
<1>3. ASSUME NEW q \in Quoter, DeliverValidated(q)
      PROVE  IInv'
  <2>1. CASE onMessageValidated(q) /\ UNCHANGED <<onRamp, sends, now, quoterVars, dropped>>
    BY <2>1, EmitIInv
  <2>2. CASE Pending(q, OnRampAddr) /\ Throws(q, OnRampAddr)
    BY <2>2, LinksAreDistinct, ThrowsIInv, Zenon DEF Answered, LinksDistinct
  <2> QED
    BY <1>3, <2>1, <2>2 DEF DeliverValidated
<1>4. FeeQuoterAddr \in Quoter /\ OtherQuoter \in Quoter
  BY AddressAssumption
<1>5. CASE DeliverGetValidatedFee
  <2>1. CASE getValidatedFee(OnRampAddr) /\ UNCHANGED <<onRamp, sends, rampVars, dropped>>
    <3> DEFINE fee == validatedFee(NextIn(OnRampAddr, FeeQuoterAddr).msg)
    <3>1. Answers(FeeQuoterAddr, fee) /\ UNCHANGED <<sends, feeQuoter, dests, emitted, dropped>>
      BY <2>1 DEF getValidatedFee, Answers, rampVars
    <3> HIDE DEF fee
    <3> QED
      BY <3>1, <1>4, AnswerIInv
  <2>2. CASE Pending(OnRampAddr, FeeQuoterAddr) /\ Throws(OnRampAddr, FeeQuoterAddr)
    BY <2>2, <1>4, LinksAreDistinct, ThrowsIInv, Zenon DEF Asked, LinksDistinct
  <2> QED
    BY <1>5, <2>1, <2>2 DEF DeliverGetValidatedFee
<1>6. CASE OtherQuoterAnswers
  <2>1. CASE Throws(OnRampAddr, OtherQuoter)
    BY <2>1, <1>4, <1>6, LinksAreDistinct, ThrowsIInv, Zenon DEF Asked, OtherQuoterAnswers, LinksDistinct
  <2>2. CASE ~Throws(OnRampAddr, OtherQuoter)
    <3>1. Answers(OtherQuoter, 0) /\ UNCHANGED <<sends, feeQuoter, dests, emitted, dropped>>
      BY <2>2, <1>6 DEF OtherQuoterAnswers, Answers, rampVars
    <3> QED
      BY <3>1, <1>4, AnswerIInv
  <2> QED
    BY <2>1, <2>2
<1>7. CASE Admin
  <2>1. PICK sender \in Sender :
        \/ \E ramp \in Ramp : onSetRamp(sender, ramp) /\ UNCHANGED <<rampVars, now, quoterVars, dropped>>
        \/ /\ \/ \E quoter \in Quoter : SetDynamicConfig(sender, quoter)
              \/ \E updates \in Entries(Dest, BOOLEAN) : applyDestChainConfigUpdates(sender, updates)
              \/ \E updates \in Entries(Dest, [add : SUBSET {RouterAddr}, remove : SUBSET {RouterAddr}]) :
                     applyAllowlistUpdates(sender, updates)
           /\ UNCHANGED <<onRamp, sends, now, quoterVars, dropped>>
        \/ QuoterStep(sender) /\ UNCHANGED <<onRamp, sends, rampVars, dropped>>
    BY <1>7, Zenon DEF Admin
  <2>2. CASE \E ramp \in Ramp : onSetRamp(sender, ramp) /\ UNCHANGED <<rampVars, now, quoterVars, dropped>>
    BY <2>2, UnchangedIInv DEF onSetRamp, rampVars
  <2>3. CASE QuoterStep(sender) /\ UNCHANGED <<onRamp, sends, rampVars, dropped>>
    <3>1. channel' = channel
      BY <2>3, Zenon DEF QuoterStep, updateFeeTokens, updateDestChainConfig, updatePrices
    <3> QED
      BY <3>1, <2>3, UnchangedIInv DEF rampVars
  <2>4. ASSUME NEW quoter \in Quoter, SetDynamicConfig(sender, quoter), UNCHANGED <<sends, dropped>>
        PROVE  IInv'
    <3>1. dests \in [Dest -> DestEntry \cup {Absent}]
      BY DEF IInv, RampTyped
    <3>2. feeQuoter' \in Quoter /\ UNCHANGED <<channel, dests, emitted>>
      BY <2>4 DEF SetDynamicConfig
    <3> QED
      BY <3>1, <3>2, <2>4, DestsIInv
  <2>5. ASSUME NEW updates \in Entries(Dest, BOOLEAN), applyDestChainConfigUpdates(sender, updates),
               UNCHANGED <<sends, dropped>>
        PROVE  IInv'
    BY <2>5, DestUpdatesIInv
  <2>6. ASSUME NEW updates \in Entries(Dest, [add : SUBSET {RouterAddr}, remove : SUBSET {RouterAddr}]),
               applyAllowlistUpdates(sender, updates), UNCHANGED <<sends, dropped>>
        PROVE  IInv'
    BY <2>6, AllowlistIInv, Zenon
  <2> QED
    BY <2>1, <2>2, <2>3, <2>4, <2>5, <2>6, Zenon
<1>8. CASE Tick /\ UNCHANGED <<onRamp, sends, rampVars, dropped>>
  BY <1>8, UnchangedIInv DEF Tick, rampVars
<1>9. CASE UNCHANGED vars
  BY <1>9, UnchangedIInv DEF vars, rampVars
<1> QED
  BY <1>1, <1>2, <1>3, <1>5, <1>6, <1>7, <1>8, <1>9 DEF Next

\* The invariant holds in every reachable state.
LEMMA InvariantHolds == Spec => []IInv
BY InitIInv, NextIInv, PTL DEF Spec

\* Event numbers are contiguous for every set of destinations and every
\* interleaving of sends, deliveries, throws and reconfigurations.
THEOREM NumbersAreContiguous == Spec => []SequenceContiguous
<1>1. IInv => SequenceContiguous
  BY DEF IInv
<1> QED
  BY <1>1, InvariantHolds, PTL

\* The OnRamp emits no send twice and none that a contract threw.
THEOREM SendsAreEmittedOnce == Spec => []EmittedOnce
<1>1. IInv => EmittedOnce
  BY DEF IInv
<1> QED
  BY <1>1, InvariantHolds, PTL

\* Sends priced by one fee quoter are emitted in the order in which the Router
\* handled them, however often the OnRamp is pointed at another quoter.
THEOREM SendsAreEmittedInOrder == Spec => []EmittedInOrder
<1>1. IInv => EmittedInOrder
  BY ZenonT(30) DEF IInv
<1> QED
  BY <1>1, InvariantHolds, PTL

\* onMessageValidated never meets an unknown destination.
THEOREM FeeAnswersAreKnown == Spec => []AnswersAreKnown
<1>1. IInv => AnswersAreKnown
  BY DEF IInv, AskedAreKnown, AnswersAreKnown, Answered
<1> QED
  BY <1>1, InvariantHolds, PTL

-----------------------------------------------------------------------------
(* Gas prices. *)

\* Only the messages to the fee quoter and time change its storage.
LEMMA QuoterSteps ==
    ASSUME [Next]_vars
    PROVE  \/ UNCHANGED <<now, quoterVars>>
           \/ Tick
           \/ \E sender \in Sender : QuoterStep(sender)
<1>1. CASE UserSends
  BY <1>1, Zenon DEF UserSends
<1>2. CASE DeliverSend
  BY <1>2, Zenon DEF DeliverSend, Throws
<1>3. CASE \E q \in Quoter : DeliverValidated(q)
  BY <1>3, Zenon DEF DeliverValidated, Throws
<1>4. CASE DeliverGetValidatedFee
  BY <1>4, Zenon DEF DeliverGetValidatedFee, getValidatedFee, Throws
<1>5. CASE OtherQuoterAnswers
  BY <1>5, Zenon DEF OtherQuoterAnswers, Throws
<1>6. CASE Admin
  BY <1>6, Zenon DEF Admin
<1>7. CASE UNCHANGED vars
  BY <1>7, Zenon DEF vars
<1> QED BY <1>1, <1>2, <1>3, <1>4, <1>5, <1>6, <1>7, Zenon DEF Next

\* The inductive invariant: a chain nobody has priced still has the gas price
\* of updateDestChainConfig, whose timestamp is 0.
UnpricedIsOld ==
    /\ now \in Nat /\ now >= StartTime
    /\ DOMAIN chains = Dest
    /\ \A dest \in Dest : chains[dest] # Absent =>
          /\ chains[dest] = [config |-> chains[dest].config, usdPerUnitGas |-> chains[dest].usdPerUnitGas]
          /\ chains[dest].config \in ChainConfigs
          /\ dest \notin priced => chains[dest].usdPerUnitGas = NoGasPrice

\* Every message to the fee quoter preserves it.
LEMMA QuoterKeepsUnpricedOld ==
    ASSUME UnpricedIsOld, NEW sender \in Sender, QuoterStep(sender)
    PROVE  UnpricedIsOld'
<1>1. CASE UNCHANGED <<now, chains, priced>>
  BY <1>1 DEF UnpricedIsOld
<1>2. ASSUME NEW dest \in Dest, NEW config \in ChainConfigs, updateDestChainConfig(sender, dest, config)
      PROVE  UnpricedIsOld'
  BY <1>2 DEF UnpricedIsOld, updateDestChainConfig, NewChain
<1>4. ASSUME NEW prices, NEW gas, updatePrices(prices, gas)
      PROVE  UnpricedIsOld'
  BY <1>4 DEF UnpricedIsOld, updatePrices
<1>5. ASSUME NEW add, NEW remove, updateFeeTokens(sender, add, remove)
      PROVE  UnpricedIsOld'
  BY <1>1, <1>5 DEF updateFeeTokens
<1> QED BY <1>2, <1>4, <1>5, ZenonT(30) DEF QuoterStep

\* getValidatedGasPrice never takes the price 0 of a chain nobody has priced for
\* a real one where its staleness check is on: that price is older than every
\* threshold, whatever the prices, configurations and times.
THEOREM QuotesNeedPrices == Spec => []QuotesArePriced
<1>1. Init => UnpricedIsOld
  BY TimeAssumption DEF Init, QuoterInit, UnpricedIsOld
<1>2. UnpricedIsOld /\ [Next]_vars => UnpricedIsOld'
  <2> SUFFICES ASSUME UnpricedIsOld, [Next]_vars PROVE UnpricedIsOld'
    BY Zenon
  <2>1. CASE UNCHANGED <<now, quoterVars>>
    BY <2>1, ZenonT(30) DEF UnpricedIsOld, quoterVars
  <2>2. CASE Tick
    <3>1. now \in Nat /\ now >= StartTime /\ StartTime \in Nat
      BY TimeAssumption DEF UnpricedIsOld
    <3>2. now' \in Nat /\ now' >= StartTime
      BY <2>2, <3>1 DEF Tick
    <3>3. UNCHANGED <<chains, priced>>
      BY <2>2 DEF Tick, quoterVars
    <3> QED BY <3>2, <3>3 DEF UnpricedIsOld
  <2> QED BY <2>1, <2>2, QuoterKeepsUnpricedOld, QuoterSteps, Zenon
<1>3. UnpricedIsOld => QuotesArePriced
  <2> SUFFICES ASSUME UnpricedIsOld, NEW msg \in Messages, Quotable(msg), msg.dest \notin priced,
                      chains[msg.dest].config.gasPriceStalenessThreshold # 0
               PROVE  FALSE
    BY ZenonT(30) DEF QuotesArePriced
  <2> DEFINE threshold == chains[msg.dest].config.gasPriceStalenessThreshold
  <2>1. chains[msg.dest] # Absent /\ threshold > now - chains[msg.dest].usdPerUnitGas.timestamp
    BY DEF Quotable, GasPriceFresh
  <2>2. msg.dest \in Dest
    BY MessageDest
  <2>3. threshold \in 0 .. StartTime /\ chains[msg.dest].usdPerUnitGas.timestamp = 0
    <3>1. chains[msg.dest].config \in ChainConfigs /\ chains[msg.dest].usdPerUnitGas = NoGasPrice
      BY <2>1, <2>2, Zenon DEF UnpricedIsOld
    <3>2. threshold \in 0 .. StartTime
      BY <3>1, TimeAssumption, Zenon
    <3> QED BY <3>1, <3>2 DEF NoGasPrice
  <2>4. now \in Nat /\ now >= StartTime /\ StartTime \in Nat
    BY TimeAssumption DEF UnpricedIsOld
  <2> HIDE DEF threshold
  <2> QED BY <2>1, <2>3, <2>4
<1> QED BY <1>1, <1>2, <1>3, PTL DEF Spec

-----------------------------------------------------------------------------
(* The fee of a message. *)

\* A product of numbers is one.
LEMMA ProductType == ASSUME NEW a \in Nat, NEW b \in Nat PROVE a * b \in Nat
OBVIOUS

\* Products and quotients of larger numbers are larger.
LEMMA ProductMonotone ==
    ASSUME NEW a \in Nat, NEW b \in Nat, NEW c \in Nat, a <= b
    PROVE  a * c \in Nat /\ b * c \in Nat /\ a * c <= b * c
OBVIOUS

\* Division keeps the order of its first argument.
LEMMA QuotientMonotone ==
    ASSUME NEW a \in Nat, NEW b \in Nat, NEW c \in Nat \ {0}, a <= b
    PROVE  a \div c \in Nat /\ b \div c \in Nat /\ a \div c <= b \div c
OBVIOUS

\* A sum of three grows with each of them.
LEMMA SumMonotone ==
    ASSUME NEW a1 \in Nat, NEW b1 \in Nat, NEW c1 \in Nat, NEW a2 \in Nat, NEW b2 \in Nat, NEW c2 \in Nat,
           a1 <= a2, b1 <= b2, c1 <= c2
    PROVE  a1 + b1 + c1 \in Nat /\ a2 + b2 + c2 \in Nat /\ a1 + b1 + c1 <= a2 + b2 + c2
OBVIOUS

\* An entry of destChainConfigs.
DestChainConfig ==
    [config : FeeQuoterDestChainConfig,
     usdPerUnitGas : [executionGasPrice : Nat, dataAvailabilityGasPrice : Nat, timestamp : Nat]]

\* What an entry of destChainConfigs holds.
LEMMA DestChainFields ==
    ASSUME NEW x \in DestChainConfig
    PROVE  /\ x.config \in FeeQuoterDestChainConfig
           /\ x.usdPerUnitGas.executionGasPrice \in Nat
           /\ x.usdPerUnitGas.dataAvailabilityGasPrice \in Nat
<1>1. /\ x.config \in FeeQuoterDestChainConfig
      /\ x.usdPerUnitGas \in [executionGasPrice : Nat, dataAvailabilityGasPrice : Nat, timestamp : Nat]
  BY DEF DestChainConfig
<1> QED BY <1>1

\* Prices, multipliers and configurations are what the messages carry.
QuoterTyped ==
    /\ now \in Nat
    /\ usdPerToken \in [Token -> Nat \cup {Absent}]
    /\ premiumMultiplierWeiPerEth \in [Token -> Nat \cup {Absent}]
    /\ chains \in [Dest -> DestChainConfig \cup {Absent}]

\* The calldata gas grows with the length: above the threshold the whole of the
\* lower rate has been charged already.
LEMMA CalldataMonotone ==
    ASSUME NEW l1 \in Nat, NEW l2 \in Nat, l1 <= l2,
           NEW base \in Nat, NEW high \in Nat, NEW threshold \in Nat
    PROVE  LET gas(l) == IF l > threshold THEN base * threshold + (l - threshold) * high ELSE l * base
           IN  gas(l1) \in Nat /\ gas(l2) \in Nat /\ gas(l1) <= gas(l2)
<1> DEFINE gas(l) == IF l > threshold THEN base * threshold + (l - threshold) * high ELSE l * base
<1>1. base * threshold \in Nat /\ base * threshold = threshold * base
  OBVIOUS
<1>2. CASE l1 > threshold
  <2>1. l1 - threshold \in Nat /\ l2 - threshold \in Nat /\ l1 - threshold <= l2 - threshold /\ l2 > threshold
    BY <1>2
  <2>2. /\ (l1 - threshold) * high \in Nat /\ (l2 - threshold) * high \in Nat
        /\ (l1 - threshold) * high <= (l2 - threshold) * high
    BY <2>1, ProductMonotone
  <2> QED BY <1>1, <1>2, <2>1, <2>2
<1>3. CASE ~(l1 > threshold) /\ l2 > threshold
  <2>1. l1 * base \in Nat /\ l1 * base <= threshold * base
    BY <1>3, ProductMonotone
  <2>2. l2 - threshold \in Nat
    BY <1>3
  <2>3. (l2 - threshold) * high \in Nat
    BY <2>2
  <2> QED BY <1>1, <1>3, <2>1, <2>3
<1>4. CASE ~(l1 > threshold) /\ ~(l2 > threshold)
  BY <1>4, ProductMonotone
<1> QED BY <1>2, <1>3, <1>4

\* The fee of a message grows with its data.
LEMMA FeeGrows ==
    ASSUME QuoterTyped, NEW msg1 \in Messages, NEW msg2 \in Messages,
           msg1.dest = msg2.dest, msg1.feeToken = msg2.feeToken, msg1.dataBits <= msg2.dataBits,
           Quotable(msg1)
    PROVE  validatedFee(msg1) <= validatedFee(msg2)
<1> DEFINE c == chains[msg1.dest].config
           prices == chains[msg1.dest].usdPerUnitGas
           multiplier == premiumMultiplierWeiPerEth[msg1.feeToken]
           price == usdPerToken[msg1.feeToken]
<1>1. /\ msg1.dest \in Dest /\ msg1.feeToken \in Token
      /\ msg1.dataBits \in Nat /\ msg2.dataBits \in Nat
  BY InputAssumption DEF CCIPMessage
<1>2. msg2.dest = msg1.dest /\ msg2.feeToken = msg1.feeToken /\ msg1.dataBits <= msg2.dataBits
  OBVIOUS
<1>3. chains[msg1.dest] \in DestChainConfig /\ multiplier \in Nat /\ price \in Nat \ {0}
  BY <1>1, Zenon DEF Quotable, QuoterTyped
<1>4. /\ c \in FeeQuoterDestChainConfig
      /\ prices.executionGasPrice \in Nat /\ prices.dataAvailabilityGasPrice \in Nat
  BY <1>3, DestChainFields, ZenonT(30)
<1>5. /\ c.destGasOverhead \in Nat /\ c.destGasPerPayloadByteBase \in Nat /\ c.destGasPerPayloadByteHigh \in Nat
      /\ c.destGasPerPayloadByteThreshold \in Nat /\ c.destDataAvailabilityOverheadGas \in Nat
      /\ c.destGasPerDataAvailabilityByte \in Nat /\ c.destDataAvailabilityMultiplierBps \in Nat
      /\ c.gasMultiplierWeiPerEth \in Nat /\ c.networkFeeUsdCents \in Nat
  BY <1>4 DEF FeeQuoterDestChainConfig
<1> DEFINE len(msg) == CalldataLen(msg)
           calldata(msg) == CalldataGas(msg)
           execution(msg) == ExecutionCost(msg)
           availability(msg) == DataAvailabilityCost(msg)
<1>8. len(msg1) \in Nat /\ len(msg2) \in Nat /\ len(msg1) <= len(msg2)
  <2>1. len(msg1) = msg1.dataBits \div 8 /\ len(msg2) = msg2.dataBits \div 8
    BY Zenon DEF CalldataLen
  <2>2. 8 \in Nat \ {0}
    OBVIOUS
  <2> HIDE DEF len
  <2> QED BY <1>1, <1>2, <2>1, <2>2, QuotientMonotone, Zenon
<1>9. calldata(msg1) \in Nat /\ calldata(msg2) \in Nat /\ calldata(msg1) <= calldata(msg2)
  <2> DEFINE rate(l) == IF l > c.destGasPerPayloadByteThreshold
                        THEN c.destGasPerPayloadByteBase * c.destGasPerPayloadByteThreshold
                                + (l - c.destGasPerPayloadByteThreshold) * c.destGasPerPayloadByteHigh
                        ELSE l * c.destGasPerPayloadByteBase
  <2>1. calldata(msg1) = rate(len(msg1)) /\ calldata(msg2) = rate(len(msg2))
    BY <1>2, Zenon DEF CalldataGas
  <2>2. rate(len(msg1)) \in Nat /\ rate(len(msg2)) \in Nat /\ rate(len(msg1)) <= rate(len(msg2))
    <3> HIDE DEF len, c
    <3> QED BY <1>5, <1>8, CalldataMonotone, Zenon
  <2> QED BY <2>1, <2>2, Zenon
<1>10. execution(msg1) \in Nat /\ execution(msg2) \in Nat /\ execution(msg1) <= execution(msg2)
  <2> DEFINE all(msg) == c.destGasOverhead + calldata(msg)
             p == prices.executionGasPrice
             m == c.gasMultiplierWeiPerEth
             o == c.destGasOverhead
  <2>1. execution(msg1) = p * all(msg1) * m /\ execution(msg2) = p * all(msg2) * m
    BY <1>2, ZenonT(30) DEF ExecutionCost
  <2>2. p \in Nat /\ m \in Nat /\ o \in Nat
    BY <1>4, <1>5
  <2>3. all(msg1) = o + calldata(msg1) /\ all(msg2) = o + calldata(msg2)
    OBVIOUS
  <2> HIDE DEF p, m, o, all, execution, calldata
  <2>4. all(msg1) \in Nat /\ all(msg2) \in Nat /\ all(msg1) <= all(msg2)
    BY <1>9, <2>2, <2>3
  <2>5. p * all(msg1) \in Nat /\ p * all(msg2) \in Nat /\ p * all(msg1) <= p * all(msg2)
    BY <2>2, <2>4
  <2> QED BY <2>1, <2>2, <2>5, ProductMonotone
<1> DEFINE daBytes(msg) == TON_2_EVM_MESSAGE_FIXED_BYTES + len(msg)
<1>11. daBytes(msg1) \in Nat /\ daBytes(msg2) \in Nat /\ daBytes(msg1) <= daBytes(msg2)
  <2> HIDE DEF len
  <2> QED BY <1>8, UnitAssumption
<1>12. availability(msg1) \in Nat /\ availability(msg2) \in Nat /\ availability(msg1) <= availability(msg2)
  <2> DEFINE p == prices.dataAvailabilityGasPrice
             r == c.destGasPerDataAvailabilityByte
             o == c.destDataAvailabilityOverheadGas
             m == c.destDataAvailabilityMultiplierBps
             all(msg) == daBytes(msg) * r + o
  <2>1. availability(msg1) = p * all(msg1) * m * VAL_1E14 /\ availability(msg2) = p * all(msg2) * m * VAL_1E14
    BY <1>2, ZenonT(30) DEF DataAvailabilityCost
  <2>2. p \in Nat /\ r \in Nat /\ o \in Nat /\ m \in Nat /\ VAL_1E14 \in Nat
    BY <1>4, <1>5, UnitAssumption, ZenonT(30)
  <2>3. all(msg1) = daBytes(msg1) * r + o /\ all(msg2) = daBytes(msg2) * r + o
    OBVIOUS
  <2> HIDE DEF p, r, o, m, all, availability, daBytes
  <2>4. daBytes(msg1) * r \in Nat /\ daBytes(msg2) * r \in Nat /\ daBytes(msg1) * r <= daBytes(msg2) * r
    BY <1>11, <2>2, ProductMonotone, ZenonT(30)
  <2>5. all(msg1) \in Nat /\ all(msg2) \in Nat /\ all(msg1) <= all(msg2)
    BY <2>2, <2>3, <2>4
  <2>6. p * all(msg1) \in Nat /\ p * all(msg2) \in Nat /\ p * all(msg1) <= p * all(msg2)
    BY <2>2, <2>5
  <2>7. p * all(msg1) * m \in Nat /\ p * all(msg2) * m \in Nat /\ p * all(msg1) * m <= p * all(msg2) * m
    BY <2>2, <2>6, ProductMonotone
  <2> QED BY <2>1, <2>2, <2>7, ProductMonotone
<1> DEFINE premium == c.networkFeeUsdCents * multiplier
           cost(msg) == premium + execution(msg) + availability(msg)
<1>13. validatedFee(msg1) = cost(msg1) \div price /\ validatedFee(msg2) = cost(msg2) \div price
  BY <1>2, Zenon DEF validatedFee
<1>14. cost(msg1) \in Nat /\ cost(msg2) \in Nat /\ cost(msg1) <= cost(msg2)
  <2>1. premium \in Nat
    BY <1>3, <1>5, ProductType, Zenon
  <2>2. premium <= premium
    BY <2>1
  <2> HIDE DEF premium, execution, availability
  <2> QED BY <1>10, <1>12, <2>1, <2>2, SumMonotone, ZenonT(30)
<1> HIDE DEF cost, price
<1> QED BY <1>3, <1>13, <1>14, QuotientMonotone, ZenonT(30)

\* A dictionary keeps its type through Update and Remove.
LEMMA DictionaryTyped ==
    ASSUME NEW Key, NEW Value, NEW Changed, Changed \subseteq Value,
           NEW dict \in [Key -> Value \cup {Absent}], NEW add \in Entries(Key, Changed), NEW remove
    PROVE  /\ Update(dict, add) \in [Key -> Value \cup {Absent}]
           /\ Remove(Update(dict, add), remove) \in [Key -> Value \cup {Absent}]
<1>1. PICK ks : add \in [ks -> Changed]
  BY DEF Entries
<1>2. Update(dict, add) \in [Key -> Value \cup {Absent}]
  BY <1>1 DEF Update
<1> HIDE DEF Update
<1> QED BY <1>2 DEF Remove

\* Every message to the fee quoter preserves the types of its storage.
LEMMA QuoterKeepsTypes ==
    ASSUME QuoterTyped, NEW sender \in Sender, QuoterStep(sender)
    PROVE  QuoterTyped'
<1>1. ASSUME NEW add \in Entries(Token, Multipliers), NEW remove, updateFeeTokens(sender, add, remove)
      PROVE  QuoterTyped'
  <2>1. Remove(Update(premiumMultiplierWeiPerEth, add), remove) \in [Token -> Nat \cup {Absent}]
    BY DictionaryTyped, InputAssumption, Zenon DEF QuoterTyped
  <2> QED BY <1>1, <2>1, Zenon DEF QuoterTyped, updateFeeTokens
<1>3. ASSUME NEW dest \in Dest, NEW config \in ChainConfigs, updateDestChainConfig(sender, dest, config)
      PROVE  QuoterTyped'
  <2>1. config \in FeeQuoterDestChainConfig
    BY InputAssumption
  <2>2. NewChain(config, NoGasPrice) \in DestChainConfig
    BY <2>1 DEF NewChain, NoGasPrice, DestChainConfig
  <2>3. ASSUME chains[dest] # Absent PROVE [chains[dest] EXCEPT !.config = config] \in DestChainConfig
    <3>1. chains[dest] \in DestChainConfig
      BY <2>3 DEF QuoterTyped
    <3> QED BY <2>1, <3>1 DEF DestChainConfig
  <2>4. chains' \in [Dest -> DestChainConfig \cup {Absent}]
    BY <1>3, <2>2, <2>3 DEF updateDestChainConfig, QuoterTyped
  <2> QED BY <1>3, <2>4 DEF QuoterTyped, updateDestChainConfig
<1>4. ASSUME NEW prices \in Entries(Token, TokenPrices), NEW gas \in Entries(Dest, GasPrices),
             updatePrices(prices, gas)
      PROVE  QuoterTyped'
  <2>1. usdPerToken' \in [Token -> Nat \cup {Absent}]
    BY <1>4, DictionaryTyped, InputAssumption, Zenon DEF QuoterTyped, updatePrices
  <2> DEFINE stamped(dest) == [executionGasPrice |-> gas[dest].executionGasPrice,
                               dataAvailabilityGasPrice |-> gas[dest].dataAvailabilityGasPrice,
                               timestamp |-> now]
  <2>2. ASSUME NEW dest \in Dest, dest \in DOMAIN gas, chains[dest] # Absent
        PROVE  [chains[dest] EXCEPT !.usdPerUnitGas = stamped(dest)] \in DestChainConfig
    <3>1. PICK ks : gas \in [ks -> GasPrices]
      BY DEF Entries
    <3>2. gas[dest] \in [executionGasPrice : Nat, dataAvailabilityGasPrice : Nat]
      BY <2>2, <3>1, InputAssumption, ZenonT(30)
    <3>3. stamped(dest) \in [executionGasPrice : Nat, dataAvailabilityGasPrice : Nat, timestamp : Nat]
      BY <3>2 DEF QuoterTyped
    <3>4. chains[dest] \in DestChainConfig
      BY <2>2 DEF QuoterTyped
    <3> HIDE DEF stamped
    <3> QED BY <3>3, <3>4 DEF DestChainConfig
  <2>3. chains' = [dest \in Dest |->
            IF dest \in DOMAIN gas /\ chains[dest] # Absent
            THEN [chains[dest] EXCEPT !.usdPerUnitGas = stamped(dest)] ELSE chains[dest]]
    BY <1>4 DEF updatePrices
  <2>4. \A dest \in Dest : chains[dest] \in DestChainConfig \cup {Absent}
    BY DEF QuoterTyped
  <2>5. chains' \in [Dest -> DestChainConfig \cup {Absent}]
    <3> HIDE DEF stamped
    <3> QED BY <2>2, <2>3, <2>4
  <2>6. UNCHANGED <<now, premiumMultiplierWeiPerEth>>
    BY <1>4 DEF updatePrices
  <2> QED BY <2>1, <2>5, <2>6 DEF QuoterTyped
<1> QED BY <1>1, <1>3, <1>4, Zenon DEF QuoterStep

\* validatedFee never charges less for a message with more data, whatever the
\* prices, rates and thresholds in force.
THEOREM FeesGrowWithTheMessage == Spec => []FeeMonotone
<1>1. Init => QuoterTyped
  BY TimeAssumption DEF Init, QuoterInit, QuoterTyped
<1>2. QuoterTyped /\ [Next]_vars => QuoterTyped'
  <2> SUFFICES ASSUME QuoterTyped, [Next]_vars PROVE QuoterTyped'
    BY Zenon
  <2>1. CASE UNCHANGED <<now, quoterVars>>
    BY <2>1 DEF QuoterTyped, quoterVars
  <2>2. CASE Tick
    BY <2>2 DEF Tick, QuoterTyped, quoterVars
  <2> QED BY <2>1, <2>2, QuoterKeepsTypes, QuoterSteps, Zenon
<1>3. QuoterTyped => FeeMonotone
  BY FeeGrows, Zenon DEF FeeMonotone
<1> QED BY <1>1, <1>2, <1>3, PTL DEF Spec

=============================================================================
