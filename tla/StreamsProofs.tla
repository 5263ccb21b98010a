---------------------------- MODULE StreamsProofs ----------------------------
(***************************************************************************)
(* Proofs about the ways of an event: the bus for any emitters, handlers   *)
(* and capacity, the streams of any number of watches, the log of a        *)
(* container of any length, and the web view for any units and browsers.   *)
(***************************************************************************)
EXTENDS MCStreams, FiniteSetTheorems, SequenceTheorems, TLAPS

-----------------------------------------------------------------------------
(* The components side by side.                                            *)

LEMMA SideBySide == AllSpec => Spec /\ Stream!Spec /\ Web!Spec /\ Box!Spec
<1>1. AllInit => Init /\ Stream!Init /\ Web!Init /\ Box!Init
  BY DEF AllInit
<1>2. [AllNext]_all => /\ [Next]_vars /\ [Stream!Next]_(Stream!vars)
                       /\ [Web!Next]_(Web!vars) /\ [Box!Next]_(Box!vars)
  <2> USE DEF watchVars, webVars, boxVars, Stream!vars, Stream!subVars, Stream!adapterVars,
              Web!vars, Web!runVars, Web!pushVars, Web!lineVars, Web!storeVars, Web!hubVars,
              Web!pageVars, Box!vars, Box!busVars
  <2>1. CASE UNCHANGED all
    BY <2>1 DEF all
  <2>2. CASE InBus(Next)
    BY <2>2 DEF InBus
  <2>3. CASE InWatch(Stream!Next)
    BY <2>3 DEF InWatch
  <2>4. CASE InWeb(Web!Next)
    BY <2>4 DEF InWeb
  <2>5. CASE InBox(Box!Next)
    BY <2>5 DEF InBox
  <2> QED BY <2>1, <2>2, <2>3, <2>4, <2>5 DEF AllNext
<1> QED BY <1>1, <1>2, PTL DEF AllSpec, Spec, Stream!Spec, Web!Spec, Box!Spec

-----------------------------------------------------------------------------
(* The bus.                                                                *)

BusTypes ==
  /\ ch \in Seq(Events) /\ Len(ch) <= Capacity
  /\ accepted \in Seq(Events)
  /\ wg \in Int
  /\ handlers \in 0..MaxHandlers
  /\ snapshot \in 0..handlers /\ next \in 1..(snapshot + 1)
  /\ current \in Events \union {None}
  /\ emitter \in [Emitters -> {"idle", "open", "counted"}]
  /\ emits \in [Emitters -> 0..MaxEmits]
  /\ seen \in [Handlers -> Seq(Events)]

(* An emitter in a call has an event of its own to send.                   *)
HasEvent == \A p \in Emitters : emitter[p] # "idle" => emits[p] >= 1

(* The channel holds the events accepted last, and the one in dispatch is  *)
(* the one accepted before those.                                          *)
ChannelIsRest ==
  /\ Len(ch) <= Len(accepted)
  /\ \A i \in 1..Len(ch) : ch[i] = accepted[Taken + i]
  /\ current # None => Taken >= 1 /\ current = accepted[Taken]
  /\ current = None => next = snapshot + 1

(* How far a handler has come: to the event in dispatch, or to the one     *)
(* before it.                                                              *)
Reached(h) == IF current # None /\ h >= next THEN Taken - 1 ELSE Taken

(* What a handler has seen is what was accepted last up to there; one that *)
(* was not yet there to be copied has seen nothing.                        *)
SeenIsStretch ==
  \A h \in Handlers :
    /\ h > snapshot => seen[h] = <<>>
    /\ seen[h] # <<>> => Len(seen[h]) <= Reached(h)
    /\ \A i \in 1..Len(seen[h]) : seen[h][i] = accepted[Reached(h) - Len(seen[h]) + i]

Counted == {p \in Emitters : emitter[p] = "counted"}
CountIsRight == wg = Len(ch) + (IF current = None THEN 0 ELSE 1) + Cardinality(Counted)

(* The inductive invariant.                                                *)
BusInv == BusTypes /\ HasEvent /\ ChannelIsRest /\ SeenIsStretch /\ CountIsRight

LEMMA BusInit == Init => BusInv
<1> SUFFICES ASSUME Init PROVE BusInv
  OBVIOUS
<1> USE BusAssumption
<1>1. BusTypes
  BY DEF Init, BusTypes, Handlers
<1>2. Counted = {}
  BY DEF Init, Counted
<1>3. CountIsRight
  BY <1>2, FS_EmptySet DEF Init, CountIsRight
<1>4. HasEvent /\ ChannelIsRest /\ SeenIsStretch
  BY DEF Init, HasEvent, ChannelIsRest, SeenIsStretch, Handlers, Taken
<1> QED BY <1>1, <1>3, <1>4 DEF BusInv

(* What a full channel drops it drops whole; otherwise the event is last.  *)
LEMMA SentOne ==
  ASSUME NEW S, NEW q \in Seq(S), NEW e \in S, NEW cap \in Nat, Len(q) <= cap
  PROVE  Sent(q, <<e>>, cap) = IF HasRoom(q, cap) THEN Append(q, e) ELSE q
<1>1. q \o <<e>> = Append(q, e) /\ Append(q, e) \in Seq(S)
  OBVIOUS
<1>2. CASE Len(q) < cap
  <2>1. Sent(q, <<e>>, cap) = SubSeq(Append(q, e), 1, Len(Append(q, e)))
    BY <1>1, <1>2 DEF Sent
  <2> QED BY <2>1, <1>1, <1>2, SubSeqFull DEF HasRoom
<1>3. CASE Len(q) = cap
  <2>1. Sent(q, <<e>>, cap) = SubSeq(Append(q, e), 1, Len(q))
    BY <1>1, <1>3 DEF Sent
  <2>2. SubSeq(Append(q, e), 1, Len(q)) \in Seq(S)
        /\ Len(SubSeq(Append(q, e), 1, Len(q))) = Len(q)
        /\ \A i \in 1..Len(q) : SubSeq(Append(q, e), 1, Len(q))[i] = q[i]
    OBVIOUS
  <2> QED BY <2>1, <2>2, <1>3, SeqEqual DEF HasRoom
<1> QED BY <1>2, <1>3

(* The counter follows the channel, the dispatch and the calls.            *)
LEMMA CountMoves ==
  ASSUME NEW a \in Nat, NEW b \in Nat,
         CountIsRight, wg \in Int, Len(ch) = a, Cardinality(Counted) = b,
         NEW da \in Int, NEW db \in Int, Len(ch)' = a + da, Cardinality(Counted)' = b + db,
         wg' - wg = da + db + (IF current' = None THEN 0 ELSE 1) - (IF current = None THEN 0 ELSE 1),
         wg' \in Int
  PROVE  CountIsRight'
<1> DEFINE k == IF current = None THEN 0 ELSE 1
<1>1. k \in Nat /\ k' \in Nat /\ wg = a + k + b /\ wg' - wg = da + db + k' - k
  BY DEF CountIsRight
<1>2. \A w \in Int : \A l \in Nat :
        w - wg = da + db + l - k => w = (a + da) + l + (b + db)
  <2> HIDE DEF k
  <2> QED BY <1>1
<1>3. wg' = (a + da) + k' + (b + db)
  <2> HIDE DEF k
  <2> QED BY <1>1, <1>2
<1> QED BY <1>3 DEF CountIsRight

(* A step that touches neither the events nor the calls.                   *)
LEMMA BusRests ==
  ASSUME BusInv, UNCHANGED <<busVars, current, next, snapshot, seen, emitVars>>, BusTypes'
  PROVE  BusInv'
<1> USE DEF BusInv, busVars, emitVars
<1>1. Taken' = Taken /\ Counted' = Counted
  BY DEF Taken, Counted
<1>2. HasEvent' /\ ChannelIsRest'
  BY <1>1 DEF HasEvent, ChannelIsRest
<1>3. SeenIsStretch'
  BY <1>1 DEF SeenIsStretch, Reached
<1>4. CountIsRight'
  BY <1>1 DEF CountIsRight
<1> QED BY <1>2, <1>3, <1>4

LEMMA BusStep == BusInv /\ [Next]_vars => BusInv'
<1> SUFFICES ASSUME BusInv, [Next]_vars PROVE BusInv'
  OBVIOUS
<1> USE BusAssumption DEF BusInv, busVars, loopVars, emitVars, closeVars
<1>1. IsFiniteSet(Counted) /\ Cardinality(Counted) \in Nat
  BY FS_Subset, FS_CardinalityType DEF Counted
<1>2. CASE UNCHANGED vars
  <2>1. BusTypes'
    BY <1>2 DEF vars, BusTypes
  <2> QED BY <1>2, <2>1, BusRests DEF vars
<1>3. CASE Subscribe
  <2>1. BusTypes'
    BY <1>3 DEF Subscribe, BusTypes
  <2> QED BY <1>3, <2>1, BusRests DEF Subscribe
<1>4. ASSUME NEW p \in Emitters, CheckClosed(p) PROVE BusInv'
  <2>1. Counted' = Counted
    BY <1>4 DEF CheckClosed, Counted, BusTypes
  <2>2. BusTypes' /\ HasEvent'
    BY <1>4 DEF CheckClosed, BusTypes, HasEvent
  <2>3. ChannelIsRest' /\ SeenIsStretch'
    BY <1>4 DEF CheckClosed, ChannelIsRest, SeenIsStretch, Taken, Reached
  <2> QED BY <1>4, <2>1, <2>2, <2>3 DEF CheckClosed, CountIsRight
<1>5. ASSUME NEW p \in Emitters, CountEvent(p) PROVE BusInv'
  <2>1. p \notin Counted /\ Counted' = Counted \union {p}
    BY <1>5 DEF CountEvent, Counted, BusTypes
  <2>2. Cardinality(Counted') = Cardinality(Counted) + 1
    BY <1>1, <2>1, FS_AddElement
  <2>3. BusTypes' /\ HasEvent'
    BY <1>5 DEF CountEvent, BusTypes, HasEvent
  <2>4. ChannelIsRest' /\ SeenIsStretch'
    BY ZenonT(60), <1>5 DEF CountEvent, ChannelIsRest, SeenIsStretch, Taken, Reached
  <2>5. CountIsRight'
    <3>1. wg' = wg + 1 /\ ch' = ch /\ current' = current /\ wg \in Int /\ Len(ch) \in Nat
      BY <1>5 DEF CountEvent, BusTypes
    <3> QED BY <1>1, <2>2, <3>1, CountMoves
  <2> QED BY <2>3, <2>4, <2>5
<1>6. ASSUME NEW p \in Emitters, SendEvent(p) PROVE BusInv'
  <2> DEFINE e == <<p, emits[p]>>
  <2>1. e \in Events /\ p \in Counted
    BY <1>6 DEF SendEvent, BusTypes, HasEvent, Events, Counted
  <2>2. Counted' = Counted \ {p}
    BY <1>6 DEF SendEvent, Counted, BusTypes
  <2>3. Cardinality(Counted') = Cardinality(Counted) - 1
    BY <1>1, <2>1, <2>2, FS_RemoveElement
  <2>4. ch' = IF HasRoom(ch, Capacity) THEN Append(ch, e) ELSE ch
    BY ZenonT(60), <1>6, <2>1, SentOne DEF SendEvent, BusTypes
  <2>5. /\ accepted' = IF HasRoom(ch, Capacity) THEN Append(accepted, e) ELSE accepted
        /\ wg' = IF HasRoom(ch, Capacity) THEN wg ELSE wg - 1
        /\ emitter' = [emitter EXCEPT ![p] = "idle"]
        /\ UNCHANGED <<emits, loopVars, handlers>>
    BY <1>6 DEF SendEvent
  <2> HIDE DEF e
  <2>6. BusTypes' /\ HasEvent'
    BY <2>1, <2>4, <2>5 DEF BusTypes, HasEvent, HasRoom
  <2>7. CASE ~HasRoom(ch, Capacity)
    <3>1. ChannelIsRest' /\ SeenIsStretch'
      BY ZenonT(60), <2>4, <2>5, <2>7 DEF ChannelIsRest, SeenIsStretch, Taken, Reached
    <3>2. CountIsRight'
      <4>1. wg' = wg - 1 /\ ch' = ch /\ current' = current /\ wg \in Int /\ Len(ch) \in Nat
        BY <2>4, <2>5, <2>7 DEF BusTypes
      <4> QED BY <1>1, <2>3, <4>1, CountMoves
    <3> QED BY <2>6, <3>1, <3>2
  <2>8. CASE HasRoom(ch, Capacity)
    <3>1. /\ Len(ch') = Len(ch) + 1 /\ Len(accepted') = Len(accepted) + 1
          /\ \A i \in 1..Len(accepted) : accepted'[i] = accepted[i]
          /\ \A i \in 1..Len(ch) : ch'[i] = ch[i]
          /\ ch'[Len(ch) + 1] = e /\ accepted'[Len(accepted) + 1] = e
      BY <2>1, <2>4, <2>5, <2>8 DEF BusTypes
    <3>2. Taken' = Taken /\ Taken \in Nat /\ Taken <= Len(accepted)
      BY <3>1 DEF Taken, BusTypes, ChannelIsRest
    <3>3. ChannelIsRest'
      <4>1. \A i \in 1..Len(ch') : ch'[i] = accepted'[Taken' + i]
        <5>1. \A i \in 1..Len(ch) : ch'[i] = accepted[Taken + i] /\ Taken + i \in 1..Len(accepted)
          BY <3>1, <3>2 DEF ChannelIsRest, BusTypes, Taken
        <5>2. Taken + (Len(ch) + 1) = Len(accepted) + 1
          BY DEF Taken, BusTypes
        <5>3. \A i \in 1..(Len(ch) + 1) : i \in 1..Len(ch) \/ i = Len(ch) + 1
          BY DEF BusTypes
        <5> QED BY <3>1, <3>2, <5>1, <5>2, <5>3
      <4>2. UNCHANGED <<current, next, snapshot>>
        BY <2>5
      <4> QED BY <3>1, <3>2, <4>1, <4>2 DEF ChannelIsRest, BusTypes
    <3>4. SeenIsStretch'
      <4>1. \A h \in Handlers : Reached(h)' = Reached(h) /\ Reached(h) <= Len(accepted)
                                 /\ Reached(h) \in Int
        BY <2>5, <3>2 DEF Reached, BusTypes, Handlers
      <4>2. \A h \in Handlers : Len(seen[h]) \in Nat
        BY DEF BusTypes
      <4>3. \A h \in Handlers : Len(seen[h]) >= 1 => Len(seen[h]) <= Reached(h)
        BY <4>2 DEF SeenIsStretch, BusTypes
      <4>4. \A h \in Handlers : \A i \in 1..Len(seen[h]) :
              accepted'[Reached(h) - Len(seen[h]) + i] = accepted[Reached(h) - Len(seen[h]) + i]
        BY <3>1, <4>1, <4>2, <4>3
      <4>5. UNCHANGED <<seen, snapshot>>
        BY <2>5
      <4> QED BY SMTT(30), <4>1, <4>4, <4>5 DEF SeenIsStretch
    <3>5. CountIsRight'
      <4>1. wg' = wg /\ current' = current /\ wg \in Int /\ Len(ch) \in Nat
        BY <2>5, <2>8 DEF BusTypes
      <4> QED BY <1>1, <2>3, <3>1, <4>1, CountMoves
    <3> QED BY <2>6, <3>3, <3>4, <3>5
  <2> QED BY <2>7, <2>8
<1>7. ASSUME NEW c \in Closers, MarkClosed(c) \/ CloseDone(c) PROVE BusInv'
  <2>1. UNCHANGED <<busVars, loopVars, emitVars, handlers>>
    BY <1>7 DEF MarkClosed, CloseDone
  <2>2. BusTypes'
    BY <2>1 DEF BusTypes
  <2> QED BY <2>1, <2>2, BusRests
<1>8. CASE Receive
  <2>1. /\ ch # <<>> /\ Len(ch) >= 1 /\ ch' \in Seq(Events) /\ Len(ch') = Len(ch) - 1
        /\ \A i \in 1..Len(ch') : ch'[i] = ch[i + 1]
        /\ current' = ch[1] /\ current' \in Events /\ current = None
    BY <1>8 DEF Receive, BusTypes
  <2>2. current' # None /\ Taken' = Taken + 1 /\ Taken \in Nat /\ Taken + 1 <= Len(accepted)
    BY <1>8, <2>1 DEF Receive, Taken, BusTypes, ChannelIsRest
  <2>3. BusTypes' /\ HasEvent'
    BY <1>8, <2>1 DEF Receive, BusTypes, HasEvent
  <2>4. ChannelIsRest'
    BY <1>8, <2>1, <2>2 DEF Receive, ChannelIsRest, BusTypes
  <2>5. SeenIsStretch'
    <3>1. \A h \in Handlers : Reached(h)' = Reached(h)
      BY <1>8, <2>1, <2>2 DEF Receive, Reached, Handlers
    <3>2. handlers >= snapshot
      BY DEF BusTypes
    <3> QED BY <1>8, <3>1, <3>2 DEF Receive, SeenIsStretch, BusTypes, Handlers
  <2>6. CountIsRight'
    BY <1>1, <1>8, <2>1, <2>2 DEF Receive, CountIsRight, Counted, BusTypes
  <2> QED BY <2>3, <2>4, <2>5, <2>6
<1>9. CASE CallHandler
  <2>1. next \in Handlers /\ current \in Events /\ current # None
    BY <1>9 DEF CallHandler, BusTypes, Handlers
  <2>2. BusTypes' /\ HasEvent' /\ ChannelIsRest'
    BY <1>9, <2>1 DEF CallHandler, BusTypes, HasEvent, ChannelIsRest, Taken
  <2>3. Taken' = Taken /\ Taken >= 1 /\ Taken \in Nat
    BY <1>9, <2>1 DEF CallHandler, Taken, BusTypes, ChannelIsRest
  <2>4. SeenIsStretch'
    <3> SUFFICES ASSUME NEW h \in Handlers
                 PROVE  /\ h > snapshot => seen'[h] = <<>>
                        /\ seen'[h] # <<>> => Len(seen'[h]) <= Reached(h)'
                        /\ \A i \in 1..Len(seen'[h]) :
                             seen'[h][i] = accepted[Reached(h)' - Len(seen'[h]) + i]
      BY <1>9 DEF CallHandler, SeenIsStretch
    <3>1. CASE h = next
      <4>1. Reached(h) = Taken - 1 /\ Reached(h)' = Taken
        BY <1>9, <2>1, <2>3, <3>1 DEF CallHandler, Reached, BusTypes
      <4>2. /\ seen'[h] = Append(seen[h], current) /\ seen[h] \in Seq(Events)
            /\ Len(seen'[h]) = Len(seen[h]) + 1
            /\ \A i \in 1..Len(seen[h]) : seen'[h][i] = seen[h][i]
            /\ seen'[h][Len(seen[h]) + 1] = current
        BY <1>9, <2>1, <3>1 DEF CallHandler, BusTypes
      <4>3. Len(seen[h]) \in Nat /\ (seen[h] = <<>> => Len(seen[h]) = 0)
        BY <4>2
      <4>4. h <= snapshot /\ Len(seen'[h]) <= Reached(h)'
        BY <1>9, <2>3, <3>1, <4>1, <4>2, <4>3 DEF CallHandler, SeenIsStretch
      <4>5. \A i \in 1..(Len(seen[h]) + 1) : seen'[h][i] = accepted[Taken - (Len(seen[h]) + 1) + i]
        <5>1. \A i \in 1..Len(seen[h]) : seen[h][i] = accepted[Taken - 1 - Len(seen[h]) + i]
          BY <4>1 DEF SeenIsStretch
        <5>2. current = accepted[Taken]
          BY <2>1 DEF ChannelIsRest
        <5>3. \A i \in 1..Len(seen[h]) :
                Taken - 1 - Len(seen[h]) + i = Taken - (Len(seen[h]) + 1) + i
          BY <2>3, <4>3
        <5>4. Taken - (Len(seen[h]) + 1) + (Len(seen[h]) + 1) = Taken
          <6>1. \A t, l \in Nat : t - (l + 1) + (l + 1) = t
            OBVIOUS
          <6> QED BY <2>3, <4>3, <6>1
        <5> QED BY <4>2, <4>3, <5>1, <5>2, <5>3, <5>4
      <4> QED BY <2>1, <4>1, <4>2, <4>4, <4>5, <3>1 DEF BusTypes, Handlers
    <3>2. CASE h # next
      <4>1. seen'[h] = seen[h] /\ Reached(h)' = Reached(h)
        BY <1>9, <2>1, <2>3, <3>2 DEF CallHandler, Reached, BusTypes, Handlers
      <4> QED BY <4>1 DEF SeenIsStretch
    <3> QED BY <3>1, <3>2
  <2>5. CountIsRight'
    BY <1>9 DEF CallHandler, CountIsRight, Counted
  <2> QED BY <2>2, <2>4, <2>5
<1>10. CASE FinishEvent
  <2>1. current # None /\ next = snapshot + 1 /\ current' = None
    BY <1>10 DEF FinishEvent, BusTypes
  <2>2. BusTypes' /\ HasEvent' /\ ChannelIsRest' /\ Taken' = Taken
    BY <1>10, <2>1 DEF FinishEvent, BusTypes, HasEvent, ChannelIsRest, Taken
  <2>3. SeenIsStretch'
    <3>1. \A h \in Handlers : h <= snapshot => Reached(h)' = Reached(h)
      BY <2>1, <2>2 DEF Reached, BusTypes, Handlers
    <3> QED BY <1>10, <3>1 DEF FinishEvent, SeenIsStretch, BusTypes, Handlers
  <2>4. CountIsRight'
    BY <1>1, <1>10, <2>1 DEF FinishEvent, CountIsRight, Counted, BusTypes
  <2> QED BY <2>2, <2>3, <2>4
<1>11. CASE StartDraining \/ Exit
  <2>1. UNCHANGED <<busVars, current, next, snapshot, seen, emitVars, handlers>>
    BY <1>11 DEF StartDraining, Exit
  <2>2. BusTypes'
    BY <2>1 DEF BusTypes
  <2> QED BY <2>1, <2>2, BusRests
<1> QED BY <1>2, <1>3, <1>4, <1>5, <1>6, <1>7, <1>8, <1>9, <1>10, <1>11 DEF Next, Loop

LEMMA BusSafe == Spec => []BusInv
  BY BusInit, BusStep, PTL DEF Spec

(* A stretch named by its elements is a subsequence.                       *)
LEMMA StretchIsSubSeq ==
  ASSUME NEW S, NEW s \in Seq(S), NEW q \in Seq(S), NEW last \in 0..Len(q), Len(s) <= last,
         \A i \in 1..Len(s) : s[i] = q[last - Len(s) + i]
  PROVE  s = SubSeq(q, last - Len(s) + 1, last)
<1> DEFINE m == last - Len(s) + 1
<1>1. Len(s) \in Nat /\ Len(q) \in Nat /\ m \in Int /\ m >= 1 /\ last \in Int /\ last - m + 1 = Len(s)
  OBVIOUS
<1>2. \A i \in m..last : q[i] \in S
  BY <1>1
<1>3. /\ SubSeq(q, m, last) \in Seq(S)
      /\ Len(SubSeq(q, m, last)) = IF m <= last THEN last - m + 1 ELSE 0
      /\ \A i \in 1..(last - m + 1) : SubSeq(q, m, last)[i] = q[m + i - 1]
  BY <1>1, <1>2, SubSeqProperties
<1>4. Len(SubSeq(q, m, last)) = Len(s)
  BY <1>1, <1>3
<1>5. \A i \in 1..Len(s) : s[i] = SubSeq(q, m, last)[i]
  BY <1>1, <1>3
<1> QED BY <1>3, <1>4, <1>5, SeqEqual

(* Every handler sees a gap-free stretch of what was accepted, and Wait    *)
(* returns exactly when nothing is under way: for any emitters, handlers,  *)
(* capacity and interleaving of Emit, EmitRaw, Subscribe and Close.        *)
THEOREM BusIsExactHolds == AllSpec => []BusIsExact
<1>1. BusInv => BusIsExact
  <2> SUFFICES ASSUME BusInv PROVE BusIsExact
    OBVIOUS
  <2> USE DEF BusInv
  <2>1. Taken \in 0..Len(accepted) /\ Len(ch) \in Nat /\ Len(accepted) \in Nat
    BY DEF Taken, BusTypes, ChannelIsRest
  <2>2. GapFreeInOrder
    <3> SUFFICES ASSUME NEW h \in Handlers, seen[h] # <<>>
                 PROVE  LET last == IF current # None /\ ~(h < next /\ h <= snapshot)
                                    THEN Taken - 1 ELSE Taken
                        IN  /\ Len(seen[h]) <= last
                            /\ seen[h] = SubSeq(accepted, last - Len(seen[h]) + 1, last)
      BY DEF GapFreeInOrder
    <3>1. h <= snapshot /\ (h < next <=> ~(h >= next))
      BY DEF SeenIsStretch, BusTypes, Handlers
    <3>2. Reached(h) = IF current # None /\ ~(h < next /\ h <= snapshot) THEN Taken - 1 ELSE Taken
      BY <3>1 DEF Reached
    <3>3. Reached(h) \in 0..Len(accepted) /\ Len(seen[h]) <= Reached(h)
      BY <2>1, <3>2 DEF SeenIsStretch, ChannelIsRest
    <3>4. seen[h] = SubSeq(accepted, Reached(h) - Len(seen[h]) + 1, Reached(h))
      BY ZenonT(60), <3>3, StretchIsSubSeq DEF SeenIsStretch, BusTypes
    <3> QED BY <3>2, <3>3, <3>4
  <2>3. WaitGroupExact
    <3>1. IsFiniteSet(Counted) /\ Cardinality(Counted) \in Nat
      BY BusAssumption, FS_Subset, FS_CardinalityType DEF Counted
    <3>2. Cardinality(Counted) = 0 <=> \A p \in Emitters : emitter[p] # "counted"
      BY <3>1, FS_EmptySet DEF Counted
    <3>3. wg = Len(ch) + (IF current = None THEN 0 ELSE 1) + Cardinality(Counted)
      BY DEF CountIsRight
    <3>4. WaitReturns <=> Len(ch) = 0 /\ current = None /\ Cardinality(Counted) = 0
      BY <2>1, <3>1, <3>3 DEF WaitReturns
    <3>5. Taken = Len(accepted) <=> Len(ch) = 0
      BY <2>1 DEF Taken
    <3> QED BY <3>2, <3>3, <3>4, <3>5 DEF WaitGroupExact, Counted
  <2> QED BY <2>2, <2>3 DEF BusIsExact
<1> QED BY <1>1, SideBySide, BusSafe, PTL

-----------------------------------------------------------------------------
(* The log of a container.                                                 *)

Lines == [kind : {"event", "noise", "long"}, n : Nat]

BoxTypes ==
  /\ box_log \in Seq(Lines) /\ box_emitted \in Seq(Nat)
  /\ box_read \in Nat /\ box_read <= Len(box_log)

(* A line is numbered by its place.                                        *)
LinesInOrder == \A i \in 1..Len(box_log) : box_log[i].n = i - 1

(* The bus has the events of the lines read, in their order, or has        *)
(* dropped them.                                                           *)
ReadIsTold ==
  /\ \A i \in 1..Len(box_emitted) :
       \E j \in 1..box_read : box_log[j].kind = "event" /\ box_emitted[i] = box_log[j].n
  /\ \A d \in box_dropped :
       /\ \E j \in 1..box_read : box_log[j].kind = "event" /\ d = box_log[j].n
       /\ \A i \in 1..Len(box_emitted) : box_emitted[i] # d
  /\ \A j \in 1..box_read : box_log[j].kind = "event" =>
       \/ box_log[j].n \in box_dropped
       \/ \E i \in 1..Len(box_emitted) : box_emitted[i] = box_log[j].n
  /\ Box!IsAscending(box_emitted)

(* How the scan of a log that is not read any more came to its end.        *)
ScanIsOver ==
  \/ box_box \in {"exited", "removed"} /\ box_read = Len(box_log)
  \/ box_ctx = "done" \/ box_error = "log cut"
  \/ \E i \in 1..box_read : box_log[i].kind = "long"

VerdictIsJust ==
  /\ box_pc \in {"wait", "complete", "fail", "cleanup"} => ScanIsOver
  /\ box_pc = "complete" => box_code = 0 /\ box_box = "exited"
  /\ box_row = "completed" =>
       /\ box_pc \in {"cleanup", "end", "gone"}
       /\ box_code = 0 /\ box_box \in {"exited", "removed"} /\ ScanIsOver

BoxInv == BoxTypes /\ LinesInOrder /\ ReadIsTold /\ VerdictIsJust

LEMMA BoxInit == Box!Init => BoxInv
  BY DEF Box!Init, BoxInv, BoxTypes, LinesInOrder, ReadIsTold, Box!IsAscending, VerdictIsJust

LEMMA BoxStep == BoxInv /\ [Box!Next]_(Box!vars) => BoxInv'
<1> SUFFICES ASSUME BoxInv, [Box!Next]_(Box!vars) PROVE BoxInv'
  OBVIOUS
<1> USE DEF BoxInv
\* What is read and told stays read and told while the streamer rests.
<1>1. ASSUME UNCHANGED <<box_log, box_read, box_emitted, box_dropped>>, VerdictIsJust' PROVE BoxInv'
  BY <1>1 DEF BoxTypes, LinesInOrder, ReadIsTold, Box!IsAscending
<1>2. CASE UNCHANGED Box!vars
  BY <1>1, <1>2 DEF Box!vars, Box!busVars, VerdictIsJust, ScanIsOver
<1>3. CASE Box!Emit
  <2>1. PICK kind \in {"event", "noise", "long"} :
          box_log' = Append(box_log, [kind |-> kind, n |-> Len(box_log)])
    BY <1>3 DEF Box!Emit
  <2>2. /\ box_log' \in Seq(Lines) /\ Len(box_log') = Len(box_log) + 1 /\ Len(box_log) \in Nat
        /\ \A i \in 1..Len(box_log) : box_log'[i] = box_log[i]
        /\ box_log'[Len(box_log) + 1].n = Len(box_log)
    BY <2>1 DEF BoxTypes, Lines
  <2>3. UNCHANGED <<box_row, box_pc, box_ctx, box_box, box_code, box_read, box_emitted, box_dropped,
                     box_error>>
        /\ box_box = "running"
    BY <1>3 DEF Box!Emit, Box!busVars
  <2>4. \A i \in 1..box_read : box_log'[i] = box_log[i]
    BY <2>2 DEF BoxTypes
  <2>5. BoxTypes' /\ LinesInOrder'
    <3>1. BoxTypes'
      BY <2>2, <2>3 DEF BoxTypes
    <3>2. \A i \in 1..Len(box_log') : i \in 1..Len(box_log) \/ i = Len(box_log) + 1
      BY <2>2
    <3>3. LinesInOrder'
      BY <2>2, <3>2 DEF LinesInOrder
    <3> QED BY <3>1, <3>3
  <2>6. ReadIsTold'
    <3>1. UNCHANGED <<box_emitted, box_dropped, box_read>>
      BY <2>3
    <3>2. \A i \in 1..Len(box_emitted) :
            \E j \in 1..box_read : box_log'[j].kind = "event" /\ box_emitted[i] = box_log'[j].n
      <4> SUFFICES ASSUME NEW i \in 1..Len(box_emitted)
                   PROVE  \E j \in 1..box_read :
                            box_log'[j].kind = "event" /\ box_emitted[i] = box_log'[j].n
        OBVIOUS
      <4>1. PICK j \in 1..box_read : box_log[j].kind = "event" /\ box_emitted[i] = box_log[j].n
        BY DEF ReadIsTold
      <4> QED BY <2>4, <4>1
    <3>3. \A d \in box_dropped :
            /\ \E j \in 1..box_read : box_log'[j].kind = "event" /\ d = box_log'[j].n
            /\ \A i \in 1..Len(box_emitted) : box_emitted[i] # d
      <4> SUFFICES ASSUME NEW d \in box_dropped
                   PROVE  \E j \in 1..box_read : box_log'[j].kind = "event" /\ d = box_log'[j].n
        BY DEF ReadIsTold
      <4>1. PICK j \in 1..box_read : box_log[j].kind = "event" /\ d = box_log[j].n
        BY DEF ReadIsTold
      <4> QED BY <2>4, <4>1
    <3>4. \A j \in 1..box_read : box_log'[j].kind = "event" =>
            \/ box_log'[j].n \in box_dropped
            \/ \E i \in 1..Len(box_emitted) : box_emitted[i] = box_log'[j].n
      BY <2>4 DEF ReadIsTold
    <3>5. Box!IsAscending(box_emitted)
      BY DEF ReadIsTold
    <3> QED BY <3>1, <3>2, <3>3, <3>4, <3>5 DEF ReadIsTold
  <2>7. VerdictIsJust'
    BY <2>3, <2>4 DEF VerdictIsJust, ScanIsOver
  <2> QED BY <2>5, <2>6, <2>7
<1>4. CASE Box!ParseLine
  <2> DEFINE line == box_log[box_read + 1]
  <2>1. /\ box_pc = "stream" /\ box_read < Len(box_log) /\ box_read' = box_read + 1
        /\ \/ line.kind = "event" /\ box_emitted' = Append(box_emitted, line.n) /\ box_dropped' = box_dropped
           \/ /\ line.kind = "event" /\ box_emitted' = box_emitted
              /\ box_dropped' = box_dropped \union {line.n}
           \/ line.kind # "event" /\ UNCHANGED <<box_emitted, box_dropped>>
        /\ box_pc' = IF line.kind = "long" THEN "wait" ELSE "stream"
        /\ UNCHANGED <<box_row, box_ctx, box_box, box_code, box_log, box_error>>
    BY <1>4 DEF Box!ParseLine, Box!BusEmit, Box!busVars
  <2>2. line \in Lines /\ line.n = box_read /\ box_read + 1 \in 1..Len(box_log)
    BY <2>1 DEF BoxTypes, LinesInOrder
  <2>3. \A i \in 1..box_read : box_log[i].n < box_read
    BY DEF BoxTypes, LinesInOrder
  <2>4. \A i \in 1..Len(box_emitted) : box_emitted[i] < box_read
    BY <2>3 DEF ReadIsTold
  <2>4a. /\ box_dropped \subseteq Nat /\ \A d \in box_dropped : d < box_read
         /\ \A d \in box_dropped : d # box_read
    <3> SUFFICES ASSUME NEW d \in box_dropped PROVE d \in Nat /\ d < box_read /\ d # box_read
      OBVIOUS
    <3>1. PICK j \in 1..box_read : box_log[j].kind = "event" /\ d = box_log[j].n
      BY DEF ReadIsTold
    <3>2. d = j - 1
      BY <3>1 DEF BoxTypes, LinesInOrder
    <3> QED BY <3>2 DEF BoxTypes
  <2>5. VerdictIsJust'
    <3>1. box_row # "completed"
      BY <2>1 DEF VerdictIsJust
    <3>2. box_pc' = "wait" => ScanIsOver'
      <4>1. box_pc' = "wait" => line.kind = "long" /\ box_read + 1 \in 1..box_read'
        BY <2>1 DEF BoxTypes
      <4> QED BY <2>1, <4>1 DEF ScanIsOver
    <3> QED BY <2>1, <3>1, <3>2 DEF VerdictIsJust
  <2>6. \A i \in 1..(box_read + 1) : i \in 1..box_read \/ i = box_read + 1
    BY DEF BoxTypes
  <2>6a. box_read + 1 \in 1..(box_read + 1) /\ 1..box_read \subseteq 1..(box_read + 1)
    BY DEF BoxTypes
  <2>7. CASE /\ line.kind = "event" /\ box_emitted' = Append(box_emitted, line.n)
             /\ box_dropped' = box_dropped
    <3>1. /\ box_emitted' \in Seq(Nat) /\ Len(box_emitted') = Len(box_emitted) + 1
          /\ \A i \in 1..Len(box_emitted) : box_emitted'[i] = box_emitted[i]
          /\ box_emitted'[Len(box_emitted) + 1] = box_read
      BY <2>1, <2>2, <2>7 DEF BoxTypes, Lines
    <3>2. Len(box_emitted) \in Nat
          /\ \A i \in 1..(Len(box_emitted) + 1) : i \in 1..Len(box_emitted) \/ i = Len(box_emitted) + 1
      BY DEF BoxTypes
    <3>3. Box!IsAscending(box_emitted')
      <4>1. \A i \in 1..Len(box_emitted) : box_emitted'[i] < box_emitted'[Len(box_emitted) + 1]
        BY <2>4, <3>1
      <4>2. \A i, j \in 1..Len(box_emitted) : i < j => box_emitted'[i] < box_emitted'[j]
        BY <3>1 DEF ReadIsTold, Box!IsAscending
      <4>3. \A i, j \in 1..(Len(box_emitted) + 1) : i < j =>
              /\ i \in 1..Len(box_emitted)
              /\ j \in 1..Len(box_emitted) \/ j = Len(box_emitted) + 1
        BY <3>2
      <4> QED BY <3>1, <4>1, <4>2, <4>3 DEF Box!IsAscending
    <3>4. \A i \in 1..Len(box_emitted') :
            \E j \in 1..box_read' : box_log[j].kind = "event" /\ box_emitted'[i] = box_log[j].n
      <4>1. \A i \in 1..Len(box_emitted) :
              \E j \in 1..(box_read + 1) : box_log[j].kind = "event" /\ box_emitted'[i] = box_log[j].n
        <5>1. 1..box_read \subseteq 1..(box_read + 1)
          BY DEF BoxTypes
        <5> QED BY SMTT(30), <3>1, <5>1 DEF ReadIsTold
      <4>2. box_read + 1 \in 1..(box_read + 1)
        BY DEF BoxTypes
      <4> QED BY <2>1, <2>2, <2>7, <3>1, <3>2, <4>1, <4>2
    <3>5. \A j \in 1..box_read' : box_log[j].kind = "event" =>
            \/ box_log[j].n \in box_dropped
            \/ \E i \in 1..Len(box_emitted') : box_emitted'[i] = box_log[j].n
      <4>1. \A j \in 1..box_read : box_log[j].kind = "event" =>
              \/ box_log[j].n \in box_dropped
              \/ \E i \in 1..(Len(box_emitted) + 1) : box_emitted'[i] = box_log[j].n
        BY <3>1, <3>2 DEF ReadIsTold
      <4>2. Len(box_emitted) + 1 \in 1..(Len(box_emitted) + 1)
        BY <3>2
      <4> QED BY <2>1, <2>2, <2>6, <3>1, <4>1, <4>2
    <3>5a. \A d \in box_dropped :
             /\ \E j \in 1..box_read' : box_log[j].kind = "event" /\ d = box_log[j].n
             /\ \A i \in 1..Len(box_emitted') : box_emitted'[i] # d
      <4> SUFFICES ASSUME NEW d \in box_dropped
                   PROVE  /\ \E j \in 1..box_read' : box_log[j].kind = "event" /\ d = box_log[j].n
                          /\ \A i \in 1..Len(box_emitted') : box_emitted'[i] # d
        OBVIOUS
      <4>1. PICK j \in 1..box_read : box_log[j].kind = "event" /\ d = box_log[j].n
        BY DEF ReadIsTold
      <4>2. \A i \in 1..Len(box_emitted') : box_emitted'[i] # d
        <5>1. \A i \in 1..Len(box_emitted) : box_emitted'[i] # d
          BY <3>1 DEF ReadIsTold
        <5> QED BY <2>4a, <3>1, <3>2, <5>1
      <4>3. j \in 1..box_read'
        BY <2>1, <2>6a
      <4>4. \E k \in 1..box_read' : box_log[k].kind = "event" /\ d = box_log[k].n
        BY <4>1, <4>3
      <4> QED BY <4>2, <4>4
    <3>6. ReadIsTold'
      <4>1. box_log' = box_log /\ box_dropped' = box_dropped
        BY <2>1, <2>7
      <4>2. /\ \A i \in 1..Len(box_emitted') :
                 \E j \in 1..box_read' : box_log'[j].kind = "event" /\ box_emitted'[i] = box_log'[j].n
            /\ Box!IsAscending(box_emitted')
        BY <3>3, <3>4, <4>1
      <4>3. \A d \in box_dropped' :
              /\ \E j \in 1..box_read' : box_log'[j].kind = "event" /\ d = box_log'[j].n
              /\ \A i \in 1..Len(box_emitted') : box_emitted'[i] # d
        BY <3>5a, <4>1
      <4>4. \A j \in 1..box_read' : box_log'[j].kind = "event" =>
              \/ box_log'[j].n \in box_dropped'
              \/ \E i \in 1..Len(box_emitted') : box_emitted'[i] = box_log'[j].n
        BY <3>5, <4>1
      <4> QED BY Zenon, <4>2, <4>3, <4>4 DEF ReadIsTold, Box!IsAscending
    <3>7. BoxTypes' /\ LinesInOrder'
      BY <2>1, <3>1 DEF BoxTypes, LinesInOrder
    <3> QED BY <2>5, <3>6, <3>7
  <2>8. CASE /\ line.kind = "event" /\ box_emitted' = box_emitted
             /\ box_dropped' = box_dropped \union {line.n}
    <3>1. \A i \in 1..Len(box_emitted) : box_emitted[i] # box_read
      BY <2>4 DEF BoxTypes
    <3>2. \A i \in 1..Len(box_emitted) :
            \E j \in 1..box_read' : box_log[j].kind = "event" /\ box_emitted[i] = box_log[j].n
      <4> SUFFICES ASSUME NEW i \in 1..Len(box_emitted)
                   PROVE  \E j \in 1..box_read' :
                            box_log[j].kind = "event" /\ box_emitted[i] = box_log[j].n
        OBVIOUS
      <4>1. PICK j \in 1..box_read : box_log[j].kind = "event" /\ box_emitted[i] = box_log[j].n
        BY DEF ReadIsTold
      <4> QED BY <2>1, <2>6a, <4>1
    <3>3. \A d \in box_dropped' :
            /\ \E j \in 1..box_read' : box_log[j].kind = "event" /\ d = box_log[j].n
            /\ \A i \in 1..Len(box_emitted) : box_emitted[i] # d
      BY <2>1, <2>2, <2>6a, <2>8, <3>1 DEF ReadIsTold
    <3>4. \A j \in 1..box_read' : box_log[j].kind = "event" =>
            \/ box_log[j].n \in box_dropped'
            \/ \E i \in 1..Len(box_emitted) : box_emitted[i] = box_log[j].n
      BY <2>1, <2>6, <2>8 DEF ReadIsTold
    <3>5. ReadIsTold'
      BY <2>1, <2>8, <3>2, <3>3, <3>4 DEF ReadIsTold
    <3>6. BoxTypes' /\ LinesInOrder'
      BY <2>1, <2>8 DEF BoxTypes, LinesInOrder
    <3> QED BY <2>5, <3>5, <3>6
  <2>9. CASE line.kind # "event" /\ UNCHANGED <<box_emitted, box_dropped>>
    <3>1. \A j \in 1..box_read' : box_log[j].kind = "event" => j \in 1..box_read
      BY <2>1, <2>6, <2>9
    <3>2. ReadIsTold'
      <4>1. Box!IsAscending(box_emitted') /\ 1..box_read \subseteq 1..box_read'
        BY <2>1, <2>9 DEF ReadIsTold, BoxTypes
      <4> QED BY <2>1, <2>9, <3>1, <4>1 DEF ReadIsTold
    <3>3. BoxTypes'
      BY <2>1, <2>9 DEF BoxTypes
    <3>4. LinesInOrder'
      BY <2>1 DEF LinesInOrder
    <3> QED BY <2>5, <3>2, <3>3, <3>4
  <2> QED BY <2>1, <2>7, <2>8, <2>9
<1>5. CASE Box!CreateRun \/ Box!Create \/ Box!Start \/ Box!Dispatch
  BY <1>1, <1>5 DEF Box!CreateRun, Box!Create, Box!Start, Box!Dispatch, Box!Step, Box!WriteRow, Box!busVars,
                    VerdictIsJust, ScanIsOver
<1>6. CASE Box!StreamEnds \/ Box!Wait
  BY <1>1, <1>6 DEF Box!StreamEnds, Box!Wait, Box!Step, Box!busVars, VerdictIsJust, ScanIsOver
<1>7. CASE Box!HandleFailure \/ Box!MarkComplete \/ Box!Cleanup
  BY <1>1, <1>7 DEF Box!HandleFailure, Box!MarkComplete, Box!Cleanup, Box!Step, Box!WriteRow, Box!busVars,
                    VerdictIsJust, ScanIsOver
<1>8. CASE Box!BoxExit \/ Box!CancelContext \/ Box!Crash
  BY <1>1, <1>8 DEF Box!BoxExit, Box!CancelContext, Box!Crash, Box!busVars, VerdictIsJust, ScanIsOver
<1> QED BY <1>2, <1>3, <1>4, <1>5, <1>6, <1>7, <1>8 DEF Box!Next, Box!Job

(* A run is recorded as completed only when its log was read to the end,   *)
(* or cut off as said, and every event read is on the bus in its place or  *)
(* was dropped by a full one; for a log and a channel of any length.       *)
THEOREM CompletedIsToldHolds == AllSpec => []CompletedIsTold
<1>1. Box!Spec => []BoxInv
  BY BoxInit, BoxStep, PTL DEF Box!Spec
<1>2. BoxInv => CompletedIsTold
  <2>1. ReadIsTold => /\ Box!Told \union box_dropped = Box!EventsRead
                      /\ Box!Told \intersect box_dropped = {}
    <3> SUFFICES ASSUME ReadIsTold
                 PROVE  /\ Box!Told \union box_dropped = Box!EventsRead
                        /\ Box!Told \intersect box_dropped = {}
      OBVIOUS
    <3>1. ASSUME NEW i \in 1..Len(box_emitted) PROVE box_emitted[i] \in Box!EventsRead
      BY <3>1 DEF ReadIsTold, Box!EventsRead
    <3>2. ASSUME NEW n \in Box!EventsRead
          PROVE  n \in box_dropped \/ \E i \in 1..Len(box_emitted) : box_emitted[i] = n
      BY SMTT(30), <3>2 DEF ReadIsTold, Box!EventsRead
    <3>3. ASSUME NEW d \in box_dropped
          PROVE  d \in Box!EventsRead /\ \A i \in 1..Len(box_emitted) : box_emitted[i] # d
      BY <3>3 DEF ReadIsTold, Box!EventsRead
    <3> QED BY <3>1, <3>2, <3>3 DEF Box!Told
  <2> QED BY <2>1 DEF BoxInv, VerdictIsJust, ScanIsOver, ReadIsTold, CompletedIsTold,
                      Box!CompletedIsTold
<1> QED BY <1>1, <1>2, SideBySide, PTL

-----------------------------------------------------------------------------
(* The streams of the daemon.                                              *)

Numbered == [seq : Nat, event : Nat]

WatchTypes ==
  /\ watch_emitted \in Nat /\ watch_closed \subseteq Watches
  /\ watch_sub \in [Watches -> Seq(Nat \ {0})]
  /\ watch_held \in [Watches -> Nat] /\ watch_next \in [Watches -> Nat]
  /\ watch_out \in [Watches -> Seq(Numbered)] /\ watch_got \in [Watches -> Seq(Numbered)]
  /\ watch_pc \in [Watches -> {"idle", "streaming", "ended"}]

(* What a queue holds, after a send and before a receive.                  *)
LEMMA HoldsAppend ==
  ASSUME NEW S, NEW q \in Seq(S), NEW e \in S
  PROVE  \A n \in 1..Len(q) : n \in 1..Len(Append(q, e)) /\ Append(q, e)[n] = q[n]
  OBVIOUS

LEMMA HoldsTail ==
  ASSUME NEW S, NEW q \in Seq(S), q # <<>>
  PROVE  \A n \in 1..Len(q) : q[n] = Head(q) \/ \E m \in 1..Len(Tail(q)) : q[n] = Tail(q)[m]
<1> SUFFICES ASSUME NEW n \in 1..Len(q), n # 1 PROVE \E m \in 1..Len(Tail(q)) : q[n] = Tail(q)[m]
  OBVIOUS
<1>1. n - 1 \in 1..Len(Tail(q)) /\ q[n] = Tail(q)[n - 1]
  OBVIOUS
<1> QED BY <1>1

(* Where an event on its way to a client can be.                           *)
Keeps(w, e) ==
  \/ \E i \in 1..Len(watch_sub[w]) : watch_sub[w][i] = e
  \/ watch_held[w] = e /\ e # 0
  \/ \E i \in 1..Len(watch_out[w]) : watch_out[w][i].event = e
  \/ \E i \in 1..Len(watch_got[w]) : watch_got[w][i].event = e

LEMMA KeepsIsKept == \A w, e : e \in Stream!Kept(w) <=> Keeps(w, e)
  BY DEF Stream!Kept, Stream!OnTheWay, Stream!EventsOf, Keeps

LEMMA WatchInit == Stream!Init => WatchTypes
  BY DEF Stream!Init, WatchTypes

LEMMA WatchStep == WatchTypes /\ [Stream!Next]_(Stream!vars) => WatchTypes'
<1> SUFFICES ASSUME WatchTypes, [Stream!Next]_(Stream!vars) PROVE WatchTypes'
  OBVIOUS
<1> USE DEF WatchTypes, Stream!subVars, Stream!adapterVars
<1>1. CASE UNCHANGED Stream!vars
  BY <1>1 DEF Stream!vars
<1>2. CASE Stream!Dispatch
  <2>1. watch_emitted' \in Nat \ {0}
    BY <1>2 DEF Stream!Dispatch
  <2>2. \A w \in Watches : Append(watch_sub[w], watch_emitted') \in Seq(Nat \ {0})
    BY <2>1
  <2> QED BY <1>2, <2>1, <2>2 DEF Stream!Dispatch
<1>3. CASE Stream!JobEnds \/ Stream!Shutdown
  BY <1>3 DEF Stream!JobEnds, Stream!Shutdown
<1>4. ASSUME NEW w \in Watches, NEW from \in 0..MaxEvents, Stream!WatchJob(w, from)
      PROVE  WatchTypes'
  <2>1. from \in Nat
    BY SMT
  <2> QED BY <1>4, <2>1 DEF Stream!WatchJob
<1>5. ASSUME NEW w \in Watches, Stream!Adapter(w) PROVE WatchTypes'
  <2>1. CASE Stream!AdapterTake(w)
    BY <2>1 DEF Stream!AdapterTake
  <2>2. CASE Stream!AdapterPut(w)
    BY <2>2 DEF Stream!AdapterPut, Numbered
  <2>3. CASE Stream!AdapterEnd(w)
    BY <2>3 DEF Stream!AdapterEnd
  <2> QED BY <1>5, <2>1, <2>2, <2>3 DEF Stream!Adapter
<1>6. ASSUME NEW w \in Watches, Stream!Send(w) PROVE WatchTypes'
  <2>1. Tail(watch_out[w]) \in Seq(Numbered) /\ Head(watch_out[w]) \in Numbered
    BY <1>6 DEF Stream!Send
  <2>2. Append(watch_got[w], Head(watch_out[w])) \in Seq(Numbered)
    BY <2>1
  <2> QED BY <1>6, <2>1, <2>2 DEF Stream!Send, Stream!Return
<1>7. ASSUME NEW w \in Watches, Stream!Leave(w) \/ Stream!Disconnect(w) PROVE WatchTypes'
  BY <1>7 DEF Stream!Leave, Stream!Disconnect, Stream!Return
<1> QED BY <1>1, <1>2, <1>3, <1>4, <1>5, <1>6, <1>7 DEF Stream!Next

LEMMA WatchSafe == Stream!Spec => []WatchTypes
  BY WatchInit, WatchStep, PTL DEF Stream!Spec

(* The handler of a watch that has returned stays on the bus and never     *)
(* sends on the closed channel.                                            *)
THEOREM NoSendOnClosedHolds == AllSpec => NoSendOnClosed
<1>1. WatchTypes /\ [Stream!Next]_(Stream!vars) =>
        \A w \in watch_closed : Len(watch_sub'[w]) <= Len(watch_sub[w])
  <2> SUFFICES ASSUME WatchTypes, [Stream!Next]_(Stream!vars), NEW w \in watch_closed
               PROVE  Len(watch_sub'[w]) <= Len(watch_sub[w])
    OBVIOUS
  <2>1. Len(watch_sub[w]) \in Nat /\ w \in Watches
    BY DEF WatchTypes
  <2>2. CASE Stream!Dispatch
    BY <2>1, <2>2 DEF Stream!Dispatch, Stream!Accepts
  <2>3. ASSUME NEW v \in Watches, Stream!AdapterTake(v) PROVE Len(watch_sub'[w]) <= Len(watch_sub[w])
    BY <2>1, <2>3 DEF Stream!AdapterTake, WatchTypes
  <2>4. CASE UNCHANGED watch_sub
    BY <2>1, <2>4
  <2> QED BY <2>2, <2>3, <2>4 DEF Stream!Next, Stream!vars, Stream!subVars, Stream!JobEnds,
         Stream!Shutdown, Stream!WatchJob, Stream!Adapter, Stream!AdapterPut, Stream!AdapterEnd,
         Stream!Send, Stream!Leave, Stream!Disconnect
<1>2. WatchTypes /\ [Stream!Next]_(Stream!vars) =>
        [\A w \in watch_closed : Len(watch_sub'[w]) <= Len(watch_sub[w])]_(Stream!vars)
  BY <1>1
<1> QED BY <1>2, SideBySide, WatchSafe, PTL DEF Stream!Spec, NoSendOnClosed, Stream!NoSendOnClosed

(* No step loses an event on its way to a client whose stream goes on.     *)
LEMMA StepKeeps ==
  ASSUME WatchTypes, [Stream!Next]_(Stream!vars), NEW w \in Watches, watch_pc'[w] # "ended",
         NEW e, Keeps(w, e)
  PROVE  Keeps(w, e)'
<1> USE DEF WatchTypes, Stream!subVars, Stream!adapterVars
<1>1. CASE UNCHANGED <<watch_sub, watch_held, watch_out, watch_got>>
  BY <1>1 DEF Keeps
<1>2. CASE Stream!Dispatch
  <2>1. watch_sub'[w] = watch_sub[w] \/ watch_sub'[w] = Append(watch_sub[w], watch_emitted')
    BY <1>2 DEF Stream!Dispatch
  <2>2. \A i \in 1..Len(watch_sub[w]) :
          i \in 1..Len(watch_sub'[w]) /\ watch_sub'[w][i] = watch_sub[w][i]
    BY SMTT(30), <2>1
  <2> QED BY <1>2, <2>2 DEF Stream!Dispatch, Keeps
<1>3. ASSUME NEW v \in Watches, Stream!AdapterTake(v) PROVE Keeps(w, e)'
  <2>1. CASE v # w
    BY <1>3, <2>1 DEF Stream!AdapterTake, Keeps
  <2>2. CASE v = w
    <3>1. /\ watch_sub[w] # <<>> /\ watch_sub'[w] = Tail(watch_sub[w])
          /\ watch_held[w] = 0 /\ watch_held'[w] = Head(watch_sub[w])
          /\ UNCHANGED <<watch_out, watch_got>>
      BY <1>3, <2>2 DEF Stream!AdapterTake
    <3>2. \A i \in 1..Len(watch_sub[w]) : watch_sub[w][i] = watch_held'[w]
             \/ \E j \in 1..Len(watch_sub'[w]) : watch_sub[w][i] = watch_sub'[w][j]
      <4>1. watch_sub[w] \in Seq(Nat \ {0})
        OBVIOUS
      <4>2. \A n \in 1..Len(watch_sub[w]) : watch_sub[w][n] = Head(watch_sub[w])
               \/ \E m \in 1..Len(Tail(watch_sub[w])) : watch_sub[w][n] = Tail(watch_sub[w])[m]
        BY SMTT(30), <3>1, <4>1, HoldsTail
      <4> QED BY <3>1, <4>2
    <3>3. \A i \in 1..Len(watch_sub[w]) : watch_sub[w][i] # 0
      OBVIOUS
    <3> QED BY <3>1, <3>2, <3>3 DEF Keeps
  <2> QED BY <2>1, <2>2
<1>4. ASSUME NEW v \in Watches, Stream!AdapterPut(v) PROVE Keeps(w, e)'
  <2>1. CASE v # w
    BY <1>4, <2>1 DEF Stream!AdapterPut, Keeps
  <2>2. CASE v = w
    <3> DEFINE line == [seq |-> watch_next[w], event |-> watch_held[w]]
    <3>1. /\ watch_out'[w] = Append(watch_out[w], line) /\ line \in Numbered
          /\ UNCHANGED <<watch_sub, watch_got>>
      BY <1>4, <2>2 DEF Stream!AdapterPut, Numbered
    <3>2. /\ Len(watch_out[w]) + 1 \in 1..Len(watch_out'[w])
          /\ watch_out'[w][Len(watch_out[w]) + 1].event = watch_held[w]
          /\ \A i \in 1..Len(watch_out[w]) :
               i \in 1..Len(watch_out'[w]) /\ watch_out'[w][i] = watch_out[w][i]
      BY <3>1
    <3> QED BY <3>1, <3>2 DEF Keeps
  <2> QED BY <2>1, <2>2
<1>5. ASSUME NEW v \in Watches, Stream!Send(v) PROVE Keeps(w, e)'
  <2>1. CASE v # w
    BY <1>5, <2>1 DEF Stream!Send, Stream!Return, Keeps
  <2>2. CASE v = w
    <3>1. /\ watch_out[w] # <<>> /\ watch_out'[w] = Tail(watch_out[w])
          /\ watch_got'[w] = Append(watch_got[w], Head(watch_out[w]))
          /\ UNCHANGED <<watch_sub, watch_held>>
      BY <1>5, <2>2 DEF Stream!Send, Stream!Return
    <3>2. Head(watch_out[w]) \in Numbered
      BY <3>1
    <3>3. /\ Len(watch_got[w]) + 1 \in 1..Len(watch_got'[w])
          /\ watch_got'[w][Len(watch_got[w]) + 1] = Head(watch_out[w])
          /\ \A i \in 1..Len(watch_got[w]) :
               i \in 1..Len(watch_got'[w]) /\ watch_got'[w][i] = watch_got[w][i]
      BY <3>1, <3>2
    <3>4. \A i \in 1..Len(watch_out[w]) : watch_out[w][i] = watch_got'[w][Len(watch_got[w]) + 1]
             \/ \E j \in 1..Len(watch_out'[w]) : watch_out[w][i] = watch_out'[w][j]
      <4>1. watch_out[w] \in Seq(Numbered)
        OBVIOUS
      <4>2. \A n \in 1..Len(watch_out[w]) : watch_out[w][n] = Head(watch_out[w])
               \/ \E m \in 1..Len(Tail(watch_out[w])) : watch_out[w][n] = Tail(watch_out[w])[m]
        BY <3>1, <4>1, HoldsTail
      <4> QED BY <3>1, <3>3, <4>2
    <3> QED BY <3>1, <3>3, <3>4 DEF Keeps
  <2> QED BY <2>1, <2>2
<1> QED BY <1>1, <1>2, <1>3, <1>4, <1>5 DEF Stream!Next, Stream!vars, Stream!JobEnds,
       Stream!Shutdown, Stream!WatchJob, Stream!Adapter, Stream!AdapterEnd, Stream!Leave,
       Stream!Disconnect

(* The part of TakenIsReceived that speaks of single steps, for any number *)
(* of watches; that the way is empty again and again is liveness.          *)
THEOREM NothingIsLostHolds == AllSpec => Stream!NothingIsLost
<1>1. WatchTypes /\ [Stream!Next]_(Stream!vars) =>
        [\A w \in Watches : watch_pc'[w] # "ended" => Stream!Kept(w) \subseteq Stream!Kept(w)']_(Stream!vars)
  <2> SUFFICES ASSUME WatchTypes, [Stream!Next]_(Stream!vars), NEW w \in Watches,
                      watch_pc'[w] # "ended", NEW e \in Stream!Kept(w)
               PROVE  e \in Stream!Kept(w)'
    OBVIOUS
  <2>1. Keeps(w, e)'
    BY KeepsIsKept, StepKeeps
  <2> QED BY <2>1 DEF Stream!Kept, Stream!OnTheWay, Stream!EventsOf, Keeps
<1> QED BY <1>1, SideBySide, WatchSafe, PTL DEF Stream!Spec, Stream!NothingIsLost

-----------------------------------------------------------------------------
(* The web view.                                                           *)

EventOf == [n : Nat \ {0}, type : {"orch.started", "shown", "hidden"}, unit : Units]
Conns == 1..MaxConns

LineTypes ==
  /\ web_emitted \in Nat
  /\ web_queue \in Seq(EventOf) /\ Len(web_queue) <= QueueCap
  /\ web_source \in {"job", "push"}
  /\ web_pusher \in {"off", "select", "write", "backoff", "retry", "exit"}
  /\ web_writing \in EventOf \union {Web!NoEvent}
  /\ web_dialled \in 0..MaxConns /\ web_conn \in 0..MaxConns /\ web_serving \in 0..MaxConns
  /\ web_shut \in SUBSET (1..web_dialled)
  /\ web_wire \in [Conns -> Seq(EventOf)]
  /\ web_backlog \in Seq(Conns)

Waits(c) == c = web_serving \/ \E i \in 1..Len(web_backlog) : web_backlog[i] = c

(* The pusher has an event in hand while it writes, on the connection it   *)
(* dialled last, which the server serves or has still to accept.           *)
PusherInOrder ==
  /\ web_source = "job" => web_pusher = "off"
  /\ web_pusher = "off" => web_dialled = 0
  /\ web_pusher \in {"write", "backoff", "retry"} <=> web_writing # Web!NoEvent
  /\ web_pusher \in {"select", "write", "backoff", "retry"} =>
       /\ web_conn = web_dialled /\ web_conn >= 1
       /\ web_conn \notin web_shut /\ Waits(web_conn)
  /\ web_pusher \in {"off", "exit"} => web_conn = 0

(* Connections are accepted in the order they were dialled, and a line     *)
(* that is not read is on one that is served or waits.                     *)
AcceptInOrder ==
  /\ \A i \in 1..Len(web_backlog) :
       web_serving < web_backlog[i] /\ web_backlog[i] <= web_dialled
  /\ \A i, j \in 1..Len(web_backlog) : i < j => web_backlog[i] < web_backlog[j]
  /\ web_serving <= web_dialled
  /\ \A c \in Conns : web_wire[c] # <<>> => Waits(c)

(* Every line that is still to be read, every event in the pusher's hands  *)
(* or in its queue, and every event to come has at least the number x.     *)
Behind(x) ==
  /\ x <= web_emitted
  /\ \A i \in 1..Len(web_queue) : x <= web_queue[i].n
  /\ web_writing # Web!NoEvent => x <= web_writing.n
  /\ \A c \in Conns : \A i \in 1..Len(web_wire[c]) : x <= web_wire[c][i].n

(* The numbers grow from the lines to the pusher and on to the queue, and  *)
(* on the lines from connection to connection.                             *)
NumbersInOrder ==
  /\ \A i, j \in 1..Len(web_queue) : i < j => web_queue[i].n <= web_queue[j].n
  /\ \A i \in 1..Len(web_queue) : web_queue[i].n <= web_emitted
  /\ web_writing # Web!NoEvent =>
       /\ web_writing.n <= web_emitted
       /\ \A i \in 1..Len(web_queue) : web_writing.n <= web_queue[i].n
  /\ \A c, d \in Conns : \A i \in 1..Len(web_wire[c]), j \in 1..Len(web_wire[d]) :
       c < d \/ (c = d /\ i < j) => web_wire[c][i].n <= web_wire[d][j].n
  /\ \A c \in Conns : \A i \in 1..Len(web_wire[c]) :
       /\ web_wire[c][i].n <= web_emitted
       /\ \A j \in 1..Len(web_queue) : web_wire[c][i].n <= web_queue[j].n
       /\ web_writing # Web!NoEvent => web_wire[c][i].n <= web_writing.n

LineInv == LineTypes /\ PusherInOrder /\ AcceptInOrder /\ NumbersInOrder

ShowTypes ==
  /\ web_publish \in EventOf \union {Web!NoEvent}
  /\ web_store \in [Units -> Nat]
  /\ web_clients \subseteq Web!Clients
  /\ web_events \in [Web!Clients -> Seq(EventOf)]
  /\ \A c \in Web!Clients : Len(web_events[c]) <= ClientCap
  /\ web_handler \in [Browsers -> {"none", "register", "serving", "unregister"}]
  /\ web_opened \in [Browsers -> 0..MaxClients]
  /\ web_page \in [Browsers -> {"new", "loaded", "left"}]
  /\ web_view \in [Browsers -> [Units -> Nat]]

(* A number that store, browsers or channels may show: nothing older is    *)
(* still to come.                                                          *)
Shown(x) == Behind(x) /\ (web_publish # Web!NoEvent => x <= web_publish.n)

ShownInOrder ==
  /\ web_publish # Web!NoEvent => Behind(web_publish.n)
  /\ \A u \in Units : Shown(web_store[u])
  /\ \A b \in Browsers, u \in Units : Shown(web_view[b][u])
  /\ \A c \in Web!Clients : \A i \in 1..Len(web_events[c]) : Shown(web_events[c][i].n)

(* A channel holds events in their order; those of a browser's last        *)
(* connection are not older than what its page shows.                      *)
ChannelsInOrder ==
  /\ \A c \in Web!Clients : \A i, j \in 1..Len(web_events[c]) :
       i < j => web_events[c][i].n <= web_events[c][j].n
  /\ \A b \in Browsers : \A k \in 1..MaxClients :
       k > web_opened[b] => web_events[<<b, k>>] = <<>> /\ <<b, k>> \notin web_clients
  /\ \A b \in Browsers :
       /\ web_page[b] = "new" => web_opened[b] = 0 /\ \A u \in Units : web_view[b][u] = 0
       /\ web_handler[b] # "none" => web_opened[b] >= 1
       /\ web_opened[b] >= 1 =>
            \A u \in Units : \A i \in 1..Len(web_events[Web!Client(b)]) :
              web_view[b][u] <= web_events[Web!Client(b)][i].n

(* The inductive invariant of the web view.                                *)
WebInv == LineInv /\ ShowTypes /\ ShownInOrder /\ ChannelsInOrder

LEMMA LineInit == Web!Init => LineInv
<1> SUFFICES ASSUME Web!Init PROVE LineInv
  OBVIOUS
<1> USE Parameters DEF Web!Init, Web!WebAssumption, Web!NoEvent
<1>1. LineTypes
  BY DEF LineTypes, Conns
<1>2. PusherInOrder /\ AcceptInOrder
  BY DEF PusherInOrder, AcceptInOrder, Conns
<1>3. NumbersInOrder
  BY DEF NumbersInOrder, Conns
<1> QED BY <1>1, <1>2, <1>3 DEF LineInv

LEMMA NoEventIsNone == Web!NoEvent \notin EventOf
<1>1. \A e \in EventOf : e.n # 0
  BY DEF EventOf
<1>2. Web!NoEvent.n = 0
  BY DEF Web!NoEvent
<1> QED BY <1>1, <1>2

(* The events on their way have numbers.                                   *)
LEMMA NumbersAreNat ==
  ASSUME LineTypes
  PROVE  /\ \A i \in 1..Len(web_queue) : web_queue[i].n \in Nat
         /\ web_writing # Web!NoEvent => web_writing.n \in Nat
         /\ \A c \in Conns : \A i \in 1..Len(web_wire[c]) : web_wire[c][i].n \in Nat
<1>1. \A e \in EventOf : e.n \in Nat
  BY DEF EventOf
<1>2. \A i \in 1..Len(web_queue) : web_queue[i] \in EventOf
  BY DEF LineTypes
<1>3. \A c \in Conns : \A i \in 1..Len(web_wire[c]) : web_wire[c][i] \in EventOf
  BY DEF LineTypes
<1>4. web_writing # Web!NoEvent => web_writing \in EventOf
  BY DEF LineTypes
<1> QED BY <1>1, <1>2, <1>3, <1>4

LEMMA BacklogIsPositive ==
  ASSUME LineTypes
  PROVE  /\ \A i \in 1..Len(web_backlog) :
              web_backlog[i] \in Conns /\ web_backlog[i] \in Nat /\ 0 < web_backlog[i]
         /\ web_serving \in Nat /\ web_dialled \in Nat /\ web_conn \in Nat
<1>1. \A i \in 1..Len(web_backlog) : web_backlog[i] \in Conns
  BY DEF LineTypes
<1>2. \A c \in Conns : c \in Nat /\ 0 < c
  BY DEF Conns
<1>3. web_serving \in Nat /\ web_dialled \in Nat /\ web_conn \in Nat
  BY Parameters DEF LineTypes, Web!WebAssumption
<1> QED BY <1>1, <1>2, <1>3

linesOfWeb == <<web_source, web_emitted, web_queue, web_pusher, web_writing, web_conn,
                web_dialled, web_wire, web_shut, web_backlog, web_serving>>

(* The steps that move an event or a connection, and the others.           *)
LEMMA StepsOfLines ==
  ASSUME [Web!Next]_(Web!vars)
  PROVE  \/ \E u \in Units, type \in {"orch.started", "shown", "hidden"} : Web!Emit(type, u)
         \/ Web!PusherStart \/ Web!PusherTake \/ Web!Reconnect \/ Web!PusherClose
         \/ \E ok \in BOOLEAN : Web!WriteEvent(ok)
         \/ Web!Accept \/ Web!ReadLine \/ Web!Hangup \/ Web!JobEvent
         \/ UNCHANGED linesOfWeb
<1> USE DEF linesOfWeb, Web!vars, Web!runVars, Web!pushVars, Web!lineVars
<1>1. CASE UNCHANGED Web!vars
  BY <1>1
<1>2. CASE Web!Broadcast \/ Web!HubExit \/ Web!Stop
  BY <1>2 DEF Web!Broadcast, Web!HubExit, Web!Stop, Web!SocketStop, Web!HubStop, Web!HTTPShutdown
<1>3. ASSUME NEW b \in Browsers,
             Web!Open(b) \/ Web!Handler(b) \/ Web!Load(b) \/ Web!Leave(b) \/ Web!Return(b)
      PROVE  UNCHANGED linesOfWeb
  BY <1>3 DEF Web!Open, Web!Handler, Web!Register, Web!Serve, Web!ServeEnd, Web!Unregister,
              Web!Load, Web!Leave, Web!Return
<1> QED BY <1>1, <1>2, <1>3 DEF Web!Next, Web!Pusher

(* An emitted event comes last in the queue, or is dropped.                *)
LEMMA EmitQueues ==
  ASSUME LineTypes, NEW u \in Units, NEW type \in {"orch.started", "shown", "hidden"},
         Web!Emit(type, u)
  PROVE  /\ web_emitted' = web_emitted + 1
         /\ web_queue' \in Seq(EventOf) /\ Len(web_queue') <= QueueCap
         /\ Len(web_queue') \in {Len(web_queue), Len(web_queue) + 1}
         /\ \A i \in 1..Len(web_queue) : web_queue'[i] = web_queue[i]
         /\ Len(web_queue') = Len(web_queue) + 1 =>
              web_queue'[Len(web_queue) + 1].n = web_emitted + 1
         /\ UNCHANGED <<web_source, web_pusher, web_writing, web_conn, web_dialled, web_wire,
                        web_shut, web_backlog, web_serving>>
<1> DEFINE e == [n |-> web_emitted', type |-> type, unit |-> u]
<1>1. web_emitted' = web_emitted + 1 /\ e \in EventOf
  BY DEF Web!Emit, LineTypes, EventOf
<1>2. QueueCap \in Nat /\ web_queue \in Seq(EventOf) /\ Len(web_queue) <= QueueCap
  BY Parameters DEF Web!WebAssumption, LineTypes
<1>3. web_queue' = Sent(web_queue, <<e>>, QueueCap)
  BY DEF Web!Emit, Web!Sent, Sent
<1> HIDE DEF e
<1>4. web_queue' = IF HasRoom(web_queue, QueueCap) THEN Append(web_queue, e) ELSE web_queue
  BY <1>1, <1>2, <1>3, SentOne
<1>5. e.n = web_emitted + 1
  BY <1>1 DEF e
<1>6. CASE HasRoom(web_queue, QueueCap)
  <2>1. web_queue' = Append(web_queue, e) /\ Len(web_queue) + 1 <= QueueCap
    BY <1>2, <1>4, <1>6 DEF HasRoom
  <2>2. /\ web_queue' \in Seq(EventOf) /\ Len(web_queue') = Len(web_queue) + 1
        /\ \A i \in 1..Len(web_queue) : web_queue'[i] = web_queue[i]
        /\ web_queue'[Len(web_queue) + 1] = e
    BY <1>1, <1>2, <2>1
  <2> QED BY <1>1, <1>5, <2>1, <2>2 DEF Web!Emit, Web!pushVars, Web!lineVars
<1>7. CASE ~HasRoom(web_queue, QueueCap)
  <2>1. web_queue' = web_queue /\ Len(web_queue) \in Nat /\ Len(web_queue) # Len(web_queue) + 1
    BY <1>2, <1>4, <1>7
  <2> QED BY <1>1, <1>2, <2>1 DEF Web!Emit, Web!pushVars, Web!lineVars
<1> QED BY <1>6, <1>7
(* Steps that move no event, and steps that take the first of a queue.     *)
LEMMA NumbersRest ==
  ASSUME NumbersInOrder, UNCHANGED <<web_queue, web_emitted, web_writing, web_wire>>
  PROVE  NumbersInOrder'
  BY DEF NumbersInOrder

LEMMA TailShifts ==
  ASSUME NEW S, NEW q \in Seq(S), q # <<>>
  PROVE  /\ Tail(q) \in Seq(S) /\ Len(Tail(q)) = Len(q) - 1 /\ Head(q) = q[1] /\ Len(q) >= 1
         /\ Head(q) \in S
         /\ \A i \in 1..Len(Tail(q)) : i + 1 \in 1..Len(q) /\ Tail(q)[i] = q[i + 1]
         /\ 1 \in 1..Len(q)
  OBVIOUS

(* A connection is dialled.                                                *)
LEMMA ConnectKeeps ==
  ASSUME LineInv, Web!Connect, UNCHANGED <<web_source, web_queue, web_emitted, web_writing,
                                           web_wire, web_serving>>,
         web_source = "push", web_pusher' \in {"select", "retry"},
         web_pusher' = "retry" <=> web_writing # Web!NoEvent
  PROVE  LineInv'
<1> USE DEF LineInv
<1>1. MaxConns \in Nat
  BY Parameters DEF Web!WebAssumption
<1>2. /\ web_dialled \in Nat /\ web_dialled + 1 \in Conns /\ web_dialled' = web_dialled + 1
      /\ web_conn' = web_dialled' /\ web_shut' = web_shut \union ({web_conn} \ {0})
      /\ web_backlog' = Append(web_backlog, web_dialled') /\ web_backlog \in Seq(Conns)
      /\ web_conn <= web_dialled /\ web_conn \in Nat /\ web_serving \in Nat
      /\ web_shut \in SUBSET (1..web_dialled)
  <2>1. web_conn <= web_dialled
    BY DEF LineTypes, PusherInOrder
  <2>2. /\ web_dialled \in 0..MaxConns /\ web_conn \in 0..MaxConns /\ web_serving \in 0..MaxConns
        /\ web_backlog \in Seq(Conns) /\ web_shut \in SUBSET (1..web_dialled)
    BY DEF LineTypes
  <2>3. /\ web_dialled < MaxConns /\ web_dialled' = web_dialled + 1 /\ web_conn' = web_dialled'
        /\ web_shut' = web_shut \union ({web_conn} \ {0})
        /\ web_backlog' = Append(web_backlog, web_dialled')
    BY DEF Web!Connect
  <2>4. web_dialled + 1 \in Conns
    BY <1>1, <2>2, <2>3 DEF Conns
  <2> QED BY <1>1, <2>1, <2>2, <2>3, <2>4
<1>3. /\ web_backlog' \in Seq(Conns) /\ Len(web_backlog') = Len(web_backlog) + 1
      /\ \A i \in 1..Len(web_backlog) : web_backlog'[i] = web_backlog[i]
      /\ web_backlog'[Len(web_backlog) + 1] = web_dialled'
      /\ Len(web_backlog) \in Nat
  BY <1>1, <1>2
<1>4. \A c : Waits(c) => Waits(c)'
  BY <1>3 DEF Waits
<1>5. Waits(web_conn)'
  BY <1>2, <1>3 DEF Waits
<1>6. LineTypes'
  <2>1. web_shut' \in SUBSET (1..web_dialled')
    BY <1>2
  <2>2. web_dialled' \in 0..MaxConns /\ web_conn' \in 0..MaxConns
    BY <1>1, <1>2 DEF Conns
  <2> QED BY <1>3, <2>1, <2>2 DEF LineTypes
<1>7. PusherInOrder'
  <2>1. web_conn' >= 1 /\ web_conn' \notin web_shut'
    BY <1>2
  <2> QED BY <1>2, <1>5, <2>1 DEF PusherInOrder
<1>8. AcceptInOrder'
  <2>1. \A i \in 1..Len(web_backlog) :
          web_serving < web_backlog[i] /\ web_backlog[i] <= web_dialled /\ web_backlog[i] \in Nat
    BY BacklogIsPositive DEF AcceptInOrder
  <2>2. \A i \in 1..Len(web_backlog') : web_serving' < web_backlog'[i] /\ web_backlog'[i] <= web_dialled'
    <3> TAKE i \in 1..Len(web_backlog')
    <3>1. CASE i = Len(web_backlog) + 1
      BY <1>2, <1>3, <3>1 DEF AcceptInOrder
    <3>2. CASE i \in 1..Len(web_backlog)
      BY <1>2, <1>3, <2>1, <3>2
    <3> QED BY <1>3, <3>1, <3>2
  <2>3. \A i, j \in 1..Len(web_backlog') : i < j => web_backlog'[i] < web_backlog'[j]
    <3> TAKE i, j \in 1..Len(web_backlog')
    <3> HAVE i < j
    <3>1. i \in 1..Len(web_backlog)
      BY <1>3
    <3>2. CASE j = Len(web_backlog) + 1
      <4>1. web_backlog[i] <= web_dialled /\ web_backlog[i] \in Nat
        BY <2>1, <3>1
      <4> QED BY <1>2, <1>3, <3>1, <3>2, <4>1
    <3>3. CASE j \in 1..Len(web_backlog)
      BY <1>3, <3>1, <3>3 DEF AcceptInOrder
    <3> QED BY <1>3, <3>2, <3>3
  <2>4. web_serving' <= web_dialled'
    BY <1>2 DEF AcceptInOrder
  <2> QED BY <1>4, <2>2, <2>3, <2>4 DEF AcceptInOrder
<1> QED BY <1>6, <1>7, <1>8, NumbersRest

(* A step to the lines keeps their order.                                  *)
LEMMA LineStep == LineInv /\ [Web!Next]_(Web!vars) => LineInv'
<1> SUFFICES ASSUME LineInv, [Web!Next]_(Web!vars) PROVE LineInv'
  OBVIOUS
<1> USE DEF LineInv, Web!runVars, Web!pushVars, Web!lineVars
<1>0. LineTypes /\ MaxConns \in Nat /\ QueueCap \in Nat \ {0}
  BY Parameters DEF Web!WebAssumption
<1>1. CASE UNCHANGED linesOfWeb
  <2> USE <1>1 DEF linesOfWeb
  <2>1. LineTypes' /\ PusherInOrder' /\ AcceptInOrder'
    BY DEF LineTypes, PusherInOrder, AcceptInOrder, Waits
  <2>2. NumbersInOrder'
    BY DEF NumbersInOrder
  <2> QED BY <2>1, <2>2
<1>2. ASSUME NEW u \in Units, NEW type \in {"orch.started", "shown", "hidden"}, Web!Emit(type, u)
      PROVE  LineInv'
  <2>1. /\ web_emitted' = web_emitted + 1
        /\ web_queue' \in Seq(EventOf) /\ Len(web_queue') <= QueueCap
        /\ Len(web_queue') \in {Len(web_queue), Len(web_queue) + 1}
        /\ \A i \in 1..Len(web_queue) : web_queue'[i] = web_queue[i]
        /\ Len(web_queue') = Len(web_queue) + 1 =>
             web_queue'[Len(web_queue) + 1].n = web_emitted + 1
        /\ UNCHANGED <<web_source, web_pusher, web_writing, web_conn, web_dialled, web_wire,
                       web_shut, web_backlog, web_serving>>
    BY <1>0, <1>2, EmitQueues
  <2>2. LineTypes' /\ PusherInOrder' /\ AcceptInOrder'
    BY <1>0, <2>1 DEF LineTypes, PusherInOrder, AcceptInOrder, Waits
  <2>3. NumbersInOrder'
    <3>1. \A i \in 1..Len(web_queue') :
            \/ i \in 1..Len(web_queue) /\ web_queue'[i] = web_queue[i]
            \/ web_queue'[i].n = web_emitted' /\ i = Len(web_queue) + 1
      BY <1>0, <2>1 DEF LineTypes
    <3>2. web_emitted <= web_emitted' /\ web_emitted \in Nat /\ web_emitted' \in Nat
      BY <1>0, <2>1 DEF LineTypes
    <3>3. /\ \A i \in 1..Len(web_queue) : web_queue[i].n \in Nat
          /\ web_writing # Web!NoEvent => web_writing.n \in Nat
          /\ \A c \in Conns : \A i \in 1..Len(web_wire[c]) : web_wire[c][i].n \in Nat
      BY <1>0, NumbersAreNat
    <3>4. \A i, j \in 1..Len(web_queue') : i < j => web_queue'[i].n <= web_queue'[j].n
      <4> TAKE i, j \in 1..Len(web_queue')
      <4> HAVE i < j
      <4>1. CASE j \in 1..Len(web_queue) /\ web_queue'[j] = web_queue[j]
        <5>1. i \in 1..Len(web_queue) /\ web_queue'[i] = web_queue[i]
          BY <1>0, <2>1, <4>1 DEF LineTypes
        <5> QED BY <4>1, <5>1 DEF NumbersInOrder
      <4>2. CASE web_queue'[j].n = web_emitted' /\ j = Len(web_queue) + 1
        <5>1. i \in 1..Len(web_queue) /\ web_queue'[i] = web_queue[i]
          BY SMTT(30), <1>0, <2>1, <4>2 DEF LineTypes
        <5>2. web_queue[i].n <= web_emitted
          BY <5>1 DEF NumbersInOrder
        <5> QED BY <3>2, <3>3, <4>2, <5>1, <5>2
      <4> QED BY <3>1, <4>1, <4>2
    <3>5. \A i \in 1..Len(web_queue') : web_queue'[i].n <= web_emitted'
      BY <3>1, <3>2, <3>3 DEF NumbersInOrder
    <3>6. web_writing # Web!NoEvent =>
            /\ web_writing.n <= web_emitted'
            /\ \A i \in 1..Len(web_queue') : web_writing.n <= web_queue'[i].n
      BY <3>1, <3>2, <3>3 DEF NumbersInOrder
    <3>7. \A c \in Conns : \A i \in 1..Len(web_wire[c]) :
            /\ web_wire[c][i].n <= web_emitted'
            /\ \A j \in 1..Len(web_queue') : web_wire[c][i].n <= web_queue'[j].n
      <4> TAKE c \in Conns
      <4> TAKE i \in 1..Len(web_wire[c])
      <4>1. web_wire[c][i].n \in Nat /\ web_wire[c][i].n <= web_emitted
        BY <3>3 DEF NumbersInOrder
      <4>2. web_wire[c][i].n <= web_emitted'
        BY <3>2, <4>1
      <4>3. ASSUME NEW j \in 1..Len(web_queue') PROVE web_wire[c][i].n <= web_queue'[j].n
        <5>1. CASE j \in 1..Len(web_queue) /\ web_queue'[j] = web_queue[j]
          BY <5>1 DEF NumbersInOrder
        <5>2. CASE web_queue'[j].n = web_emitted'
          BY <4>2, <5>2
        <5> QED BY <3>1, <5>1, <5>2
      <4> QED BY <4>2, <4>3
    <3> QED BY <2>1, <3>4, <3>5, <3>6, <3>7 DEF NumbersInOrder
  <2> QED BY <2>2, <2>3
<1>3. CASE Web!PusherStart
  <2>1. web_writing = Web!NoEvent
    BY <1>3 DEF PusherInOrder, Web!PusherStart
  <2> QED BY <1>3, <2>1, ConnectKeeps DEF Web!PusherStart
<1>4. CASE Web!Reconnect
  <2>1. web_writing # Web!NoEvent /\ web_source = "push"
    BY <1>0, <1>4 DEF PusherInOrder, Web!Reconnect, LineTypes
  <2> QED BY <1>4, <2>1, ConnectKeeps DEF Web!Reconnect
<1>5. CASE Web!PusherTake
  <2>1. web_queue \in Seq(EventOf) /\ web_queue # <<>> /\ web_writing = Web!NoEvent
    BY <1>0, <1>5 DEF Web!PusherTake, LineTypes, PusherInOrder
  <2>2. /\ web_queue' = Tail(web_queue) /\ web_writing' = Head(web_queue)
        /\ web_pusher = "select" /\ web_pusher' = "write"
        /\ UNCHANGED <<web_source, web_emitted, web_conn, web_dialled, web_wire, web_shut,
                       web_backlog, web_serving>>
    BY <1>5 DEF Web!PusherTake
  <2>3. /\ Tail(web_queue) \in Seq(EventOf) /\ Len(Tail(web_queue)) = Len(web_queue) - 1
        /\ Head(web_queue) = web_queue[1] /\ Head(web_queue) \in EventOf
        /\ 1 \in 1..Len(web_queue)
        /\ \A i \in 1..Len(Tail(web_queue)) :
             i + 1 \in 1..Len(web_queue) /\ Tail(web_queue)[i] = web_queue[i + 1]
    BY <2>1, TailShifts
  <2>4. LineTypes'
    BY <1>0, <2>1, <2>2, <2>3 DEF LineTypes
  <2>5. PusherInOrder' /\ AcceptInOrder'
    BY <1>0, <2>2, <2>3, NoEventIsNone DEF PusherInOrder, AcceptInOrder, Waits, LineTypes
  <2>6. NumbersInOrder'
    <3>1. \A i, j \in 1..Len(web_queue') : i < j => web_queue'[i].n <= web_queue'[j].n
      BY <2>1, <2>2, <2>3 DEF NumbersInOrder
    <3>2. \A i \in 1..Len(web_queue') : web_queue'[i].n <= web_emitted
      BY <2>2, <2>3 DEF NumbersInOrder
    <3>3. /\ web_writing'.n <= web_emitted
          /\ \A i \in 1..Len(web_queue') : web_writing'.n <= web_queue'[i].n
      BY <2>1, <2>2, <2>3 DEF NumbersInOrder
    <3>4. \A c \in Conns : \A i \in 1..Len(web_wire[c]) :
            /\ \A j \in 1..Len(web_queue') : web_wire[c][i].n <= web_queue'[j].n
            /\ web_wire[c][i].n <= web_writing'.n
      BY <2>2, <2>3 DEF NumbersInOrder
    <3> QED BY <2>2, <3>1, <3>2, <3>3, <3>4 DEF NumbersInOrder
  <2> QED BY <2>4, <2>5, <2>6
<1>6. ASSUME NEW ok \in BOOLEAN, Web!WriteEvent(ok) PROVE LineInv'
  <2>1. /\ web_writing \in EventOf /\ web_writing # Web!NoEvent
        /\ web_conn \in Conns /\ web_conn = web_dialled
        /\ web_conn \notin web_shut /\ Waits(web_conn)
    <3>1. web_writing # Web!NoEvent /\ web_conn = web_dialled /\ web_conn >= 1
          /\ web_conn \notin web_shut /\ Waits(web_conn)
      BY <1>6 DEF Web!WriteEvent, PusherInOrder
    <3> QED BY <1>0, <3>1 DEF LineTypes, Conns
  <2>2. /\ web_pusher' \in {"select", "backoff"}
        /\ web_writing' = IF web_pusher' = "select" THEN Web!NoEvent ELSE web_writing
        /\ UNCHANGED <<web_source, web_emitted, web_queue, web_conn, web_dialled, web_shut,
                       web_backlog, web_serving>>
        /\ web_pusher # "off"
    BY <1>6 DEF Web!WriteEvent
  <2>3. \/ UNCHANGED web_wire
        \/ web_wire' = [web_wire EXCEPT ![web_conn] = Append(@, web_writing)]
    <3>1. CASE Web!Deliver(<<web_writing>>)
      <4>1. web_wire[web_conn] \in Seq(EventOf)
        BY <1>0, <2>1 DEF LineTypes
      <4>2. web_wire[web_conn] \o <<web_writing>> = Append(web_wire[web_conn], web_writing)
        BY <2>1, <4>1
      <4> QED BY <3>1, <4>2 DEF Web!Deliver
    <3> QED BY <1>6, <3>1 DEF Web!WriteEvent
  <2>4. /\ web_wire' \in [Conns -> Seq(EventOf)]
        /\ \A c \in Conns : \A i \in 1..Len(web_wire'[c]) :
             \/ i \in 1..Len(web_wire[c]) /\ web_wire'[c][i] = web_wire[c][i]
             \/ c = web_conn /\ i = Len(web_wire[c]) + 1 /\ web_wire'[c][i] = web_writing
        /\ \A c \in Conns : Len(web_wire'[c]) \in {Len(web_wire[c]), Len(web_wire[c]) + 1}
        /\ \A c \in Conns : web_wire'[c] # <<>> => web_wire[c] # <<>> \/ c = web_conn
    <3>1. CASE UNCHANGED web_wire
      BY <1>0, <3>1 DEF LineTypes
    <3>2. CASE web_wire' = [web_wire EXCEPT ![web_conn] = Append(@, web_writing)]
      <4>1. web_wire \in [Conns -> Seq(EventOf)]
        BY <1>0 DEF LineTypes
      <4>2. \A c \in Conns : web_wire'[c] = IF c = web_conn THEN Append(web_wire[c], web_writing)
                                             ELSE web_wire[c]
        BY <2>1, <3>2, <4>1
      <4>3. \A c \in Conns : web_wire[c] \in Seq(EventOf) /\ Len(web_wire[c]) \in Nat
        BY <4>1
      <4>4. web_wire' \in [Conns -> Seq(EventOf)]
        BY <2>1, <3>2, <4>1
      <4>5. ASSUME NEW c \in Conns, c # web_conn
            PROVE  web_wire'[c] = web_wire[c]
        BY <4>2, <4>5
      <4>6. LET q == web_wire[web_conn]
                r == web_wire'[web_conn]
            IN  /\ Len(q) \in Nat /\ Len(r) = Len(q) + 1
                /\ \A i \in 1..Len(q) : r[i] = q[i]
                /\ r[Len(q) + 1] = web_writing
        <5>1. web_wire'[web_conn] = Append(web_wire[web_conn], web_writing)
          BY <2>1, <4>2
        <5>2. web_wire[web_conn] \in Seq(EventOf)
          BY <2>1, <4>3
        <5> QED BY <2>1, <5>1, <5>2
      <4>7. \A c \in Conns : Len(web_wire'[c]) \in {Len(web_wire[c]), Len(web_wire[c]) + 1}
        BY <4>5, <4>6
      <4>8. \A c \in Conns : \A i \in 1..Len(web_wire'[c]) :
              \/ i \in 1..Len(web_wire[c]) /\ web_wire'[c][i] = web_wire[c][i]
              \/ c = web_conn /\ i = Len(web_wire[c]) + 1 /\ web_wire'[c][i] = web_writing
        <5> TAKE c \in Conns
        <5> TAKE i \in 1..Len(web_wire'[c])
        <5>1. CASE c # web_conn
          BY <4>5, <5>1
        <5>2. CASE c = web_conn
          BY <4>6, <5>2
        <5> QED BY <5>1, <5>2
      <4>9. \A c \in Conns : web_wire'[c] # <<>> => web_wire[c] # <<>> \/ c = web_conn
        BY <4>5
      <4> QED BY <4>4, <4>7, <4>8, <4>9
    <3> QED BY <2>3, <3>1, <3>2
  <2>5. LineTypes'
    BY <1>0, <2>1, <2>2, <2>4 DEF LineTypes
  <2>6. PusherInOrder'
    BY <2>1, <2>2 DEF PusherInOrder, Waits
  <2>7. AcceptInOrder'
    <3>1. \A c \in Conns : web_wire'[c] # <<>> => Waits(c)'
      BY <2>1, <2>2, <2>4 DEF AcceptInOrder, Waits
    <3> QED BY <2>2, <3>1 DEF AcceptInOrder
  <2>8. NumbersInOrder'
    <3>1. \A c \in Conns : \A i \in 1..Len(web_wire[c]) :
            /\ web_wire[c][i].n <= web_writing.n /\ c <= web_conn
            /\ web_wire[c][i].n \in Nat
      <4>1. \A c \in Conns : web_wire[c] # <<>> => c <= web_conn
        <5> SUFFICES ASSUME NEW c \in Conns, web_wire[c] # <<>> PROVE c <= web_conn
          OBVIOUS
        <5>1. Waits(c)
          BY DEF AcceptInOrder
        <5> QED BY <2>1, <5>1 DEF AcceptInOrder, Waits
      <4>2. \A c \in Conns : \A i \in 1..Len(web_wire[c]) : web_wire[c] # <<>>
        BY <1>0 DEF LineTypes
      <4> QED BY <1>0, <2>1, <4>1, <4>2, NumbersAreNat DEF NumbersInOrder
    <3>2. ASSUME NEW c \in Conns, NEW d \in Conns, NEW i \in 1..Len(web_wire'[c]),
                 NEW j \in 1..Len(web_wire'[d]), c < d \/ (c = d /\ i < j)
          PROVE  web_wire'[c][i].n <= web_wire'[d][j].n
      <4>1. CASE i \in 1..Len(web_wire[c]) /\ web_wire'[c][i] = web_wire[c][i]
        <5>1. CASE j \in 1..Len(web_wire[d]) /\ web_wire'[d][j] = web_wire[d][j]
          BY <3>2, <4>1, <5>1 DEF NumbersInOrder
        <5>2. CASE web_wire'[d][j] = web_writing
          BY <3>1, <4>1, <5>2
        <5> QED BY <2>4, <5>1, <5>2
      <4>2. CASE c = web_conn /\ i = Len(web_wire[c]) + 1
        <5>1. ~(c < d)
          <6>1. SUFFICES ASSUME c < d PROVE FALSE
            OBVIOUS
          <6>2. j \in 1..Len(web_wire[d])
            BY <2>4, <4>2, <6>1 DEF Conns
          <6> QED BY <3>1, <4>2, <6>1, <6>2 DEF Conns
        <5>2. c = d /\ i < j /\ Len(web_wire[c]) \in Nat
          BY <1>0, <3>2, <5>1 DEF LineTypes
        <5> QED BY <2>4, <4>2, <5>2
      <4> QED BY <2>4, <4>1, <4>2
    <3>3. \A c \in Conns : \A i \in 1..Len(web_wire'[c]) :
            /\ web_wire'[c][i].n <= web_emitted
            /\ \A j \in 1..Len(web_queue) : web_wire'[c][i].n <= web_queue[j].n
            /\ web_wire'[c][i].n <= web_writing.n
      <4>1. web_writing.n <= web_writing.n
        BY <1>0, <2>1, NumbersAreNat
      <4> QED BY <2>1, <2>4, <3>1, <4>1 DEF NumbersInOrder
    <3> QED BY <2>2, <3>2, <3>3 DEF NumbersInOrder
  <2> QED BY <2>5, <2>6, <2>7, <2>8
<1>7. CASE Web!PusherClose
  <2>1. /\ web_pusher' = "exit" /\ web_writing' = Web!NoEvent /\ web_conn' = 0
        /\ web_shut' = web_shut \union ({web_conn} \ {0})
        /\ UNCHANGED <<web_source, web_emitted, web_queue, web_dialled, web_wire, web_backlog,
                       web_serving>>
        /\ web_conn = web_dialled /\ web_source = "push"
    BY <1>0, <1>7 DEF Web!PusherClose, PusherInOrder, LineTypes
  <2>2. LineTypes'
    <3>1. web_shut' \in SUBSET (1..web_dialled)
      BY <1>0, <2>1 DEF LineTypes
    <3> QED BY <1>0, <2>1, <3>1 DEF LineTypes
  <2>3. PusherInOrder' /\ AcceptInOrder'
    BY <1>0, <2>1 DEF PusherInOrder, AcceptInOrder, Waits, LineTypes
  <2>4. NumbersInOrder'
    BY <2>1 DEF NumbersInOrder
  <2> QED BY <2>2, <2>3, <2>4
<1>8. CASE Web!Accept
  <2>1. /\ web_serving = 0 /\ web_backlog # <<>> /\ web_serving' = Head(web_backlog)
        /\ web_backlog' = Tail(web_backlog)
        /\ UNCHANGED <<web_source, web_emitted, web_queue, web_pusher, web_writing, web_conn,
                       web_dialled, web_wire, web_shut>>
    BY <1>8 DEF Web!Accept
  <2>2. /\ Tail(web_backlog) \in Seq(Conns) /\ Len(Tail(web_backlog)) = Len(web_backlog) - 1
        /\ Head(web_backlog) = web_backlog[1] /\ Head(web_backlog) \in Conns
        /\ 1 \in 1..Len(web_backlog)
        /\ \A i \in 1..Len(Tail(web_backlog)) :
             i + 1 \in 1..Len(web_backlog) /\ Tail(web_backlog)[i] = web_backlog[i + 1]
    <3>1. web_backlog \in Seq(Conns)
      BY <1>0 DEF LineTypes
    <3> QED BY <2>1, <3>1, TailShifts
  <2>3. \A c \in Conns : Waits(c) => Waits(c)'
    <3>1. web_backlog \in Seq(Conns)
      BY <1>0 DEF LineTypes
    <3>2. \A n \in 1..Len(web_backlog) : web_backlog[n] = Head(web_backlog)
             \/ \E m \in 1..Len(Tail(web_backlog)) : web_backlog[n] = Tail(web_backlog)[m]
      BY <2>1, <3>1, HoldsTail
    <3> QED BY <2>1, <3>2 DEF Waits, Conns
  <2>4. LineTypes'
    BY <1>0, <2>1, <2>2 DEF LineTypes, Conns
  <2>5. PusherInOrder'
    BY <1>0, <2>1, <2>3 DEF PusherInOrder, LineTypes, Conns
  <2>6. AcceptInOrder'
    <3>1. \A i \in 1..Len(web_backlog') :
            web_serving' < web_backlog'[i] /\ web_backlog'[i] <= web_dialled
      BY <2>1, <2>2 DEF AcceptInOrder
    <3>2. \A i, j \in 1..Len(web_backlog') : i < j => web_backlog'[i] < web_backlog'[j]
      BY <2>1, <2>2 DEF AcceptInOrder
    <3>3. web_serving' <= web_dialled
      BY <2>1, <2>2 DEF AcceptInOrder
    <3> QED BY <2>1, <2>3, <3>1, <3>2, <3>3 DEF AcceptInOrder
  <2> QED BY <2>1, <2>4, <2>5, <2>6, NumbersRest
<1>9. CASE Web!Hangup
  <2>1. /\ web_serving \in web_shut /\ web_wire[web_serving] = <<>> /\ web_serving' = 0
        /\ UNCHANGED <<web_source, web_emitted, web_queue, web_pusher, web_writing, web_conn,
                       web_dialled, web_wire, web_shut, web_backlog>>
    BY <1>9 DEF Web!Hangup
  <2>2. LineTypes'
    BY <1>0, <2>1 DEF LineTypes
  <2>3. PusherInOrder'
    BY <1>0, <2>1 DEF PusherInOrder, Waits
  <2>4. AcceptInOrder'
    <3>1. \A i \in 1..Len(web_backlog) : web_serving' < web_backlog[i]
      BY <1>0, <2>1, BacklogIsPositive
    <3>2. \A c \in Conns : web_wire[c] # <<>> => Waits(c)'
      BY <2>1 DEF AcceptInOrder, Waits
    <3>3. web_serving' <= web_dialled
      BY <1>0, <2>1 DEF LineTypes
    <3> QED BY <2>1, <3>1, <3>2, <3>3 DEF AcceptInOrder
  <2> QED BY <2>1, <2>2, <2>3, <2>4, NumbersRest
<1>10. CASE Web!ReadLine
  <2>1. /\ web_serving \in Conns /\ web_wire[web_serving] # <<>>
        /\ web_wire[web_serving] \in Seq(EventOf)
        /\ web_wire' = [web_wire EXCEPT ![web_serving] = Tail(@)]
        /\ UNCHANGED <<web_source, web_emitted, web_queue, web_pusher, web_writing, web_conn,
                       web_dialled, web_shut, web_backlog, web_serving>>
    BY <1>0, <1>10 DEF Web!ReadLine, LineTypes, Conns
  <2>2. /\ web_wire' \in [Conns -> Seq(EventOf)]
        /\ \A c \in Conns : c # web_serving => web_wire'[c] = web_wire[c]
        /\ web_wire'[web_serving] = Tail(web_wire[web_serving])
    BY <1>0, <2>1 DEF LineTypes
  <2>3. \A i \in 1..Len(web_wire'[web_serving]) :
          i + 1 \in 1..Len(web_wire[web_serving])
          /\ web_wire'[web_serving][i] = web_wire[web_serving][i + 1]
    BY <2>1, <2>2, TailShifts
  <2>4. LineTypes'
    BY <1>0, <2>1, <2>2 DEF LineTypes
  <2>5. PusherInOrder'
    BY <2>1 DEF PusherInOrder, Waits
  <2>6. AcceptInOrder'
    <3>1. \A c \in Conns : web_wire'[c] # <<>> => Waits(c)'
      BY <2>1, <2>2 DEF AcceptInOrder, Waits
    <3> QED BY <2>1, <3>1 DEF AcceptInOrder
  <2>7. NumbersInOrder'
    <3> DEFINE at(c, i) == IF c = web_serving THEN i + 1 ELSE i
    <3>1. \A c \in Conns : \A i \in 1..Len(web_wire'[c]) :
            at(c, i) \in 1..Len(web_wire[c]) /\ web_wire'[c][i] = web_wire[c][at(c, i)]
      BY <2>2, <2>3
    <3>2. \A c \in Conns : \A i, j \in 1..Len(web_wire'[c]) : i < j => at(c, i) < at(c, j)
      OBVIOUS
    <3>3. ASSUME NEW c \in Conns, NEW d \in Conns, NEW i \in 1..Len(web_wire'[c]),
                 NEW j \in 1..Len(web_wire'[d]), c < d \/ (c = d /\ i < j)
          PROVE  web_wire'[c][i].n <= web_wire'[d][j].n
      <4>1. c < d \/ (c = d /\ at(c, i) < at(d, j))
        BY <3>2, <3>3
      <4> HIDE DEF at
      <4> QED BY <3>1, <4>1 DEF NumbersInOrder
    <3>4. ASSUME NEW c \in Conns, NEW i \in 1..Len(web_wire'[c])
          PROVE  /\ web_wire'[c][i].n <= web_emitted'
                 /\ \A j \in 1..Len(web_queue') : web_wire'[c][i].n <= web_queue'[j].n
                 /\ web_writing' # Web!NoEvent => web_wire'[c][i].n <= web_writing'.n
      <4> HIDE DEF at
      <4>1. at(c, i) \in 1..Len(web_wire[c]) /\ web_wire'[c][i] = web_wire[c][at(c, i)]
        BY <3>1
      <4> QED BY <2>1, <4>1 DEF NumbersInOrder
    <3>5. /\ \A i, j \in 1..Len(web_queue') : i < j => web_queue'[i].n <= web_queue'[j].n
          /\ \A i \in 1..Len(web_queue') : web_queue'[i].n <= web_emitted'
          /\ web_writing' # Web!NoEvent =>
               /\ web_writing'.n <= web_emitted'
               /\ \A i \in 1..Len(web_queue') : web_writing'.n <= web_queue'[i].n
      BY <2>1 DEF NumbersInOrder
    <3> QED BY ZenonT(30), <3>3, <3>4, <3>5 DEF NumbersInOrder
  <2> QED BY <2>4, <2>5, <2>6, <2>7
<1>11. CASE Web!JobEvent
  <2>1. /\ web_queue # <<>> /\ web_queue \in Seq(EventOf) /\ web_queue' = Tail(web_queue)
        /\ UNCHANGED <<web_source, web_emitted, web_pusher, web_writing, web_conn,
                       web_dialled, web_wire, web_shut, web_backlog, web_serving>>
    BY <1>0, <1>11 DEF Web!JobEvent, LineTypes
  <2>2. /\ Tail(web_queue) \in Seq(EventOf) /\ Len(Tail(web_queue)) = Len(web_queue) - 1
        /\ \A i \in 1..Len(Tail(web_queue)) :
             i + 1 \in 1..Len(web_queue) /\ Tail(web_queue)[i] = web_queue[i + 1]
    BY <2>1, TailShifts
  <2>3. LineTypes'
    BY <1>0, <2>1, <2>2 DEF LineTypes
  <2>4. PusherInOrder' /\ AcceptInOrder'
    BY <2>1 DEF PusherInOrder, AcceptInOrder, Waits
  <2>5. NumbersInOrder'
    <3>1. \A i, j \in 1..Len(web_queue') : i < j => web_queue'[i].n <= web_queue'[j].n
      BY <2>1, <2>2 DEF NumbersInOrder
    <3>2. \A i \in 1..Len(web_queue') :
            /\ web_queue'[i].n <= web_emitted
            /\ web_writing # Web!NoEvent => web_writing.n <= web_queue'[i].n
            /\ \A c \in Conns : \A j \in 1..Len(web_wire[c]) : web_wire[c][j].n <= web_queue'[i].n
      BY <2>1, <2>2 DEF NumbersInOrder
    <3> QED BY <2>1, <3>1, <3>2 DEF NumbersInOrder
  <2> QED BY <2>3, <2>4, <2>5
<1> QED BY <1>1, <1>2, <1>3, <1>4, <1>5, <1>6, <1>7, <1>8, <1>9, <1>10, <1>11, StepsOfLines

(* What is behind every line stays behind every line.                      *)
LEMMA BehindStays ==
  ASSUME LineInv, [Web!Next]_(Web!vars), NEW x \in Nat, Behind(x)
  PROVE  Behind(x)'
<1> USE DEF Web!runVars, Web!pushVars, Web!lineVars
<1>0. LineTypes
  BY DEF LineInv
<1>1. CASE UNCHANGED <<web_emitted, web_queue, web_writing, web_wire>>
  BY <1>1 DEF Behind
<1>2. ASSUME NEW u \in Units, NEW type \in {"orch.started", "shown", "hidden"}, Web!Emit(type, u)
      PROVE  Behind(x)'
  <2>1. /\ web_emitted' = web_emitted + 1
        /\ Len(web_queue') \in {Len(web_queue), Len(web_queue) + 1}
        /\ \A i \in 1..Len(web_queue) : web_queue'[i] = web_queue[i]
        /\ Len(web_queue') = Len(web_queue) + 1 =>
             web_queue'[Len(web_queue) + 1].n = web_emitted + 1
        /\ UNCHANGED <<web_writing, web_wire>>
    BY <1>0, <1>2, EmitQueues
  <2>2. x <= web_emitted' /\ x <= web_emitted + 1
    BY <1>0, <2>1 DEF Behind, LineTypes
  <2>3. \A i \in 1..Len(web_queue') : i \in 1..Len(web_queue) \/ i = Len(web_queue) + 1
    BY <1>0, <2>1 DEF LineTypes
  <2> QED BY <2>1, <2>2, <2>3 DEF Behind
<1>3. CASE Web!PusherTake
  <2>1. /\ web_queue \in Seq(EventOf) /\ web_queue # <<>> /\ web_queue' = Tail(web_queue)
        /\ web_writing' = Head(web_queue) /\ UNCHANGED <<web_emitted, web_wire>>
    BY <1>0, <1>3 DEF Web!PusherTake, LineTypes
  <2>2. /\ 1 \in 1..Len(web_queue) /\ Head(web_queue) = web_queue[1]
        /\ \A i \in 1..Len(Tail(web_queue)) :
             i + 1 \in 1..Len(web_queue) /\ Tail(web_queue)[i] = web_queue[i + 1]
    BY <2>1, TailShifts
  <2> QED BY <2>1, <2>2 DEF Behind
<1>4. ASSUME NEW ok \in BOOLEAN, Web!WriteEvent(ok) PROVE Behind(x)'
  <2>1. web_writing # Web!NoEvent /\ web_writing \in EventOf /\ web_conn \in Conns
    <3>1. web_writing # Web!NoEvent /\ web_conn >= 1
      BY <1>4 DEF Web!WriteEvent, LineInv, PusherInOrder
    <3> QED BY <1>0, <3>1 DEF LineTypes, Conns
  <2>2. /\ web_writing' \in {web_writing, Web!NoEvent} /\ UNCHANGED <<web_emitted, web_queue>>
        /\ \/ UNCHANGED web_wire
           \/ web_wire' = [web_wire EXCEPT ![web_conn] = @ \o <<web_writing>>]
    BY <1>4 DEF Web!WriteEvent, Web!Deliver
  <2>3. \A c \in Conns : \A i \in 1..Len(web_wire'[c]) :
          (i \in 1..Len(web_wire[c]) /\ web_wire'[c][i] = web_wire[c][i])
          \/ web_wire'[c][i] = web_writing
    <3> SUFFICES ASSUME NEW c \in Conns, NEW i \in 1..Len(web_wire'[c])
                 PROVE  (i \in 1..Len(web_wire[c]) /\ web_wire'[c][i] = web_wire[c][i])
                        \/ web_wire'[c][i] = web_writing
      OBVIOUS
    <3>1. web_wire[c] \in Seq(EventOf)
      BY <1>0 DEF LineTypes
    <3>2. web_wire'[c] = web_wire[c] \/ web_wire'[c] = web_wire[c] \o <<web_writing>>
      BY <1>0, <2>2 DEF LineTypes
    <3> QED BY <2>1, <3>1, <3>2
  <2> QED BY <2>1, <2>2, <2>3 DEF Behind
<1>5. CASE Web!PusherClose
  BY <1>5 DEF Web!PusherClose, Behind
<1>6. CASE Web!ReadLine
  <2>1. /\ web_serving \in Conns /\ web_wire[web_serving] # <<>>
        /\ web_wire[web_serving] \in Seq(EventOf)
        /\ web_wire' = [web_wire EXCEPT ![web_serving] = Tail(@)]
        /\ UNCHANGED <<web_emitted, web_queue, web_writing>>
    BY SMTT(30), <1>0, <1>6 DEF Web!ReadLine, LineTypes, Conns
  <2>2. \A i \in 1..Len(Tail(web_wire[web_serving])) :
          i + 1 \in 1..Len(web_wire[web_serving])
          /\ Tail(web_wire[web_serving])[i] = web_wire[web_serving][i + 1]
    BY <2>1, TailShifts
  <2>3. /\ \A c \in Conns : c # web_serving => web_wire'[c] = web_wire[c]
        /\ web_wire'[web_serving] = Tail(web_wire[web_serving])
    BY <1>0, <2>1 DEF LineTypes
  <2>4. \A c \in Conns : \A i \in 1..Len(web_wire'[c]) :
          \E j \in 1..Len(web_wire[c]) : web_wire'[c][i] = web_wire[c][j]
    BY <2>2, <2>3
  <2> QED BY <2>1, <2>4 DEF Behind
<1>7. CASE Web!JobEvent
  <2>1. /\ web_queue \in Seq(EventOf) /\ web_queue # <<>> /\ web_queue' = Tail(web_queue)
        /\ UNCHANGED <<web_emitted, web_writing, web_wire>>
    BY <1>0, <1>7 DEF Web!JobEvent, LineTypes
  <2>2. \A i \in 1..Len(Tail(web_queue)) :
          i + 1 \in 1..Len(web_queue) /\ Tail(web_queue)[i] = web_queue[i + 1]
    BY <2>1, TailShifts
  <2> QED BY <2>1, <2>2 DEF Behind
<1> QED BY <1>1, <1>2, <1>3, <1>4, <1>5, <1>6, <1>7, StepsOfLines DEF linesOfWeb,
           Web!PusherStart, Web!Reconnect, Web!Accept, Web!Hangup
(* The event that the store takes is behind all others on their way, and   *)
(* not behind what was behind it.                                          *)
LEMMA HandledIsBehind ==
  ASSUME LineInv, Web!ReadLine \/ Web!JobEvent
  PROVE  /\ web_publish' \in EventOf /\ Behind(web_publish.n)'
         /\ \A x \in Nat : Behind(x) => x <= web_publish'.n
<1> USE DEF Web!runVars, Web!pushVars, Web!lineVars
<1>0. LineTypes
  BY DEF LineInv
<1>1. CASE Web!ReadLine
  <2> DEFINE q == web_wire[web_serving]
  <2>1. /\ web_serving \in Conns /\ q # <<>> /\ q \in Seq(EventOf)
        /\ web_wire' = [web_wire EXCEPT ![web_serving] = Tail(@)]
        /\ web_publish' = Head(q)
        /\ UNCHANGED <<web_emitted, web_queue, web_writing>>
    BY <1>0, <1>1 DEF Web!ReadLine, LineTypes, Conns
  <2>2. /\ \A c \in Conns : c # web_serving => web_wire'[c] = web_wire[c]
        /\ web_wire'[web_serving] = Tail(q)
    BY <1>0, <2>1 DEF LineTypes
  <2> HIDE DEF q
  <2>3. /\ 1 \in 1..Len(q) /\ Head(q) = q[1] /\ Head(q) \in EventOf
        /\ \A i \in 1..Len(Tail(q)) : i + 1 \in 1..Len(q) /\ Tail(q)[i] = q[i + 1]
    BY <2>1, TailShifts
  <2>4. \A i \in 1..Len(q) : 1 < i => q[1].n <= q[i].n
    BY <2>1, <2>3 DEF LineInv, NumbersInOrder, q
  <2>5. \A c \in Conns : \A i \in 1..Len(web_wire'[c]) : q[1].n <= web_wire'[c][i].n
    <3> SUFFICES ASSUME NEW c \in Conns, NEW i \in 1..Len(web_wire'[c])
                 PROVE  q[1].n <= web_wire'[c][i].n
      OBVIOUS
    <3>1. CASE c = web_serving
      <4>1. i + 1 \in 1..Len(q) /\ 1 < i + 1 /\ web_wire'[c][i] = q[i + 1]
        BY <2>2, <2>3, <3>1
      <4> QED BY <2>4, <4>1
    <3>2. CASE c # web_serving
      <4>1. web_wire'[c] = web_wire[c] /\ web_wire[c] # <<>>
        <5>1. web_wire[c] \in Seq(EventOf)
          BY <1>0 DEF LineTypes
        <5> QED BY <2>2, <3>2, <5>1
      <4>2. web_serving < c
        BY <3>2, <4>1 DEF LineInv, AcceptInOrder, Waits
      <4> QED BY <2>1, <2>3, <4>1, <4>2 DEF LineInv, NumbersInOrder, q
    <3> QED BY <3>1, <3>2
  <2>6. Behind(web_publish.n)'
    <3>1. /\ q[1].n <= web_emitted
          /\ \A j \in 1..Len(web_queue) : q[1].n <= web_queue[j].n
          /\ web_writing # Web!NoEvent => q[1].n <= web_writing.n
      BY <2>1, <2>3 DEF LineInv, NumbersInOrder, q
    <3> QED BY <2>1, <2>3, <2>5, <3>1 DEF Behind
  <2>7. \A x \in Nat : Behind(x) => x <= web_publish'.n
    BY <2>1, <2>3 DEF Behind, q
  <2> QED BY <2>1, <2>3, <2>6, <2>7
<1>2. CASE Web!JobEvent
  <2>1. /\ web_queue \in Seq(EventOf) /\ web_queue # <<>> /\ web_queue' = Tail(web_queue)
        /\ web_publish' = Head(web_queue) /\ web_source = "job"
        /\ UNCHANGED <<web_emitted, web_writing, web_wire>>
    BY <1>0, <1>2 DEF Web!JobEvent, LineTypes
  <2>2. /\ 1 \in 1..Len(web_queue) /\ Head(web_queue) = web_queue[1] /\ Head(web_queue) \in EventOf
        /\ \A i \in 1..Len(Tail(web_queue)) :
             i + 1 \in 1..Len(web_queue) /\ Tail(web_queue)[i] = web_queue[i + 1]
    BY <2>1, TailShifts
  <2>3. web_writing = Web!NoEvent /\ web_dialled = 0
    BY <2>1 DEF LineInv, PusherInOrder
  <2>4. \A c \in Conns : web_wire[c] = <<>>
    <3> SUFFICES ASSUME NEW c \in Conns, web_wire[c] # <<>> PROVE FALSE
      OBVIOUS
    <3>1. Waits(c) /\ 0 < c /\ c \in Nat
      BY DEF LineInv, AcceptInOrder, Conns
    <3>2. \A i \in 1..Len(web_backlog) : web_backlog[i] <= 0 /\ 0 < web_backlog[i]
                                         /\ web_backlog[i] \in Nat
      BY <1>0, <2>3, BacklogIsPositive DEF LineInv, AcceptInOrder
    <3>3. web_serving <= 0
      BY <2>3 DEF LineInv, AcceptInOrder
    <3> QED BY <3>1, <3>2, <3>3 DEF Waits
  <2>5. Behind(web_publish.n)'
    <3>1. /\ web_queue[1].n <= web_emitted
          /\ \A i \in 1..Len(Tail(web_queue)) : web_queue[1].n <= Tail(web_queue)[i].n
      BY <2>2 DEF LineInv, NumbersInOrder
    <3> QED BY <2>1, <2>2, <2>3, <2>4, <3>1 DEF Behind
  <2>6. \A x \in Nat : Behind(x) => x <= web_publish'.n
    BY <2>1, <2>2 DEF Behind
  <2> QED BY <2>1, <2>2, <2>5, <2>6
<1> QED BY <1>1, <1>2

LEMMA StepsOfPublish ==
  ASSUME [Web!Next]_(Web!vars)
  PROVE  Web!ReadLine \/ Web!JobEvent
         \/ (web_publish' \in {web_publish, Web!NoEvent} /\ web_store' = web_store)
<1> USE DEF Web!vars, Web!storeVars
<1>1. CASE UNCHANGED Web!vars
  BY <1>1
<1>2. CASE Web!Broadcast \/ Web!HubExit \/ Web!Stop \/ Web!Accept \/ Web!Hangup
  BY <1>2 DEF Web!Broadcast, Web!HubExit, Web!Stop, Web!SocketStop, Web!HubStop, Web!HTTPShutdown,
              Web!Accept, Web!Hangup
<1>3. ASSUME NEW b \in Browsers,
             Web!Open(b) \/ Web!Handler(b) \/ Web!Load(b) \/ Web!Leave(b) \/ Web!Return(b)
      PROVE  web_publish' = web_publish /\ web_store' = web_store
  BY <1>3 DEF Web!Open, Web!Handler, Web!Register, Web!Serve, Web!ServeEnd, Web!Unregister,
              Web!Load, Web!Leave, Web!Return
<1>4. CASE Web!Pusher
  BY <1>4 DEF Web!Pusher, Web!PusherStart, Web!PusherTake, Web!Reconnect, Web!PusherClose,
              Web!WriteEvent
<1>5. ASSUME NEW u \in Units, NEW type \in {"orch.started", "shown", "hidden"}, Web!Emit(type, u)
      PROVE  web_publish' = web_publish /\ web_store' = web_store
  BY <1>5 DEF Web!Emit
<1> QED BY <1>1, <1>2, <1>3, <1>4, <1>5 DEF Web!Next

(* What may be shown may be shown from then on.                            *)
LEMMA ShownStays ==
  ASSUME LineInv, [Web!Next]_(Web!vars), NEW x \in Nat, Shown(x)
  PROVE  Shown(x)'
<1>1. Behind(x)'
  BY BehindStays DEF Shown
<1>2. CASE Web!ReadLine \/ Web!JobEvent
  BY <1>1, <1>2, HandledIsBehind DEF Shown
<1>3. CASE web_publish' \in {web_publish, Web!NoEvent}
  BY <1>1, <1>3 DEF Shown
<1> QED BY <1>2, <1>3, StepsOfPublish
showVars == <<web_clients, web_events, web_handler, web_opened, web_page, web_view>>

(* The steps that change what a browser shows, hears of or will hear of.   *)
LEMMA StepsOfShow ==
  ASSUME [Web!Next]_(Web!vars)
  PROVE  \/ Web!Broadcast \/ Web!HubExit
         \/ \E b \in Browsers : Web!Open(b) \/ Web!Handler(b) \/ Web!Load(b) \/ Web!Leave(b)
                                \/ Web!Return(b)
         \/ UNCHANGED showVars
<1> USE DEF showVars, Web!vars, Web!hubVars, Web!pageVars
<1>1. CASE UNCHANGED Web!vars
  BY <1>1
<1>2. CASE Web!ReadLine \/ Web!JobEvent \/ Web!Accept \/ Web!Hangup
  BY <1>2 DEF Web!ReadLine, Web!JobEvent, Web!Accept, Web!Hangup
<1>3. CASE Web!Stop
  BY <1>3 DEF Web!Stop, Web!SocketStop, Web!HubStop, Web!HTTPShutdown
<1>4. CASE Web!Pusher
  BY <1>4 DEF Web!Pusher, Web!PusherStart, Web!PusherTake, Web!Reconnect, Web!PusherClose,
              Web!WriteEvent
<1>5. ASSUME NEW u \in Units, NEW type \in {"orch.started", "shown", "hidden"}, Web!Emit(type, u)
      PROVE  UNCHANGED showVars
  BY <1>5 DEF Web!Emit
<1> QED BY <1>1, <1>2, <1>3, <1>4, <1>5 DEF Web!Next

LEMMA ClientIsOne ==
  ASSUME ShowTypes, NEW b \in Browsers, web_opened[b] >= 1
  PROVE  Web!Client(b) \in Web!Clients
<1>1. web_opened[b] \in 1..MaxClients
  BY Parameters DEF ShowTypes, Web!WebAssumption
<1> QED BY <1>1 DEF Web!Client, Web!Clients

(* What the store and the publisher hold may still be shown after a step,  *)
(* and so may what the browsers and the channels held before it.           *)
LEMMA ShownFacts ==
  ASSUME WebInv, [Web!Next]_(Web!vars)
  PROVE  /\ web_publish' \in EventOf \union {Web!NoEvent} /\ web_store' \in [Units -> Nat]
         /\ web_publish' # Web!NoEvent => Behind(web_publish.n)'
         /\ \A u \in Units : Shown(web_store[u])'
         /\ \A u \in Units : web_store'[u] >= web_store[u]
         /\ \A u \in Units : \A x \in Nat : x = web_store[u] => Shown(x)'
         /\ \A b \in Browsers, u \in Units : \A x \in Nat : x = web_view[b][u] => Shown(x)'
         /\ \A c \in Web!Clients : \A i \in 1..Len(web_events[c]) :
              \A x \in Nat : x = web_events[c][i].n => Shown(x)'
         /\ web_publish # Web!NoEvent => \A x \in Nat : x = web_publish.n => Shown(x)'
<1> USE DEF WebInv
<1>1. \A x \in Nat : Shown(x) => Shown(x)'
  BY ShownStays
<1>2. \A e \in EventOf : e.n \in Nat
  BY DEF EventOf
<1>3. \A u \in Units : web_store[u] \in Nat
  BY DEF ShowTypes
<1>4. /\ \A u \in Units : \A x \in Nat : x = web_store[u] => Shown(x)'
      /\ \A b \in Browsers, u \in Units : \A x \in Nat : x = web_view[b][u] => Shown(x)'
      /\ \A c \in Web!Clients : \A i \in 1..Len(web_events[c]) :
           \A x \in Nat : x = web_events[c][i].n => Shown(x)'
  BY <1>1 DEF ShownInOrder
<1>5. ASSUME web_publish # Web!NoEvent, NEW x \in Nat, x = web_publish.n PROVE Shown(x)'
  <2>1. Shown(x)
    BY <1>5 DEF ShownInOrder, Shown
  <2> QED BY <1>1, <2>1
<1>6. CASE Web!ReadLine \/ Web!JobEvent
  <2>1. /\ web_publish' \in EventOf /\ Behind(web_publish.n)'
        /\ \A x \in Nat : Behind(x) => x <= web_publish'.n
    BY <1>6, HandledIsBehind
  <2>2. web_publish'.n \in Nat
    BY <1>2, <2>1
  <2>3. Shown(web_publish.n)'
    BY <2>1, <2>2 DEF Shown
  <2>4. \A u \in Units : web_store[u] <= web_publish'.n
    BY <1>3, <2>1 DEF ShownInOrder, Shown
  <2>5. web_store' = [u \in Units |->
                       IF web_publish'.type = "orch.started" \/ (web_publish'.unit = u /\ web_store[u] # 0)
                       THEN web_publish'.n ELSE web_store[u]]
    BY <1>6 DEF Web!ReadLine, Web!JobEvent, Web!HandleEvent
  <2>6. \A u \in Units : web_store'[u] \in {web_publish'.n, web_store[u]}
    BY <2>5
  <2>7. web_store' \in [Units -> Nat]
    BY <1>3, <2>2, <2>5
  <2>8. \A u \in Units : Shown(web_store[u])'
    BY <1>3, <1>4, <2>3, <2>6
  <2>9. \A u \in Units : web_store'[u] >= web_store[u]
    BY <1>3, <2>2, <2>4, <2>6
  <2> QED BY <1>4, <1>5, <2>1, <2>7, <2>8, <2>9
<1>7. CASE web_publish' \in {web_publish, Web!NoEvent} /\ web_store' = web_store
  <2>1. web_publish' \in EventOf \union {Web!NoEvent} /\ web_store' \in [Units -> Nat]
    BY <1>7 DEF ShowTypes
  <2>2. ASSUME web_publish' # Web!NoEvent PROVE Behind(web_publish.n)'
    <3>1. web_publish' = web_publish /\ web_publish.n \in Nat /\ Behind(web_publish.n)
      BY <1>2, <1>7, <2>2 DEF ShowTypes, ShownInOrder
    <3>2. \A x \in Nat : Behind(x) => Behind(x)'
      BY BehindStays
    <3>3. \A x \in Nat : x = web_publish.n => Behind(x)'
      BY <3>1, <3>2
    <3> QED BY <3>1, <3>3
  <2>3. \A u \in Units : Shown(web_store[u])'
    BY <1>3, <1>4, <1>7
  <2>4. \A u \in Units : web_store'[u] >= web_store[u]
    BY <1>3, <1>7
  <2> QED BY <1>4, <1>5, <2>1, <2>2, <2>3, <2>4
<1> QED BY <1>6, <1>7, StepsOfPublish
ShowInv == ShowTypes /\ ShownInOrder /\ ChannelsInOrder
ViewsGrow == \A b \in Browsers, u \in Units : web_view'[b][u] >= web_view[b][u]

(* It is left to look at what browsers show and what channels hold.        *)
LEMMA ShowNeeds ==
  ASSUME WebInv, [Web!Next]_(Web!vars),
         /\ web_clients' \subseteq Web!Clients
         /\ web_events' \in [Web!Clients -> Seq(EventOf)]
         /\ \A c \in Web!Clients : Len(web_events'[c]) <= ClientCap
         /\ web_handler' \in [Browsers -> {"none", "register", "serving", "unregister"}]
         /\ web_opened' \in [Browsers -> 0..MaxClients]
         /\ web_page' \in [Browsers -> {"new", "loaded", "left"}]
         /\ web_view' \in [Browsers -> [Units -> Nat]],
         \A b \in Browsers, u \in Units : Shown(web_view[b][u])',
         \A c \in Web!Clients : \A i \in 1..Len(web_events'[c]) : Shown(web_events[c][i].n)'
  PROVE  ShowTypes' /\ ShownInOrder'
<1>1. /\ web_publish' \in EventOf \union {Web!NoEvent} /\ web_store' \in [Units -> Nat]
      /\ web_publish' # Web!NoEvent => Behind(web_publish.n)'
      /\ \A u \in Units : Shown(web_store[u])'
  BY ShownFacts
<1>2. ShowTypes'
  BY <1>1 DEF ShowTypes
<1>3. ShownInOrder'
  BY <1>1 DEF ShownInOrder
<1> QED BY <1>2, <1>3

LEMMA ShowStep ==
  ASSUME WebInv, [Web!Next]_(Web!vars)
  PROVE  ShowInv' /\ ViewsGrow
<1> USE DEF Web!hubVars, Web!pageVars
<1>1. /\ ShowTypes /\ ShownInOrder /\ ChannelsInOrder
      /\ MaxClients \in Nat /\ ClientCap \in Nat \ {0}
  BY Parameters DEF WebInv, Web!WebAssumption
<1>2. /\ \A b \in Browsers, u \in Units : web_view[b][u] \in Nat
      /\ \A c \in Web!Clients : web_events[c] \in Seq(EventOf) /\ Len(web_events[c]) \in Nat
      /\ \A c \in Web!Clients : \A i \in 1..Len(web_events[c]) :
           web_events[c][i] \in EventOf /\ web_events[c][i].n \in Nat
  <2>1. \A e \in EventOf : e.n \in Nat
    BY DEF EventOf
  <2>2. \A c \in Web!Clients : web_events[c] \in Seq(EventOf)
    BY <1>1 DEF ShowTypes
  <2>3. \A c \in Web!Clients : \A i \in 1..Len(web_events[c]) : web_events[c][i] \in EventOf
    BY <2>2
  <2>4. \A b \in Browsers, u \in Units : web_view[b][u] \in Nat
    BY <1>1 DEF ShowTypes
  <2> QED BY <2>1, <2>2, <2>3, <2>4
<1>3. /\ \A u \in Units : \A x \in Nat : x = web_store[u] => Shown(x)'
      /\ \A b \in Browsers, u \in Units : \A x \in Nat : x = web_view[b][u] => Shown(x)'
      /\ \A c \in Web!Clients : \A i \in 1..Len(web_events[c]) :
           \A x \in Nat : x = web_events[c][i].n => Shown(x)'
      /\ web_publish # Web!NoEvent => \A x \in Nat : x = web_publish.n => Shown(x)'
  BY ShownFacts
<1>4. ASSUME UNCHANGED web_view
      PROVE  ViewsGrow /\ \A b \in Browsers, u \in Units : Shown(web_view[b][u])'
  BY <1>2, <1>3, <1>4 DEF ViewsGrow
<1>5. ASSUME UNCHANGED web_events
      PROVE  \A c \in Web!Clients : \A i \in 1..Len(web_events'[c]) : Shown(web_events[c][i].n)'
  BY <1>2, <1>3, <1>5
<1>6. CASE UNCHANGED showVars
  <2> USE <1>6 DEF showVars
  <2>1. ShowTypes' /\ ShownInOrder'
    BY <1>1, <1>4, <1>5, ShowNeeds DEF ShowTypes
  <2>2. ChannelsInOrder'
    BY <1>1 DEF ChannelsInOrder, Web!Client
  <2> QED BY <1>4, <2>1, <2>2 DEF ShowInv
<1>7. CASE Web!HubExit
  <2>1. web_clients' = {} /\ UNCHANGED <<web_events, web_handler, web_opened, web_page, web_view>>
    BY <1>7 DEF Web!HubExit
  <2>2. ShowTypes' /\ ShownInOrder'
    BY <1>1, <1>4, <1>5, <2>1, ShowNeeds DEF ShowTypes
  <2>3. ChannelsInOrder'
    BY <1>1, <2>1 DEF ChannelsInOrder, Web!Client
  <2> QED BY <1>4, <2>1, <2>2, <2>3 DEF ShowInv
<1>8. ASSUME NEW b \in Browsers, Web!Open(b) PROVE ShowInv' /\ ViewsGrow
  <2>1. /\ web_opened' = [web_opened EXCEPT ![b] = @ + 1] /\ web_opened[b] < MaxClients
        /\ web_handler' = [web_handler EXCEPT ![b] = "register"] /\ web_page[b] = "loaded"
        /\ UNCHANGED <<web_clients, web_events, web_page, web_view>>
    BY <1>8 DEF Web!Open
  <2>2. /\ web_opened' \in [Browsers -> 0..MaxClients] /\ web_opened[b] \in 0..MaxClients
        /\ web_handler' \in [Browsers -> {"none", "register", "serving", "unregister"}]
    BY <1>1, <2>1 DEF ShowTypes
  <2>3. ShowTypes' /\ ShownInOrder'
    BY <1>1, <1>4, <1>5, <2>1, <2>2, ShowNeeds DEF ShowTypes
  <2>4. ChannelsInOrder'
    <3>1. \A a \in Browsers : a # b => web_opened'[a] = web_opened[a] /\ web_handler'[a] = web_handler[a]
      BY <1>1, <2>1 DEF ShowTypes
    <3>2. web_opened'[b] = web_opened[b] + 1 /\ web_opened'[b] \in 1..MaxClients
      BY <1>1, <2>1, <2>2 DEF ShowTypes
    <3>3. web_events[<<b, web_opened'[b]>>] = <<>>
      BY <1>1, <2>2, <3>2 DEF ChannelsInOrder
    <3>4. \A a \in Browsers : \A k \in 1..MaxClients :
            k > web_opened'[a] => web_events[<<a, k>>] = <<>> /\ <<a, k>> \notin web_clients
      BY <1>1, <2>2, <3>1, <3>2 DEF ChannelsInOrder
    <3>5. \A a \in Browsers :
            /\ web_page[a] = "new" => web_opened'[a] = 0 /\ \A u \in Units : web_view[a][u] = 0
            /\ web_handler'[a] # "none" => web_opened'[a] >= 1
            /\ web_opened'[a] >= 1 =>
                 \A u \in Units : \A i \in 1..Len(web_events[Web!Client(a)']) :
                   web_view[a][u] <= web_events[Web!Client(a)'][i].n
      <4> SUFFICES ASSUME NEW a \in Browsers
                   PROVE  /\ web_page[a] = "new" =>
                               web_opened'[a] = 0 /\ \A u \in Units : web_view[a][u] = 0
                          /\ web_handler'[a] # "none" => web_opened'[a] >= 1
                          /\ web_opened'[a] >= 1 =>
                               \A u \in Units : \A i \in 1..Len(web_events[Web!Client(a)']) :
                                 web_view[a][u] <= web_events[Web!Client(a)'][i].n
        OBVIOUS
      <4>1. CASE a = b
        BY <2>1, <3>2, <3>3, <4>1 DEF Web!Client
      <4>2. CASE a # b
        BY <1>1, <3>1, <4>2 DEF ChannelsInOrder, Web!Client
      <4> QED BY <4>1, <4>2
    <3> QED BY <1>1, <2>1, <3>4, <3>5 DEF ChannelsInOrder
  <2> QED BY <1>4, <2>1, <2>3, <2>4 DEF ShowInv
<1>9. ASSUME NEW b \in Browsers,
             Web!Register(b) \/ Web!ServeEnd(b) \/ Web!Unregister(b) \/ Web!Leave(b) \/ Web!Return(b)
      PROVE  ShowInv' /\ ViewsGrow
  <2>1. UNCHANGED <<web_events, web_opened, web_view>>
    BY <1>9 DEF Web!Register, Web!ServeEnd, Web!Unregister, Web!Leave, Web!Return
  <2>2. /\ web_handler' \in [Browsers -> {"none", "register", "serving", "unregister"}]
        /\ web_page' \in [Browsers -> {"new", "loaded", "left"}]
        /\ \A a \in Browsers : web_handler'[a] # "none" => web_handler[a] # "none"
        /\ \A a \in Browsers : web_page'[a] = "new" => web_page[a] = "new"
    BY <1>1, <1>9 DEF ShowTypes, Web!Register, Web!ServeEnd, Web!Unregister, Web!Leave, Web!Return
  <2>3. web_clients' \subseteq web_clients \/ (web_handler[b] # "none"
                                              /\ web_clients' = web_clients \union {Web!Client(b)})
    BY <1>9 DEF Web!Register, Web!ServeEnd, Web!Unregister, Web!Leave, Web!Return
  <2>4. web_clients' \subseteq Web!Clients
    <3>1. web_handler[b] # "none" => Web!Client(b) \in Web!Clients
      BY <1>1, ClientIsOne DEF ChannelsInOrder
    <3> QED BY <1>1, <2>3, <3>1 DEF ShowTypes
  <2>5. ShowTypes' /\ ShownInOrder'
    BY <1>1, <1>4, <1>5, <2>1, <2>2, <2>4, ShowNeeds DEF ShowTypes
  <2>6. ChannelsInOrder'
    <3>1. \A a \in Browsers : \A k \in 1..MaxClients :
            k > web_opened[a] => web_events[<<a, k>>] = <<>> /\ <<a, k>> \notin web_clients'
      <4> SUFFICES ASSUME NEW a \in Browsers, NEW k \in 1..MaxClients, k > web_opened[a]
                   PROVE  web_events[<<a, k>>] = <<>> /\ <<a, k>> \notin web_clients'
        OBVIOUS
      <4>1. web_events[<<a, k>>] = <<>> /\ <<a, k>> \notin web_clients
        BY <1>1 DEF ChannelsInOrder
      <4>2. web_opened[a] \in Nat
        BY <1>1 DEF ShowTypes
      <4>3. <<a, k>> # Web!Client(b)
        BY <4>2 DEF Web!Client
      <4> QED BY <2>3, <4>1, <4>3
    <3>2. \A a \in Browsers :
            /\ web_page'[a] = "new" => web_opened[a] = 0 /\ \A u \in Units : web_view[a][u] = 0
            /\ web_handler'[a] # "none" => web_opened[a] >= 1
      BY <1>1, <2>2 DEF ChannelsInOrder
    <3>3. \A a \in Browsers : Web!Client(a)' = Web!Client(a)
      BY <2>1 DEF Web!Client
    <3> QED BY <1>1, <2>1, <3>1, <3>2, <3>3 DEF ChannelsInOrder
  <2> QED BY <1>4, <2>1, <2>5, <2>6 DEF ShowInv
<1>10. ASSUME NEW b \in Browsers, Web!Load(b) PROVE ShowInv' /\ ViewsGrow
  <2>1. /\ web_page[b] = "new" /\ web_page' = [web_page EXCEPT ![b] = "loaded"]
        /\ web_view' = [web_view EXCEPT ![b] = web_store]
        /\ UNCHANGED <<web_clients, web_events, web_handler, web_opened>>
    BY <1>10 DEF Web!Load, Web!Snapshot
  <2>2. /\ web_page' \in [Browsers -> {"new", "loaded", "left"}]
        /\ web_view' \in [Browsers -> [Units -> Nat]]
        /\ web_view'[b] = web_store /\ \A a \in Browsers : a # b => web_view'[a] = web_view[a]
        /\ \A u \in Units : web_store[u] \in Nat
        /\ \A a \in Browsers : web_page'[a] = "new" => web_page[a] = "new" /\ a # b
    BY <1>1, <2>1 DEF ShowTypes
  <2>3. \A a \in Browsers, u \in Units : Shown(web_view[a][u])'
    <3> SUFFICES ASSUME NEW a \in Browsers, NEW u \in Units PROVE Shown(web_view[a][u])'
      OBVIOUS
    <3>1. CASE a = b
      BY <1>3, <2>2, <3>1
    <3>2. CASE a # b
      BY <1>2, <1>3, <2>2, <3>2
    <3> QED BY <3>1, <3>2
  <2>4. ShowTypes' /\ ShownInOrder'
    BY <1>1, <1>5, <2>1, <2>2, <2>3, ShowNeeds DEF ShowTypes
  <2>5. web_opened[b] = 0 /\ \A u \in Units : web_view[b][u] = 0
    BY <1>1, <2>1 DEF ChannelsInOrder
  <2>6. ViewsGrow
    <3> SUFFICES ASSUME NEW a \in Browsers, NEW u \in Units PROVE web_view'[a][u] >= web_view[a][u]
      BY DEF ViewsGrow
    <3>1. CASE a = b
      BY <2>2, <2>5, <3>1
    <3>2. CASE a # b
      BY <1>2, <2>2, <3>2
    <3> QED BY <3>1, <3>2
  <2>7. ChannelsInOrder'
    <3>1. \A a \in Browsers : Web!Client(a)' = Web!Client(a)
      BY <2>1 DEF Web!Client
    <3>2. \A a \in Browsers : web_opened[a] >= 1 => web_view'[a] = web_view[a]
      BY <2>2, <2>5
    <3>3. \A a \in Browsers : web_page'[a] = "new" =>
            web_opened[a] = 0 /\ \A u \in Units : web_view'[a][u] = 0
      BY <1>1, <2>2 DEF ChannelsInOrder
    <3> QED BY <1>1, <2>1, <3>1, <3>2, <3>3 DEF ChannelsInOrder
  <2> QED BY <2>4, <2>6, <2>7 DEF ShowInv
<1>11. ASSUME NEW b \in Browsers, Web!Serve(b) PROVE ShowInv' /\ ViewsGrow
  <2> DEFINE c == Web!Client(b)
             q == web_events[c]
  <2>1. /\ web_opened[b] >= 1 /\ c \in Web!Clients /\ q # <<>> /\ q \in Seq(EventOf)
        /\ web_events' = [web_events EXCEPT ![c] = Tail(q)]
        /\ web_view' = Web!Apply(b, Head(q))
        /\ UNCHANGED <<web_clients, web_handler, web_opened, web_page>>
    <3>1. web_opened[b] >= 1
      BY <1>1, <1>11 DEF Web!Serve, ChannelsInOrder
    <3>2. c \in Web!Clients
      BY <1>1, <3>1, ClientIsOne
    <3>3. web_events' = [web_events EXCEPT ![c] = Tail(q)]
      BY <1>11 DEF Web!Serve
    <3>4. q # <<>> /\ web_view' = Web!Apply(b, Head(q))
          /\ UNCHANGED <<web_clients, web_handler, web_opened, web_page>>
      BY <1>11 DEF Web!Serve
    <3>5. q \in Seq(EventOf)
      BY <1>2, <3>2
    <3> QED BY <3>1, <3>2, <3>3, <3>4, <3>5
  <2>2. /\ web_events'[c] = Tail(q) /\ \A d \in Web!Clients : d # c => web_events'[d] = web_events[d]
    BY <1>1, <2>1 DEF ShowTypes
  <2>3. \A u \in Units : \A i \in 1..Len(q) : web_view[b][u] <= q[i].n
    BY <1>1, <2>1 DEF ChannelsInOrder
  <2>4. \A i, j \in 1..Len(q) : i < j => q[i].n <= q[j].n
    BY <1>1, <2>1 DEF ChannelsInOrder
  <2>5. /\ \A i \in 1..Len(q) : q[i] \in EventOf /\ q[i].n \in Nat
        /\ \A i \in 1..Len(q) : \A x \in Nat : x = q[i].n => Shown(x)'
    BY <1>2, <1>3, <2>1
  <2>6. /\ 1 \in 1..Len(q) /\ Head(q) = q[1] /\ Head(q) \in EventOf
        /\ Tail(q) \in Seq(EventOf) /\ Len(Tail(q)) = Len(q) - 1 /\ Len(q) \in Nat
        /\ \A i \in 1..Len(Tail(q)) : i + 1 \in 1..Len(q) /\ Tail(q)[i] = q[i + 1]
    <3>1. q \in Seq(EventOf) /\ q # <<>>
      BY <2>1
    <3> HIDE DEF q
    <3> QED BY <3>1, TailShifts
  <2>7. /\ \A a \in Browsers, u \in Units :
             \/ web_view'[a][u] = web_view[a][u]
             \/ a = b /\ web_view'[a][u] = q[1].n
        /\ web_view' \in [Browsers -> [Units -> Nat]]
    <3>1. Head(q).unit \in Units /\ Head(q).n \in Nat
      BY <2>6 DEF EventOf
    <3>2. CASE web_view' = web_view
      BY <1>1, <3>2 DEF ShowTypes
    <3>3. CASE web_view' = [web_view EXCEPT ![b][Head(q).unit] = Head(q).n]
      <4> HIDE DEF q
      <4>1. web_view \in [Browsers -> [Units -> Nat]]
        BY <1>1 DEF ShowTypes
      <4> QED BY <2>6, <3>1, <3>3, <4>1
    <3> QED BY <2>1, <3>2, <3>3 DEF Web!Apply
  <2>8. web_view'[b] \in [Units -> Nat] /\ \A a \in Browsers : a # b => web_view'[a] = web_view[a]
    BY <1>1, <2>1, <2>7 DEF ShowTypes, Web!Apply
  <2>9. ViewsGrow
    BY <1>2, <2>3, <2>5, <2>6, <2>7 DEF ViewsGrow
  <2>10. \A a \in Browsers, u \in Units : Shown(web_view[a][u])'
    <3> HIDE DEF q
    <3> QED BY SMTT(30), <1>2, <1>3, <2>5, <2>6, <2>7
  <2>11. /\ web_events' \in [Web!Clients -> Seq(EventOf)]
         /\ \A d \in Web!Clients : Len(web_events'[d]) <= ClientCap
         /\ \A d \in Web!Clients : \A i \in 1..Len(web_events'[d]) :
              \E j \in 1..Len(web_events[d]) : web_events'[d][i] = web_events[d][j]
    <3>1. web_events' \in [Web!Clients -> Seq(EventOf)]
      BY <1>1, <2>1, <2>6 DEF ShowTypes
    <3>2. Len(web_events'[c]) <= ClientCap
      <4>1. Len(q) <= ClientCap
        BY <1>1, <2>1 DEF ShowTypes
      <4> HIDE DEF q
      <4> QED BY <1>1, <2>2, <2>6, <4>1
    <3>3. \A i \in 1..Len(web_events'[c]) : \E j \in 1..Len(q) : web_events'[c][i] = q[j]
      <4> HIDE DEF q
      <4> QED BY <2>2, <2>6
    <3> HIDE DEF c
    <3> QED BY <1>1, <2>2, <3>1, <3>2, <3>3 DEF ShowTypes
  <2>12. \A d \in Web!Clients : \A i \in 1..Len(web_events'[d]) : Shown(web_events[d][i].n)'
    <3> SUFFICES ASSUME NEW d \in Web!Clients, NEW i \in 1..Len(web_events'[d])
                 PROVE  Shown(web_events[d][i].n)'
      OBVIOUS
    <3>1. PICK j \in 1..Len(web_events[d]) : web_events'[d][i] = web_events[d][j]
      BY <2>11
    <3>2. web_events'[d][i].n = web_events[d][j].n /\ web_events[d][j].n \in Nat
      BY <1>2, <3>1
    <3> QED BY <1>3, <3>1, <3>2
  <2>13. ShowTypes' /\ ShownInOrder'
    BY <1>1, <2>1, <2>7, <2>10, <2>11, <2>12, ShowNeeds DEF ShowTypes
  <2>14. ChannelsInOrder'
    <3>1. \A d \in Web!Clients : \A i, j \in 1..Len(web_events'[d]) :
            i < j => web_events'[d][i].n <= web_events'[d][j].n
      <4> SUFFICES ASSUME NEW d \in Web!Clients, NEW i \in 1..Len(web_events'[d]),
                          NEW j \in 1..Len(web_events'[d]), i < j
                   PROVE  web_events'[d][i].n <= web_events'[d][j].n
        OBVIOUS
      <4>1. CASE d = c
        <5>1. /\ i + 1 \in 1..Len(q) /\ j + 1 \in 1..Len(q) /\ i + 1 < j + 1
              /\ web_events'[d][i] = q[i + 1] /\ web_events'[d][j] = q[j + 1]
          <6>1. web_events'[d] = Tail(q) /\ i \in 1..Len(Tail(q)) /\ j \in 1..Len(Tail(q))
            BY <2>2, <4>1
          <6> HIDE DEF q
          <6> QED BY <2>6, <6>1
        <5> QED BY <2>4, <5>1
      <4>2. CASE d # c
        BY <1>1, <2>2, <4>2 DEF ChannelsInOrder
      <4> QED BY <4>1, <4>2
    <3>2. \A a \in Browsers : Web!Client(a)' = Web!Client(a)
      BY <2>1 DEF Web!Client
    <3>3. \A a \in Browsers : a # b => Web!Client(a) # c
      BY DEF Web!Client
    <3>4. \A a \in Browsers : \A k \in 1..MaxClients :
            k > web_opened[a] => web_events'[<<a, k>>] = <<>> /\ <<a, k>> \notin web_clients
      <4> SUFFICES ASSUME NEW a \in Browsers, NEW k \in 1..MaxClients, k > web_opened[a]
                   PROVE  web_events'[<<a, k>>] = <<>> /\ <<a, k>> \notin web_clients
        OBVIOUS
      <4>1. web_opened[a] \in Nat /\ <<a, k>> \in Web!Clients
        BY <1>1 DEF ShowTypes, Web!Clients
      <4>2. <<a, k>> # c
        BY <4>1 DEF Web!Client
      <4> QED BY <1>1, <2>2, <4>1, <4>2 DEF ChannelsInOrder
    <3>5. ASSUME NEW a \in Browsers, web_opened[a] >= 1, NEW u \in Units,
                 NEW i \in 1..Len(web_events'[Web!Client(a)])
          PROVE  web_view'[a][u] <= web_events'[Web!Client(a)][i].n
      <4>1. CASE a = b
        <5>1. i + 1 \in 1..Len(q) /\ 1 < i + 1 /\ web_events'[c][i] = q[i + 1]
          <6>1. i \in 1..Len(Tail(q))
            BY <2>2, <3>5, <4>1
          <6> HIDE DEF q
          <6> QED BY <2>2, <2>6, <6>1
        <5>2. q[1].n <= q[i + 1].n
          BY <2>4, <2>6, <5>1
        <5>3. web_view[b][u] <= q[i + 1].n
          BY <2>3, <5>1
        <5> QED BY <2>7, <4>1, <5>1, <5>2, <5>3
      <4>2. CASE a # b
        <5>1. Web!Client(a) \in Web!Clients /\ web_events'[Web!Client(a)] = web_events[Web!Client(a)]
          BY <1>1, <2>2, <3>3, <3>5, <4>2, ClientIsOne
        <5> QED BY <1>1, <2>8, <3>5, <4>2, <5>1 DEF ChannelsInOrder
      <4> QED BY <4>1, <4>2
    <3>6. \A a \in Browsers : web_page[a] = "new" => a # b
      BY <1>1, <2>1 DEF ChannelsInOrder
    <3>7. \A a \in Browsers :
            /\ web_page[a] = "new" => web_opened[a] = 0 /\ \A u \in Units : web_view'[a][u] = 0
            /\ web_handler[a] # "none" => web_opened[a] >= 1
      BY <1>1, <2>8, <3>6 DEF ChannelsInOrder
    <3> HIDE DEF c, q
    <3> QED BY <2>1, <3>1, <3>2, <3>4, <3>5, <3>7 DEF ChannelsInOrder
  <2> QED BY <2>9, <2>13, <2>14 DEF ShowInv
<1>12. CASE Web!Broadcast
  <2>1. UNCHANGED <<web_clients, web_handler, web_opened, web_page, web_view>>
    BY <1>12 DEF Web!Broadcast
  <2>2. web_publish \in EventOf /\ web_publish # Web!NoEvent /\ web_publish.n \in Nat
    <3>1. \A e \in EventOf : e.n \in Nat
      BY DEF EventOf
    <3> QED BY <1>1, <1>12, <3>1 DEF Web!Broadcast, ShowTypes
  <2>3. \/ UNCHANGED web_events
        \/ web_events' = [c \in Web!Clients |->
                            IF c \in web_clients THEN Sent(web_events[c], <<web_publish>>, ClientCap)
                            ELSE web_events[c]]
    BY <1>12 DEF Web!Broadcast, Web!Sent, Sent
  <2>4. \A c \in Web!Clients :
          Sent(web_events[c], <<web_publish>>, ClientCap) =
            IF HasRoom(web_events[c], ClientCap) THEN Append(web_events[c], web_publish)
            ELSE web_events[c]
    <3> SUFFICES ASSUME NEW c \in Web!Clients
                 PROVE  Sent(web_events[c], <<web_publish>>, ClientCap) =
                          IF HasRoom(web_events[c], ClientCap)
                          THEN Append(web_events[c], web_publish) ELSE web_events[c]
      OBVIOUS
    <3>1. web_events[c] \in Seq(EventOf) /\ Len(web_events[c]) <= ClientCap /\ ClientCap \in Nat
      BY <1>1, <1>2 DEF ShowTypes
    <3> QED BY <2>2, <3>1, SentOne
  <2>5. \A c \in Web!Clients :
          \/ web_events'[c] = web_events[c]
          \/ /\ c \in web_clients /\ Len(web_events[c]) + 1 <= ClientCap
             /\ web_events'[c] = Append(web_events[c], web_publish)
    <3>1. \A c \in Web!Clients : HasRoom(web_events[c], ClientCap) => Len(web_events[c]) + 1 <= ClientCap
      BY <1>1, <1>2 DEF HasRoom
    <3> QED BY <2>3, <2>4, <3>1
  <2>6. ASSUME NEW c \in Web!Clients
        PROVE  /\ web_events'[c] \in Seq(EventOf) /\ Len(web_events'[c]) <= ClientCap
               /\ web_events'[c] # web_events[c] => c \in web_clients
               /\ \A i \in 1..Len(web_events'[c]) :
                    \/ i \in 1..Len(web_events[c]) /\ web_events'[c][i] = web_events[c][i]
                    \/ i = Len(web_events[c]) + 1 /\ web_events'[c][i] = web_publish
    <3> DEFINE q == web_events[c]
    <3>1. q \in Seq(EventOf) /\ Len(q) <= ClientCap
      BY <1>1, <1>2 DEF ShowTypes
    <3>2. CASE web_events'[c] = q
      BY <3>1, <3>2
    <3>3. CASE web_events'[c] = Append(q, web_publish) /\ Len(q) + 1 <= ClientCap /\ c \in web_clients
      <4>1. /\ Append(q, web_publish) \in Seq(EventOf) /\ Len(Append(q, web_publish)) = Len(q) + 1
            /\ \A i \in 1..Len(q) : Append(q, web_publish)[i] = q[i]
            /\ Append(q, web_publish)[Len(q) + 1] = web_publish
            /\ \A i \in 1..(Len(q) + 1) : i \in 1..Len(q) \/ i = Len(q) + 1
        <5> HIDE DEF q
        <5> QED BY <2>2, <3>1
      <4> QED BY <3>3, <4>1
    <3> QED BY <2>5, <3>2, <3>3
  <2>7. web_events' \in [Web!Clients -> Seq(EventOf)]
    <3>1. web_events' = [c \in Web!Clients |-> web_events'[c]]
      BY <1>1, <2>3 DEF ShowTypes
    <3> QED BY <2>6, <3>1
  <2>8. \A c \in Web!Clients : \A i \in 1..Len(web_events'[c]) : Shown(web_events[c][i].n)'
    <3> SUFFICES ASSUME NEW c \in Web!Clients, NEW i \in 1..Len(web_events'[c])
                 PROVE  Shown(web_events[c][i].n)'
      OBVIOUS
    <3>1. CASE i \in 1..Len(web_events[c]) /\ web_events'[c][i] = web_events[c][i]
      <4>1. web_events'[c][i].n = web_events[c][i].n /\ web_events[c][i].n \in Nat
        BY <1>2, <3>1
      <4> QED BY <1>3, <3>1, <4>1
    <3>2. CASE web_events'[c][i] = web_publish
      <4>1. web_events'[c][i].n = web_publish.n
        BY <3>2
      <4> QED BY <1>3, <2>2, <4>1
    <3> QED BY <2>6, <3>1, <3>2
  <2>9. ShowTypes' /\ ShownInOrder'
    BY <1>1, <1>4, <2>1, <2>6, <2>7, <2>8, ShowNeeds DEF ShowTypes
  <2>10. ChannelsInOrder'
    <3>1. \A c \in Web!Clients : \A i \in 1..Len(web_events[c]) : web_events[c][i].n <= web_publish.n
      BY <1>1, <2>2 DEF ShownInOrder, Shown
    <3>2. ASSUME NEW c \in Web!Clients, NEW i \in 1..Len(web_events'[c]),
                 NEW j \in 1..Len(web_events'[c]), i < j
          PROVE  web_events'[c][i].n <= web_events'[c][j].n
      <4>1. i \in 1..Len(web_events[c]) /\ web_events'[c][i] = web_events[c][i]
        <5>1. Len(web_events[c]) \in Nat /\ j <= Len(web_events[c]) + 1
          BY <1>2, <2>6
        <5> QED BY <2>6, <3>2, <5>1
      <4>2. CASE web_events'[c][j] = web_publish
        BY <3>1, <4>1, <4>2
      <4>3. CASE j \in 1..Len(web_events[c]) /\ web_events'[c][j] = web_events[c][j]
        BY <1>1, <3>2, <4>1, <4>3 DEF ChannelsInOrder
      <4> QED BY <2>6, <4>2, <4>3
    <3>3. \A a \in Browsers : \A k \in 1..MaxClients :
            k > web_opened[a] => web_events'[<<a, k>>] = <<>> /\ <<a, k>> \notin web_clients
      <4>1. \A a \in Browsers : \A k \in 1..MaxClients : <<a, k>> \in Web!Clients
        BY DEF Web!Clients
      <4>2. \A c \in Web!Clients : c \notin web_clients => web_events'[c] = web_events[c]
        BY <2>6
      <4> QED BY <1>1, <4>1, <4>2 DEF ChannelsInOrder
    <3>4. \A a \in Browsers : Web!Client(a)' = Web!Client(a)
      BY <2>1 DEF Web!Client
    <3>5. ASSUME NEW a \in Browsers, web_opened[a] >= 1, NEW u \in Units,
                 NEW i \in 1..Len(web_events'[Web!Client(a)])
          PROVE  web_view[a][u] <= web_events'[Web!Client(a)][i].n
      <4>1. Web!Client(a) \in Web!Clients
        BY <1>1, <3>5, ClientIsOne
      <4>2. CASE web_events'[Web!Client(a)][i] = web_publish
        BY <1>1, <2>2, <4>2 DEF ShownInOrder, Shown
      <4>3. CASE i \in 1..Len(web_events[Web!Client(a)])
                 /\ web_events'[Web!Client(a)][i] = web_events[Web!Client(a)][i]
        BY <1>1, <3>5, <4>3 DEF ChannelsInOrder
      <4> QED BY <2>6, <4>1, <4>2, <4>3
    <3> QED BY <1>1, <2>1, <3>2, <3>3, <3>4, <3>5 DEF ChannelsInOrder
  <2> QED BY <1>4, <2>1, <2>9, <2>10 DEF ShowInv
<1> QED BY <1>6, <1>7, <1>8, <1>9, <1>10, <1>11, <1>12, StepsOfShow DEF Web!Handler

LEMMA WebInit == Web!Init => WebInv
<1> SUFFICES ASSUME Web!Init PROVE WebInv
  OBVIOUS
<1> USE Parameters DEF Web!WebAssumption
<1>1. LineInv
  BY LineInit
<1>2. ShowTypes
  BY DEF Web!Init, Web!Nothing, ShowTypes
<1>3. Shown(0)
  BY <1>1, NumbersAreNat DEF Web!Init, Shown, Behind, Conns
<1>4. /\ web_publish = Web!NoEvent /\ \A u \in Units : web_store[u] = 0
      /\ \A b \in Browsers, u \in Units : web_view[b][u] = 0
      /\ \A c \in Web!Clients : web_events[c] = <<>>
      /\ web_clients = {} /\ \A b \in Browsers : web_opened[b] = 0 /\ web_handler[b] = "none"
  BY DEF Web!Init, Web!Nothing
<1>5. ShownInOrder
  BY <1>3, <1>4 DEF ShownInOrder
<1>6. ChannelsInOrder
  <2>1. \A b \in Browsers : \A k \in 1..MaxClients : <<b, k>> \in Web!Clients
    BY DEF Web!Clients
  <2> QED BY <1>4, <2>1 DEF ChannelsInOrder
<1> QED BY <1>1, <1>2, <1>5, <1>6 DEF WebInv

LEMMA WebSafe == Web!Spec => []WebInv
<1>1. WebInv /\ [Web!Next]_(Web!vars) => WebInv'
  BY LineStep, ShowStep DEF WebInv, ShowInv
<1> QED BY <1>1, WebInit, PTL DEF Web!Spec

(* Neither the store nor a page goes back to an earlier event of a unit,   *)
(* with any units, browsers, connections and capacities.                   *)
THEOREM ViewsNeverRevertHolds == AllSpec => ViewsNeverRevert
<1>1. WebInv /\ [Web!Next]_(Web!vars) =>
        [\A u \in Units : /\ web_store'[u] >= web_store[u]
                          /\ \A b \in Browsers : web_view'[b][u] >= web_view[b][u]]_(Web!vars)
  <2> SUFFICES ASSUME WebInv, [Web!Next]_(Web!vars)
               PROVE  \A u \in Units : /\ web_store'[u] >= web_store[u]
                                       /\ \A b \in Browsers : web_view'[b][u] >= web_view[b][u]
    OBVIOUS
  <2>1. \A u \in Units : web_store'[u] >= web_store[u]
    BY ShownFacts
  <2>2. ViewsGrow
    BY ShowStep
  <2> QED BY <2>1, <2>2 DEF ViewsGrow
<1> QED BY <1>1, SideBySide, WebSafe, PTL DEF Web!Spec, ViewsNeverRevert, Web!ViewsNeverRevert
=============================================================================
