----------------------------- MODULE MirrorProofs ----------------------------
(***************************************************************************)
(* Proofs about Mirror: what a tab shows of a turn that another window or  *)
(* a speaker asked for, for any number of turns.                           *)
(***************************************************************************)
EXTENDS Mirror, SequenceTheorems, TLAPS

-----------------------------------------------------------------------------
(* Mirror.                                                                 *)
(*                                                                         *)
(* MirroredOnce says what is shown when nothing of a turn is on its way    *)
(* any more.  To get there the invariant follows the events of a turn from *)
(* the server to the bubble: the first of them have been drawn, the others *)
(* are in the queue, in one piece, because no other turn ran at the time.  *)

\* How many events of a turn that began have been published, and the k-th.
Sent(t) == IF turnAt[t] = "running" THEN deltas[t] + 1 ELSE deltas[t] + 2

Item(t, k) ==
  IF k = 1 THEN [kind |-> "mirror_user", piece |-> <<t, 0>>]
  ELSE IF k <= deltas[t] + 1 THEN [kind |-> "delta", piece |-> <<t, k - 1>>]
  ELSE [kind |-> "completed", piece |-> <<t, 0>>]

\* The turns the tab watches, or has watched to the end.
Watched == {t \in MirroredTurn \ disturbed : turnAt[t] \in {"running", "completed"}}

Foreign(t, i) == events[i].piece[1] # t

\* Of the events of t the first n have been taken; the others are in the queue,
\* behind a foreign events.
Queued(t, n, a) ==
  /\ n <= Sent(t)
  /\ a + Sent(t) - n <= Len(events)
  /\ turnAt[t] = "running" => a + Sent(t) - n = Len(events)
  /\ n > 0 => a = 0
  /\ \A j \in 1 .. Sent(t) - n : events[a + j] = Item(t, n + j)
  /\ \A i \in 1 .. Len(events) : i <= a \/ i > a + Sent(t) - n => Foreign(t, i)

Unshown(t) == \A b \in shown : b[1] # t

\* What stands on the page when the first n events of t have been taken.
Drawn(t, n) ==
  /\ n = 0 => bubble # t /\ Unshown(t)
  /\ n \in 1 .. deltas[t] + 1 =>
       /\ bubble = t /\ Unshown(t)
       /\ text = [i \in 1 .. n - 1 |-> <<t, i>>]
       /\ streamed <=> n > 1
  /\ n = deltas[t] + 2 =>
       bubble # t /\ {b \in shown : b[1] = t} = {<<t, Answered(t)>>}

Followed(t) == \E n \in Nat, a \in Nat : Queued(t, n, a) /\ Drawn(t, n)

\* A turn that is yet to come has left no trace.
Unbegun(t) ==
  /\ deltas[t] = 0 /\ bubble # t /\ Unshown(t)
  /\ \A i \in 1 .. Len(events) : Foreign(t, i)

\* Without a connection there is no queue, and no turn to watch.
Detached ==
  ~subscribed => events = <<>> /\ \A t \in Watched : turnAt[t] = "completed"

MirrorInv ==
  /\ MirrorTypeOK /\ Typed \subseteq disturbed /\ Detached
  /\ \A t \in Watched : Followed(t) /\ (t \in Live => Live = {t})
  /\ \A t \in MirroredTurn : turnAt[t] = "idle" => Unbegun(t)

LEMMA MirrorStart == MirrorInit => MirrorInv
<1> SUFFICES ASSUME MirrorInit PROVE MirrorInv
  OBVIOUS
<1>1. Watched = {}
  BY DEF MirrorInit, Watched
<1>2. events \in Seq(Event) /\ Len(events) = 0 /\ text \in Seq(Piece)
  BY DEF MirrorInit
<1>3. MirrorTypeOK
  <2>1. /\ turnAt \in [MirroredTurn ->
                      {"idle", "asked", "running", "completed", "ended"}]
        /\ deltas \in [MirroredTurn -> 0 .. MaxDeltas]
        /\ bubble \in MirroredTurn \cup {NoBubble}
        /\ \A b \in shown : b \in MirroredTurn \X Seq(Piece)
        /\ disturbed \subseteq MirroredTurn
    BY MirrorAssumption DEF MirrorAssumption, MirrorInit
  <2>2. {subscribed, streamed, active} \subseteq BOOLEAN
    BY DEF MirrorInit
  <2>3. QED
    BY <1>2, <2>1, <2>2 DEF MirrorTypeOK
<1>4. \A t \in MirroredTurn : Unbegun(t)
  BY <1>2, MirrorAssumption DEF MirrorAssumption, MirrorInit, Unbegun, Unshown
<1>5. QED
  BY <1>1, <1>3, <1>4 DEF MirrorInit, MirrorInv, Detached

-----------------------------------------------------------------------------
(* Types.                                                                  *)

LEMMA AtHead ==
  ASSUME MirrorTypeOK, events # <<>>
  PROVE  /\ Head(events) = events[1] /\ Head(events) \in Event
         /\ Head(events).piece \in Piece /\ Head(events).piece[1] \in MirroredTurn
         /\ Tail(events) \in Seq(Event) /\ Len(Tail(events)) = Len(events) - 1
         /\ Len(events) \in Nat \ {0}
         /\ \A i \in 1 .. Len(events) - 1 : Tail(events)[i] = events[i + 1]
<1>1. events \in Seq(Event)
  BY DEF MirrorTypeOK
<1>2. Len(events) \in Nat \ {0}
  BY <1>1, EmptySeq
<1>3. Head(events) = events[1] /\ events[1] \in Event
  BY <1>1, <1>2, HeadTailProperties, ElementOfSeq
<1>4. /\ Tail(events) \in Seq(Event) /\ Len(Tail(events)) = Len(events) - 1
      /\ \A i \in 1 .. Len(events) - 1 : Tail(events)[i] = events[i + 1]
  BY <1>1, <1>2, HeadTailProperties
<1>5. Head(events).piece \in Piece /\ Head(events).piece[1] \in MirroredTurn
  BY <1>3 DEF Event, Piece
<1>6. QED
  BY <1>2, <1>3, <1>4, <1>5

LEMMA WhatIsOnTheWay ==
  ASSUME MirrorTypeOK
  PROVE  \A t : t \in OnTheWay <=> \E i \in 1 .. Len(events) : ~Foreign(t, i)
<1>1. DOMAIN events = 1 .. Len(events)
  BY LenProperties DEF MirrorTypeOK
<1>2. ToSet(events) = {events[i] : i \in 1 .. Len(events)}
  BY <1>1 DEF ToSet
<1>3. QED
  BY <1>2 DEF OnTheWay, Foreign

LEMMA Published ==
  ASSUME MirrorTypeOK, NEW t \in MirroredTurn, NEW i \in 0 .. MaxDeltas,
         NEW kind \in {"mirror_user", "delta", "completed"}, Publish(kind, t, i)
  PROVE  /\ events' \in Seq(Event)
         /\ ~subscribed => events' = events
         /\ subscribed =>
              /\ Len(events') = Len(events) + 1
              /\ \A j \in 1 .. Len(events) : events'[j] = events[j]
              /\ events'[Len(events) + 1] = [kind |-> kind, piece |-> <<t, i>>]
<1>1. [kind |-> kind, piece |-> <<t, i>>] \in Event
  BY DEF Event, Piece
<1>2. events \in Seq(Event)
  BY DEF MirrorTypeOK
<1>3. QED
  BY <1>1, <1>2, AppendProperties DEF Publish

LEMMA MirrorTypeStep == MirrorTypeOK /\ [MirrorNext]_mirrorVars => MirrorTypeOK'
<1> SUFFICES ASSUME MirrorTypeOK, [MirrorNext]_mirrorVars PROVE MirrorTypeOK'
  OBVIOUS
<1>0. MaxDeltas \in Nat /\ 0 \in 0 .. MaxDeltas
  BY MirrorAssumption DEF MirrorAssumption
<1>1. <<>> \in Seq(Event) /\ <<>> \in Seq(Piece)
  OBVIOUS
<1>2. ASSUME NEW t \in MirroredTurn, Type(t) \/ Break(t) PROVE MirrorTypeOK'
  BY <1>2 DEF Type, Break, tabVars, MirrorTypeOK
<1>3. ASSUME NEW t \in MirroredTurn, BeginMirrored(t) PROVE MirrorTypeOK'
  <2>1. events' \in Seq(Event)
    BY <1>0, <1>3, Published DEF BeginMirrored
  <2>2. disturbed' \subseteq MirroredTurn
    BY <1>3 DEF BeginMirrored, Live, MirrorTypeOK
  <2>3. QED
    BY <1>3, <2>1, <2>2 DEF BeginMirrored, tabVars, MirrorTypeOK
<1>4. ASSUME NEW t \in MirroredTurn, StreamDelta(t) PROVE MirrorTypeOK'
  <2>1. deltas' = [deltas EXCEPT ![t] = deltas[t] + 1] /\ deltas[t] < MaxDeltas
        /\ deltas[t] \in 0 .. MaxDeltas
    BY <1>4 DEF StreamDelta, MirrorTypeOK
  <2>2. deltas' \in [MirroredTurn -> 0 .. MaxDeltas] /\ deltas'[t] \in 0 .. MaxDeltas
    BY <1>0, <2>1 DEF MirrorTypeOK
  <2>3. events' \in Seq(Event)
    BY <1>4, <2>2, Published DEF StreamDelta
  <2>4. QED
    BY <1>4, <2>2, <2>3 DEF StreamDelta, tabVars, MirrorTypeOK
<1>5. ASSUME NEW t \in MirroredTurn, Complete(t) PROVE MirrorTypeOK'
  <2>1. events' \in Seq(Event)
    BY <1>0, <1>5, Published DEF Complete
  <2>2. QED
    BY <1>5, <2>1 DEF Complete, tabVars, MirrorTypeOK
<1>6. CASE OwnTurnOver \/ Subscribe \/ Reconnect
  BY <1>1, <1>6 DEF OwnTurnOver, Subscribe, Reconnect, serverVars, tabVars, MirrorTypeOK
<1>7. CASE Unsubscribe
  <2>1. OnTheWay \subseteq MirroredTurn
    <3>1. ASSUME NEW i \in 1 .. Len(events) PROVE events[i].piece[1] \in MirroredTurn
      <4>1. events[i] \in Event
        BY ElementOfSeq DEF MirrorTypeOK
      <4>2. QED
        BY <4>1 DEF Event, Piece
    <3>2. QED
      BY <3>1, WhatIsOnTheWay DEF Foreign
  <2>2. disturbed' \subseteq MirroredTurn
    BY <1>7, <2>1 DEF Unsubscribe, Live, MirrorTypeOK
  <2>3. QED
    BY <1>1, <1>7, <2>2 DEF Unsubscribe, serverVars, tabVars, MirrorTypeOK
<1>8. ASSUME NEW kind, Take(kind)
      PROVE  /\ events' \in Seq(Event) /\ disturbed' \subseteq MirroredTurn
             /\ Head(events).piece \in Piece /\ Head(events).piece[1] \in MirroredTurn
             /\ UNCHANGED <<turnAt, deltas, subscribed, active>>
  BY <1>8, AtHead DEF Take, serverVars, MirrorTypeOK
<1>9. CASE SendUser
  BY <1>1, <1>8, <1>9 DEF SendUser, MirrorTypeOK
<1>10. CASE SendDelta
  <2>1. Append(text, Head(events).piece) \in Seq(Piece)
    BY <1>8, <1>10, AppendProperties DEF SendDelta, MirrorTypeOK
  <2>2. text' \in Seq(Piece)
    BY <1>10, <2>1 DEF SendDelta, MirrorTypeOK
  <2>3. QED
    BY <1>8, <1>10, <2>2 DEF SendDelta, MirrorTypeOK
<1>11. CASE SendCompleted
  <2> DEFINE all == IF streamed THEN text ELSE Append(text, Head(events).piece)
  <2>1. all \in Seq(Piece)
    BY <1>8, <1>11, AppendProperties DEF SendCompleted, MirrorTypeOK
  <2>2. IF Drawing
        THEN /\ shown' = shown \cup {<<bubble, all>>}
             /\ bubble' = NoBubble /\ text' = <<>>
        ELSE UNCHANGED <<shown, bubble, text>>
    BY <1>11 DEF SendCompleted
  <2> HIDE DEF all
  <2>3. Drawing => <<bubble, all>> \in MirroredTurn \X Seq(Piece)
    BY <2>1 DEF Drawing, MirrorTypeOK
  <2>4. \A b \in shown' : b \in MirroredTurn \X Seq(Piece)
    BY <2>2, <2>3 DEF MirrorTypeOK
  <2>5. text' \in Seq(Piece) /\ bubble' \in MirroredTurn \cup {NoBubble}
    BY <1>1, <2>2 DEF MirrorTypeOK
  <2>6. QED
    BY <1>8, <1>11, <2>4, <2>5 DEF SendCompleted, MirrorTypeOK
<1>12. CASE UNCHANGED mirrorVars
  BY <1>12 DEF mirrorVars, MirrorTypeOK
<1>13. QED
  BY <1>2, <1>3, <1>4, <1>5, <1>6, <1>7, <1>9, <1>10, <1>11, <1>12 DEF MirrorNext

-----------------------------------------------------------------------------
(* The events of one turn.                                                 *)

LEMMA HowMany ==
  ASSUME MirrorTypeOK, NEW t \in MirroredTurn
  PROVE  deltas[t] \in Nat /\ Sent(t) \in Nat \ {0} /\ Sent(t) <= deltas[t] + 2
         /\ Len(events) \in Nat
  BY MirrorAssumption, LenProperties DEF MirrorAssumption, MirrorTypeOK, Sent

\* Other turns' events come behind: those of t stay where they are.
LEMMA ForeignPublished ==
  ASSUME MirrorTypeOK, MirrorTypeOK', NEW t \in MirroredTurn, turnAt[t] = "completed",
         turnAt'[t] = turnAt[t], deltas'[t] = deltas[t],
         NEW n \in Nat, NEW a \in Nat, Queued(t, n, a),
         Len(events') = Len(events) + 1,
         \A j \in 1 .. Len(events) : events'[j] = events[j],
         events'[Len(events) + 1].piece[1] # t
  PROVE  Queued(t, n, a)'
<1>1. Sent(t)' = Sent(t) /\ \A k : Item(t, k)' = Item(t, k)
  BY DEF Sent, Item
<1>2. Sent(t) \in Nat /\ Len(events) \in Nat
  BY HowMany
<1>3. n <= Sent(t) /\ a + Sent(t) - n <= Len(events) /\ (n > 0 => a = 0)
  BY DEF Queued
<1>4. ASSUME NEW j \in 1 .. Sent(t) - n PROVE events'[a + j] = Item(t, n + j)
  <2>1. a + j \in 1 .. Len(events)
    BY <1>2, <1>3
  <2>2. QED
    BY <2>1 DEF Queued
<1>5. ASSUME NEW i \in 1 .. Len(events'), i <= a \/ i > a + Sent(t) - n
      PROVE  events'[i].piece[1] # t
  <2>1. CASE i \in 1 .. Len(events)
    BY <1>5, <2>1 DEF Queued, Foreign
  <2>2. CASE i = Len(events) + 1
    BY <2>2
  <2>3. QED
    BY <1>2, <2>1, <2>2
<1>6. a + Sent(t) - n <= Len(events')
  BY <1>2, <1>3
<1>7. QED
  BY <1>1, <1>3, <1>4, <1>5, <1>6 DEF Queued, Foreign

\* The next event of t itself comes behind the others of t.
LEMMA OwnPublished ==
  ASSUME MirrorTypeOK, MirrorTypeOK', NEW t \in MirroredTurn, turnAt[t] = "running",
         NEW n \in Nat, NEW a \in Nat, Queued(t, n, a),
         NEW m \in Nat, Sent(t) = m, Sent(t)' = m + 1,
         \A k \in 1 .. m : Item(t, k)' = Item(t, k),
         Len(events') = Len(events) + 1,
         \A j \in 1 .. Len(events) : events'[j] = events[j],
         events'[Len(events) + 1] = Item(t, m + 1)'
  PROVE  Queued(t, n, a)'
<1>2. Len(events) \in Nat
  BY HowMany
<1>3. n <= m /\ a + m - n = Len(events) /\ (n > 0 => a = 0)
  BY DEF Queued
<1>4. ASSUME NEW j \in 1 .. m + 1 - n PROVE events'[a + j] = Item(t, n + j)'
  <2>1. CASE j \in 1 .. m - n
    <3>1. a + j \in 1 .. Len(events) /\ n + j \in 1 .. m
      BY <1>2, <1>3, <2>1
    <3>2. QED
      BY <2>1, <3>1 DEF Queued
  <2>2. CASE j = m + 1 - n
    <3>1. a + j = Len(events) + 1 /\ n + j = m + 1
      BY <1>2, <1>3, <2>2
    <3>2. QED
      BY <3>1
  <2>3. QED
    BY <1>2, <1>3, <2>1, <2>2
<1>5. ASSUME NEW i \in 1 .. Len(events'), i <= a \/ i > a + m + 1 - n
      PROVE  events'[i].piece[1] # t
  <2>1. i \in 1 .. Len(events) /\ (i <= a \/ i > a + m - n)
    BY <1>2, <1>3, <1>5
  <2>2. QED
    BY <2>1 DEF Queued, Foreign
<1>6. a + m + 1 - n = Len(events')
  BY <1>2, <1>3
<1>7. n <= m + 1
  BY <1>2, <1>3
<1>8. QED
  BY <1>2, <1>3, <1>4, <1>5, <1>6, <1>7 DEF Queued, Foreign

\* Taking an event off the queue: it is the next one of t, or another turn's.
LEMMA Taken ==
  ASSUME MirrorTypeOK, MirrorTypeOK', NEW t \in MirroredTurn,
         turnAt[t] \in {"running", "completed"},
         UNCHANGED <<turnAt, deltas>>,
         events # <<>>, events' = Tail(events),
         NEW n \in Nat, NEW a \in Nat, Queued(t, n, a)
  PROVE  \/ /\ Head(events).piece[1] = t /\ n + 1 <= Sent(t)
            /\ Head(events) = Item(t, n + 1) /\ Queued(t, n + 1, 0)'
         \/ /\ Head(events).piece[1] # t /\ (n = 0 \/ n = deltas[t] + 2)
            /\ \E b \in Nat : Queued(t, n, b)'
<1>0. PICK m \in Nat \ {0} : m = Sent(t)
  BY HowMany
<1>1. Sent(t)' = m /\ (\A k : Item(t, k)' = Item(t, k)) /\ turnAt'[t] = turnAt[t]
  BY <1>0 DEF Sent, Item
<1>2. n <= m /\ a + m - n <= Len(events) /\ (n > 0 => a = 0)
      /\ (turnAt[t] = "running" => a + m - n = Len(events))
  BY <1>0 DEF Queued
<1>3. /\ Head(events) = events[1] /\ Len(events') = Len(events) - 1
      /\ Len(events) \in Nat \ {0}
      /\ \A i \in 1 .. Len(events) - 1 : events'[i] = events[i + 1]
  BY AtHead
<1>4. CASE a = 0 /\ n < m
  <2>1. 1 \in 1 .. m - n
    BY <1>2, <1>4
  <2>2. Head(events) = Item(t, n + 1)
    BY <1>0, <1>3, <1>4, <2>1 DEF Queued
  <2>3. Item(t, n + 1).piece[1] = t
    BY DEF Item
  <2>4. ASSUME NEW j \in 1 .. m - (n + 1) PROVE events'[0 + j] = Item(t, n + 1 + j)
    <3>1. j + 1 \in 1 .. m - n /\ j \in 1 .. Len(events) - 1
      BY <1>2, <1>4
    <3>2. events[0 + (j + 1)] = Item(t, n + (j + 1))
      BY <1>0, <1>4, <3>1 DEF Queued
    <3>3. n + (j + 1) = n + 1 + j /\ 0 + (j + 1) = j + 1 /\ 0 + j = j
      OBVIOUS
    <3>4. QED
      BY <1>3, <3>1, <3>2, <3>3
  <2>5. ASSUME NEW i \in 1 .. Len(events'), i <= 0 \/ i > 0 + m - (n + 1)
        PROVE  events'[i].piece[1] # t
    <3>1. i + 1 \in 1 .. Len(events) /\ i + 1 > a + m - n /\ i \in 1 .. Len(events) - 1
      BY <1>2, <1>3, <1>4, <2>5
    <3>2. QED
      BY <1>0, <1>3, <3>1 DEF Queued, Foreign
  <2>6. n + 1 <= m /\ 0 + m - (n + 1) <= Len(events')
        /\ (turnAt[t] = "running" => 0 + m - (n + 1) = Len(events'))
    BY <1>2, <1>3, <1>4
  <2>7. Queued(t, n + 1, 0)'
    BY <1>0, <1>1, <2>4, <2>5, <2>6 DEF Queued, Foreign
  <2>8. QED
    BY <1>0, <2>2, <2>3, <2>6, <2>7
<1>5. CASE a = 0 /\ n = m
  <2>1. Head(events).piece[1] # t
    <3>1. 1 \in 1 .. Len(events) /\ 1 > a + m - n
      BY <1>3, <1>5
    <3>2. QED
      BY <1>0, <1>3, <3>1 DEF Queued, Foreign
  <2>2. ASSUME NEW i \in 1 .. Len(events') PROVE events'[i].piece[1] # t
    <3>1. i + 1 \in 1 .. Len(events) /\ i + 1 > a + m - n /\ i \in 1 .. Len(events) - 1
      BY <1>3, <1>5
    <3>2. QED
      BY <1>0, <1>3, <3>1 DEF Queued, Foreign
  <2>3. turnAt[t] # "running"
    <3>1. a + m - n = 0 /\ Len(events) > 0
      BY <1>3, <1>5
    <3>2. QED
      BY <1>2, <3>1
  <2>4. Queued(t, n, 0)'
    <3>1. Len(events') \in Nat /\ 0 + m - n = 0 /\ 1 .. m - n = {}
      BY <1>3, <1>5
    <3>2. n <= m /\ 0 + m - n <= Len(events')
      BY <1>3, <1>5, <3>1
    <3>3. QED
      BY <1>0, <1>1, <1>5, <2>2, <2>3, <3>1, <3>2 DEF Queued, Foreign
  <2>5. n = deltas[t] + 2
    BY <1>0, <1>5, <2>3 DEF Sent
  <2>6. QED
    BY <2>1, <2>4, <2>5
<1>6. CASE a > 0
  <2>1. n = 0
    BY <1>2, <1>6
  <2>2. Head(events).piece[1] # t
    <3>1. 1 \in 1 .. Len(events) /\ 1 <= a
      BY <1>3, <1>6
    <3>2. QED
      BY <1>0, <1>3, <3>1 DEF Queued, Foreign
  <2>3. PICK b \in Nat : b = a - 1
    BY <1>6
  <2>4. ASSUME NEW j \in 1 .. m - n PROVE events'[b + j] = Item(t, n + j)
    <3>1. b + j \in 1 .. Len(events) - 1 /\ b + j + 1 = a + j
      BY <1>2, <1>3, <1>6, <2>3
    <3>2. QED
      BY <1>0, <1>3, <3>1 DEF Queued
  <2>5. ASSUME NEW i \in 1 .. Len(events'), i <= b \/ i > b + m - n
        PROVE  events'[i].piece[1] # t
    <3>1. i + 1 \in 1 .. Len(events) /\ (i + 1 <= a \/ i + 1 > a + m - n)
          /\ i \in 1 .. Len(events) - 1
      BY <1>2, <1>3, <1>6, <2>3, <2>5
    <3>2. QED
      BY <1>0, <1>3, <3>1 DEF Queued, Foreign
  <2>6. b + m - n <= Len(events')
        /\ (turnAt[t] = "running" => b + m - n = Len(events'))
    BY <1>2, <1>3, <1>6, <2>3
  <2>7. Queued(t, n, b)'
    BY <1>0, <1>1, <1>2, <2>1, <2>4, <2>5, <2>6 DEF Queued, Foreign
  <2>8. QED
    BY <2>1, <2>2, <2>3, <2>7
<1>7. QED
  BY <1>0, <1>2, <1>4, <1>5, <1>6

\* Where neither the events of t nor the page change, t is followed as before.
LEMMA FollowedStill ==
  ASSUME NEW t \in MirroredTurn, Followed(t), turnAt'[t] = turnAt[t], deltas'[t] = deltas[t],
         UNCHANGED <<events, bubble, text, shown, streamed>>
  PROVE  Followed(t)'
<1>1. Sent(t)' = Sent(t) /\ (\A k : Item(t, k)' = Item(t, k)) /\ Answered(t)' = Answered(t)
  BY DEF Sent, Item, Answered
<1>2. PICK n \in Nat, a \in Nat : Queued(t, n, a) /\ Drawn(t, n)
  BY DEF Followed
<1>3. Queued(t, n, a)'
  BY <1>1, <1>2 DEF Queued, Foreign
<1>4. Drawn(t, n)'
  BY <1>1, <1>2 DEF Drawn, Unshown
<1>5. QED
  BY <1>3, <1>4 DEF Followed

\* A turn of which nothing is left in the queue has been drawn to the end.
LEMMA NothingLeft ==
  ASSUME MirrorTypeOK, NEW t \in MirroredTurn, turnAt[t] = "completed", Followed(t),
         \A i \in 1 .. Len(events) : Foreign(t, i)
  PROVE  bubble # t /\ {b \in shown : b[1] = t} = {<<t, Answered(t)>>}
<1>1. PICK n \in Nat, a \in Nat : Queued(t, n, a) /\ Drawn(t, n)
  BY DEF Followed
<1>2. Sent(t) \in Nat /\ deltas[t] \in Nat /\ Len(events) \in Nat /\ Sent(t) = deltas[t] + 2
  BY HowMany DEF Sent
<1>3. n = Sent(t)
  <2> SUFFICES ASSUME n # Sent(t) PROVE FALSE
    OBVIOUS
  <2>1. 1 \in 1 .. Sent(t) - n /\ a + 1 \in 1 .. Len(events)
    BY <1>1, <1>2 DEF Queued
  <2>2. events[a + 1] = Item(t, n + 1)
    BY <1>1, <2>1 DEF Queued
  <2>3. Item(t, n + 1).piece[1] = t
    BY DEF Item
  <2>4. QED
    BY <2>1, <2>2, <2>3 DEF Foreign
<1>4. QED
  BY <1>1, <1>2, <1>3 DEF Drawn

\* ... and is followed for as long as it stays so.
LEMMA DrawnToTheEnd ==
  ASSUME MirrorTypeOK, MirrorTypeOK', NEW t \in MirroredTurn, turnAt[t] = "completed",
         Followed(t), \A i \in 1 .. Len(events) : Foreign(t, i),
         UNCHANGED <<turnAt, deltas, shown>>, bubble' # t, Len(events') = 0
  PROVE  Followed(t)'
<1>1. {b \in shown : b[1] = t} = {<<t, Answered(t)>>}
  BY NothingLeft
<1>2. PICK n \in Nat : n = deltas[t] + 2
  BY HowMany
<1>3. Sent(t)' = n /\ Answered(t)' = Answered(t)
  BY <1>2 DEF Sent, Answered
<1>4. Drawn(t, n)'
  <2>1. n # 0 /\ n \notin 1 .. deltas[t] + 1
    BY <1>2, HowMany
  <2>2. QED
    BY <1>1, <1>2, <1>3, <2>1 DEF Drawn
<1>5. Queued(t, n, 0)'
  <2>1. 1 .. n - n = {} /\ 0 + n - n = 0 /\ 1 .. 0 = {}
    OBVIOUS
  <2>2. QED
    BY <1>3, <2>1 DEF Queued
<1>6. QED
  BY <1>4, <1>5 DEF Followed

Server(t) == BeginMirrored(t) \/ StreamDelta(t) \/ Complete(t)

\* What another turn publishes: a turn that goes on being watched is complete.
LEMMA OthersPublish ==
  ASSUME MirrorInv, MirrorTypeOK', NEW t \in MirroredTurn, Server(t),
         NEW u \in Watched', u # t
  PROVE  u \in Watched /\ turnAt[u] = "completed" /\ Followed(u)'
<1>1. /\ turnAt'[u] = turnAt[u] /\ deltas'[u] = deltas[u]
      /\ UNCHANGED <<subscribed, streamed, bubble, text, shown>>
      /\ disturbed \subseteq disturbed'
  BY DEF Server, BeginMirrored, StreamDelta, Complete, tabVars, MirrorInv, MirrorTypeOK,
     Watched
<1>2. u \in Watched
  BY <1>1 DEF Watched
<1>3. turnAt[u] = "completed"
  <2> SUFFICES ASSUME turnAt[u] = "running" PROVE FALSE
    BY <1>2 DEF Watched
  <2>1. u \in Live /\ Live = {u}
    BY <1>2 DEF MirrorInv, Live, Watched
  <2>2. CASE BeginMirrored(t)
    BY <2>1, <2>2 DEF BeginMirrored, Watched
  <2>3. CASE StreamDelta(t) \/ Complete(t)
    <3>1. t \in Live
      BY <2>3 DEF StreamDelta, Complete, Live
    <3>2. QED
      BY <2>1, <3>1
  <2>4. QED
    BY <2>2, <2>3 DEF Server
<1>4. PICK i \in 0 .. MaxDeltas, kind \in {"mirror_user", "delta", "completed"} :
        Publish(kind, t, i)
  <2>1. 0 \in 0 .. MaxDeltas
    BY MirrorAssumption DEF MirrorAssumption
  <2>2. deltas'[t] \in 0 .. MaxDeltas
    BY DEF MirrorTypeOK
  <2>3. QED
    BY <2>1, <2>2 DEF Server, BeginMirrored, StreamDelta, Complete
<1>5. Followed(u)
  BY <1>2 DEF MirrorInv
<1>6. CASE subscribed
  <2>1. PICK n \in Nat, a \in Nat : Queued(u, n, a) /\ Drawn(u, n)
    BY <1>5 DEF Followed
  <2>2. /\ Len(events') = Len(events) + 1
        /\ \A j \in 1 .. Len(events) : events'[j] = events[j]
        /\ events'[Len(events) + 1].piece[1] # u
    <3>1. [kind |-> kind, piece |-> <<t, i>>].piece[1] # u
      OBVIOUS
    <3>2. QED
      BY <1>4, <1>6, <3>1, Published DEF MirrorInv
  <2>3. Queued(u, n, a)'
    BY <1>1, <1>2, <1>3, <2>1, <2>2, ForeignPublished DEF MirrorInv, Watched
  <2>4. Drawn(u, n)'
    BY <1>1, <2>1 DEF Drawn, Unshown, Answered
  <2>5. QED
    BY <1>2, <1>3, <2>3, <2>4 DEF Followed
<1>7. CASE ~subscribed
  <2>1. events' = events
    BY <1>4, <1>7, Published DEF MirrorInv
  <2>2. QED
    BY <1>1, <1>2, <1>3, <1>5, <2>1, FollowedStill DEF Watched
<1>8. QED
  BY <1>6, <1>7

\* What a watched turn publishes itself.
LEMMA OwnPublishes ==
  ASSUME MirrorInv, MirrorTypeOK', NEW t \in Watched,
         StreamDelta(t) \/ Complete(t)
  PROVE  Followed(t)' /\ subscribed
<1>1. /\ turnAt[t] = "running" /\ t \in MirroredTurn
      /\ UNCHANGED <<subscribed, streamed, bubble, text, shown>>
  BY DEF StreamDelta, Complete, tabVars, Watched
<1>2. subscribed
  BY <1>1 DEF MirrorInv, Detached
<1>3. PICK n \in Nat, a \in Nat : Queued(t, n, a) /\ Drawn(t, n)
  BY DEF MirrorInv, Followed
<1>4. PICK d \in Nat : d = deltas[t]
  BY <1>1, HowMany DEF MirrorInv
<1>5. PICK m \in Nat : m = d + 1
  BY <1>4
<1>6. Sent(t) = m /\ n <= m
  BY <1>1, <1>3, <1>4, <1>5 DEF Sent, Queued
<1>7. MirrorTypeOK
  BY DEF MirrorInv
<1>8. CASE StreamDelta(t)
  <2>1. deltas'[t] = d + 1 /\ turnAt'[t] = "running" /\ d + 1 \in 0 .. MaxDeltas
    BY <1>1, <1>4, <1>7, <1>8, MirrorAssumption
    DEF MirrorAssumption, StreamDelta, MirrorTypeOK
  <2>2. Sent(t)' = m + 1
    BY <1>5, <2>1 DEF Sent
  <2>3. \A k \in 1 .. m : Item(t, k)' = Item(t, k)
    BY <1>4, <1>5, <2>1 DEF Item
  <2>4. Item(t, m + 1)' = [kind |-> "delta", piece |-> <<t, d + 1>>]
    <3>1. m + 1 # 1 /\ m + 1 <= d + 1 + 1 /\ m + 1 - 1 = d + 1
      BY <1>5
    <3>2. QED
      BY <2>1, <3>1 DEF Item
  <2>5. Publish("delta", t, d + 1)
    BY <1>8, <2>1 DEF StreamDelta
  <2>6. Queued(t, n, a)'
    BY <1>1, <1>2, <1>3, <1>6, <1>7, <2>1, <2>2, <2>3, <2>4, <2>5, Published, OwnPublished
  <2>7. Drawn(t, n)'
    <3>1. n # d + 3 /\ (n \in 1 .. d + 2 => n \in 1 .. d + 1)
      BY <1>5, <1>6
    <3>2. deltas'[t] + 1 = d + 2 /\ deltas'[t] + 2 = d + 3
      BY <2>1
    <3>3. QED
      BY <1>1, <1>3, <1>4, <3>1, <3>2 DEF Drawn, Unshown
  <2>8. QED
    BY <1>2, <2>6, <2>7 DEF Followed
<1>9. CASE Complete(t)
  <2>1. deltas' = deltas /\ turnAt'[t] = "completed"
    BY <1>1, <1>7, <1>9 DEF Complete, MirrorTypeOK
  <2>2. Sent(t)' = m + 1
    BY <1>4, <1>5, <2>1 DEF Sent
  <2>3. \A k \in 1 .. m : Item(t, k)' = Item(t, k)
    BY <2>1 DEF Item
  <2>4. Item(t, m + 1)' = [kind |-> "completed", piece |-> <<t, 0>>]
    BY <1>4, <1>5, <2>1 DEF Item
  <2>5. Publish("completed", t, 0) /\ 0 \in 0 .. MaxDeltas
    BY <1>9, MirrorAssumption DEF MirrorAssumption, Complete
  <2>6. Queued(t, n, a)'
    BY <1>1, <1>2, <1>3, <1>6, <1>7, <2>1, <2>2, <2>3, <2>4, <2>5, Published, OwnPublished
  <2>7. Drawn(t, n)'
    <3>1. n # deltas[t] + 2
      BY <1>4, <1>5, <1>6
    <3>2. QED
      BY <1>1, <1>3, <2>1, <3>1 DEF Drawn, Unshown
  <2>8. QED
    BY <1>2, <2>6, <2>7 DEF Followed
<1>10. QED
  BY <1>8, <1>9

-----------------------------------------------------------------------------
(* What the tab does with an event.                                        *)

Sends == SendUser \/ SendDelta \/ SendCompleted

LEMMA SendsTake ==
  ASSUME MirrorTypeOK, Sends
  PROVE  /\ events # <<>> /\ events' = Tail(events)
         /\ UNCHANGED <<turnAt, deltas, subscribed, active>>
         /\ disturbed \subseteq disturbed'
         /\ active => Head(events).piece[1] \in disturbed'
         /\ SendUser => Head(events).kind = "mirror_user"
         /\ SendDelta => Head(events).kind = "delta"
         /\ SendCompleted => Head(events).kind = "completed"
  BY DEF Sends, SendUser, SendDelta, SendCompleted, Take, serverVars

\* An event of another turn leaves alone what the page has of t.
LEMMA OthersOnThePage ==
  ASSUME MirrorTypeOK, Sends, NEW t \in MirroredTurn,
         Head(events).piece[1] # t, bubble # t
  PROVE  /\ bubble' # t
         /\ {b \in shown : b[1] = t}' = {b \in shown : b[1] = t}
         /\ Unshown(t) => Unshown(t)'
<1>1. NoBubble # t
  BY MirrorAssumption DEF MirrorAssumption
<1>2. bubble' # t
  BY <1>1 DEF Sends, SendUser, SendDelta, SendCompleted
<1>3. \A b \in shown' : b \in shown \/ b[1] # t
  BY DEF Sends, SendUser, SendDelta, SendCompleted
<1>4. shown \subseteq shown'
  BY DEF Sends, SendUser, SendDelta, SendCompleted
<1>5. QED
  BY <1>2, <1>3, <1>4 DEF Unshown

\* The next event of a watched turn is drawn.
LEMMA NextIsDrawn ==
  ASSUME MirrorTypeOK, MirrorTypeOK', Sends, NEW t \in MirroredTurn, ~active,
         NEW n \in Nat, n + 1 <= Sent(t), Head(events) = Item(t, n + 1), Drawn(t, n)
  PROVE  Drawn(t, n + 1)'
<1>1. NoBubble # t
  BY MirrorAssumption DEF MirrorAssumption
<1>2. PICK d \in Nat : d = deltas[t]
  BY HowMany
<1>3. deltas'[t] = d /\ n + 1 <= d + 2
  BY <1>2, SendsTake, HowMany
<1>4. CASE n = 0
  <2>1. Head(events) = [kind |-> "mirror_user", piece |-> <<t, 0>>]
    BY <1>4 DEF Item
  <2>2. SendUser
    BY <2>1, SendsTake DEF Sends
  <2>3. bubble' = t /\ text' = <<>> /\ streamed' = FALSE /\ shown' = shown
    BY <2>1, <2>2 DEF SendUser
  <2>4. Unshown(t)'
    BY <1>4, <2>3 DEF Drawn, Unshown
  <2>5. text' = [i \in 1 .. n + 1 - 1 |-> <<t, i>>]
    <3>1. 1 .. n + 1 - 1 = 1 .. 0
      BY <1>4
    <3>2. text' \in Seq(Piece) /\ Len(text') = 0
      BY <2>3 DEF MirrorTypeOK
    <3>3. QED
      BY <2>3, <3>1
  <2>6. ~(n + 1 > 1) /\ n + 1 # 0 /\ n + 1 # d + 2
    BY <1>4, <1>2
  <2>7. QED
    BY <1>3, <2>3, <2>4, <2>5, <2>6 DEF Drawn
<1>5. CASE n \in 1 .. d
  <2>1. Head(events) = [kind |-> "delta", piece |-> <<t, n>>]
    BY <1>2, <1>5 DEF Item
  <2>2. SendDelta
    BY <2>1, SendsTake DEF Sends
  <2>3. bubble = t /\ Unshown(t) /\ text = [i \in 1 .. n - 1 |-> <<t, i>>]
    <3>1. n \in 1 .. d + 1
      BY <1>5
    <3>2. QED
      BY <1>2, <3>1 DEF Drawn
  <2>4. /\ bubble' = t /\ shown' = shown /\ streamed' = TRUE
        /\ text' = Append(text, <<t, n>>)
    <3>1. streamed' = TRUE
      BY <2>2 DEF SendDelta
    <3>2. bubble' = t /\ shown' = shown
      BY <2>2, <2>3 DEF SendDelta
    <3>3. Drawing
      BY <1>1, <2>3 DEF Drawing
    <3>4. text' = Append(text, Head(events).piece)
      BY <2>2, <3>3 DEF SendDelta
    <3>5. QED
      BY <2>1, <3>1, <3>2, <3>4
  <2>5. text' = [i \in 1 .. n + 1 - 1 |-> <<t, i>>]
    <3>1. Len(text) = n - 1
      BY <1>5, <2>3
    <3>2. Append(text, <<t, n>>) = [i \in 1 .. n |-> <<t, i>>]
      BY <1>5, <2>3, <3>1
    <3>3. n + 1 - 1 = n
      OBVIOUS
    <3>4. QED
      BY <2>4, <3>2, <3>3
  <2>6. n + 1 > 1 /\ n + 1 # 0 /\ n + 1 # d + 2
    BY <1>5
  <2>7. QED
    BY <1>3, <2>3, <2>4, <2>5, <2>6 DEF Drawn, Unshown
<1>6. CASE n = d + 1
  <2>1. Head(events) = [kind |-> "completed", piece |-> <<t, 0>>]
    <3>1. n + 1 # 1 /\ ~(n + 1 <= d + 1)
      BY <1>6
    <3>2. QED
      BY <1>2, <3>1 DEF Item
  <2>2. SendCompleted
    BY <2>1, SendsTake DEF Sends
  <2>3. /\ bubble = t /\ Unshown(t)
        /\ text = [i \in 1 .. n - 1 |-> <<t, i>>]
        /\ streamed <=> n > 1
    <3>1. n \in 1 .. d + 1
      BY <1>6
    <3>2. QED
      BY <1>2, <3>1 DEF Drawn
  <2> DEFINE all == IF streamed THEN text ELSE Append(text, Head(events).piece)
  <2>4. all = Answered(t)
    <3>1. CASE d = 0
      <4>1. ~streamed
        BY <1>6, <2>3, <3>1
      <4>2. n - 1 = 0
        BY <1>6, <3>1
      <4>3. Append([i \in 1 .. 0 |-> <<t, i>>], <<t, 0>>) = << <<t, 0>> >>
        OBVIOUS
      <4>4. QED
        BY <1>2, <2>1, <2>3, <3>1, <4>1, <4>2, <4>3 DEF Answered
    <3>2. CASE d # 0
      <4>1. streamed /\ n - 1 = d
        BY <1>6, <2>3, <3>2
      <4>2. QED
        BY <1>2, <2>3, <3>2, <4>1 DEF Answered
    <3>3. QED
      BY <3>1, <3>2
  <2>5. shown' = shown \cup {<<bubble, all>>} /\ bubble' = NoBubble
    BY <1>1, <2>2, <2>3 DEF SendCompleted, Drawing
  <2> HIDE DEF all
  <2>6. {b \in shown' : b[1] = t} = {<<t, Answered(t)>>}
    BY <2>3, <2>4, <2>5 DEF Unshown
  <2>7. Answered(t)' = Answered(t)
    BY SendsTake DEF Answered
  <2>8. n + 1 = d + 2 /\ n + 1 # 0 /\ n + 1 \notin 1 .. d + 1
    BY <1>6
  <2>9. QED
    BY <1>1, <1>3, <2>5, <2>6, <2>7, <2>8 DEF Drawn
<1>7. QED
  BY <1>3, <1>4, <1>5, <1>6

LEMMA SendsFollow ==
  ASSUME MirrorInv, MirrorTypeOK', Sends, NEW t \in Watched'
  PROVE  t \in Watched /\ Followed(t)'
<1>1. MirrorTypeOK
  BY DEF MirrorInv
<1>2. t \in Watched /\ t \in MirroredTurn /\ turnAt[t] \in {"running", "completed"}
      /\ t \notin disturbed'
  BY <1>1, SendsTake DEF Watched
<1>3. PICK n \in Nat, a \in Nat : Queued(t, n, a) /\ Drawn(t, n)
  BY <1>2 DEF MirrorInv, Followed
<1>4. \/ /\ Head(events).piece[1] = t /\ n + 1 <= Sent(t)
         /\ Head(events) = Item(t, n + 1) /\ Queued(t, n + 1, 0)'
      \/ /\ Head(events).piece[1] # t /\ (n = 0 \/ n = deltas[t] + 2)
         /\ \E b \in Nat : Queued(t, n, b)'
  BY <1>1, <1>2, <1>3, SendsTake, Taken
<1>5. CASE Head(events).piece[1] = t
  <2>1. ~active
    BY <1>1, <1>2, <1>5, SendsTake
  <2>2. Drawn(t, n + 1)' /\ n + 1 \in Nat
    BY <1>1, <1>2, <1>3, <1>4, <1>5, <2>1, NextIsDrawn
  <2>3. QED
    BY <1>2, <1>4, <1>5, <2>2 DEF Followed
<1>6. CASE Head(events).piece[1] # t
  <2>1. PICK b \in Nat : Queued(t, n, b)'
    BY <1>4, <1>6
  <2>2. deltas[t] \in Nat /\ deltas'[t] = deltas[t] /\ Answered(t)' = Answered(t)
    BY <1>1, <1>2, HowMany, SendsTake DEF Answered
  <2>3. n = 0 \/ n = deltas[t] + 2
    BY <1>4, <1>6
  <2>4. n \notin 1 .. deltas[t] + 1 /\ (n = 0 => n # deltas[t] + 2)
    BY <2>2, <2>3
  <2>5. bubble # t
    BY <1>3, <2>3 DEF Drawn
  <2>6. Drawn(t, n)'
    BY <1>1, <1>2, <1>3, <1>6, <2>2, <2>3, <2>4, <2>5, OthersOnThePage DEF Drawn
  <2>7. QED
    BY <1>2, <2>1, <2>6 DEF Followed
<1>7. QED
  BY <1>5, <1>6

-----------------------------------------------------------------------------
(* The invariant.                                                          *)

LEMMA MirrorStep == MirrorInv /\ [MirrorNext]_mirrorVars => MirrorInv'
<1> SUFFICES ASSUME MirrorInv, [MirrorNext]_mirrorVars PROVE MirrorInv'
  OBVIOUS
<1>1. MirrorTypeOK /\ MirrorTypeOK'
  BY MirrorTypeStep DEF MirrorInv
<1>2. Typed \subseteq disturbed'
  <2>1. disturbed \subseteq disturbed'
    BY DEF MirrorNext, mirrorVars, Type, BeginMirrored, StreamDelta, Complete, Break,
       OwnTurnOver, Subscribe, Reconnect, Unsubscribe, SendUser, SendDelta, SendCompleted, Take
  <2>2. QED
    BY <2>1 DEF MirrorInv
<1>3. ASSUME NEW t \in MirroredTurn, Type(t) \/ Break(t) PROVE MirrorInv'
  <2>1. /\ UNCHANGED <<deltas, subscribed, events, streamed, bubble, text, shown, disturbed>>
        /\ \E at \in {"asked", "ended"} : turnAt' = [turnAt EXCEPT ![t] = at]
    BY <1>3 DEF Type, Break, tabVars
  <2>2. \A u \in MirroredTurn \ {t} : turnAt'[u] = turnAt[u]
    BY <1>1, <2>1 DEF MirrorTypeOK
  <2>3. turnAt'[t] \in {"asked", "ended"}
    BY <1>1, <2>1 DEF MirrorTypeOK
  <2>4. Watched' = Watched \ {t} /\ Live' = Live \ {t}
    BY <2>1, <2>2, <2>3 DEF Watched, Live
  <2>5. Detached'
    BY <2>1, <2>2, <2>4 DEF MirrorInv, Detached, Watched
  <2>6. \A u \in Watched' : Followed(u)'
    BY <2>1, <2>2, <2>4, FollowedStill DEF MirrorInv, Watched
  <2>7. \A u \in Watched' : u \in Live' => Live' = {u}
    BY <2>4 DEF MirrorInv
  <2>8. \A u \in MirroredTurn : turnAt'[u] = "idle" => Unbegun(u)'
    BY <2>1, <2>2, <2>3 DEF MirrorInv, Unbegun, Unshown, Foreign
  <2>9. QED
    BY <1>1, <1>2, <2>5, <2>6, <2>7, <2>8 DEF MirrorInv
<1>4. ASSUME NEW t \in MirroredTurn, Server(t),
             t \in Watched' => subscribed /\ Followed(t)' /\ Live \subseteq {t}
      PROVE  MirrorInv'
  <2>1. /\ UNCHANGED <<subscribed, bubble, shown>>
        /\ \A u \in MirroredTurn \ {t} : turnAt'[u] = turnAt[u] /\ deltas'[u] = deltas[u]
        /\ turnAt'[t] \in {"running", "completed"}
    BY <1>1, <1>4 DEF Server, BeginMirrored, StreamDelta, Complete, tabVars, MirrorTypeOK
  <2>2. \A u \in Watched' \ {t} : u \in Watched /\ turnAt[u] = "completed" /\ Followed(u)'
    BY <1>1, <1>4, OthersPublish
  <2>3. PICK i \in 0 .. MaxDeltas, kind \in {"mirror_user", "delta", "completed"} :
          Publish(kind, t, i)
    <3>1. 0 \in 0 .. MaxDeltas
      BY MirrorAssumption DEF MirrorAssumption
    <3>2. deltas'[t] \in 0 .. MaxDeltas
      BY <1>1 DEF MirrorTypeOK
    <3>3. QED
      BY <1>4, <3>1, <3>2 DEF Server, BeginMirrored, StreamDelta, Complete
  <2>4. Detached'
    <3> SUFFICES ASSUME ~subscribed
                 PROVE  events' = <<>> /\ \A u \in Watched' : turnAt'[u] = "completed"
      BY <2>1 DEF Detached
    <3>1. events' = <<>>
      BY <1>1, <2>3, Published DEF MirrorInv, Detached
    <3>2. QED
      BY <1>4, <2>1, <2>2, <3>1 DEF Watched
  <2>5. ASSUME NEW u \in Watched' PROVE Followed(u)' /\ (u \in Live' => Live' = {u})
    <3>1. CASE u = t
      <4>1. Live' \subseteq {t}
        BY <1>4, <2>1, <3>1 DEF Live
      <4>2. QED
        BY <1>4, <3>1, <4>1
    <3>2. CASE u # t
      <4>1. u \notin Live'
        BY <2>1, <2>2, <3>2 DEF Live
      <4>2. QED
        BY <2>2, <3>2, <4>1
    <3>3. QED
      BY <3>1, <3>2
  <2>6. ASSUME NEW u \in MirroredTurn, turnAt'[u] = "idle" PROVE Unbegun(u)'
    <3>1. u # t /\ turnAt[u] = "idle" /\ deltas'[u] = deltas[u]
      BY <2>1, <2>6
    <3>2. Unbegun(u)
      BY <3>1 DEF MirrorInv
    <3>3. ASSUME NEW j \in 1 .. Len(events') PROVE events'[j].piece[1] # u
      <4>1. CASE subscribed
        <5>1. Len(events') = Len(events) + 1 /\ Len(events) \in Nat
              /\ events'[Len(events) + 1] = [kind |-> kind, piece |-> <<t, i>>]
              /\ \A k \in 1 .. Len(events) : events'[k] = events[k]
          BY <1>1, <2>3, <4>1, Published, LenProperties DEF MirrorTypeOK
        <5>2. CASE j = Len(events) + 1
          BY <3>1, <5>1, <5>2
        <5>3. CASE j \in 1 .. Len(events)
          BY <3>2, <5>1, <5>3 DEF Unbegun, Foreign
        <5>4. QED
          BY <5>1, <5>2, <5>3
      <4>2. CASE ~subscribed
        BY <1>1, <2>3, <3>2, <4>2, Published DEF Unbegun, Foreign
      <4>3. QED
        BY <4>1, <4>2
    <3>4. QED
      BY <2>1, <3>1, <3>2, <3>3 DEF Unbegun, Unshown, Foreign
  <2>7. QED
    BY <1>1, <1>2, <2>4, <2>5, <2>6 DEF MirrorInv
<1>5. ASSUME NEW t \in MirroredTurn, BeginMirrored(t) PROVE MirrorInv'
  <2>1. ASSUME t \in Watched' PROVE subscribed /\ Followed(t)' /\ Live \subseteq {t}
    <3>1. subscribed /\ Live = {} /\ t \notin disturbed
      BY <1>5, <2>1 DEF BeginMirrored, Watched
    <3>2. t \notin Typed /\ turnAt[t] = "idle"
      BY <1>5, <3>1 DEF BeginMirrored, MirrorInv
    <3>3. Unbegun(t)
      BY <3>2 DEF MirrorInv
    <3>4. /\ turnAt'[t] = "running" /\ deltas'[t] = 0 /\ Publish("mirror_user", t, 0)
          /\ UNCHANGED <<bubble, shown>> /\ 0 \in 0 .. MaxDeltas
      BY <1>1, <1>5, <3>3, MirrorAssumption
      DEF MirrorAssumption, BeginMirrored, tabVars, Unbegun, MirrorTypeOK
    <3>5. PICK a \in Nat : a = Len(events)
      BY <1>1, LenProperties DEF MirrorTypeOK
    <3>6. /\ Len(events') = a + 1
          /\ \A j \in 1 .. a : events'[j] = events[j]
          /\ events'[a + 1] = [kind |-> "mirror_user", piece |-> <<t, 0>>]
      BY <1>1, <3>1, <3>4, <3>5, Published
    <3>7. Sent(t)' = 1 /\ Item(t, 1)' = [kind |-> "mirror_user", piece |-> <<t, 0>>]
      BY <3>4 DEF Sent, Item
    <3>8. ASSUME NEW i \in 1 .. Len(events'), i <= a \/ i > a + 1 - 0
          PROVE  events'[i].piece[1] # t
      <4>1. i \in 1 .. a
        BY <3>6, <3>8
      <4>2. QED
        BY <3>3, <3>5, <3>6, <4>1 DEF Unbegun, Foreign
    <3>9. \A j \in 1 .. 1 - 0 : events'[a + j] = Item(t, 0 + j)'
      <4>1. 1 .. 1 - 0 = {1}
        OBVIOUS
      <4>2. QED
        BY <3>6, <3>7, <4>1
    <3>10. Queued(t, 0, a)'
      BY <3>6, <3>7, <3>8, <3>9 DEF Queued, Foreign
    <3>11. Drawn(t, 0)'
      BY <3>3, <3>4 DEF Unbegun, Drawn, Unshown
    <3>12. QED
      BY <3>1, <3>10, <3>11 DEF Followed
  <2>2. QED
    BY <1>4, <1>5, <2>1 DEF Server
<1>6. ASSUME NEW t \in MirroredTurn, StreamDelta(t) \/ Complete(t) PROVE MirrorInv'
  <2>1. ASSUME t \in Watched' PROVE subscribed /\ Followed(t)' /\ Live \subseteq {t}
    <3>1. t \in Watched /\ t \in Live
      BY <1>6, <2>1 DEF StreamDelta, Complete, Watched, Live
    <3>2. QED
      BY <1>1, <1>6, <3>1, OwnPublishes DEF MirrorInv
  <2>2. QED
    BY <1>4, <1>6, <2>1 DEF Server
<1>7. CASE OwnTurnOver \/ UNCHANGED mirrorVars
  <2>1. UNCHANGED <<turnAt, deltas, subscribed, events, streamed, bubble, text, shown, disturbed>>
    BY <1>7 DEF OwnTurnOver, serverVars, mirrorVars
  <2>2. Watched' = Watched /\ Live' = Live
    BY <2>1 DEF Watched, Live
  <2>3. \A t \in Watched' : Followed(t)'
    BY <2>1, <2>2, FollowedStill DEF MirrorInv, Watched
  <2>4. Detached' /\ \A t \in MirroredTurn : turnAt'[t] = "idle" => Unbegun(t)'
    BY <2>1, <2>2 DEF MirrorInv, Detached, Unbegun, Unshown, Foreign
  <2>5. QED
    BY <1>1, <1>2, <2>2, <2>3, <2>4 DEF MirrorInv
<1>8. CASE Subscribe \/ Reconnect \/ Unsubscribe
  <2>1. /\ UNCHANGED <<turnAt, deltas, shown>>
        /\ events' = <<>> /\ Len(events') = 0
        /\ bubble' \in {bubble, NoBubble}
        /\ disturbed' = IF Unsubscribe THEN disturbed \cup Live \cup OnTheWay ELSE disturbed
    <3>1. CASE Unsubscribe
      BY <3>1 DEF Unsubscribe, serverVars, tabVars
    <3>2. CASE ~Unsubscribe
      BY <1>8, <3>2 DEF Subscribe, Reconnect, serverVars, tabVars
    <3>3. QED
      BY <3>1, <3>2
  <2>2. ASSUME NEW t \in Watched'
        PROVE  /\ t \in Watched /\ turnAt[t] = "completed"
               /\ \A i \in 1 .. Len(events) : Foreign(t, i)
    <3>1. t \in Watched
      BY <2>1 DEF Watched
    <3>2. CASE Unsubscribe
      <4>1. t \notin Live /\ t \notin OnTheWay
        BY <2>1, <3>2 DEF Watched
      <4>2. QED
        BY <1>1, <3>1, <4>1, WhatIsOnTheWay DEF Watched, Live
    <3>3. CASE ~Unsubscribe
      <4>1. ~subscribed
        BY <1>8, <3>3 DEF Subscribe, Reconnect
      <4>2. events = <<>> /\ turnAt[t] = "completed"
        BY <3>1, <4>1 DEF MirrorInv, Detached
      <4>3. Len(events) = 0
        BY <4>2
      <4>4. QED
        BY <3>1, <4>2, <4>3
    <3>4. QED
      BY <3>2, <3>3
  <2>3. ASSUME NEW t \in Watched' PROVE Followed(t)'
    <3>1. t \in MirroredTurn /\ Followed(t) /\ bubble # t
      BY <1>1, <2>2, NothingLeft DEF MirrorInv, Watched
    <3>2. bubble' # t
      BY <2>1, <3>1, MirrorAssumption DEF MirrorAssumption
    <3>3. QED
      BY <1>1, <2>1, <2>2, <3>1, <3>2, DrawnToTheEnd
  <2>4. \A t \in Watched' : t \notin Live' /\ turnAt'[t] = "completed"
    BY <2>1, <2>2 DEF Live
  <2>5. ASSUME NEW t \in MirroredTurn, turnAt'[t] = "idle" PROVE Unbegun(t)'
    <3>1. Unbegun(t)
      BY <2>1, <2>5 DEF MirrorInv
    <3>2. 1 .. Len(events') = {}
      BY <2>1
    <3>3. bubble' # t
      BY <2>1, <3>1, MirrorAssumption DEF MirrorAssumption, Unbegun
    <3>4. QED
      BY <2>1, <3>1, <3>2, <3>3 DEF Unbegun, Unshown
  <2>6. Detached'
    BY <2>1, <2>4 DEF Detached
  <2>7. QED
    BY <1>1, <1>2, <2>3, <2>4, <2>5, <2>6 DEF MirrorInv
<1>9. CASE Sends
  <2>1. /\ events # <<>> /\ events' = Tail(events)
        /\ UNCHANGED <<turnAt, deltas, subscribed>>
    BY <1>1, <1>9, SendsTake
  <2>2. \A t \in Watched' : t \in Watched /\ Followed(t)'
    BY <1>1, <1>9, SendsFollow
  <2>3. Detached'
    BY <2>1 DEF MirrorInv, Detached
  <2>4. Live' = Live
    BY <2>1 DEF Live
  <2>5. ASSUME NEW t \in MirroredTurn, turnAt'[t] = "idle" PROVE Unbegun(t)'
    <3>1. Unbegun(t)
      BY <2>1, <2>5 DEF MirrorInv
    <3>2. /\ Head(events) = events[1] /\ Len(events') = Len(events) - 1
          /\ Len(events) \in Nat \ {0}
          /\ \A i \in 1 .. Len(events) - 1 : events'[i] = events[i + 1]
      BY <1>1, <2>1, AtHead
    <3>3. Head(events).piece[1] # t
      <4>1. 1 \in 1 .. Len(events)
        BY <3>2
      <4>2. QED
        BY <3>1, <3>2, <4>1 DEF Unbegun, Foreign
    <3>4. ASSUME NEW i \in 1 .. Len(events') PROVE events'[i].piece[1] # t
      <4>1. i \in 1 .. Len(events) - 1 /\ i + 1 \in 1 .. Len(events)
        BY <3>2
      <4>2. QED
        BY <3>1, <3>2, <4>1 DEF Unbegun, Foreign
    <3>5. bubble' # t /\ Unshown(t)'
      BY <1>1, <1>9, <3>1, <3>3, OthersOnThePage DEF Unbegun
    <3>6. QED
      BY <2>1, <3>1, <3>4, <3>5 DEF Unbegun, Foreign
  <2>6. QED
    BY <1>1, <1>2, <2>2, <2>3, <2>4, <2>5 DEF MirrorInv
<1>10. QED
  BY <1>3, <1>5, <1>6, <1>7, <1>8, <1>9 DEF MirrorNext, Sends

\* However many turns there are, and however often they fail, overlap, or the
\* connection breaks, a turn the tab has watched from its question to its end
\* stands there with the whole answer, once (session_events, subscribeMirror).
THEOREM WatchedTurnsShownOnce == MirrorSpec => []MirroredOnce
<1>1. MirrorInv => MirroredOnce
  <2> SUFFICES ASSUME MirrorInv, NEW t \in MirroredTurn \ disturbed,
                      turnAt[t] = "completed", t \notin OnTheWay
               PROVE  {b \in shown : b[1] = t} = {<<t, Answered(t)>>}
    BY DEF MirroredOnce
  <2>1. t \in Watched
    BY DEF Watched
  <2>2. \A i \in 1 .. Len(events) : Foreign(t, i)
    BY WhatIsOnTheWay DEF MirrorInv
  <2>3. QED
    BY <2>1, <2>2, NothingLeft DEF MirrorInv
<1>2. QED
  BY <1>1, MirrorStart, MirrorStep, PTL DEF MirrorSpec
=============================================================================
