---------------------- MODULE WebSocketSession_proofs ----------------------
(***************************************************************************)
(* The safety of WebSocketSession, for every limit, any ids and any number *)
(* of frames.                                                              *)
(***************************************************************************)
EXTENDS WebSocketSession, FiniteSetTheorems, TLAPS

Answers == {sent[i] : i \in DOMAIN sent}

\* In which order answers may follow each other.
InOrder(a, b) == a[2] < b[2] \/ (a = <<"ack", b[2]>> /\ b[1] = "health")

\* The frame in hand is answered, or the loop is over.
InHand ==
    /\ pc \in {"ack", "health"} => read > 0 /\ Current \in Control
    /\ pc = "health" => health /\ Current.op = "subscribe"
    /\ code # 0 => pc = "closed"

\* The set is what the frames leave standing, within the limit.
SetStands ==
    /\ IsFiniteSet(subscriptions)
    /\ Cardinality(subscriptions) <= MaxSubscriptions
    /\ code = 0 => subscriptions = Standing(read)

\* Just the answers due for the frames before the one in hand, or with its ack.
Answered ==
    /\ \A i, j \in DOMAIN sent : i < j => InOrder(sent[i], sent[j])
    /\ pc = "receive" => Answers = Due(read)
    /\ pc = "ack" => Answers = Due(read - 1)
    /\ pc = "health" => Answers = Due(read - 1) \cup {<<"ack", read>>}
    /\ Answers \subseteq Due(read)

IInv == TypeOK /\ InHand /\ SetStands /\ ClosedForCause /\ Answered

USE LimitAssumption DEF LimitAssumption

-----------------------------------------------------------------------------
\* A frame is a control frame or a refused one; subscribe and unsubscribe carry
\* a subscription id.
LEMMA ControlFrames ==
    ASSUME NEW f \in Frame
    PROVE  /\ f \in Control \/ f \in Refused
           /\ f.op \in {"subscribe", "unsubscribe"} => f \in Control /\ f.id \in SubId
           /\ f \notin Refused => f \in Control
BY DEF Frame, Control, Refused

\* A frame behind the n-th changes nothing of what n frames leave standing.
LEMMA StandingPrefix ==
    ASSUME TypeOK, NEW f \in Frame, frames' = Append(frames, f),
           NEW n \in 0 .. Len(frames)
    PROVE  Standing(n)' = Standing(n)
<1>1. \A i \in 1 .. n : frames'[i] = frames[i]
  BY DEF TypeOK
<1>2. \A id \in SubId : Last(id, n)' = Last(id, n)
  BY <1>1 DEF Last
<1>3. \A id \in SubId : \A i \in Last(id, n) : i \in 1 .. n
  BY DEF Last
<1>. QED BY <1>1, <1>2, <1>3 DEF Standing

\* What the next frame does to the ids that stand.
LEMMA StandingStep ==
    ASSUME TypeOK, NEW n \in Nat, n < Len(frames)
    PROVE  Standing(n + 1) =
             CASE frames[n + 1].op = "subscribe" ->
                     Standing(n) \cup {frames[n + 1].id}
               [] frames[n + 1].op = "unsubscribe" ->
                     Standing(n) \ {frames[n + 1].id}
               [] OTHER -> Standing(n)
<1>. DEFINE f == frames[n + 1]
<1>1. f \in Frame
  BY DEF TypeOK
<1>2. CASE f.op \in {"subscribe", "unsubscribe"}
  <2>1. f \in Control /\ f.id \in SubId /\ f.op # "heartbeat"
    BY <1>1, <1>2, ControlFrames
  <2>2. \A id \in SubId : Last(id, n + 1) =
           IF id = f.id THEN Last(id, n) \cup {n + 1} ELSE Last(id, n)
    BY <2>1 DEF Last
  <2>3. \A id \in SubId : \A i \in Last(id, n) : i \in 1 .. n
    BY DEF Last
  <2>4. \A id \in SubId \ {f.id} : id \in Standing(n + 1) <=> id \in Standing(n)
    BY <2>2 DEF Standing
  <2>5. f.id \in Standing(n + 1) <=> f.op = "subscribe"
    <3>1. Last(f.id, n + 1) = Last(f.id, n) \cup {n + 1}
      BY <2>1, <2>2
    <3>2. \A i \in Last(f.id, n) : i \in 1 .. n
      BY <2>1, <2>3
    <3>. HIDE DEF f
    <3>3. \A i \in Last(f.id, n + 1) : i <= n + 1
      BY <3>1, <3>2
    <3>4. \A i \in Last(f.id, n + 1) : n + 1 <= i => i = n + 1
      BY <3>1, <3>2
    <3>. QED BY <2>1, <3>1, <3>3, <3>4 DEF Standing, f
  <2>6. Standing(n + 1) \subseteq SubId /\ Standing(n) \subseteq SubId
    BY DEF Standing
  <2>. QED BY <1>2, <2>1, <2>4, <2>5, <2>6
<1>3. CASE f.op \notin {"subscribe", "unsubscribe"}
  <2>1. f \notin Control \/ f.op = "heartbeat"
    BY <1>1, <1>3 DEF Frame, Control, Refused
  <2>2. \A id \in SubId : Last(id, n + 1) = Last(id, n)
    BY <2>1 DEF Last
  <2>. QED BY <1>3, <2>2 DEF Standing
<1>. QED BY <1>2, <1>3

\* Before any frame no subscription stands.
LEMMA NothingStands == ASSUME TypeOK PROVE Standing(0) = {}
BY DEF Standing, Last

\* The answers due for one more frame.
LEMMA DueStep ==
    ASSUME NEW n \in Nat
    PROVE  Due(n + 1) = Due(n) \cup {<<"ack", n + 1>>}
             \cup IF health /\ frames[n + 1].op = "subscribe"
                  THEN {<<"health", n + 1>>} ELSE {}
BY DEF Due

\* An answer due is an acknowledgement or a health envelope of a frame received.
LEMMA DueBounds ==
    ASSUME NEW n \in Nat, NEW a \in Due(n)
    PROVE  a[2] \in 1 .. n /\ a[1] \in {"ack", "health"} /\ a = <<a[1], a[2]>>
BY DEF Due

\* An answer behind the others, later than each or the second for its frame.
LEMMA AppendInOrder ==
    ASSUME TypeOK, Answered, NEW a, sent' = Append(sent, a),
           \A b \in Answers : InOrder(b, a)
    PROVE  /\ \A i, j \in DOMAIN sent' : i < j => InOrder(sent'[i], sent'[j])
           /\ Answers' = Answers \cup {a}
<1>1. /\ Len(sent) \in Nat
      /\ DOMAIN sent = 1 .. Len(sent) /\ DOMAIN sent' = 1 .. Len(sent) + 1
      /\ \A i \in 1 .. Len(sent) : sent'[i] = sent[i]
      /\ sent'[Len(sent) + 1] = a
  BY DEF TypeOK
<1>2. \A i \in DOMAIN sent : sent[i] \in Answers
  BY DEF Answers
<1>3. \A i, j \in DOMAIN sent' : i < j => InOrder(sent'[i], sent'[j])
  BY <1>1, <1>2 DEF Answered
<1>4. Answers' = Answers \cup {a}
  BY <1>1 DEF Answers
<1>. QED BY <1>3, <1>4
-----------------------------------------------------------------------------
\* An accepted connection has no frames, no subscriptions and no answers.
LEMMA InitInv == Init => IInv
<1>. SUFFICES ASSUME Init PROVE IInv
  OBVIOUS
<1>1. TypeOK
  <2>1. frames \in Seq(Frame) /\ sent \in Seq({"ack", "health"} \X Nat)
    BY DEF Init
  <2>2. read \in 0 .. Len(frames)
    BY DEF Init
  <2>. QED BY <2>1, <2>2 DEF Init, TypeOK
<1>2. InHand /\ ClosedForCause
  BY DEF Init, InHand, ClosedForCause
<1>3. SetStands
  BY <1>1, NothingStands, FS_EmptySet DEF Init, SetStands
<1>4. Answered
  BY DEF Init, Answered, Answers, Due
<1>. QED BY <1>1, <1>2, <1>3, <1>4 DEF IInv

\* A frame the client sends waits behind those it sent before.
LEMMA SendInv == ASSUME IInv, NEW f \in Frame, Send(f) PROVE IInv'
<1>. USE DEF IInv, Send
<1>1. TypeOK'
  BY DEF TypeOK
<1>2. \A i \in 1 .. read : frames'[i] = frames[i]
  BY DEF TypeOK
<1>3. InHand' /\ ClosedForCause'
  BY <1>2 DEF TypeOK, InHand, ClosedForCause, Current
<1>4. SetStands'
  BY StandingPrefix DEF TypeOK, SetStands
<1>5. \A n \in 0 .. read : Due(n)' = Due(n)
  BY <1>2 DEF TypeOK, Due
<1>6. Answered'
  BY <1>5 DEF TypeOK, Answered, Answers, InHand
<1>. QED BY <1>1, <1>3, <1>4, <1>6

\* The other steps leave the frames, and so what stands and what is due.
LEMMA FramesStay ==
    ASSUME UNCHANGED <<frames, health>>
    PROVE  /\ \A n : Standing(n)' = Standing(n)
           /\ \A n : Due(n)' = Due(n)
BY DEF Standing, Last, Due

\* The loop takes one frame and answers it, waits to answer or closes.
LEMMA ReceiveInv == ASSUME IInv, Receive PROVE IInv'
<1>. DEFINE f == frames[read + 1]
<1>. USE DEF IInv
<1>1. /\ pc = "receive" /\ read < Len(frames) /\ read' = read + 1
      /\ UNCHANGED <<health, frames, gone, sent>>
      /\ code = 0
  BY DEF Receive, InHand, ClosedForCause, TypeOK
<1>2. f \in Frame /\ read \in Nat /\ read + 1 \in 0 .. Len(frames)
  BY <1>1 DEF TypeOK
<1>3. Answered'
  <2>1. Due(read) \subseteq Due(read + 1)
    BY <1>2 DEF Due
  <2>2. pc' \in {"ack", "closed"}
    BY DEF Receive
  <2>. QED BY <1>1, <1>2, <2>1, <2>2, FramesStay DEF Answered, Answers
<1>4. CASE f \in Refused \/ (f.op = "subscribe" /\ OverLimit(f))
  <2>1. pc' = "closed" /\ code' = CloseCode(f) /\ UNCHANGED subscriptions
    BY <1>4 DEF Receive
  <2>2. code' \in {1003, 1008, 1009, 1011}
    BY <2>1 DEF CloseCode
  <2>3. TypeOK'
    BY <1>1, <1>2, <2>1, <2>2 DEF TypeOK
  <2>4. InHand' /\ SetStands'
    BY <1>1, <2>1, <2>2 DEF InHand, SetStands
  <2>5. ClosedForCause'
    <3>1. Current' = f /\ read' > 0 /\ read' - 1 = read
      BY <1>1, <1>2 DEF Current
    <3>2. CASE f.op = "subscribe" /\ OverLimit(f)
      <4>1. subscriptions = Standing(read)
        BY <1>1 DEF SetStands
      <4>2. Cardinality(subscriptions) \in Nat
        BY FS_CardinalityType DEF SetStands
      <4>3. Cardinality(subscriptions) = MaxSubscriptions
        BY <3>2, <4>2 DEF OverLimit, SetStands
      <4>. QED
        BY <1>1, <2>1, <3>1, <3>2, <4>1, <4>3, FramesStay
        DEF OverLimit, ClosedForCause
    <3>. QED BY <1>4, <2>1, <3>1, <3>2 DEF ClosedForCause
  <2>. QED BY <1>3, <2>3, <2>4, <2>5
<1>5. CASE ~(f \in Refused \/ (f.op = "subscribe" /\ OverLimit(f)))
  <2>1. pc' = "ack" /\ subscriptions' = Subscribed(f) /\ UNCHANGED code
    BY <1>5 DEF Receive
  <2>2. f \in Control /\ (f.op \in {"subscribe", "unsubscribe"} => f.id \in SubId)
    BY <1>2, <1>5, ControlFrames
  <2>3. TypeOK'
    BY <1>1, <1>2, <2>1, <2>2 DEF TypeOK, Subscribed
  <2>4. InHand' /\ ClosedForCause'
    BY <1>1, <1>2, <2>1, <2>2 DEF InHand, ClosedForCause, Current
  <2>5. SetStands'
    <3>1. subscriptions' = Standing(read + 1)
      <4>1. subscriptions = Standing(read)
        BY <1>1 DEF SetStands
      <4>. QED BY <1>1, <1>2, <2>1, <4>1, StandingStep DEF Subscribed
    <3>2. IsFiniteSet(subscriptions')
          /\ Cardinality(subscriptions') <= MaxSubscriptions
      <4>1. CASE f.op = "subscribe"
        <5>1. f.id \in subscriptions
              \/ Cardinality(subscriptions) < MaxSubscriptions
          BY <1>5, <4>1, FS_CardinalityType DEF OverLimit, SetStands
        <5>2. subscriptions' = subscriptions \cup {f.id}
          BY <2>1, <4>1 DEF Subscribed
        <5>3. IsFiniteSet(subscriptions) /\ Cardinality(subscriptions) \in Nat
              /\ Cardinality(subscriptions) <= MaxSubscriptions
          BY FS_CardinalityType DEF SetStands
        <5>4. IsFiniteSet(subscriptions \cup {f.id})
              /\ Cardinality(subscriptions \cup {f.id}) =
                    IF f.id \in subscriptions THEN Cardinality(subscriptions)
                    ELSE Cardinality(subscriptions) + 1
          BY <5>3, FS_AddElement
        <5>. HIDE DEF f
        <5>. QED BY <5>1, <5>2, <5>3, <5>4
      <4>2. CASE f.op = "unsubscribe"
        <5>1. subscriptions' = subscriptions \ {f.id}
          BY <2>1, <4>2 DEF Subscribed
        <5>2. IsFiniteSet(subscriptions) /\ Cardinality(subscriptions) \in Nat
              /\ Cardinality(subscriptions) <= MaxSubscriptions
          BY FS_CardinalityType DEF SetStands
        <5>3. IsFiniteSet(subscriptions \ {f.id})
              /\ Cardinality(subscriptions \ {f.id}) =
                    IF f.id \in subscriptions THEN Cardinality(subscriptions) - 1
                    ELSE Cardinality(subscriptions)
          BY <5>2, FS_RemoveElement
        <5>. HIDE DEF f
        <5>. QED BY <5>1, <5>2, <5>3
      <4>3. CASE f.op \notin {"subscribe", "unsubscribe"}
        BY <2>1, <4>3 DEF Subscribed, SetStands
      <4>. QED BY <4>1, <4>2, <4>3
    <3>. QED BY <1>1, <3>1, <3>2, FramesStay DEF SetStands
  <2>. QED BY <1>3, <2>3, <2>4, <2>5
<1>. QED BY <1>4, <1>5

\* An answer is sent: nothing but the loop's place and sent changes.
LEMMA AckInv == ASSUME IInv, Ack PROVE IInv'
<1>. USE DEF IInv, Ack
<1>1. read \in Nat \ {0} /\ read - 1 \in Nat
  BY DEF TypeOK, InHand
<1>2. TypeOK'
  BY <1>1 DEF TypeOK, HealthFollows
<1>3. InHand' /\ ClosedForCause' /\ SetStands'
  BY FramesStay DEF InHand, ClosedForCause, SetStands, HealthFollows, Current
<1>4. /\ \A i, j \in DOMAIN sent' : i < j => InOrder(sent'[i], sent'[j])
      /\ Answers' = Answers \cup {<<"ack", read>>}
  <2>1. \A b \in Answers : InOrder(b, <<"ack", read>>)
    BY <1>1, DueBounds DEF Answered, InOrder
  <2>. QED BY <2>1, AppendInOrder
<1>5. Due(read) = Due(read - 1) \cup {<<"ack", read>>}
        \cup IF health /\ Current.op = "subscribe"
             THEN {<<"health", read>>} ELSE {}
  BY <1>1, DueStep DEF Current
<1>6. Answered'
  BY <1>1, <1>4, <1>5, FramesStay DEF Answered, HealthFollows
<1>. QED BY <1>2, <1>3, <1>6

\* The health envelope follows the acknowledgement it belongs to.
LEMMA HealthInv == ASSUME IInv, HealthEnvelope PROVE IInv'
<1>. USE DEF IInv, HealthEnvelope
<1>1. read \in Nat \ {0} /\ read - 1 \in Nat
  BY DEF TypeOK, InHand
<1>2. TypeOK'
  BY <1>1 DEF TypeOK
<1>3. InHand' /\ ClosedForCause' /\ SetStands'
  BY FramesStay DEF InHand, ClosedForCause, SetStands, Current
<1>4. /\ \A i, j \in DOMAIN sent' : i < j => InOrder(sent'[i], sent'[j])
      /\ Answers' = Answers \cup {<<"health", read>>}
  <2>1. \A b \in Answers : InOrder(b, <<"health", read>>)
    BY <1>1, DueBounds DEF Answered, InOrder
  <2>. QED BY <2>1, AppendInOrder
<1>5. Due(read) = Due(read - 1) \cup {<<"ack", read>>} \cup {<<"health", read>>}
  BY <1>1, DueStep DEF Current, InHand
<1>6. Answered'
  BY <1>1, <1>4, <1>5, FramesStay DEF Answered
<1>. QED BY <1>2, <1>3, <1>6

\* The loop ends, or the client leaves, and nothing else changes.
LEMMA RestInv ==
    ASSUME IInv,
           Disconnect \/ ReceiveDisconnect \/ SendFails \/ UNCHANGED vars
    PROVE  IInv'
<1>. USE DEF IInv, Disconnect, ReceiveDisconnect, SendFails, vars
<1>1. UNCHANGED <<health, frames, read, subscriptions, code, sent>>
      /\ gone' \in BOOLEAN /\ pc' \in {pc, "closed"}
      /\ (pc' # pc => code = 0)
  <2>1. CASE Disconnect
    BY <2>1
  <2>2. CASE ReceiveDisconnect \/ SendFails
    <3>1. code = 0
      BY <2>2 DEF InHand
    <3>. QED BY <2>2, <3>1 DEF TypeOK
  <2>3. CASE UNCHANGED vars
    BY <2>3 DEF TypeOK
  <2>. QED BY <2>1, <2>2, <2>3
<1>2. TypeOK'
  BY <1>1 DEF TypeOK
<1>3. InHand' /\ ClosedForCause' /\ SetStands'
  BY <1>1, FramesStay DEF InHand, ClosedForCause, SetStands, Current
<1>4. Answered'
  BY <1>1, FramesStay DEF Answered, Answers
<1>. QED BY <1>2, <1>3, <1>4

\* Every step of the client and of the loop keeps the invariant.
LEMMA NextInv == IInv /\ [Next]_vars => IInv'
BY SendInv, ReceiveInv, AckInv, HealthInv, RestInv DEF Next, Serve

\* The invariant the properties follow from.
THEOREM LoopInvariant == Spec => []IInv
<1>. QED BY InitInv, NextInv, PTL DEF Spec

\* The variables of the loop keep their types.
THEOREM LoopTypes == Spec => []TypeOK
<1>1. IInv => TypeOK
  BY DEF IInv
<1>. QED BY <1>1, LoopInvariant, PTL

\* The set of subscriptions is within the limit and is what the frames say.
THEOREM LimitHolds == Spec => []SubscriptionLimit
<1>1. IInv => SubscriptionLimit
  BY DEF IInv, SetStands, SubscriptionLimit
<1>. QED BY <1>1, LoopInvariant, PTL

\* No client is closed on without cause.
THEOREM CauseHolds == Spec => []ClosedForCause
<1>1. IInv => ClosedForCause
  BY DEF IInv
<1>. QED BY <1>1, LoopInvariant, PTL

\* Every frame has its answers, once and in order.
THEOREM OrderHolds == Spec => []AnswersInOrder
<1>1. IInv => AnswersInOrder
  <2>1. ASSUME IInv, NEW i \in DOMAIN sent, NEW j \in DOMAIN sent, i < j
        PROVE  \/ sent[i][2] < sent[j][2]
               \/ sent[i] = <<"ack", sent[j][2]>> /\ sent[j][1] = "health"
    BY <2>1 DEF IInv, Answered, InOrder
  <2>. QED BY <2>1 DEF IInv, Answered, Answers, AnswersInOrder
<1>. QED BY <1>1, LoopInvariant, PTL
=============================================================================
