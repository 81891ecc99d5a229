-------------------------- MODULE WebSocketSession --------------------------
(***************************************************************************)
(* The server's side of one WebSocket after its handshake: the loop of     *)
(* websocket() in app.py.  The client may send frames ahead of the         *)
(* answers, and may be gone at any moment, also between two answers.       *)
(*                                                                         *)
(* Abstractions.  A frame is what the loop makes of it: not text, longer   *)
(* than ws_max_frame_bytes, refused by _websocket_control ("invalid"),     *)
(* making it raise an error other than ValueError ("raises": an operation  *)
(* that is a list or an object cannot be looked up in a set), or an        *)
(* operation with its subscription id.  An answer is named by the frame it *)
(* answers; a "heartbeat" in answer to a heartbeat is its ack.             *)
(***************************************************************************)
EXTENDS Naturals, Sequences, FiniteSets

CONSTANTS
    SubId,              \* subscription ids clients may choose
    None,               \* no subscription id
    MaxSubscriptions,   \* ws_max_subscriptions, 1 .. 4
    MaxFrames           \* bound on the frames a client sends

ASSUME LimitAssumption ==
    /\ MaxSubscriptions \in Nat \ {0}
    /\ MaxFrames \in Nat
    /\ None \notin SubId

Control == [op : {"subscribe", "unsubscribe"}, id : SubId]
             \cup [op : {"heartbeat"}, id : SubId \cup {None}]
Refused == [op : {"binary", "oversize", "invalid", "raises"}, id : {None}]
Frame   == Control \cup Refused

VARIABLES
    health,         \* the channel of the ticket is system.health
    frames,         \* what the client sent, oldest first
    gone,           \* the client disconnected
    read,           \* how many frames the loop has received
    pc,             \* "receive", "ack", "health", "closed"
    subscriptions,  \* the set of the handler
    code,           \* the close code the handler or, after an error, the
                    \* server around it sent; 0 for none
    sent            \* what the server sent, oldest first: <<kind, frame>>

vars == <<health, frames, gone, read, pc, subscriptions, code, sent>>

Init ==
    /\ health \in BOOLEAN
    /\ frames = << >>
    /\ gone = FALSE
    /\ read = 0
    /\ pc = "receive"
    /\ subscriptions = {}
    /\ code = 0
    /\ sent = << >>

-----------------------------------------------------------------------------
\* The client: it sends a frame, or disconnects.
Send(f) ==
    /\ ~gone
    /\ pc # "closed"
    /\ Len(frames) < MaxFrames
    /\ frames' = Append(frames, f)
    /\ UNCHANGED <<health, gone, read, pc, subscriptions, code, sent>>

Disconnect ==
    /\ ~gone
    /\ gone' = TRUE
    /\ UNCHANGED <<health, frames, read, pc, subscriptions, code, sent>>

-----------------------------------------------------------------------------
(***************************************************************************)
(* The loop.                                                               *)
(***************************************************************************)
Current == frames[read]

CloseCode(f) == CASE f.op = "binary"   -> 1003
                  [] f.op = "oversize" -> 1009
                  [] f.op = "raises"   -> 1011
                  [] OTHER             -> 1008

LimitOffByOne(f) ==                \* mutant: > for >=
    /\ f.id \notin subscriptions
    /\ Cardinality(subscriptions) > MaxSubscriptions
LimitOnRepeats(f) ==               \* mutant: a repeated id counts again
    Cardinality(subscriptions) >= MaxSubscriptions
OverLimit(f) ==
    /\ f.id \notin subscriptions
    /\ Cardinality(subscriptions) >= MaxSubscriptions

Subscribed(f) == CASE f.op = "subscribe"   -> subscriptions \cup {f.id}
                   [] f.op = "unsubscribe" -> subscriptions \ {f.id}
                   [] OTHER                -> subscriptions

\* websocket.receive() returns the next frame, and the frame is looked at.
Receive ==
    LET f == frames[read + 1]
        refused == f \in Refused \/ (f.op = "subscribe" /\ OverLimit(f))
    IN  /\ pc = "receive"
        /\ read < Len(frames)
        /\ read' = read + 1
        /\ \/ /\ refused
              /\ pc' = "closed"
              /\ code' = CloseCode(f)
              /\ UNCHANGED subscriptions
           \/ /\ ~refused
              /\ pc' = "ack"
              /\ subscriptions' = Subscribed(f)
              /\ UNCHANGED code
        /\ UNCHANGED <<health, frames, gone, sent>>

\* websocket.receive() returns websocket.disconnect, behind the frames.
ReceiveDisconnect ==
    /\ pc = "receive"
    /\ gone
    /\ read = Len(frames)
    /\ pc' = "closed"
    /\ UNCHANGED <<health, frames, gone, read, subscriptions, code, sent>>

HealthToAll(f) == health                          \* mutant: not only subscribe
HealthFollows(f) == health /\ f.op = "subscribe"

Ack ==
    /\ pc = "ack"
    /\ sent' = Append(sent, <<"ack", read>>)
    /\ pc' = IF HealthFollows(Current) THEN "health" ELSE "receive"
    /\ UNCHANGED <<health, frames, gone, read, subscriptions, code>>

HealthEnvelope ==
    /\ pc = "health"
    /\ sent' = Append(sent, <<"health", read>>)
    /\ pc' = "receive"
    /\ UNCHANGED <<health, frames, gone, read, subscriptions, code>>

\* send_json to a client that is gone raises WebSocketDisconnect.
SendFails ==
    /\ pc \in {"ack", "health"}
    /\ gone
    /\ pc' = "closed"
    /\ UNCHANGED <<health, frames, gone, read, subscriptions, code, sent>>

Serve == Receive \/ ReceiveDisconnect \/ Ack \/ HealthEnvelope \/ SendFails
Next  == (\E f \in Frame : Send(f)) \/ Disconnect \/ Serve

Spec == Init /\ [][Next]_vars

-----------------------------------------------------------------------------
\* The loop's variables have their types and the frames received were sent.
TypeOK ==
    /\ health \in BOOLEAN
    /\ frames \in Seq(Frame)
    /\ gone \in BOOLEAN
    /\ read \in 0 .. Len(frames)
    /\ pc \in {"receive", "ack", "health", "closed"}
    /\ subscriptions \in SUBSET SubId
    /\ code \in {0, 1003, 1008, 1009, 1011}
    /\ sent \in Seq({"ack", "health"} \X Nat)

Last(id, n) == {i \in 1 .. n : frames[i] \in Control /\ frames[i].id = id
                               /\ frames[i].op # "heartbeat"}
Standing(n) == {id \in SubId : \E i \in Last(id, n) :
                  /\ frames[i].op = "subscribe"
                  /\ \A j \in Last(id, n) : j <= i}

\* docs/api: the socket "bounds ... subscription count".  The set of the handler
\* is what the control frames up to now leave standing, so its size is that of
\* distinct live ids, and never exceeds the limit, not even for an instant.
SubscriptionLimit ==
    /\ Cardinality(subscriptions) <= MaxSubscriptions
    /\ code = 0 => subscriptions = Standing(read)

\* A client that stays within the limit and sends valid frames is never closed
\* on: a close code is sent only for the frame that earned it, and a repeated
\* subscription at the limit does not earn it.
ClosedForCause ==
    code # 0 =>
        /\ pc = "closed"
        /\ read > 0
        /\ \/ Current \in Refused
           \/ /\ Current.op = "subscribe"
              /\ Current.id \notin Standing(read - 1)
              /\ Cardinality(Standing(read - 1)) = MaxSubscriptions

\* Which frames were to be answered how, up to frame n.
Due(n) == {<<"ack", i>> : i \in 1 .. n}
            \cup {<<"health", i>> : i \in {j \in 1 .. n :
                      health /\ frames[j].op = "subscribe"}}

\* Answers come in the order of the frames, each once, the health envelope after
\* its ack; and until the socket is closed none that was due is missing.
AnswersInOrder ==
    /\ \A i, j \in DOMAIN sent : i < j =>
          \/ sent[i][2] < sent[j][2]
          \/ sent[i] = <<"ack", sent[j][2]>> /\ sent[j][1] = "health"
    /\ {sent[i] : i \in DOMAIN sent} \subseteq Due(read)
    /\ pc = "receive" => {sent[i] : i \in DOMAIN sent} = Due(read)
=============================================================================
