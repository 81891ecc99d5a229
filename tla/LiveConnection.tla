--------------------------- MODULE LiveConnection ---------------------------
(***************************************************************************)
(* A signed-in desktop's ReconnectingWebSocket against the backend: the    *)
(* ticket requests, handshakes and handlers behind the events of           *)
(* ReconnectingSocket, while the session ends under them.  Requests and    *)
(* answers may be lost, and either side may learn late that the other left.*)
(* Each event of the client is its action in ReconnectingSocket, joined    *)
(* with what the backend and the network make of it.                       *)
(*                                                                         *)
(* The session ends once, by expiry, revocation, a disabled user or a lost *)
(* permission; what decides that is in AuthService.  The client sends one  *)
(* subscribe envelope on each socket, so WebSocketSession never closes on  *)
(* it.                                                                     *)
(***************************************************************************)
EXTENDS ReconnectingSocket

VARIABLES
    session,        \* "open" or "ended", for the backend
    reply,          \* the backend's answer to the ticket request of a slot
    handler         \* what the backend makes of the handshake of a slot

backend  == <<session, reply, handler>>
liveVars == <<vars, backend>>

LiveInit ==
    /\ Init
    /\ session = "open"
    /\ reply = [c \in Conn |-> "none"]
    /\ handler = [c \in Conn |-> "none"]

\* Bound: a slot is taken again when the backend has forgotten its handshake.
SlotsForgotten ==
    \A c \in Conn :
        conn'[c] = "armed" /\ conn[c] # "armed" => handler'[c] = "none"

Denied  == stopped \/ state' = "denied"
Retried == stopped \/ state' # "denied"

-----------------------------------------------------------------------------
(***************************************************************************)
(* The backend.                                                            *)
(***************************************************************************)
EndSession ==
    /\ session = "open"
    /\ session' = "ended"
    /\ UNCHANGED <<vars, reply, handler>>

\* current_principal and issue_ws_ticket: a ticket, or 401 or 403.
TicketAnswer == IF session = "open" THEN "issued" ELSE "refused"

IssueTicket(c) ==
    /\ conn[c] = "ticket"
    /\ reply[c] = "none"
    /\ reply' = [reply EXCEPT ![c] = TicketAnswer]
    /\ UNCHANGED <<vars, session, handler>>

\* consume_ws_ticket: the ticket may have expired on the way.
ConsumeTicket(c) ==
    /\ handler[c] = "handshake"
    /\ \/ /\ session = "open"
          /\ handler' = [handler EXCEPT ![c] = "admitted"]
       \/ handler' = [handler EXCEPT ![c] = "refused"]
    /\ UNCHANGED <<vars, session, reply>>

\* await websocket.accept(): the session is not looked at again.
Accept(c) ==
    /\ handler[c] = "admitted"
    /\ handler' = [handler EXCEPT ![c] = "accepted"]
    /\ UNCHANGED <<vars, session, reply>>

\* receive() or a send finds that the client is gone.
HandlerEnds(c) ==
    /\ handler[c] # "none"
    /\ conn[c] \notin {"connecting", "open"}
    /\ handler' = [handler EXCEPT ![c] = "none"]
    /\ UNCHANGED <<vars, session, reply>>

-----------------------------------------------------------------------------
(***************************************************************************)
(* The client's events.                                                    *)
(***************************************************************************)
\* App starts and stops the client.  The timer, an error event (the browser
\* reports one before it closes a lost connection) and a frame that does not
\* parse are the client's alone.
ClientAlone ==
    /\ \/ Start \/ Stop
       \/ \E c \in Conn : TimerFires(c) \/ Error(c) \/ InvalidMessage(c)
    /\ UNCHANGED backend

TicketArrives(c) ==
    /\ reply[c] = "issued"
    /\ Ticket(c)
    /\ reply' = [reply EXCEPT ![c] = "none"]
    /\ handler' = IF conn'[c] = "connecting"
                  THEN [handler EXCEPT ![c] = "handshake"] ELSE handler
    /\ UNCHANGED session

\* 401 and 403 deny; a lost request, a lost answer and a 5xx are tried again.
NoTicket(c) ==
    /\ TicketFails(c)
    /\ \/ reply[c] = "refused" /\ Denied
       \/ Retried
    /\ reply' = [reply EXCEPT ![c] = "none"]
    /\ UNCHANGED <<session, handler>>
    /\ SlotsForgotten

Opened(c) ==
    /\ handler[c] = "accepted"
    /\ Open(c)
    /\ UNCHANGED backend

\* The code of a close event: 1006 for a refused handshake (it is answered with
\* 403, whatever code close() was given) and for a lost connection, 1000 or none
\* after the client's own close(), 1001 and 1012 when the server shuts down.
CloseCodes == {1000, 1001, 1005, 1006, 1012}
AbnormalDenies(code) == code \in {1006, 1008, 4401, 4403}  \* mutant: 1006 too
Denies(code) == code \in {1008, 4401, 4403}

Closed(c) ==
    /\ Close(c)
    /\ \E code \in CloseCodes : IF Denies(code) THEN Denied ELSE Retried
    /\ handler' = [handler EXCEPT ![c] = IF @ = "refused" THEN "none" ELSE @]
    /\ SlotsForgotten
    /\ UNCHANGED <<session, reply>>

LiveNext ==
    \/ EndSession
    \/ ClientAlone
    \/ \E c \in Conn :
          \/ IssueTicket(c) \/ ConsumeTicket(c) \/ Accept(c) \/ HandlerEnds(c)
          \/ TicketArrives(c) \/ NoTicket(c) \/ Opened(c) \/ Closed(c)

\* Timers fire, fetch() settles, handshakes and closing handshakes end, and the
\* server notices a client that left.  Nothing ends an open socket.
LiveFairness ==
    \A c \in Conn :
        /\ WF_liveVars(TimerFires(c) /\ UNCHANGED backend)
        /\ WF_liveVars(TicketArrives(c) \/ NoTicket(c))
        /\ WF_liveVars(\/ Opened(c)
                       \/ conn[c] \in {"connecting", "closing"} /\ Closed(c))
        /\ WF_liveVars(HandlerEnds(c))

LiveSpec == LiveInit /\ [][LiveNext]_liveVars /\ LiveFairness

-----------------------------------------------------------------------------
\* The desktop says "denied" without a socket only when the backend has ended
\* the session: lost requests, lost connections and refused handshakes never end
\* in it, though a refused handshake looks like a lost connection to the client.
DeniedIsTrue == state = "denied" => session = "ended" \/ socket # None

\* A session that ended leaves nothing behind that keeps trying: either the
\* socket accepted before stays open, or the client comes to rest for good.
EventuallyQuiet ==
    session = "ended" ~>
        \/ [](state = "connected")
        \/ [](state = "denied")
        \/ [](state = "disconnected")
=============================================================================
