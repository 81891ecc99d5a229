------------------------- MODULE ReconnectingSocket -------------------------
(***************************************************************************)
(* ReconnectingWebSocket of the API client, as the desktop uses it: App    *)
(* makes an instance, starts it once, and stops it when the session or the *)
(* token changes.  JavaScript runs one callback at a time; what interleaves*)
(* are the resolution of getTicket(), the timer, the events of the socket  *)
(* and the calls of App.                                                   *)
(*                                                                         *)
(* A chain of connection attempts runs through the slots of Conn: a slot is*)
(* an armed timer, a connect() waiting for its ticket, or a socket in one  *)
(* of its ready states.  Socket events follow the WebSocket standard: no   *)
(* open or message event once close() was called, and one close event.     *)
(***************************************************************************)
EXTENDS Naturals, FiniteSets

CONSTANTS
    Conn,           \* slots for connection attempts
    None,           \* undefined
    MaxAttempts     \* options.maxAttempts

ASSUME AttemptsAssumption == MaxAttempts \in Nat /\ None \notin Conn

VARIABLES
    started,        \* App called start()
    stopped,        \* this.stopped
    attempts,       \* this.attempts
    timer,          \* this.timer
    socket,         \* this.socket
    conn,           \* the slots
    subscribed,     \* history: open sockets that were sent the subscribe envelope
    state           \* the last argument of onStateChange

vars == <<started, stopped, attempts, timer, socket, conn, subscribed, state>>

Sockets == {"connecting", "open", "closing"}

Init ==
    /\ started = FALSE
    /\ stopped = TRUE
    /\ attempts = 0
    /\ timer = None
    /\ socket = None
    /\ conn = [c \in Conn |-> "free"]
    /\ subscribed = {}
    /\ state = "disconnected"

\* The slots after this.socket?.close().
ClosedSocket(slots) ==
    IF socket # None /\ slots[socket] \in {"connecting", "open"}
    THEN [slots EXCEPT ![socket] = "closing"] ELSE slots

Start ==
    /\ ~started
    /\ started' = TRUE
    /\ stopped' = FALSE
    /\ attempts' = 0
    /\ \E c \in Conn : conn' = [conn EXCEPT ![c] = "ticket"]
    /\ state' = "connecting"
    /\ UNCHANGED <<timer, socket, subscribed>>

TimerKept == conn                          \* mutant: clearTimeout left out
TimerCleared ==
    IF timer # None /\ conn[timer] = "armed"
    THEN [conn EXCEPT ![timer] = "free"] ELSE conn

Stop ==
    /\ stopped' = TRUE
    /\ conn' = ClosedSocket(TimerCleared)
    /\ state' = "disconnected"
    /\ UNCHANGED <<started, attempts, timer, socket, subscribed>>

\* scheduleReconnect, after the attempt in slot c ended.
AttemptsNotCounted == attempts             \* mutant: attempts += 1 left out
NextAttempts == attempts + 1

Exhausted == attempts >= MaxAttempts

ScheduleReconnect(c) ==
    \/ /\ Exhausted
       /\ conn' = [conn EXCEPT ![c] = "free"]
       /\ state' = "disconnected"
       /\ UNCHANGED <<attempts, timer>>
    \/ /\ ~Exhausted
       /\ attempts' = NextAttempts
       /\ state' = "reconnecting"
       /\ \E d \in Conn :
             /\ d = c \/ conn[d] = "free"
             /\ conn' = [[conn EXCEPT ![c] = "free"] EXCEPT ![d] = "armed"]
             /\ timer' = d

\* onclose and a failed connect() end here, unless the instance was stopped.
EndedUnreported(c) ==                      \* mutant: onclose does nothing more
    /\ conn' = [conn EXCEPT ![c] = "free"]
    /\ UNCHANGED <<attempts, timer, state>>
Ended(c) ==
    \/ /\ stopped
       /\ conn' = [conn EXCEPT ![c] = "free"]
       /\ UNCHANGED <<attempts, timer, state>>
    \/ /\ ~stopped                          \* 401, 403; 1008, 4401, 4403
       /\ conn' = [conn EXCEPT ![c] = "free"]
       /\ state' = "denied"
       /\ UNCHANGED <<attempts, timer>>
    \/ ~stopped /\ ScheduleReconnect(c)

TimerFires(c) ==
    /\ conn[c] = "armed"
    /\ conn' = [conn EXCEPT ![c] = "ticket"]
    /\ state' = "reconnecting"
    /\ UNCHANGED <<started, stopped, attempts, timer, socket, subscribed>>

\* getTicket() resolves: connect() goes on where it awaited.
AlwaysLive == TRUE                         \* mutant: stopped not read again
StillLive == ~stopped

Ticket(c) ==
    /\ conn[c] = "ticket"
    /\ \/ /\ ~StillLive
          /\ conn' = [conn EXCEPT ![c] = "free"]
          /\ UNCHANGED socket
       \/ /\ StillLive
          /\ conn' = [conn EXCEPT ![c] = "connecting"]
          /\ socket' = c
    /\ UNCHANGED <<started, stopped, attempts, timer, subscribed, state>>

TicketFails(c) ==
    /\ conn[c] = "ticket"
    /\ Ended(c)
    /\ UNCHANGED <<started, stopped, socket, subscribed>>

\* onopen sends on this.socket.
Open(c) ==
    /\ conn[c] = "connecting"
    /\ conn' = [conn EXCEPT ![c] = "open"]
    /\ attempts' = 0
    /\ subscribed' = subscribed \cup ({socket} \ {None})
    /\ state' = "connected"
    /\ UNCHANGED <<started, stopped, timer, socket>>

\* onmessage, with a frame that does not parse.  A good one changes nothing.
\* The WebSocket of a browser refuses close(1008, ...): a page may give 1000 or
\* 3000 to 4999, so the call in the catch block throws and the socket stays open.
InvalidMessage(c) ==
    /\ conn[c] = "open"
    /\ state' = "denied"
    /\ UNCHANGED <<started, stopped, attempts, timer, socket, conn, subscribed>>

ErrorReconnects(c) ==                      \* mutant: onerror also reconnects
    /\ conn[c] \in {"connecting", "open"}
    /\ attempts < MaxAttempts
    /\ attempts' = attempts + 1
    /\ state' = "reconnecting"
    /\ \E d \in Conn : /\ conn[d] = "free"
                       /\ conn' = [ClosedSocket(conn) EXCEPT ![d] = "armed"]
                       /\ timer' = d
    /\ UNCHANGED <<started, stopped, socket, subscribed>>
Error(c) ==
    /\ conn[c] \in {"connecting", "open"}
    /\ conn' = ClosedSocket(conn)
    /\ UNCHANGED <<started, stopped, attempts, timer, socket, subscribed, state>>

Close(c) ==
    /\ conn[c] \in Sockets
    /\ socket' = None
    /\ subscribed' = subscribed \ {c}
    /\ Ended(c)
    /\ UNCHANGED <<started, stopped>>

Event(c) ==
    \/ TimerFires(c)
    \/ Ticket(c) \/ TicketFails(c)
    \/ Open(c) \/ InvalidMessage(c) \/ Error(c) \/ Close(c)

Next == Start \/ Stop \/ \E c \in Conn : Event(c)

Spec == Init /\ [][Next]_vars

\* Timers fire, fetch() settles, and a socket that is not open opens or closes
\* (a handshake and a closing handshake time out).  An open socket may stay.
Fairness ==
    \A c \in Conn :
        /\ WF_vars(TimerFires(c))
        /\ WF_vars(Ticket(c) \/ TicketFails(c))
        /\ WF_vars(Open(c) \/ (conn[c] \in {"connecting", "closing"} /\ Close(c)))

FairSpec == Spec /\ Fairness

-----------------------------------------------------------------------------
\* The fields of the instance hold what they are declared to hold.
TypeOK ==
    /\ started \in BOOLEAN
    /\ stopped \in BOOLEAN
    /\ attempts \in 0 .. MaxAttempts
    /\ timer \in Conn \cup {None}
    /\ socket \in Conn \cup {None}
    /\ conn \in [Conn -> {"free", "armed", "ticket"} \cup Sockets]
    /\ subscribed \subseteq Conn
    /\ state \in {"connecting", "reconnecting", "connected", "denied",
                  "disconnected"}

\* A single chain: never two of a timer, a pending connect() and a socket, so
\* no connection is opened beside another and none escapes stop().
SingleChain == Cardinality({c \in Conn : conn[c] # "free"}) <= 1

\* stop() is final, whatever it interrupted: no timer is left, no socket is
\* left open or opening, and App's next instance, which reports to the same
\* state hook, is not talked over by this one.
StoppedIsSilent ==
    started /\ stopped =>
        /\ state = "disconnected"
        /\ \A c \in Conn : conn[c] \in {"free", "ticket", "closing"}

\* What the desktop shows is so: "connected" means this.socket is a socket that
\* was sent the subscribe envelope, and an open socket is shown as connected, or
\* as denied once a frame did not parse, never as anything else.
StateHonest ==
    /\ state = "connected" => socket \in subscribed
    /\ \A c \in Conn : conn[c] = "open" =>
          socket = c /\ c \in subscribed /\ state \in {"connected", "denied"}

\* client.test.ts:250: after a frame that does not parse the socket is closed with
\* "invalid server envelope".  A connection shown as denied is not open any more.
DeniedIsClosed == state = "denied" => \A c \in Conn : conn[c] # "open"

\* The client does not reconnect forever: it settles as connected, denied or
\* disconnected, after at most maxAttempts timers.
Settles ==
    state \in {"connecting", "reconnecting"}
        ~> state \in {"connected", "denied", "disconnected"}
=============================================================================
