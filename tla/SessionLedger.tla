---------------------------- MODULE SessionLedger ----------------------------
(***************************************************************************)
(* What the authentication service promises about one opaque session       *)
(* token, whatever number of requests, processes and devices is at work:   *)
(* it is sealed under one login code, an answer to one client carries it   *)
(* in exchange for that code, its tickets open a WebSocket each from then  *)
(* on, and neither an exchange nor a handshake is let through any more     *)
(* once the session has been revoked.  An answer or a handshake that was   *)
(* let through before reaches the client whatever happens to the session,  *)
(* or is lost.  AuthService implements this module; flows, users, devices, *)
(* clocks and the requests themselves do not show here.                    *)
(***************************************************************************)
EXTENDS Naturals

CONSTANTS
    SessionId,  \* sessions that may be created
    TicketId    \* WebSocket tickets that may be issued

VARIABLES
    life,       \* "none", "open" or "revoked", per session
    code,       \* the session's login code: "none", "live" or "used"
    token,      \* "kept", "due" in an answer on its way, or "sent"
    promised,   \* sessions an answer has promised to have ended
    admitted,   \* the tickets of a session that were let through
    sockets     \* the tickets that have opened a socket

vars == <<life, code, token, promised, admitted, sockets>>

Init ==
    /\ life = [s \in SessionId |-> "none"]
    /\ code = [s \in SessionId |-> "none"]
    /\ token = [s \in SessionId |-> "kept"]
    /\ promised = {}
    /\ admitted = [s \in SessionId |-> {}]
    /\ sockets = {}

Create(s) ==
    /\ life[s] = "none"
    /\ life' = [life EXCEPT ![s] = "open"]
    /\ UNCHANGED <<code, token, promised, admitted, sockets>>

\* The token is sealed under a code the callback's redirect carries.
Seal(s) ==
    /\ life[s] # "none"
    /\ code[s] = "none"
    /\ code' = [code EXCEPT ![s] = "live"]
    /\ UNCHANGED <<life, token, promised, admitted, sockets>>

Spend(s) ==
    /\ code[s] = "live"
    /\ code' = [code EXCEPT ![s] = "used"]
    /\ UNCHANGED <<life, token, promised, admitted, sockets>>

\* The exchange finds the session open: its answer will carry the token ...
Grant(s) ==
    /\ code[s] = "used"
    /\ life[s] = "open"
    /\ token[s] = "kept"
    /\ token' = [token EXCEPT ![s] = "due"]
    /\ UNCHANGED <<life, code, promised, admitted, sockets>>

\* ... and arrives, or does not.
Disclose(s) ==
    /\ token[s] = "due"
    /\ \E end \in {"sent", "kept"} : token' = [token EXCEPT ![s] = end]
    /\ UNCHANGED <<life, code, promised, admitted, sockets>>

\* A logout or a device revocation: some open sessions are revoked at once,
\* and the answer promises the end of sessions that are revoked by now.
End ==
    /\ \E S \in SUBSET SessionId :
          /\ \A s \in S : life[s] = "open"
          /\ life' = [s \in SessionId |-> IF s \in S THEN "revoked" ELSE life[s]]
    /\ promised \subseteq promised'
    /\ \A s \in promised' \ promised : s \in SessionId /\ life'[s] = "revoked"
    /\ UNCHANGED <<code, token, admitted, sockets>>

\* A handshake with a ticket of an open session whose token was sent.
Admit(s, t) ==
    /\ life[s] = "open"
    /\ token[s] = "sent"
    /\ \A u \in SessionId : t \notin admitted[u]
    /\ admitted' = [admitted EXCEPT ![s] = @ \cup {t}]
    /\ UNCHANGED <<life, code, token, promised, sockets>>

\* The socket of a handshake that was let through opens, once.
Open(t) ==
    /\ \E s \in SessionId : t \in admitted[s]
    /\ t \notin sockets
    /\ sockets' = sockets \cup {t}
    /\ UNCHANGED <<life, code, token, promised, admitted>>

Next ==
    \/ \E s \in SessionId :
          Create(s) \/ Seal(s) \/ Spend(s) \/ Grant(s) \/ Disclose(s)
    \/ End
    \/ \E s \in SessionId, t \in TicketId : Admit(s, t)
    \/ \E t \in TicketId : Open(t)

Spec == Init /\ [][Next]_vars
=============================================================================
