---------------------------- MODULE AuthService ----------------------------
(***************************************************************************)
(* The authentication service: AuthenticationService over the PostgreSQL   *)
(* repository, as served by the authentication service and by the API      *)
(* gateway, two processes with their own event loops and thread pools on   *)
(* one database.  A request occupies a slot of ReqId; each of its steps is *)
(* one database transaction, one statement where a transaction can wait    *)
(* for a row lock while it holds another, or the answer of a handler that  *)
(* lets the client in, so the steps of different requests interleave       *)
(* exactly where another connection can get in.                            *)
(*                                                                         *)
(* Abstractions.  A random token (OIDC state, login code, session token,   *)
(* WebSocket ticket) is a fresh identifier; only its fingerprint is stored *)
(* and fingerprints are injective.  A login code is identified with the    *)
(* session whose token it seals, a device with the pair <<user, key>> that *)
(* its unique constraint makes a key.  Statuses "disabled" and "deleted"   *)
(* of a user are the same to this code and are both "disabled" here.       *)
(***************************************************************************)
EXTENDS Naturals, Sequences, FiniteSets

CONSTANTS
    ReqId,          \* slots for concurrent HTTP requests, in either process
    FlowId,         \* OIDC state values start_login may draw
    SessionId,      \* session rows (and their tokens) complete_login may draw
    TicketId,       \* WebSocket tickets issue_ws_ticket may draw
    UserId,         \* users provision_identity may insert
    Subject, Email, \* what the OIDC provider's ID tokens may claim
    DeviceKey,      \* device keys desktops may present
    Channel,        \* WS_CHANNELS
    HealthChannel,  \* "system.health", the channel that needs a permission
    None,           \* no value
    FlowTtl, GrantTtl, SessionTtl, TicketTtl,
    MaxClock,       \* bound on the clock
    Edits           \* bound on the operator: of "status", "roles", what it edits

ASSUME TtlAssumption ==
    /\ FlowTtl \in Nat \ {0}
    /\ GrantTtl \in Nat \ {0}
    /\ SessionTtl \in Nat \ {0}
    /\ TicketTtl \in Nat \ {0}
    /\ MaxClock \in Nat

ASSUME NoneAssumption ==
    None \notin FlowId \cup SessionId \cup UserId \cup Subject \cup Email
                \cup Channel \cup DeviceKey \cup (UserId \X DeviceKey)

VARIABLES
    clock,       \* datetime.now(UTC)
    flows,       \* identity.oidc_flows
    users,       \* identity.users
    identities,  \* identity.oidc_identities, as pairs <<subject, user>>
    readers,     \* users whose roles carry system.health.read
    devices,     \* identity.devices
    sessions,    \* identity.sessions
    events,      \* identity.session_events, per session, oldest first
    grants,      \* identity.login_grants, by the session they seal
    tickets,     \* identity.websocket_tickets
    reqs,        \* the requests being handled
    disclosed,   \* history: how often a session's token was sent to a client
    accepts,     \* history: how many sockets a ticket opened
    ended,       \* history: sessions a 204 answer promised to have ended
    everReaders  \* history: users that ever held system.health.read

tables  == <<flows, users, identities, readers, devices, sessions, events,
             grants, tickets>>
history == <<disclosed, accepts, ended, everReaders>>
vars    == <<clock, tables, reqs, history>>

Devices == UserId \X DeviceKey

(***************************************************************************)
(* Requests.  pc names the step the request takes next; the other fields   *)
(* are the handler's local variables.                                      *)
(***************************************************************************)
LoginPcs  == {"exchangeCode", "selectIdentity", "insertUser", "updateUser",
              "registerDevice", "createSession", "resolveSession", "putGrant"}
ActingPcs == {"logout", "logoutCommit", "revokeDevice", "findSessions",
              "revokeSessions", "readPermissions", "putTicket"}
Pcs == {"idle", "authorizationUrl", "callback", "exchangeGrant", "openGrant",
        "sendToken", "authenticate", "consumeTicket", "accept"}
       \cup LoginPcs \cup ActingPcs

Idle == [pc |-> "idle", op |-> "idle", flow |-> None, now |-> 0,
         subject |-> None, email |-> None, user |-> None, device |-> None,
         session |-> None, channel |-> None, may |-> FALSE, ticket |-> None,
         prior |-> {}, hit |-> {}, held |-> {}]

At(r, pc)   == reqs[r].pc = pc
Becomes(r, q) == reqs' = [reqs EXCEPT ![r] = q]
Answered(r) == Becomes(r, Idle)

(***************************************************************************)
(* Initially the migrated, empty database and no request.                  *)
(***************************************************************************)
Init ==
    /\ clock = 0
    /\ flows = [f \in FlowId |->
                  [status |-> "none", key |-> None, expires |-> 0]]
    /\ users = [u \in UserId |-> [status |-> "none", email |-> None]]
    /\ identities = {}
    /\ readers = {}
    /\ devices = [d \in Devices |-> "none"]
    /\ sessions = [s \in SessionId |->
                     [status |-> "none", user |-> None, device |-> None,
                      expires |-> 0, flow |-> None, subject |-> None]]
    /\ events = [s \in SessionId |-> << >>]
    /\ grants = [s \in SessionId |-> [status |-> "none", expires |-> 0]]
    /\ tickets = [t \in TicketId |->
                    [status |-> "none", session |-> None, channel |-> None,
                     expires |-> 0]]
    /\ reqs = [r \in ReqId |-> Idle]
    /\ disclosed = [s \in SessionId |-> 0]
    /\ accepts = [t \in TicketId |-> 0]
    /\ ended = {}
    /\ everReaders = {}

(***************************************************************************)
(* Queries the handlers share.                                             *)
(***************************************************************************)
\* The WHERE clause of resolve_session.
Resolves(s, now) ==
    /\ sessions[s].status = "open"
    /\ sessions[s].expires > now
    /\ users[sessions[s].user].status = "active"
    /\ devices[sessions[s].device] = "live"

OpenSessions == {s \in SessionId : sessions[s].status = "open"}
OpenSessionsOf(d) == {s \in OpenSessions : sessions[s].device = d}

\* Row locks of a transaction that has not committed yet: others still read the
\* old rows, but writers of those rows wait.  revoke_device holds the device
\* from its first UPDATE on, and the session rows its second one has reached;
\* revoke_session holds its one row.
LocksDeviceLast(q, d) ==               \* mutant: sessions before the device
    At(q, "revokeSessions") /\ reqs[q].hit = {} /\ reqs[q].device = d
HoldsDevice(q, d) ==
    reqs[q].pc \in {"findSessions", "revokeSessions"} /\ reqs[q].device = d
DeviceLocked(d)  == \E q \in ReqId : HoldsDevice(q, d)
SessionLocked(s) == \E q \in ReqId : s \in reqs[q].held

\* Unique constraints: users.email, and oidc_identities (issuer, subject).
EmailNotUnique(e, u) == FALSE          \* mutant: no unique constraint
EmailTaken(e, u) ==
    \E v \in UserId \ {u} : users[v].status # "none" /\ users[v].email = e
SubjectTaken(x) == \E u \in UserId : <<x, u>> \in identities

-----------------------------------------------------------------------------
(***************************************************************************)
(* start_login stores the flow, then awaits the provider's metadata.  The  *)
(* state reaches the client only in the authorization URL.                 *)
(***************************************************************************)
StartLogin(r, f, k) ==
    /\ At(r, "idle")
    /\ flows[f].status = "none"
    /\ flows' = [flows EXCEPT ![f] = [status |-> "stored", key |-> k,
                                      expires |-> clock + FlowTtl]]
    /\ Becomes(r, [Idle EXCEPT !.pc = "authorizationUrl",
                               !.flow = f])
    /\ UNCHANGED <<clock, users, identities, readers, devices, sessions,
                   events, grants, tickets, history>>

AuthorizationUrl(r) ==
    /\ At(r, "authorizationUrl")
    /\ flows' = [flows EXCEPT ![reqs[r].flow].status = "shared"]
    /\ Answered(r)
    /\ UNCHANGED <<clock, users, identities, readers, devices, sessions,
                   events, grants, tickets, history>>

-----------------------------------------------------------------------------
(***************************************************************************)
(* complete_login, the callback.  A browser may deliver it any number of   *)
(* times.  now is read once, before the provider is awaited.               *)
(***************************************************************************)
Callback(r, f) ==
    /\ At(r, "idle")
    /\ flows[f].status \in {"shared", "used"}
    /\ Becomes(r, [Idle EXCEPT !.pc = "callback", !.flow = f])
    /\ UNCHANGED <<clock, tables, history>>

\* What DELETE ... RETURNING leaves of the flow's row.
FlowNotDeleted(f)   == flows[f]        \* mutant: SELECT instead of DELETE
FlowAfterConsume(f) == [flows[f] EXCEPT !.status = "used"]

ConsumeFlow(r) ==
    LET f == reqs[r].flow IN
    /\ At(r, "callback")
    /\ \/ /\ flows[f].status = "shared"
          /\ flows[f].expires > clock
          /\ flows' = [flows EXCEPT ![f] = FlowAfterConsume(f)]
          /\ Becomes(r, [reqs[r] EXCEPT !.pc = "exchangeCode", !.now = clock])
       \/ /\ ~(flows[f].status = "shared" /\ flows[f].expires > clock)
          /\ Answered(r)
          /\ UNCHANGED flows
    /\ UNCHANGED <<clock, users, identities, readers, devices, sessions,
                   events, grants, tickets, history>>

\* External: the provider answers with verified claims, or the exchange fails
\* (a refused code, a bad ID token, a timeout) and the callback is a 401.
OidcExchange(r) ==
    /\ At(r, "exchangeCode")
    /\ \/ \E x \in Subject, e \in Email :
             Becomes(r, [reqs[r] EXCEPT !.pc = "selectIdentity",
                                        !.subject = x, !.email = e])
       \/ Answered(r)
    /\ UNCHANGED <<clock, tables, history>>

\* The row provision_identity's SELECT finds.
MatchedByEmail(r, u) ==                \* mutant: accounts linked by e-mail
    users[u].status # "none" /\ users[u].email = reqs[r].email
Identified(r, u) == <<reqs[r].subject, u>> \in identities

\* provision_identity: the SELECT, then the INSERTs or the UPDATE.  The two
\* statements see different snapshots; unique constraints decide a race.
SelectIdentity(r) ==
    /\ At(r, "selectIdentity")
    /\ \/ /\ ~ \E u \in UserId : Identified(r, u)
          /\ Becomes(r, [reqs[r] EXCEPT !.pc = "insertUser"])
       \/ \E u \in UserId :
             /\ Identified(r, u)
             /\ Becomes(r, [reqs[r] EXCEPT !.pc = "updateUser", !.user = u])
    /\ UNCHANGED <<clock, tables, history>>

InsertUser(r) ==
    /\ At(r, "insertUser")
    /\ \/ \E u \in UserId :
             /\ users[u].status = "none"
             /\ ~EmailTaken(reqs[r].email, u)
             /\ ~SubjectTaken(reqs[r].subject)
             /\ users' = [users EXCEPT ![u] = [status |-> "active",
                                               email |-> reqs[r].email]]
             /\ identities' = identities \cup {<<reqs[r].subject, u>>}
             /\ Becomes(r, [reqs[r] EXCEPT !.pc = "registerDevice",
                                           !.user = u, !.email = None])
       \/ /\ EmailTaken(reqs[r].email, None) \/ SubjectTaken(reqs[r].subject)
          /\ Answered(r)                 \* IntegrityError, rolled back: 500
          /\ UNCHANGED <<users, identities>>
    /\ UNCHANGED <<clock, flows, readers, devices, sessions, events, grants,
                   tickets, history>>

UpdateUser(r) ==
    LET u == reqs[r].user
        proceed == Becomes(r, [reqs[r] EXCEPT !.pc = "registerDevice",
                                              !.email = None])
    IN  /\ At(r, "updateUser")
        /\ \/ /\ users[u].status = "active"
              /\ ~EmailTaken(reqs[r].email, u)
              /\ users' = [users EXCEPT ![u].email = reqs[r].email]
              /\ proceed
           \/ /\ users[u].status = "active"
              /\ EmailTaken(reqs[r].email, u)
              /\ Answered(r)             \* IntegrityError: 500
              /\ UNCHANGED users
           \/ /\ users[u].status # "active"
              /\ proceed                 \* no row matched, no error
              /\ UNCHANGED users
        /\ UNCHANGED <<clock, flows, identities, readers, devices, sessions,
                       events, grants, tickets, history>>

\* The upsert clears revoked_at; it waits for a revocation holding the row.
LoginDevice(r) == <<reqs[r].user, flows[reqs[r].flow].key>>

RegisterDevice(r) ==
    LET d == LoginDevice(r) IN
    /\ At(r, "registerDevice")
    /\ ~DeviceLocked(d)
    /\ devices' = [devices EXCEPT ![d] = "live"]
    /\ Becomes(r, [reqs[r] EXCEPT !.pc = "createSession", !.device = d])
    /\ UNCHANGED <<clock, flows, users, identities, readers, sessions, events,
                   grants, tickets, history>>

\* The session row and its session.created event, one transaction.
CreateSession(r) ==
    /\ At(r, "createSession")
    /\ \E s \in SessionId :
          /\ sessions[s].status = "none"
          /\ sessions' = [sessions EXCEPT ![s] =
                [status |-> "open", user |-> reqs[r].user,
                 device |-> reqs[r].device,
                 expires |-> reqs[r].now + SessionTtl,
                 flow |-> reqs[r].flow, subject |-> reqs[r].subject]]
          /\ events' = [events EXCEPT ![s] = Append(@, "session.created")]
          /\ Becomes(r, [reqs[r] EXCEPT !.pc = "resolveSession",
                                        !.session = s, !.device = None])
    /\ UNCHANGED <<clock, flows, users, identities, readers, devices, grants,
                   tickets, history>>

\* A disabled user or a device revoked meanwhile: the login is refused and the
\* session row stays behind, its token never sealed in a grant.
ResolveSession(r) ==
    /\ At(r, "resolveSession")
    /\ \/ /\ Resolves(reqs[r].session, reqs[r].now)
          /\ Becomes(r, [reqs[r] EXCEPT !.pc = "putGrant"])
       \/ /\ ~Resolves(reqs[r].session, reqs[r].now)
          /\ Answered(r)
    /\ UNCHANGED <<clock, tables, history>>

FreshGrantExpiry(r)   == clock + GrantTtl        \* mutant: now read again
NegatedGrantExpiry(r) == reqs[r].now - GrantTtl  \* mutant: wrong sign
GrantExpiry(r) == reqs[r].now + GrantTtl

PutLoginGrant(r) ==
    /\ At(r, "putGrant")
    /\ grants' = [grants EXCEPT ![reqs[r].session] =
                    [status |-> "live", expires |-> GrantExpiry(r)]]
    /\ Answered(r)
    /\ UNCHANGED <<clock, flows, users, identities, readers, devices,
                   sessions, events, tickets, history>>

-----------------------------------------------------------------------------
(***************************************************************************)
(* exchange_login_grant: consume the code, then authenticate the token it  *)
(* sealed.  A client may retry, or two clients may race.                   *)
(***************************************************************************)
ExchangeGrant(r, s) ==
    /\ At(r, "idle")
    /\ grants[s].status # "none"
    /\ Becomes(r, [Idle EXCEPT !.pc = "exchangeGrant",
                               !.session = s])
    /\ UNCHANGED <<clock, tables, history>>

GrantNotDeleted(s)   == grants[s]      \* mutant: SELECT instead of DELETE
GrantAfterConsume(s) == [grants[s] EXCEPT !.status = "used"]

ConsumeLoginGrant(r) ==
    LET s == reqs[r].session
        matches == grants[s].status = "live" /\ grants[s].expires > clock
    IN  /\ At(r, "exchangeGrant")
        /\ \/ /\ matches
              /\ grants' = [grants EXCEPT ![s] = GrantAfterConsume(s)]
              /\ Becomes(r, [reqs[r] EXCEPT !.pc = "openGrant"])
           \/ /\ ~matches
              /\ Answered(r)
              /\ UNCHANGED grants
        /\ UNCHANGED <<clock, flows, users, identities, readers, devices,
                       sessions, events, tickets, history>>

\* resolve_session decides; the token leaves with the answer, later.
AuthenticateGrant(r) ==
    /\ At(r, "openGrant")
    /\ \/ /\ Resolves(reqs[r].session, clock)
          /\ Becomes(r, [reqs[r] EXCEPT !.pc = "sendToken"])
       \/ ~Resolves(reqs[r].session, clock) /\ Answered(r)
    /\ UNCHANGED <<clock, tables, history>>

SendToken(r) ==
    /\ At(r, "sendToken")
    /\ disclosed' = [disclosed EXCEPT ![reqs[r].session] = @ + 1]
    /\ Answered(r)
    /\ UNCHANGED <<clock, tables, accepts, ended, everReaders>>

-----------------------------------------------------------------------------
(***************************************************************************)
(* Authenticated requests.  current_principal resolves the bearer token in *)
(* a transaction of its own; the handler then acts on that Principal.      *)
(***************************************************************************)
Request(r, s, op) ==
    /\ At(r, "idle")
    /\ disclosed[s] > 0
    /\ \/ /\ op = "logout"
          /\ Becomes(r, [Idle EXCEPT !.pc = "authenticate", !.op = op,
                                     !.session = s])
       \/ /\ op = "revokeDevice"
          /\ \E d \in Devices :
                /\ devices[d] # "none"
                /\ Becomes(r, [Idle EXCEPT !.pc = "authenticate", !.op = op,
                                           !.session = s, !.device = d,
                                           !.prior = OpenSessionsOf(d)])
       \/ /\ op = "readPermissions"
          /\ Cardinality({t \in TicketId : tickets[t].status = "none"})
                > Cardinality({q \in ReqId : reqs[q].op = op})
          /\ \E c \in Channel :
                Becomes(r, [Idle EXCEPT !.pc = "authenticate", !.op = op,
                                        !.session = s, !.channel = c])
    /\ UNCHANGED <<clock, tables, history>>

Authenticate(r) ==
    LET s == reqs[r].session IN
    /\ At(r, "authenticate")
    /\ \/ /\ Resolves(s, clock)
          /\ Becomes(r, [reqs[r] EXCEPT !.pc = reqs[r].op,
                                        !.user = sessions[s].user])
       \/ ~Resolves(s, clock) /\ Answered(r)
    /\ UNCHANGED <<clock, tables, history>>

\* The sessions after the commit of an UPDATE that has revoked those of S.
AfterRevoking(S) ==
    [s \in SessionId |-> IF s \in S THEN [sessions[s] EXCEPT !.status = "revoked"]
                                   ELSE sessions[s]]

\* revoke_session: an UPDATE that waits for whoever holds the row; then, if it
\* changed the row, the event, and the commit.
Logout(r) ==
    /\ At(r, "logout")
    /\ ~SessionLocked(reqs[r].session)
    /\ Becomes(r, [reqs[r] EXCEPT !.pc = "logoutCommit",
                                  !.held = {reqs[r].session} \cap OpenSessions])
    /\ UNCHANGED <<clock, tables, history>>

EventPerLogout(r) ==                   \* mutant: no check for a changed row
    Append(events[reqs[r].session], "session.revoked")
RevocationEvents(r) ==
    IF reqs[r].held # {} THEN Append(events[reqs[r].session], "session.revoked")
                         ELSE events[reqs[r].session]

LogoutCommit(r) ==
    /\ At(r, "logoutCommit")
    /\ sessions' = AfterRevoking(reqs[r].held)
    /\ events' = [events EXCEPT ![reqs[r].session] = RevocationEvents(r)]
    /\ ended' = ended \cup {reqs[r].session}
    /\ Answered(r)
    /\ UNCHANGED <<clock, flows, users, identities, readers, devices, grants,
                   tickets, disclosed, accepts, everReaders>>

\* revoke_device.  The first UPDATE takes the row of the device, or finds none.
AnyLiveDevice(r) ==                    \* mutant: user_id not compared
    devices[reqs[r].device] = "live"
OwnLiveDevice(r) ==
    /\ reqs[r].device[1] = reqs[r].user
    /\ devices[reqs[r].device] = "live"

RevokeDevice(r) ==
    /\ At(r, "revokeDevice")
    /\ \/ /\ OwnLiveDevice(r)
          /\ ~DeviceLocked(reqs[r].device)
          /\ Becomes(r, [reqs[r] EXCEPT !.pc = "findSessions"])
       \/ ~OwnLiveDevice(r) /\ Answered(r)                      \* 404
    /\ UNCHANGED <<clock, tables, history>>

\* The second UPDATE finds the sessions its snapshot shows ...
NoSessions(d)       == {}              \* mutant: only the device is updated
SessionsToRevoke(d) == OpenSessionsOf(d)

FindSessions(r) ==
    /\ At(r, "findSessions")
    /\ Becomes(r, [reqs[r] EXCEPT !.pc = "revokeSessions",
                                  !.hit = SessionsToRevoke(reqs[r].device)])
    /\ UNCHANGED <<clock, tables, history>>

\* ... and takes them row by row, in any order, waiting for whoever holds a row
\* and passing over one that was revoked meanwhile.
RevokeSession(r, s) ==
    /\ At(r, "revokeSessions")
    /\ s \in reqs[r].hit
    /\ ~SessionLocked(s)
    /\ Becomes(r, [reqs[r] EXCEPT !.hit = @ \ {s},
                                  !.held = @ \cup ({s} \cap OpenSessions)])
    /\ UNCHANGED <<clock, tables, history>>

RevokeCommit(r) ==
    /\ At(r, "revokeSessions")
    /\ reqs[r].hit = {}
    /\ devices' = [devices EXCEPT ![reqs[r].device] = "revoked"]
    /\ sessions' = AfterRevoking(reqs[r].held)
    /\ ended' = ended \cup reqs[r].prior
    /\ Answered(r)
    /\ UNCHANGED <<clock, flows, users, identities, readers, events, grants,
                   tickets, disclosed, accepts, everReaders>>

\* resolve_session's last SELECT, a snapshot later than the session's.
ReadPermissions(r) ==
    /\ At(r, "readPermissions")
    /\ Becomes(r, [reqs[r] EXCEPT !.pc = "putTicket",
                                  !.may = reqs[r].user \in readers])
    /\ UNCHANGED <<clock, tables, history>>

AlwaysPermitted(r) == TRUE             \* mutant: permission not required
TicketPermitted(r) == reqs[r].channel = HealthChannel => reqs[r].may

PutTicket(r) ==
    /\ At(r, "putTicket")
    /\ \/ /\ TicketPermitted(r)
          /\ \E t \in TicketId :
                /\ tickets[t].status = "none"
                /\ tickets' = [tickets EXCEPT ![t] =
                      [status |-> "live", session |-> reqs[r].session,
                       channel |-> reqs[r].channel,
                       expires |-> clock + TicketTtl]]
       \/ ~TicketPermitted(r) /\ UNCHANGED tickets               \* 403
    /\ Answered(r)
    /\ UNCHANGED <<clock, flows, users, identities, readers, devices,
                   sessions, events, grants, history>>

-----------------------------------------------------------------------------
(***************************************************************************)
(* The WebSocket handshake: consume the ticket, accept or close with 1008. *)
(***************************************************************************)
Connect(r, t, c) ==
    /\ At(r, "idle")
    /\ tickets[t].status # "none"
    /\ Becomes(r, [Idle EXCEPT !.pc = "consumeTicket",
                               !.ticket = t, !.channel = c])
    /\ UNCHANGED <<clock, tables, history>>

\* The WHERE clause of consume_ws_ticket: neither the user nor the device.
TicketAlone(t, c) ==                   \* mutant: sessions not joined
    /\ tickets[t].status = "live"
    /\ tickets[t].channel = c
    /\ tickets[t].expires > clock
TicketMatches(t, c) ==
    LET s == tickets[t].session IN
    /\ tickets[t].status = "live"
    /\ tickets[t].channel = c
    /\ tickets[t].expires > clock
    /\ sessions[s].status = "open"
    /\ sessions[s].expires > clock

ConsumeTicket(r) ==
    LET t == reqs[r].ticket IN
    /\ At(r, "consumeTicket")
    /\ \/ /\ TicketMatches(t, reqs[r].channel)
          /\ tickets' = [tickets EXCEPT ![t].status = "used"]
          /\ Becomes(r, [reqs[r] EXCEPT !.pc = "accept"])
       \/ /\ ~TicketMatches(t, reqs[r].channel)
          /\ Answered(r)
          /\ UNCHANGED tickets
    /\ UNCHANGED <<clock, flows, users, identities, readers, devices,
                   sessions, events, grants, history>>

\* await websocket.accept(): the session is not looked at again.
Accept(r) ==
    /\ At(r, "accept")
    /\ accepts' = [accepts EXCEPT ![reqs[r].ticket] = @ + 1]
    /\ Answered(r)
    /\ UNCHANGED <<clock, tables, disclosed, ended, everReaders>>

-----------------------------------------------------------------------------
(***************************************************************************)
(* The environment.                                                        *)
(***************************************************************************)
\* A handler ends early: an exception, a lost database connection, a crash of
\* its process.  An open transaction rolls back, committed ones stay.
Abort(r) ==
    /\ ~At(r, "idle")
    /\ Answered(r)
    /\ UNCHANGED <<clock, tables, history>>

\* External: an operator edits users.status or the user's roles in SQL.
SetStatus(u) ==
    /\ "status" \in Edits
    /\ users[u].status # "none"
    /\ users' = [users EXCEPT ![u].status =
                    IF @ = "active" THEN "disabled" ELSE "active"]
    /\ UNCHANGED <<clock, flows, identities, readers, devices, sessions,
                   events, grants, tickets, reqs, history>>

SetRoles(u) ==
    /\ "roles" \in Edits
    /\ users[u].status # "none"
    /\ readers' = IF u \in readers THEN readers \ {u} ELSE readers \cup {u}
    /\ everReaders' = everReaders \cup {u}
    /\ UNCHANGED <<clock, flows, users, identities, devices, sessions, events,
                   grants, tickets, reqs, disclosed, accepts, ended>>

Tick ==
    /\ clock < MaxClock
    /\ clock' = clock + 1
    /\ UNCHANGED <<tables, reqs, history>>

-----------------------------------------------------------------------------
Arrive(r) ==
    \/ \E f \in FlowId, k \in DeviceKey : StartLogin(r, f, k)
    \/ \E f \in FlowId : Callback(r, f)
    \/ \E s \in SessionId : ExchangeGrant(r, s)
    \/ \E s \in SessionId, op \in {"logout", "revokeDevice", "readPermissions"} :
          Request(r, s, op)
    \/ \E t \in TicketId, c \in Channel : Connect(r, t, c)

Handle(r) ==
    \/ AuthorizationUrl(r)
    \/ ConsumeFlow(r) \/ OidcExchange(r)
    \/ SelectIdentity(r) \/ InsertUser(r) \/ UpdateUser(r)
    \/ RegisterDevice(r) \/ CreateSession(r) \/ ResolveSession(r)
    \/ PutLoginGrant(r)
    \/ ConsumeLoginGrant(r) \/ AuthenticateGrant(r) \/ SendToken(r)
    \/ Authenticate(r)
    \/ Logout(r) \/ LogoutCommit(r)
    \/ RevokeDevice(r) \/ FindSessions(r) \/ RevokeCommit(r)
    \/ \E s \in SessionId : RevokeSession(r, s)
    \/ ReadPermissions(r) \/ PutTicket(r)
    \/ ConsumeTicket(r) \/ Accept(r)

Operate == \E u \in UserId : SetStatus(u) \/ SetRoles(u)

Next ==
    \/ \E r \in ReqId : Arrive(r) \/ Handle(r) \/ Abort(r)
    \/ Operate
    \/ Tick

Spec == Init /\ [][Next]_vars

\* A handler that can run does: uvicorn schedules it, and every provider call
\* has an HTTP timeout.  A writer that waits for a row lock is queued by
\* PostgreSQL, so revocations that come and go cannot overtake it forever.
Fairness ==
    \A r \in ReqId :
        /\ WF_vars(Handle(r))
        /\ SF_vars(\/ RegisterDevice(r) \/ Logout(r) \/ RevokeDevice(r)
                   \/ \E s \in SessionId : RevokeSession(r, s))

FairSpec == Spec /\ Fairness

-----------------------------------------------------------------------------
(***************************************************************************)
(* Properties.                                                             *)
(***************************************************************************)
RequestType ==
    [pc : Pcs, op : Pcs, flow : FlowId \cup {None}, now : Nat,
     subject : Subject \cup {None}, email : Email \cup {None},
     user : UserId \cup {None}, device : Devices \cup {None},
     session : SessionId \cup {None}, channel : Channel \cup {None},
     may : BOOLEAN, ticket : TicketId \cup {None},
     prior : SUBSET SessionId, hit : SUBSET SessionId,
     held : SUBSET SessionId]

FlowRow    == [status : {"none", "stored", "shared", "used"},
               key : DeviceKey \cup {None}, expires : Nat]
UserRow    == [status : {"none", "active", "disabled"}, email : Email \cup {None}]
SessionRow == [status : {"none", "open", "revoked"}, user : UserId \cup {None},
               device : Devices \cup {None}, expires : Nat,
               flow : FlowId \cup {None}, subject : Subject \cup {None}]
GrantRow   == [status : {"none", "live", "used"}, expires : Nat]
TicketRow  == [status : {"none", "live", "used"},
               session : SessionId \cup {None}, channel : Channel \cup {None},
               expires : Nat]
EventType  == {"session.created", "session.revoked"}

TablesOK ==
    /\ flows \in [FlowId -> FlowRow]
    /\ users \in [UserId -> UserRow]
    /\ identities \in SUBSET (Subject \X UserId)
    /\ readers \in SUBSET UserId
    /\ devices \in [Devices -> {"none", "live", "revoked"}]
    /\ sessions \in [SessionId -> SessionRow]
    /\ events \in [SessionId -> Seq(EventType)]
    /\ grants \in [SessionId -> GrantRow]
    /\ tickets \in [TicketId -> TicketRow]

HistoryOK ==
    /\ disclosed \in [SessionId -> Nat]
    /\ accepts \in [TicketId -> Nat]
    /\ ended \in SUBSET SessionId
    /\ everReaders \in SUBSET UserId

\* Every table, request and history variable keeps its type: the columns of
\* the identity schema as the repository writes them.
TypeOK ==
    /\ clock \in Nat
    /\ TablesOK
    /\ reqs \in [ReqId -> RequestType]
    /\ HistoryOK

\* However callbacks and exchanges are repeated or raced, the opaque token of a
\* session is sent to a client at most once (service.exchange_login_grant).
TokenDisclosedOnce == \A s \in SessionId : disclosed[s] <= 1

\* An OIDC state value logs in at most once: no two session rows come from the
\* same flow, although complete_login spans many transactions and may abort.
OneSessionPerFlow ==
    \A s, t \in SessionId :
        /\ s # t
        /\ sessions[s].status # "none"
        /\ sessions[t].status # "none"
        => sessions[s].flow # sessions[t].flow

\* A session belongs to the user bound to the subject the provider vouched for
\* in that login, on the device whose key started that login, whatever other
\* logins provisioned or renamed meanwhile.
SessionIdentity ==
    \A s \in SessionId :
        sessions[s].status # "none" =>
            /\ <<sessions[s].subject, sessions[s].user>> \in identities
            /\ sessions[s].device = <<sessions[s].user,
                                      flows[sessions[s].flow].key>>

\* provision_identity never splits a subject over two users, never binds two
\* subjects to one user, leaves no user without an identity, and keeps e-mail
\* addresses unique, also when first logins race.
IdentityIntegrity ==
    /\ \A i, j \in identities : i[1] = j[1] <=> i[2] = j[2]
    /\ \A u \in UserId :
          users[u].status # "none" <=> \E x \in Subject : <<x, u>> \in identities
    /\ \A u, v \in UserId :
          u # v /\ users[u].status # "none" /\ users[v].status # "none"
          => users[u].email # users[v].email

\* However long the provider and the database keep complete_login waiting, its
\* grant can be exchanged only within FlowTtl + GrantTtl of start_login, and its
\* session ends within FlowTtl + SessionTtl: both count from the stale now.
LoginWindow ==
    \A s \in SessionId :
        /\ sessions[s].status # "none" =>
              sessions[s].expires < flows[sessions[s].flow].expires + SessionTtl
        /\ grants[s].status # "none" =>
              grants[s].expires < flows[sessions[s].flow].expires + GrantTtl

\* Once logout or revoke_device has answered 204, the sessions it covers (its
\* own; every session open on the device when the request was made) are revoked
\* for good, also when the device logs in again and clears its revocation.
EndedStayEnded == \A s \in ended : sessions[s].status = "revoked"

\* The requests that let somebody use session s: a principal that was resolved
\* and is being acted for, an answer that carries the token, a handshake whose
\* ticket was consumed.
LetIn(s) ==
    {r \in ReqId :
        \/ /\ reqs[r].pc \in ActingPcs \cup {"sendToken"}
           /\ reqs[r].session = s
        \/ At(r, "accept") /\ tickets[reqs[r].ticket].session = s}

\* Such a session lets nobody in any more: no request that has not passed its
\* check by then ever does, be it an exchange that has consumed the code, a
\* bearer token or a handshake with a ticket issued before or after.  What was
\* let in before still sends its token, opens its socket or issues its ticket.
EndedLetsNobodyIn ==
    [][\A s \in ended : LetIn(s)' \subseteq LetIn(s)]_vars

\* session_events of a session: created once, then revoked at most once and
\* only if it is revoked; logouts racing each other or a device revocation
\* never write the event twice.
EventLedger ==
    \A s \in SessionId :
        \/ sessions[s].status = "none" /\ events[s] = << >>
        \/ sessions[s].status # "none" /\ events[s] = <<"session.created">>
        \/ /\ sessions[s].status = "revoked"
           /\ events[s] = <<"session.created", "session.revoked">>

\* A session is revoked only by a request authenticated as its own user.
RevokedByOwner ==
    [][\A s \in SessionId :
          sessions[s].status = "open" /\ sessions'[s].status = "revoked"
          => \E r \in ReqId : /\ reqs[r].pc \in ActingPcs
                              /\ reqs[r].user = sessions[s].user]_vars

\* A ticket opens at most one socket, its session's token had been disclosed,
\* and one for the health channel was only ever issued to a user that held
\* system.health.read.
SocketAuthority ==
    \A t \in TicketId :
        /\ accepts[t] <= 1
        /\ accepts[t] > 0 => disclosed[tickets[t].session] > 0
        /\ accepts[t] > 0 /\ tickets[t].channel = HealthChannel
           => sessions[tickets[t].session].user \in everReaders

\* r may wait for a row that q has locked.
WaitsFor(r, q) ==
    \/ At(r, "registerDevice") /\ HoldsDevice(q, LoginDevice(r))
    \/ At(r, "revokeDevice") /\ HoldsDevice(q, reqs[r].device)
    \/ At(r, "logout") /\ reqs[r].session \in reqs[q].held
    \/ reqs[r].hit \cap reqs[q].held # {}

\* Logins, logouts and device revocations never wait for each other in a circle,
\* in whatever order a revocation reaches the sessions of its device: some
\* request of every set waits for none of them.
NoDeadlock ==
    \A Q \in (SUBSET ReqId) \ {{}} : \E r \in Q : \A q \in Q : ~WaitsFor(r, q)

\* Every request is eventually answered: waiting for a row of another request
\* never becomes waiting forever.
RequestsAnswered == \A r \in ReqId : ~At(r, "idle") ~> At(r, "idle")

-----------------------------------------------------------------------------
(***************************************************************************)
(* The inductive invariant: what a handler may rely on between its         *)
(* transactions.                                                           *)
(***************************************************************************)
SessionPcs == {"resolveSession", "putGrant"}
ExchangePcs == {"openGrant", "sendToken"}
RevokingPcs == {"revokeDevice", "findSessions", "revokeSessions"}
BeforeSession(r) == reqs[r].pc \in LoginPcs \ SessionPcs
Exists(s) == sessions[s].status # "none"

\* The local variables a step needs have been set.
LocalOK(r) ==
    /\ reqs[r].pc \in LoginPcs \cup {"authorizationUrl", "callback"} =>
          reqs[r].flow \in FlowId /\ flows[reqs[r].flow].key \in DeviceKey
    /\ reqs[r].pc \in {"insertUser", "updateUser", "selectIdentity"} =>
          reqs[r].subject \in Subject /\ reqs[r].email \in Email
    /\ reqs[r].pc \in {"updateUser", "registerDevice", "createSession"} =>
          reqs[r].subject \in Subject /\ reqs[r].user \in UserId
    /\ reqs[r].pc = "createSession" => reqs[r].device \in Devices
    /\ reqs[r].pc \in SessionPcs \cup ExchangePcs \cup ActingPcs
                      \cup {"exchangeGrant", "authenticate"} =>
          reqs[r].session \in SessionId /\ Exists(reqs[r].session)
    /\ reqs[r].pc = "authenticate" =>
          reqs[r].op \in {"logout", "revokeDevice", "readPermissions"}
    /\ reqs[r].pc \in ActingPcs => reqs[r].user \in UserId
    /\ reqs[r].op = "revokeDevice" =>
          /\ reqs[r].pc \in {"authenticate"} \cup RevokingPcs
          /\ reqs[r].device \in Devices
    /\ reqs[r].pc \in RevokingPcs => reqs[r].op = "revokeDevice"
    /\ \A s \in reqs[r].hit \cup reqs[r].held : Exists(s)
    /\ reqs[r].pc \in {"consumeTicket", "accept"} => reqs[r].ticket \in TicketId

LocalsOK == \A r \in ReqId : LocalOK(r)

\* Rows refer to rows that exist: the foreign keys of the identity schema.
RowsOK ==
    /\ \A f \in FlowId : flows[f].status # "none" <=> flows[f].key \in DeviceKey
    /\ \A s \in SessionId :
          /\ Exists(s) => /\ sessions[s].user \in UserId
                          /\ sessions[s].device \in Devices
                          /\ sessions[s].flow \in FlowId
          /\ grants[s].status # "none" => Exists(s)
          /\ disclosed[s] > 0 => Exists(s)
    /\ \A t \in TicketId :
          tickets[t].status # "none" =>
              tickets[t].session \in SessionId /\ Exists(tickets[t].session)

\* A flow is used by one callback only, and that callback makes one session.
FlowOwnership ==
    /\ \A r \in ReqId :
          /\ At(r, "authorizationUrl") => flows[reqs[r].flow].status = "stored"
          /\ reqs[r].pc \in LoginPcs => flows[reqs[r].flow].status = "used"
          /\ BeforeSession(r) =>
                \A s \in SessionId : Exists(s) => sessions[s].flow # reqs[r].flow
          /\ reqs[r].pc \in SessionPcs =>
                sessions[reqs[r].session].flow = reqs[r].flow
    /\ \A r, q \in ReqId :
          /\ r # q
          /\ \/ reqs[r].pc \in LoginPcs /\ reqs[q].pc \in LoginPcs
             \/ At(r, "authorizationUrl") /\ At(q, "authorizationUrl")
          => reqs[r].flow # reqs[q].flow
    /\ \A s \in SessionId :
          Exists(s) => flows[sessions[s].flow].status = "used"

\* A login code is stored once, and consumed by one exchange only.
GrantOwnership ==
    /\ \A r \in ReqId :
          /\ reqs[r].pc \in SessionPcs =>
                grants[reqs[r].session].status = "none"
          /\ reqs[r].pc \in ExchangePcs =>
                /\ grants[reqs[r].session].status = "used"
                /\ disclosed[reqs[r].session] = 0
    /\ \A r, q \in ReqId :
          r # q /\ reqs[r].pc \in ExchangePcs /\ reqs[q].pc \in ExchangePcs
          => reqs[r].session # reqs[q].session
    /\ \A s \in SessionId : grants[s].status # "used" => disclosed[s] = 0

\* What every step of complete_login and exchange_login_grant may rely on after
\* the transactions of other requests: with TypeOK it is inductive, and it
\* implies OneSessionPerFlow and TokenDisclosedOnce.
LoginInv ==
    /\ LocalsOK
    /\ RowsOK
    /\ FlowOwnership
    /\ GrantOwnership
-----------------------------------------------------------------------------
(***************************************************************************)
(* The abstract specification and its refinement mapping.                  *)
(***************************************************************************)
DueToken(s) == \E r \in ReqId : At(r, "sendToken") /\ reqs[r].session = s
TokenOf(s)  == IF disclosed[s] > 0 THEN "sent"
               ELSE IF DueToken(s) THEN "due" ELSE "kept"
UsedTickets(s) ==
    {t \in TicketId : tickets[t].session = s /\ tickets[t].status = "used"}

Ledger == INSTANCE SessionLedger WITH
    life     <- [s \in SessionId |-> sessions[s].status],
    code     <- [s \in SessionId |-> grants[s].status],
    token    <- [s \in SessionId |-> TokenOf(s)],
    promised <- ended,
    admitted <- [s \in SessionId |-> UsedTickets(s)],
    sockets  <- {t \in TicketId : accepts[t] > 0}

\* To the holder of a session token the service is the SessionLedger: every
\* transaction of every handler is one of its steps or invisible to it.
ImplementsLedger == Ledger!Spec
=============================================================================
