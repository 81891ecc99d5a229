------------------------ MODULE AuthService_proofs ------------------------
(***************************************************************************)
(* Theorems about AuthService, for every value of its constants and any    *)
(* number of requests in progress: what a flow, a grant and a ticket are   *)
(* good for and how often; then what a session is, how it ends and what it *)
(* gives access to, and the proof that AuthService implements              *)
(* SessionLedger.                                                          *)
(***************************************************************************)
EXTENDS AuthService, SequenceTheorems, TLAPS

TypeInv == TypeOK /\ LocalsOK /\ RowsOK

-----------------------------------------------------------------------------
(***************************************************************************)
(* The request records.                                                    *)
(***************************************************************************)
\* The program counters the actions assign are in Pcs.
LEMMA PcNames ==
    /\ "idle" \in Pcs /\ "authorizationUrl" \in Pcs /\ "callback" \in Pcs
    /\ "exchangeCode" \in Pcs /\ "selectIdentity" \in Pcs
    /\ "insertUser" \in Pcs /\ "updateUser" \in Pcs
    /\ "registerDevice" \in Pcs /\ "createSession" \in Pcs
    /\ "resolveSession" \in Pcs /\ "putGrant" \in Pcs
    /\ "exchangeGrant" \in Pcs /\ "openGrant" \in Pcs /\ "authenticate" \in Pcs
    /\ "sendToken" \in Pcs /\ "consumeTicket" \in Pcs /\ "accept" \in Pcs
    /\ "logout" \in Pcs /\ "logoutCommit" \in Pcs
    /\ "revokeDevice" \in Pcs /\ "findSessions" \in Pcs
    /\ "revokeSessions" \in Pcs
    /\ "readPermissions" \in Pcs /\ "putTicket" \in Pcs
  BY DEF Pcs, LoginPcs, ActingPcs

\* A free slot is a well-typed request.
LEMMA IdleType == Idle \in RequestType
  BY PcNames DEF Idle, RequestType

\* A request that becomes a well-typed record keeps reqs well typed.
LEMMA BecomesType ==
    ASSUME TypeOK, NEW r \in ReqId, NEW q \in RequestType, Becomes(r, q)
    PROVE  /\ reqs' \in [ReqId -> RequestType]
           /\ reqs'[r] = q
           /\ \A p \in ReqId \ {r} : reqs'[p] = reqs[p]
  BY DEF Becomes, TypeOK

\* The step of one request leaves the others' locals alone.
LEMMA BecomesFrame ==
    ASSUME TypeOK, NEW r \in ReqId, NEW q, Becomes(r, q)
    PROVE  reqs'[r] = q /\ \A p \in ReqId \ {r} : reqs'[p] = reqs[p]
  BY DEF Becomes, TypeOK

\* Answering a request keeps reqs well typed.
LEMMA AnsweredType ==
    ASSUME TypeOK, NEW r \in ReqId, Answered(r)
    PROVE  /\ reqs' \in [ReqId -> RequestType]
           /\ reqs'[r] = Idle
           /\ \A p \in ReqId \ {r} : reqs'[p] = reqs[p]
  BY BecomesType, IdleType DEF Answered

-----------------------------------------------------------------------------
\* Every step keeps the requests' locals well typed.
LEMMA RequestTypeStep ==
    ASSUME TypeInv, NEW r \in ReqId, Arrive(r) \/ Handle(r) \/ Abort(r)
    PROVE  reqs' \in [ReqId -> RequestType]
<1> USE DEF TypeInv
<1>0. reqs[r] \in RequestType /\ clock \in Nat
  BY DEF TypeOK
<1>1. CASE \E f \in FlowId, k \in DeviceKey : StartLogin(r, f, k)
  <2>1. PICK f \in FlowId, k \in DeviceKey : StartLogin(r, f, k)
    BY <1>1
  <2>2. [Idle EXCEPT !.pc = "authorizationUrl", !.flow = f] \in RequestType
    BY PcNames, IdleType DEF RequestType
  <2> QED
    BY <2>1, <2>2, BecomesType, AnsweredType DEF StartLogin
<1>2. CASE \E f \in FlowId : Callback(r, f)
  <2>1. PICK f \in FlowId : Callback(r, f)
    BY <1>2
  <2>2. [Idle EXCEPT !.pc = "callback", !.flow = f] \in RequestType
    BY PcNames, IdleType DEF RequestType
  <2> QED
    BY <2>1, <2>2, BecomesType, AnsweredType DEF Callback
<1>3. CASE \E s \in SessionId : ExchangeGrant(r, s)
  <2>1. PICK s \in SessionId : ExchangeGrant(r, s)
    BY <1>3
  <2>2. [Idle EXCEPT !.pc = "exchangeGrant", !.session = s] \in RequestType
    BY PcNames, IdleType DEF RequestType
  <2> QED
    BY <2>1, <2>2, BecomesType, AnsweredType DEF ExchangeGrant
<1>4. CASE \E s \in SessionId,
              op \in {"logout", "revokeDevice", "readPermissions"} :
              Request(r, s, op)
  <2>1. PICK s \in SessionId,
             op \in {"logout", "revokeDevice", "readPermissions"} :
             Request(r, s, op)
    BY <1>4
  <2>2. op \in Pcs
    BY PcNames
  <2>3. [Idle EXCEPT !.pc = "authenticate", !.op = op, !.session = s]
          \in RequestType
    BY <2>2, PcNames, IdleType DEF RequestType
  <2>4. \A d \in Devices :
          [Idle EXCEPT !.pc = "authenticate", !.op = op, !.session = s,
                       !.device = d, !.prior = OpenSessionsOf(d)]
          \in RequestType
    <3>1. \A d \in Devices : OpenSessionsOf(d) \in SUBSET SessionId
      BY DEF OpenSessionsOf, OpenSessions
    <3> QED  BY <2>2, <3>1, PcNames, IdleType DEF RequestType
  <2>5. \A c \in Channel :
          [Idle EXCEPT !.pc = "authenticate", !.op = op, !.session = s,
                       !.channel = c] \in RequestType
    BY <2>2, PcNames, IdleType DEF RequestType
  <2> QED
    BY <2>1, <2>3, <2>4, <2>5, BecomesType, AnsweredType DEF Request
<1>5. CASE \E t \in TicketId, c \in Channel : Connect(r, t, c)
  <2>1. PICK t \in TicketId, c \in Channel : Connect(r, t, c)
    BY <1>5
  <2>2. [Idle EXCEPT !.pc = "consumeTicket", !.ticket = t, !.channel = c]
          \in RequestType
    BY PcNames, IdleType DEF RequestType
  <2> QED
    BY <2>1, <2>2, BecomesType, AnsweredType DEF Connect
<1>6. CASE \/ AuthorizationUrl(r) \/ PutLoginGrant(r) \/ SendToken(r)
           \/ LogoutCommit(r) \/ RevokeCommit(r) \/ PutTicket(r) \/ Accept(r)
           \/ Abort(r)
  BY <1>6, AnsweredType
     DEF AuthorizationUrl, PutLoginGrant, SendToken, LogoutCommit,
         RevokeCommit, PutTicket, Accept, Abort
<1>7. CASE ConsumeFlow(r)
  <2>1. [reqs[r] EXCEPT !.pc = "exchangeCode", !.now = clock] \in RequestType
    BY <1>0, PcNames, IdleType DEF RequestType
  <2> QED
    BY <1>7, <2>1, BecomesType, AnsweredType DEF ConsumeFlow
<1>8. CASE OidcExchange(r)
  <2>1. \A x \in Subject, e \in Email :
          [reqs[r] EXCEPT !.pc = "selectIdentity", !.subject = x, !.email = e]
          \in RequestType
    BY <1>0, PcNames, IdleType DEF RequestType
  <2> QED
    BY <1>8, <2>1, BecomesType, AnsweredType DEF OidcExchange
<1>9. CASE SelectIdentity(r)
  <2>1. [reqs[r] EXCEPT !.pc = "insertUser"] \in RequestType
    BY <1>0, PcNames, IdleType DEF RequestType
  <2>2. \A u \in UserId :
          [reqs[r] EXCEPT !.pc = "updateUser", !.user = u] \in RequestType
    BY <1>0, PcNames, IdleType DEF RequestType
  <2> QED
    BY <1>9, <2>1, <2>2, BecomesType, AnsweredType DEF SelectIdentity
<1>10. CASE InsertUser(r)
  <2>1. \A u \in UserId :
          [reqs[r] EXCEPT !.pc = "registerDevice", !.user = u, !.email = None]
          \in RequestType
    BY <1>0, PcNames, IdleType DEF RequestType
  <2> QED
    BY <1>10, <2>1, BecomesType, AnsweredType DEF InsertUser
<1>11. CASE UpdateUser(r)
  <2>1. [reqs[r] EXCEPT !.pc = "registerDevice", !.email = None]
          \in RequestType
    BY <1>0, PcNames, IdleType DEF RequestType
  <2> QED
    BY <1>11, <2>1, BecomesType, AnsweredType DEF UpdateUser
<1>12. CASE RegisterDevice(r)
  <2>1. LoginDevice(r) \in Devices
    BY <1>12
       DEF RegisterDevice, LoginDevice, LocalsOK, LocalOK, LoginPcs, At, Devices
  <2>2. [reqs[r] EXCEPT !.pc = "createSession", !.device = LoginDevice(r)]
          \in RequestType
    BY <1>0, <2>1, PcNames, IdleType DEF RequestType
  <2> QED
    BY <1>12, <2>2, BecomesType, AnsweredType DEF RegisterDevice
<1>13. CASE CreateSession(r)
  <2>1. \A s \in SessionId :
          [reqs[r] EXCEPT !.pc = "resolveSession", !.session = s,
                          !.device = None] \in RequestType
    BY <1>0, PcNames, IdleType DEF RequestType
  <2> QED
    BY <1>13, <2>1, BecomesType, AnsweredType DEF CreateSession
<1>14. CASE ResolveSession(r)
  <2>1. [reqs[r] EXCEPT !.pc = "putGrant"] \in RequestType
    BY <1>0, PcNames, IdleType DEF RequestType
  <2> QED
    BY <1>14, <2>1, BecomesType, AnsweredType DEF ResolveSession
<1>15. CASE ConsumeLoginGrant(r)
  <2>1. [reqs[r] EXCEPT !.pc = "openGrant"] \in RequestType
    BY <1>0, PcNames, IdleType DEF RequestType
  <2> QED
    BY <1>15, <2>1, BecomesType, AnsweredType DEF ConsumeLoginGrant
<1>16. CASE Authenticate(r)
  <2>1. reqs[r].op \in Pcs
    BY <1>0, PcNames, IdleType DEF RequestType
  <2>2. sessions[reqs[r].session].user \in UserId
    BY <1>16 DEF Authenticate, LocalsOK, LocalOK, RowsOK, At
  <2>3. [reqs[r] EXCEPT !.pc = reqs[r].op,
                        !.user = sessions[reqs[r].session].user]
          \in RequestType
    BY <1>0, <2>1, <2>2, PcNames, IdleType DEF RequestType
  <2> QED
    BY <1>16, <2>3, BecomesType, AnsweredType DEF Authenticate
<1>17. CASE RevokeDevice(r)
  <2>1. [reqs[r] EXCEPT !.pc = "findSessions"] \in RequestType
    BY <1>0, PcNames, IdleType DEF RequestType
  <2> QED
    BY <1>17, <2>1, BecomesType, AnsweredType DEF RevokeDevice
<1>18. CASE ReadPermissions(r)
  <2>1. (reqs[r].user \in readers) \in BOOLEAN
    OBVIOUS
  <2>2. [reqs[r] EXCEPT !.pc = "putTicket", !.may = reqs[r].user \in readers]
          \in RequestType
    BY <1>0, <2>1, PcNames, IdleType DEF RequestType
  <2> QED
    BY <1>18, <2>2, BecomesType, AnsweredType DEF ReadPermissions
<1>19. CASE AuthenticateGrant(r)
  <2>1. [reqs[r] EXCEPT !.pc = "sendToken"] \in RequestType
    BY <1>0, PcNames, IdleType DEF RequestType
  <2> QED
    BY <1>19, <2>1, BecomesType, AnsweredType DEF AuthenticateGrant
<1>20. CASE Logout(r)
  <2>1. {reqs[r].session} \cap OpenSessions \in SUBSET SessionId
    BY DEF OpenSessions
  <2>2. [reqs[r] EXCEPT !.pc = "logoutCommit",
                        !.held = {reqs[r].session} \cap OpenSessions]
          \in RequestType
    BY <1>0, <2>1, PcNames, IdleType DEF RequestType
  <2> QED
    BY <1>20, <2>2, BecomesType DEF Logout
<1>21. CASE FindSessions(r)
  <2>1. SessionsToRevoke(reqs[r].device) \in SUBSET SessionId
    BY DEF SessionsToRevoke, OpenSessionsOf, OpenSessions
  <2>2. [reqs[r] EXCEPT !.pc = "revokeSessions",
                        !.hit = SessionsToRevoke(reqs[r].device)]
          \in RequestType
    BY <1>0, <2>1, PcNames, IdleType DEF RequestType
  <2> QED
    BY <1>21, <2>2, BecomesType DEF FindSessions
<1>22. CASE \E s \in SessionId : RevokeSession(r, s)
  <2>1. PICK s \in SessionId : RevokeSession(r, s)
    BY <1>22
  <2>2. /\ reqs[r].hit \ {s} \in SUBSET SessionId
        /\ reqs[r].held \cup ({s} \cap OpenSessions) \in SUBSET SessionId
    BY <1>0 DEF RequestType, OpenSessions
  <2>3. [reqs[r] EXCEPT !.hit = reqs[r].hit \ {s},
                        !.held = reqs[r].held \cup ({s} \cap OpenSessions)]
          \in RequestType
    BY <1>0, <2>2 DEF RequestType
  <2> QED
    BY <2>1, <2>3, BecomesType DEF RevokeSession
<1>23. CASE ConsumeTicket(r)
  <2>1. [reqs[r] EXCEPT !.pc = "accept"] \in RequestType
    BY <1>0, PcNames, IdleType DEF RequestType
  <2> QED
    BY <1>23, <2>1, BecomesType, AnsweredType DEF ConsumeTicket
<1> QED
  BY <1>1, <1>2, <1>3, <1>4, <1>5, <1>6, <1>7, <1>8, <1>9, <1>10, <1>11,
     <1>12, <1>13, <1>14, <1>15, <1>16, <1>17, <1>18, <1>19, <1>20, <1>21,
     <1>22, <1>23 DEF Arrive, Handle

-----------------------------------------------------------------------------
(***************************************************************************)
(* The tables.                                                             *)
(***************************************************************************)
\* Every step keeps the tables well typed.
LEMMA TablesOKStep ==
    ASSUME TypeInv, NEW r \in ReqId, Arrive(r) \/ Handle(r) \/ Abort(r)
    PROVE  TablesOK' /\ HistoryOK' /\ clock' \in Nat
<1> USE DEF TypeInv
<1>0. reqs[r] \in RequestType /\ clock \in Nat /\ TablesOK /\ HistoryOK
  BY DEF TypeOK
<1>1. CASE \E f \in FlowId, k \in DeviceKey : StartLogin(r, f, k)
  <2>1. PICK f \in FlowId, k \in DeviceKey : StartLogin(r, f, k)
    BY <1>1
  <2>2. [status |-> "stored", key |-> k, expires |-> clock + FlowTtl] \in FlowRow
    BY <1>0, TtlAssumption DEF FlowRow
  <2> QED
    BY <1>0, <2>1, <2>2 DEF StartLogin, TablesOK, HistoryOK, history
<1>2. CASE AuthorizationUrl(r)
  <2>1. \A f \in FlowId : [flows[f] EXCEPT !.status = "shared"] \in FlowRow
    BY <1>0 DEF TablesOK, FlowRow
  <2> QED
    BY <1>0, <1>2, <2>1 DEF AuthorizationUrl, TablesOK, HistoryOK, history
<1>3. CASE ConsumeFlow(r)
  <2>1. \A f \in FlowId : FlowAfterConsume(f) \in FlowRow
    BY <1>0 DEF FlowAfterConsume, TablesOK, FlowRow
  <2>2. reqs[r].flow \in FlowId
    BY <1>3 DEF ConsumeFlow, LocalsOK, LocalOK, At
  <2> QED
    BY <1>0, <1>3, <2>1, <2>2 DEF ConsumeFlow, TablesOK, HistoryOK, history
<1>4. CASE \/ \E f \in FlowId : Callback(r, f)
           \/ \E s \in SessionId : ExchangeGrant(r, s)
           \/ \E s \in SessionId,
                 op \in {"logout", "revokeDevice", "readPermissions"} :
                 Request(r, s, op)
           \/ \E t \in TicketId, c \in Channel : Connect(r, t, c)
           \/ OidcExchange(r) \/ SelectIdentity(r) \/ ResolveSession(r)
           \/ AuthenticateGrant(r) \/ Authenticate(r) \/ Logout(r)
           \/ RevokeDevice(r) \/ FindSessions(r)
           \/ \E s \in SessionId : RevokeSession(r, s)
           \/ ReadPermissions(r) \/ Abort(r)
  <2>1. UNCHANGED <<clock, tables, history>>
    BY <1>4 DEF Callback, ExchangeGrant, Request, Connect, OidcExchange,
                SelectIdentity, ResolveSession, AuthenticateGrant,
                Authenticate, Logout, RevokeDevice, FindSessions,
                RevokeSession, ReadPermissions, Abort
  <2> QED
    BY <1>0, <2>1 DEF TablesOK, HistoryOK, tables, history
<1>5. CASE InsertUser(r)
  <2>1. reqs[r].subject \in Subject /\ reqs[r].email \in Email
    BY <1>5 DEF InsertUser, LocalsOK, LocalOK, At
  <2>2. [status |-> "active", email |-> reqs[r].email] \in UserRow
    BY <2>1 DEF UserRow
  <2>3. users' \in [UserId -> UserRow]
    BY <1>0, <1>5, <2>2 DEF InsertUser, TablesOK
  <2>4. identities' \in SUBSET (Subject \X UserId)
    <3>1. \A u \in UserId : <<reqs[r].subject, u>> \in Subject \X UserId
      BY <2>1
    <3>2. \/ UNCHANGED identities
          \/ \E u \in UserId :
                identities' = identities \cup {<<reqs[r].subject, u>>}
      BY <1>5 DEF InsertUser
    <3> QED
      BY <1>0, <3>1, <3>2 DEF TablesOK
  <2> QED
    BY <1>0, <1>5, <2>3, <2>4 DEF InsertUser, TablesOK, HistoryOK, history
<1>6. CASE UpdateUser(r)
  <2>1. reqs[r].user \in UserId /\ reqs[r].email \in Email
    BY <1>6 DEF UpdateUser, LocalsOK, LocalOK, At
  <2>2. [users[reqs[r].user] EXCEPT !.email = reqs[r].email] \in UserRow
    BY <1>0, <2>1 DEF UserRow, TablesOK
  <2> QED
    BY <1>0, <1>6, <2>1, <2>2 DEF UpdateUser, TablesOK, HistoryOK, history
<1>7. CASE RegisterDevice(r)
  BY <1>0, <1>7 DEF RegisterDevice, TablesOK, HistoryOK, history
<1>8. CASE CreateSession(r)
  <2> DEFINE row == [status |-> "open", user |-> reqs[r].user,
                     device |-> reqs[r].device,
                     expires |-> reqs[r].now + SessionTtl,
                     flow |-> reqs[r].flow, subject |-> reqs[r].subject]
  <2>1. row \in SessionRow
    BY <1>0, TtlAssumption DEF RequestType, SessionRow
  <2> HIDE DEF row
  <2>2. PICK s \in SessionId : sessions' = [sessions EXCEPT ![s] = row]
    BY <1>8 DEF CreateSession, row
  <2>3. sessions' \in [SessionId -> SessionRow]
    BY <1>0, <2>1, <2>2 DEF TablesOK
  <2>4. events' \in [SessionId -> Seq(EventType)]
    BY <1>0, <1>8 DEF CreateSession, TablesOK, EventType
  <2> QED
    BY <1>0, <1>8, <2>3, <2>4 DEF CreateSession, TablesOK, HistoryOK, history
<1>9. CASE PutLoginGrant(r)
  <2>1. [status |-> "live", expires |-> GrantExpiry(r)] \in GrantRow
    BY <1>0, TtlAssumption DEF RequestType, GrantExpiry, GrantRow
  <2> QED
    BY <1>0, <1>9, <2>1 DEF PutLoginGrant, TablesOK, HistoryOK, history
<1>10. CASE ConsumeLoginGrant(r)
  <2>1. \A s \in SessionId : GrantAfterConsume(s) \in GrantRow
    BY <1>0 DEF GrantAfterConsume, TablesOK, GrantRow
  <2>2. reqs[r].session \in SessionId
    BY <1>10 DEF ConsumeLoginGrant, LocalsOK, LocalOK, At
  <2> QED
    BY <1>0, <1>10, <2>1, <2>2
       DEF ConsumeLoginGrant, TablesOK, HistoryOK, history
<1>11. CASE SendToken(r)
  <2>1. reqs[r].session \in SessionId
    BY <1>11 DEF SendToken, LocalsOK, LocalOK, ExchangePcs, At
  <2>2. disclosed' \in [SessionId -> Nat]
    BY <1>0, <1>11, <2>1 DEF SendToken, HistoryOK
  <2> QED
    BY <1>0, <1>11, <2>2 DEF SendToken, TablesOK, HistoryOK, tables
<1>a. \A S : AfterRevoking(S) \in [SessionId -> SessionRow]
  <2>1. \A s \in SessionId :
          [sessions[s] EXCEPT !.status = "revoked"] \in SessionRow
    BY <1>0 DEF TablesOK, SessionRow
  <2> QED
    BY <1>0, <2>1 DEF TablesOK, AfterRevoking
<1>12. CASE LogoutCommit(r)
  <2>1. sessions' \in [SessionId -> SessionRow]
    BY <1>12, <1>a DEF LogoutCommit
  <2>2. reqs[r].session \in SessionId
    BY <1>12 DEF LogoutCommit, LocalsOK, LocalOK, ActingPcs, At
  <2>3. RevocationEvents(r) \in Seq(EventType)
    <3>1. "session.revoked" \in EventType
      BY DEF EventType
    <3> QED
      BY <1>0, <2>2, <3>1 DEF TablesOK, RevocationEvents
  <2> QED
    BY <1>0, <1>12, <2>1, <2>2, <2>3 DEF LogoutCommit, TablesOK, HistoryOK
<1>13. CASE RevokeCommit(r)
  <2>1. sessions' \in [SessionId -> SessionRow]
    BY <1>13, <1>a DEF RevokeCommit
  <2>2. reqs[r].prior \in SUBSET SessionId
    BY <1>0 DEF RequestType
  <2> QED
    BY <1>0, <1>13, <2>1, <2>2 DEF RevokeCommit, TablesOK, HistoryOK
<1>14. CASE PutTicket(r)
  <2> DEFINE row == [status |-> "live", session |-> reqs[r].session,
                     channel |-> reqs[r].channel, expires |-> clock + TicketTtl]
  <2>1. row \in TicketRow
    BY <1>0, TtlAssumption DEF RequestType, TicketRow
  <2> HIDE DEF row
  <2>2. \/ UNCHANGED tickets
        \/ \E t \in TicketId : tickets' = [tickets EXCEPT ![t] = row]
    BY <1>14 DEF PutTicket, row
  <2>3. tickets' \in [TicketId -> TicketRow]
    BY <1>0, <2>1, <2>2 DEF TablesOK
  <2> QED
    BY <1>0, <1>14, <2>3 DEF PutTicket, TablesOK, HistoryOK, history
<1>15. CASE ConsumeTicket(r)
  <2>1. \A t \in TicketId : [tickets[t] EXCEPT !.status = "used"] \in TicketRow
    BY <1>0 DEF TablesOK, TicketRow
  <2>2. reqs[r].ticket \in TicketId
    BY <1>15 DEF ConsumeTicket, LocalsOK, LocalOK, At
  <2>3. tickets' \in [TicketId -> TicketRow]
    BY <1>0, <1>15, <2>1, <2>2 DEF ConsumeTicket, TablesOK
  <2> QED
    BY <1>0, <1>15, <2>3 DEF ConsumeTicket, TablesOK, HistoryOK, history
<1>16. CASE Accept(r)
  <2>1. reqs[r].ticket \in TicketId
    BY <1>16 DEF Accept, LocalsOK, LocalOK, At
  <2>2. accepts' \in [TicketId -> Nat]
    BY <1>0, <1>16, <2>1 DEF Accept, HistoryOK
  <2> QED
    BY <1>0, <1>16, <2>2 DEF Accept, TablesOK, HistoryOK, tables
<1> QED
  BY <1>1, <1>2, <1>3, <1>4, <1>5, <1>6, <1>7, <1>8, <1>9, <1>10, <1>11,
     <1>12, <1>13, <1>14, <1>15, <1>16 DEF Arrive, Handle

-----------------------------------------------------------------------------
(***************************************************************************)
(* What no step undoes, and the locals and foreign keys that rest on it.   *)
(***************************************************************************)
\* A step of one request leaves the locals of the others alone.
LEMMA OneRequestMoves ==
    ASSUME TypeInv, NEW r \in ReqId, Arrive(r) \/ Handle(r) \/ Abort(r)
    PROVE  \A p \in ReqId \ {r} : reqs'[p] = reqs[p]
<1>1. \E q : Becomes(r, q)
  BY DEF Arrive, Handle, StartLogin, Callback, ExchangeGrant, Request, Connect,
         AuthorizationUrl, ConsumeFlow, OidcExchange, SelectIdentity,
         InsertUser, UpdateUser, RegisterDevice, CreateSession,
         ResolveSession, PutLoginGrant, ConsumeLoginGrant, AuthenticateGrant,
         SendToken, Authenticate, Logout, LogoutCommit, RevokeDevice,
         FindSessions, RevokeSession, RevokeCommit, ReadPermissions,
         PutTicket, ConsumeTicket, Accept, Abort, Answered
<1> QED
  BY <1>1, BecomesFrame DEF TypeInv

\* Rows are only ever added or marked: a flow keeps its key and stays used, a
\* session keeps who and what it is for and stays revoked, a consumed code stays
\* consumed.
Kept ==
    /\ \A f \in FlowId :
          /\ flows[f].key \in DeviceKey =>
                flows'[f].key = flows[f].key /\ flows'[f].expires = flows[f].expires
          /\ flows[f].status = "used" => flows'[f].status = "used"
    /\ \A s \in SessionId :
          /\ Exists(s) =>
                /\ sessions'[s].status # "none"
                /\ sessions'[s].user = sessions[s].user
                /\ sessions'[s].device = sessions[s].device
                /\ sessions'[s].flow = sessions[s].flow
                /\ sessions'[s].subject = sessions[s].subject
                /\ sessions'[s].expires = sessions[s].expires
          /\ sessions[s].status = "revoked" => sessions'[s].status = "revoked"
          /\ grants[s].status = "used" => grants'[s].status = "used"
    /\ identities \subseteq identities'

\* No step of a request undoes what Kept lists.
LEMMA KeptStep ==
    ASSUME TypeOK, LoginInv, NEW r \in ReqId, Arrive(r) \/ Handle(r) \/ Abort(r)
    PROVE  Kept
<1> USE DEF LoginInv
<1>0. TablesOK
  BY DEF TypeOK
<1>1. CASE \E f \in FlowId, k \in DeviceKey : StartLogin(r, f, k)
  <2>1. PICK f \in FlowId, k \in DeviceKey : StartLogin(r, f, k)
    BY <1>1
  <2>2. flows[f].key \notin DeviceKey /\ flows[f].status = "none"
    BY <2>1 DEF StartLogin, RowsOK
  <2> QED
    BY <1>0, <2>1, <2>2 DEF StartLogin, Kept, Exists, TablesOK
<1>2. CASE AuthorizationUrl(r)
  <2>1. reqs[r].flow \in FlowId /\ flows[reqs[r].flow].status = "stored"
    BY <1>2 DEF AuthorizationUrl, At, LocalsOK, LocalOK, FlowOwnership
  <2> QED
    BY <1>0, <1>2, <2>1
       DEF AuthorizationUrl, Kept, Exists, TablesOK, FlowRow
<1>3. CASE ConsumeFlow(r)
  <2>1. reqs[r].flow \in FlowId
    BY <1>3 DEF ConsumeFlow, LocalsOK, LocalOK, At
  <2>2. \A f \in FlowId : \/ flows'[f] = flows[f]
                          \/ flows'[f] = [flows[f] EXCEPT !.status = "used"]
    BY <1>0, <1>3, <2>1 DEF ConsumeFlow, FlowAfterConsume, TablesOK
  <2>3. \A f \in FlowId : /\ flows'[f].status \in {flows[f].status, "used"}
                          /\ flows'[f].key = flows[f].key
                          /\ flows'[f].expires = flows[f].expires
    <3> TAKE f \in FlowId
    <3>1. flows[f] \in FlowRow
      BY <1>0 DEF TablesOK
    <3>2. CASE flows'[f] = flows[f]
      BY <3>2
    <3>3. CASE flows'[f] = [flows[f] EXCEPT !.status = "used"]
      BY <3>1, <3>3 DEF FlowRow
    <3> QED
      BY <2>2, <3>2, <3>3
  <2> QED
    BY <1>3, <2>3 DEF ConsumeFlow, Kept, Exists
<1>4. CASE \/ \E f \in FlowId : Callback(r, f)
           \/ \E s \in SessionId : ExchangeGrant(r, s)
           \/ \E s \in SessionId,
                 op \in {"logout", "revokeDevice", "readPermissions"} :
                 Request(r, s, op)
           \/ \E t \in TicketId, c \in Channel : Connect(r, t, c)
           \/ OidcExchange(r) \/ SelectIdentity(r) \/ ResolveSession(r)
           \/ AuthenticateGrant(r) \/ SendToken(r) \/ Authenticate(r)
           \/ Logout(r) \/ RevokeDevice(r) \/ FindSessions(r)
           \/ \E s \in SessionId : RevokeSession(r, s)
           \/ ReadPermissions(r) \/ Accept(r) \/ Abort(r)
  <2>1. UNCHANGED tables
    BY <1>4 DEF Callback, ExchangeGrant, Request, Connect, OidcExchange,
                SelectIdentity, ResolveSession, AuthenticateGrant, SendToken,
                Authenticate, Logout, RevokeDevice, FindSessions,
                RevokeSession, ReadPermissions, Accept, Abort
  <2> QED
    BY <1>0, <2>1 DEF Kept, Exists, tables
<1>5. CASE \/ InsertUser(r) \/ UpdateUser(r) \/ RegisterDevice(r)
           \/ PutTicket(r) \/ ConsumeTicket(r)
  <2>1. UNCHANGED <<flows, sessions, grants>> /\ identities \subseteq identities'
    BY <1>5 DEF InsertUser, UpdateUser, RegisterDevice, PutTicket,
                ConsumeTicket
  <2> QED
    BY <1>0, <2>1 DEF Kept, Exists
<1>6. CASE CreateSession(r)
  <2>1. PICK s \in SessionId :
          /\ sessions[s].status = "none"
          /\ \A z \in SessionId \ {s} : sessions'[z] = sessions[z]
    BY <1>0, <1>6 DEF CreateSession, TablesOK
  <2> QED
    BY <1>6, <2>1 DEF CreateSession, Kept, Exists
<1>7. CASE PutLoginGrant(r)
  <2>1. grants[reqs[r].session].status = "none"
    BY <1>7 DEF PutLoginGrant, At, GrantOwnership, SessionPcs
  <2>2. \A s \in SessionId : grants[s].status = "used" => grants'[s] = grants[s]
    BY <1>0, <1>7, <2>1 DEF PutLoginGrant, TablesOK
  <2> QED
    BY <1>7, <2>2 DEF PutLoginGrant, Kept, Exists
<1>8. CASE ConsumeLoginGrant(r)
  <2>1. \A s \in SessionId :
          grants[s].status = "used" => grants'[s].status = "used"
    BY <1>0, <1>8 DEF ConsumeLoginGrant, GrantAfterConsume, TablesOK, GrantRow
  <2> QED
    BY <1>8, <2>1 DEF ConsumeLoginGrant, Kept, Exists
<1>9. CASE LogoutCommit(r) \/ RevokeCommit(r)
  <2>1. \A s \in SessionId :
          \/ sessions'[s] = sessions[s]
          \/ sessions'[s] = [sessions[s] EXCEPT !.status = "revoked"]
    BY <1>9 DEF LogoutCommit, RevokeCommit, AfterRevoking
  <2>2. \A s \in SessionId :
          /\ sessions'[s].status \in {sessions[s].status, "revoked"}
          /\ sessions'[s].user = sessions[s].user
          /\ sessions'[s].device = sessions[s].device
          /\ sessions'[s].flow = sessions[s].flow
          /\ sessions'[s].subject = sessions[s].subject
          /\ sessions'[s].expires = sessions[s].expires
    <3> TAKE s \in SessionId
    <3>1. sessions[s] \in SessionRow
      BY <1>0 DEF TablesOK
    <3>2. CASE sessions'[s] = sessions[s]
      BY <3>2
    <3>3. CASE sessions'[s] = [sessions[s] EXCEPT !.status = "revoked"]
      BY <3>1, <3>3 DEF SessionRow
    <3> QED
      BY <2>1, <3>2, <3>3
  <2>3. UNCHANGED <<flows, grants, identities>>
    BY <1>9 DEF LogoutCommit, RevokeCommit
  <2> QED
    BY <2>2, <2>3 DEF Kept, Exists
<1> QED
  BY <1>1, <1>2, <1>3, <1>4, <1>5, <1>6, <1>7, <1>8, <1>9 DEF Arrive, Handle

-----------------------------------------------------------------------------
(***************************************************************************)
(* What each step leaves in the record of the request that takes it.       *)
(***************************************************************************)
Turns(r, pc) ==
    /\ reqs'[r].pc = pc
    /\ reqs'[r].flow = reqs[r].flow
    /\ reqs'[r].op = reqs[r].op

\* Most steps hold no row lock afterwards that they did not hold before.
Moves(r, pc) ==
    /\ Turns(r, pc)
    /\ reqs'[r].hit = reqs[r].hit
    /\ reqs'[r].held = reqs[r].held

\* What ConsumeFlow does to the locals and to the rows.
LEMMA ConsumeFlowEffect ==
    ASSUME TypeInv, NEW r \in ReqId, ConsumeFlow(r)
    PROVE  /\ At(r, "callback")
           /\ \/ reqs'[r] = Idle
              \/ Moves(r, "exchangeCode") /\ reqs'[r].now = clock
<1>0. reqs[r] \in RequestType
  BY DEF TypeInv, TypeOK
<1>1. \/ reqs'[r] = Idle
      \/ reqs'[r] = [reqs[r] EXCEPT !.pc = "exchangeCode", !.now = clock]
  BY BecomesFrame DEF TypeInv, ConsumeFlow, Answered
<1>2. At(r, "callback")
  BY DEF ConsumeFlow
<1> QED
  BY <1>0, <1>1, <1>2 DEF RequestType, Moves, Turns

\* What OidcExchange does to the locals and to the rows.
LEMMA OidcExchangeEffect ==
    ASSUME TypeInv, NEW r \in ReqId, OidcExchange(r)
    PROVE  /\ At(r, "exchangeCode")
           /\ \/ reqs'[r] = Idle
              \/ /\ Moves(r, "selectIdentity")
                 /\ reqs'[r].now = reqs[r].now
                 /\ reqs'[r].subject \in Subject
                 /\ reqs'[r].email \in Email
<1>0. reqs[r] \in RequestType
  BY DEF TypeInv, TypeOK
<1>1. \/ reqs'[r] = Idle
      \/ \E x \in Subject, e \in Email :
            reqs'[r] = [reqs[r] EXCEPT !.pc = "selectIdentity",
                                       !.subject = x, !.email = e]
  BY BecomesFrame DEF TypeInv, OidcExchange, Answered
<1>2. At(r, "exchangeCode")
  BY DEF OidcExchange
<1> QED
  BY <1>0, <1>1, <1>2 DEF RequestType, Moves, Turns

\* What SelectIdentity does to the locals and to the rows.
LEMMA SelectIdentityEffect ==
    ASSUME TypeInv, NEW r \in ReqId, SelectIdentity(r)
    PROVE  /\ At(r, "selectIdentity")
           /\ /\ \/ Moves(r, "insertUser")
                 \/ /\ Moves(r, "updateUser")
                    /\ reqs'[r].user \in UserId
                    /\ <<reqs[r].subject, reqs'[r].user>> \in identities
              /\ reqs'[r].now = reqs[r].now
              /\ reqs'[r].subject = reqs[r].subject
              /\ reqs'[r].email = reqs[r].email
<1>0. reqs[r] \in RequestType
  BY DEF TypeInv, TypeOK
<1>1. \/ reqs'[r] = [reqs[r] EXCEPT !.pc = "insertUser"]
      \/ \E u \in UserId :
            /\ <<reqs[r].subject, u>> \in identities
            /\ reqs'[r] = [reqs[r] EXCEPT !.pc = "updateUser", !.user = u]
  BY BecomesFrame DEF TypeInv, SelectIdentity, Identified
<1>2. At(r, "selectIdentity")
  BY DEF SelectIdentity
<1> QED
  BY <1>0, <1>1, <1>2 DEF RequestType, Moves, Turns

\* What InsertUser does to the locals and to the rows.
LEMMA InsertUserEffect ==
    ASSUME TypeInv, NEW r \in ReqId, InsertUser(r)
    PROVE  /\ At(r, "insertUser")
           /\ \/ reqs'[r] = Idle
              \/ /\ Moves(r, "registerDevice")
                 /\ reqs'[r].now = reqs[r].now
                 /\ reqs'[r].subject = reqs[r].subject
                 /\ reqs'[r].user \in UserId
                 /\ <<reqs[r].subject, reqs'[r].user>> \in identities'
<1>0. reqs[r] \in RequestType
  BY DEF TypeInv, TypeOK
<1>1. \/ reqs'[r] = Idle
      \/ \E u \in UserId :
            /\ <<reqs[r].subject, u>> \in identities'
            /\ reqs'[r] = [reqs[r] EXCEPT !.pc = "registerDevice",
                                          !.user = u, !.email = None]
  BY BecomesFrame DEF TypeInv, InsertUser, Answered
<1>2. At(r, "insertUser")
  BY DEF InsertUser
<1> QED
  BY <1>0, <1>1, <1>2 DEF RequestType, Moves, Turns

\* What UpdateUser does to the locals and to the rows.
LEMMA UpdateUserEffect ==
    ASSUME TypeInv, NEW r \in ReqId, UpdateUser(r)
    PROVE  /\ At(r, "updateUser")
           /\ \/ reqs'[r] = Idle
              \/ /\ Moves(r, "registerDevice")
                 /\ reqs'[r].now = reqs[r].now
                 /\ reqs'[r].subject = reqs[r].subject
                 /\ reqs'[r].user = reqs[r].user
<1>0. reqs[r] \in RequestType
  BY DEF TypeInv, TypeOK
<1>1. \/ reqs'[r] = Idle
      \/ reqs'[r] = [reqs[r] EXCEPT !.pc = "registerDevice", !.email = None]
  BY BecomesFrame DEF TypeInv, UpdateUser, Answered
<1>2. At(r, "updateUser")
  BY DEF UpdateUser
<1> QED
  BY <1>0, <1>1, <1>2 DEF RequestType, Moves, Turns

\* What RegisterDevice does to the locals and to the rows.
LEMMA RegisterDeviceEffect ==
    ASSUME TypeInv, NEW r \in ReqId, RegisterDevice(r)
    PROVE  /\ At(r, "registerDevice")
           /\ /\ Moves(r, "createSession")
              /\ reqs'[r].now = reqs[r].now
              /\ reqs'[r].subject = reqs[r].subject
              /\ reqs'[r].user = reqs[r].user
              /\ reqs'[r].device = LoginDevice(r)
<1>0. reqs[r] \in RequestType
  BY DEF TypeInv, TypeOK
<1>1. reqs'[r] = [reqs[r] EXCEPT !.pc = "createSession",
                                  !.device = LoginDevice(r)]
  BY BecomesFrame DEF TypeInv, RegisterDevice
<1>2. At(r, "registerDevice")
  BY DEF RegisterDevice
<1> QED
  BY <1>0, <1>1, <1>2 DEF RequestType, Moves, Turns

\* What CreateSession does to the locals and to the rows.
LEMMA CreateSessionEffect ==
    ASSUME TypeInv, NEW r \in ReqId, CreateSession(r)
    PROVE  /\ At(r, "createSession")
           /\ \E s \in SessionId :
                 /\ Moves(r, "resolveSession")
                 /\ reqs'[r].now = reqs[r].now
                 /\ reqs'[r].session = s
                 /\ sessions[s].status = "none"
                 /\ sessions'[s].status = "open"
                 /\ sessions'[s].user = reqs[r].user
                 /\ sessions'[s].device = reqs[r].device
                 /\ sessions'[s].expires = reqs[r].now + SessionTtl
                 /\ sessions'[s].flow = reqs[r].flow
                 /\ sessions'[s].subject = reqs[r].subject
                 /\ events' = [events EXCEPT ![s] = Append(@, "session.created")]
                 /\ \A z \in SessionId \ {s} : sessions'[z] = sessions[z]
<1>0. reqs[r] \in RequestType /\ sessions \in [SessionId -> SessionRow]
  BY DEF TypeInv, TypeOK, TablesOK
<1> DEFINE row == [status |-> "open", user |-> reqs[r].user,
                   device |-> reqs[r].device,
                   expires |-> reqs[r].now + SessionTtl,
                   flow |-> reqs[r].flow, subject |-> reqs[r].subject]
           rec(s) == [reqs[r] EXCEPT !.pc = "resolveSession",
                                     !.session = s, !.device = None]
<1> HIDE DEF row, rec
<1>1. PICK s \in SessionId :
        /\ sessions[s].status = "none"
        /\ sessions' = [sessions EXCEPT ![s] = row]
        /\ events' = [events EXCEPT ![s] = Append(@, "session.created")]
        /\ Becomes(r, rec(s))
  BY DEF CreateSession, row, rec
<1>2. Moves(r, "resolveSession") /\ reqs'[r].now = reqs[r].now
                                 /\ reqs'[r].session = s
  <2>1. reqs'[r] = rec(s)
    BY <1>1, BecomesFrame DEF TypeInv
  <2> QED
    BY <1>0, <2>1 DEF RequestType, Moves, Turns, rec
<1>3. /\ sessions'[s] = row
      /\ \A z \in SessionId \ {s} : sessions'[z] = sessions[z]
  BY <1>0, <1>1
<1>4. /\ sessions'[s].status = "open"
      /\ sessions'[s].user = reqs[r].user
      /\ sessions'[s].device = reqs[r].device
      /\ sessions'[s].expires = reqs[r].now + SessionTtl
      /\ sessions'[s].flow = reqs[r].flow
      /\ sessions'[s].subject = reqs[r].subject
  BY <1>3 DEF row
<1>5. At(r, "createSession")
  BY DEF CreateSession
<1> QED
  BY <1>1, <1>2, <1>3, <1>4, <1>5, Zenon

\* What ResolveSession does to the locals and to the rows.
LEMMA ResolveSessionEffect ==
    ASSUME TypeInv, NEW r \in ReqId, ResolveSession(r)
    PROVE  /\ At(r, "resolveSession")
           /\ \/ reqs'[r] = Idle
              \/ /\ Moves(r, "putGrant")
                 /\ reqs'[r].now = reqs[r].now
                 /\ reqs'[r].session = reqs[r].session
<1>0. reqs[r] \in RequestType
  BY DEF TypeInv, TypeOK
<1>1. \/ reqs'[r] = Idle
      \/ reqs'[r] = [reqs[r] EXCEPT !.pc = "putGrant"]
  BY BecomesFrame DEF TypeInv, ResolveSession, Answered
<1>2. At(r, "resolveSession")
  BY DEF ResolveSession
<1> QED
  BY <1>0, <1>1, <1>2 DEF RequestType, Moves, Turns

\* What ConsumeLoginGrant does to the locals and to the rows.
LEMMA ConsumeLoginGrantEffect ==
    ASSUME TypeInv, NEW r \in ReqId, ConsumeLoginGrant(r)
    PROVE  /\ At(r, "exchangeGrant")
           /\ \/ reqs'[r] = Idle
              \/ /\ Moves(r, "openGrant")
                 /\ reqs'[r].session = reqs[r].session
                 /\ grants[reqs[r].session].status = "live"
                 /\ grants' = [grants EXCEPT ![reqs[r].session] =
                                  GrantAfterConsume(reqs[r].session)]
<1>0. reqs[r] \in RequestType
  BY DEF TypeInv, TypeOK
<1>1. \/ reqs'[r] = Idle
      \/ /\ reqs'[r] = [reqs[r] EXCEPT !.pc = "openGrant"]
         /\ grants[reqs[r].session].status = "live"
         /\ grants' = [grants EXCEPT ![reqs[r].session] =
                          GrantAfterConsume(reqs[r].session)]
  BY BecomesFrame DEF TypeInv, ConsumeLoginGrant, Answered
<1>2. At(r, "exchangeGrant")
  BY DEF ConsumeLoginGrant
<1> QED
  BY <1>0, <1>1, <1>2 DEF RequestType, Moves, Turns

\* What Authenticate does to the locals and to the rows.
LEMMA AuthenticateEffect ==
    ASSUME TypeInv, NEW r \in ReqId, Authenticate(r)
    PROVE  /\ At(r, "authenticate")
           /\ \/ reqs'[r] = Idle
              \/ /\ Moves(r, reqs[r].op)
                 /\ reqs'[r].session = reqs[r].session
                 /\ reqs'[r].device = reqs[r].device
                 /\ reqs'[r].prior = reqs[r].prior
                 /\ reqs'[r].user = sessions[reqs[r].session].user
<1>0. reqs[r] \in RequestType
  BY DEF TypeInv, TypeOK
<1>1. \/ reqs'[r] = Idle
      \/ reqs'[r] = [reqs[r] EXCEPT !.pc = reqs[r].op,
                                    !.user = sessions[reqs[r].session].user]
  BY BecomesFrame DEF TypeInv, Authenticate, Answered
<1>2. At(r, "authenticate")
  BY DEF Authenticate
<1> QED
  BY <1>0, <1>1, <1>2 DEF RequestType, Moves, Turns

\* What AuthenticateGrant does to the locals and to the rows.
LEMMA AuthenticateGrantEffect ==
    ASSUME TypeInv, NEW r \in ReqId, AuthenticateGrant(r)
    PROVE  /\ At(r, "openGrant")
           /\ \/ reqs'[r] = Idle
              \/ /\ Moves(r, "sendToken")
                 /\ reqs'[r].session = reqs[r].session
                 /\ sessions[reqs[r].session].status = "open"
<1>0. reqs[r] \in RequestType
  BY DEF TypeInv, TypeOK
<1>1. \/ reqs'[r] = Idle
      \/ /\ reqs'[r] = [reqs[r] EXCEPT !.pc = "sendToken"]
         /\ sessions[reqs[r].session].status = "open"
  BY BecomesFrame DEF TypeInv, AuthenticateGrant, Answered, Resolves
<1>2. At(r, "openGrant")
  BY DEF AuthenticateGrant
<1> QED
  BY <1>0, <1>1, <1>2 DEF RequestType, Moves, Turns

\* What Logout does to the locals: it takes the row unless it is revoked.
LEMMA LogoutEffect ==
    ASSUME TypeInv, NEW r \in ReqId, Logout(r)
    PROVE  /\ At(r, "logout")
           /\ ~SessionLocked(reqs[r].session)
           /\ Turns(r, "logoutCommit")
           /\ reqs'[r].session = reqs[r].session
           /\ reqs'[r].user = reqs[r].user
           /\ reqs'[r].hit = reqs[r].hit
           /\ reqs'[r].held = {reqs[r].session} \cap OpenSessions
<1>0. reqs[r] \in RequestType
  BY DEF TypeInv, TypeOK
<1>1. reqs'[r] = [reqs[r] EXCEPT !.pc = "logoutCommit",
                                 !.held = {reqs[r].session} \cap OpenSessions]
  BY BecomesFrame DEF TypeInv, Logout
<1>2. At(r, "logout") /\ ~SessionLocked(reqs[r].session)
  BY DEF Logout
<1> QED
  BY <1>0, <1>1, <1>2 DEF RequestType, Turns

\* What RevokeDevice does to the locals and to the rows.
LEMMA RevokeDeviceEffect ==
    ASSUME TypeInv, NEW r \in ReqId, RevokeDevice(r)
    PROVE  /\ At(r, "revokeDevice")
           /\ \/ reqs'[r] = Idle
              \/ /\ Moves(r, "findSessions")
                 /\ OwnLiveDevice(r) /\ ~DeviceLocked(reqs[r].device)
                 /\ reqs'[r].session = reqs[r].session
                 /\ reqs'[r].user = reqs[r].user
                 /\ reqs'[r].device = reqs[r].device
                 /\ reqs'[r].prior = reqs[r].prior
<1>0. reqs[r] \in RequestType
  BY DEF TypeInv, TypeOK
<1>1. \/ reqs'[r] = Idle
      \/ /\ reqs'[r] = [reqs[r] EXCEPT !.pc = "findSessions"]
         /\ OwnLiveDevice(r) /\ ~DeviceLocked(reqs[r].device)
  BY BecomesFrame DEF TypeInv, RevokeDevice, Answered
<1>2. At(r, "revokeDevice")
  BY DEF RevokeDevice
<1> QED
  BY <1>0, <1>1, <1>2 DEF RequestType, Moves, Turns

\* What FindSessions does to the locals.
LEMMA FindSessionsEffect ==
    ASSUME TypeInv, NEW r \in ReqId, FindSessions(r)
    PROVE  /\ At(r, "findSessions")
           /\ Turns(r, "revokeSessions")
           /\ reqs'[r].session = reqs[r].session
           /\ reqs'[r].user = reqs[r].user
           /\ reqs'[r].device = reqs[r].device
           /\ reqs'[r].prior = reqs[r].prior
           /\ reqs'[r].hit = SessionsToRevoke(reqs[r].device)
           /\ reqs'[r].held = reqs[r].held
<1>0. reqs[r] \in RequestType
  BY DEF TypeInv, TypeOK
<1>1. reqs'[r] = [reqs[r] EXCEPT !.pc = "revokeSessions",
                                 !.hit = SessionsToRevoke(reqs[r].device)]
  BY BecomesFrame DEF TypeInv, FindSessions
<1>2. At(r, "findSessions")
  BY DEF FindSessions
<1> QED
  BY <1>0, <1>1, <1>2 DEF RequestType, Turns

\* What RevokeSession does to the locals: one row moves from hit to held.
LEMMA RevokeSessionEffect ==
    ASSUME TypeInv, NEW r \in ReqId, NEW s \in SessionId, RevokeSession(r, s)
    PROVE  /\ At(r, "revokeSessions")
           /\ s \in reqs[r].hit
           /\ ~SessionLocked(s)
           /\ Turns(r, "revokeSessions")
           /\ reqs'[r].session = reqs[r].session
           /\ reqs'[r].user = reqs[r].user
           /\ reqs'[r].device = reqs[r].device
           /\ reqs'[r].prior = reqs[r].prior
           /\ reqs'[r].hit = reqs[r].hit \ {s}
           /\ reqs'[r].held = reqs[r].held \cup ({s} \cap OpenSessions)
<1>0. reqs[r] \in RequestType
  BY DEF TypeInv, TypeOK
<1>1. reqs'[r] = [reqs[r] EXCEPT !.hit = reqs[r].hit \ {s},
                                 !.held = reqs[r].held
                                            \cup ({s} \cap OpenSessions)]
  BY BecomesFrame DEF TypeInv, RevokeSession
<1>2. At(r, "revokeSessions") /\ s \in reqs[r].hit /\ ~SessionLocked(s)
  BY DEF RevokeSession
<1> QED
  BY <1>0, <1>1, <1>2 DEF RequestType, Turns, At

\* What ConsumeTicket does to the locals and to the rows.
LEMMA ConsumeTicketEffect ==
    ASSUME TypeInv, NEW r \in ReqId, ConsumeTicket(r)
    PROVE  /\ At(r, "consumeTicket")
           /\ \/ reqs'[r] = Idle /\ UNCHANGED tickets
              \/ /\ Moves(r, "accept")
                 /\ reqs'[r].ticket = reqs[r].ticket
                 /\ TicketMatches(reqs[r].ticket, reqs[r].channel)
                 /\ tickets' = [tickets EXCEPT ![reqs[r].ticket].status = "used"]
<1>0. reqs[r] \in RequestType
  BY DEF TypeInv, TypeOK
<1>1. \/ reqs'[r] = Idle /\ UNCHANGED tickets
      \/ /\ reqs'[r] = [reqs[r] EXCEPT !.pc = "accept"]
         /\ TicketMatches(reqs[r].ticket, reqs[r].channel)
         /\ tickets' = [tickets EXCEPT ![reqs[r].ticket].status = "used"]
  BY BecomesFrame DEF TypeInv, ConsumeTicket, Answered
<1>2. At(r, "consumeTicket")
  BY DEF ConsumeTicket
<1> QED
  BY <1>0, <1>1, <1>2 DEF RequestType, Moves, Turns

\* What ReadPermissions does to the locals and to the rows.
LEMMA ReadPermissionsEffect ==
    ASSUME TypeInv, NEW r \in ReqId, ReadPermissions(r)
    PROVE  /\ At(r, "readPermissions")
           /\ /\ Moves(r, "putTicket")
              /\ reqs'[r].session = reqs[r].session
              /\ reqs'[r].user = reqs[r].user
<1>0. reqs[r] \in RequestType
  BY DEF TypeInv, TypeOK
<1>1. reqs'[r] = [reqs[r] EXCEPT !.pc = "putTicket",
                                 !.may = reqs[r].user \in readers]
  BY BecomesFrame DEF TypeInv, ReadPermissions
<1>2. At(r, "readPermissions")
  BY DEF ReadPermissions
<1> QED
  BY <1>0, <1>1, <1>2 DEF RequestType, Moves, Turns

\* The last step of a handler leaves the slot idle.
LEMMA AnsweringEffect ==
    ASSUME TypeInv, NEW r \in ReqId,
           \/ AuthorizationUrl(r) \/ PutLoginGrant(r) \/ SendToken(r)
           \/ LogoutCommit(r) \/ RevokeCommit(r) \/ PutTicket(r) \/ Accept(r)
           \/ Abort(r)
    PROVE  reqs'[r] = Idle
  BY BecomesFrame
     DEF TypeInv, AuthorizationUrl, PutLoginGrant, SendToken, LogoutCommit,
         RevokeCommit, PutTicket, Accept, Abort, Answered

\* What an arriving request starts with.
LEMMA ArrivalEffect ==
    ASSUME TypeInv, NEW r \in ReqId, Arrive(r)
    PROVE  /\ At(r, "idle")
           /\ reqs'[r].hit = {} /\ reqs'[r].held = {}
           /\ \/ /\ reqs'[r].pc = "authorizationUrl"
                 /\ reqs'[r].op = "idle"
                 /\ reqs'[r].flow \in FlowId
                 /\ flows[reqs'[r].flow].status = "none"
                 /\ flows'[reqs'[r].flow].status = "stored"
                 /\ flows'[reqs'[r].flow].key \in DeviceKey
                 /\ \A f \in FlowId \ {reqs'[r].flow} : flows'[f] = flows[f]
              \/ /\ reqs'[r].pc = "callback"
                 /\ reqs'[r].op = "idle"
                 /\ reqs'[r].flow \in FlowId
                 /\ flows[reqs'[r].flow].status # "none"
                 /\ UNCHANGED flows
              \/ /\ reqs'[r].pc = "exchangeGrant"
                 /\ reqs'[r].op = "idle"
                 /\ reqs'[r].session \in SessionId
                 /\ grants[reqs'[r].session].status # "none"
                 /\ UNCHANGED flows
              \/ /\ reqs'[r].pc = "authenticate"
                 /\ reqs'[r].session \in SessionId
                 /\ disclosed[reqs'[r].session] > 0
                 /\ \/ reqs'[r].op \in {"logout", "readPermissions"}
                    \/ /\ reqs'[r].op = "revokeDevice"
                       /\ reqs'[r].device \in Devices
                       /\ reqs'[r].prior = OpenSessionsOf(reqs'[r].device)
                 /\ UNCHANGED flows
              \/ /\ reqs'[r].pc = "consumeTicket"
                 /\ reqs'[r].op = "idle"
                 /\ reqs'[r].ticket \in TicketId
                 /\ UNCHANGED flows
<1> USE DEF TypeInv
<1>1. CASE \E f \in FlowId, k \in DeviceKey : StartLogin(r, f, k)
  <2>1. PICK f \in FlowId, k \in DeviceKey : StartLogin(r, f, k)
    BY <1>1
  <2>2. reqs'[r] = [Idle EXCEPT !.pc = "authorizationUrl", !.flow = f]
    BY <2>1, BecomesFrame DEF StartLogin
  <2>3. /\ flows'[f] = [status |-> "stored", key |-> k, expires |-> clock + FlowTtl]
        /\ \A g \in FlowId \ {f} : flows'[g] = flows[g]
    BY <2>1 DEF StartLogin, TypeOK, TablesOK
  <2> QED
    BY <2>1, <2>2, <2>3 DEF Idle, StartLogin
<1>2. CASE \E f \in FlowId : Callback(r, f)
  <2>1. PICK f \in FlowId : Callback(r, f)
    BY <1>2
  <2>2. reqs'[r] = [Idle EXCEPT !.pc = "callback", !.flow = f]
    BY <2>1, BecomesFrame DEF Callback
  <2> QED
    BY <2>1, <2>2 DEF Idle, Callback, tables
<1>3. CASE \E s \in SessionId : ExchangeGrant(r, s)
  <2>1. PICK s \in SessionId : ExchangeGrant(r, s)
    BY <1>3
  <2>2. reqs'[r] = [Idle EXCEPT !.pc = "exchangeGrant", !.session = s]
    BY <2>1, BecomesFrame DEF ExchangeGrant
  <2> QED
    BY <2>1, <2>2 DEF Idle, ExchangeGrant, tables
<1>4. CASE \E s \in SessionId,
              op \in {"logout", "revokeDevice", "readPermissions"} :
              Request(r, s, op)
  <2>1. PICK s \in SessionId,
             op \in {"logout", "revokeDevice", "readPermissions"} :
             Request(r, s, op)
    BY <1>4
  <2>2. \/ /\ op = "logout"
           /\ reqs'[r] = [Idle EXCEPT !.pc = "authenticate", !.op = op,
                                      !.session = s]
        \/ /\ op = "revokeDevice"
           /\ \E d \in Devices :
                 reqs'[r] = [Idle EXCEPT !.pc = "authenticate", !.op = op,
                                         !.session = s, !.device = d,
                                         !.prior = OpenSessionsOf(d)]
        \/ /\ op = "readPermissions"
           /\ \E c \in Channel :
                 reqs'[r] = [Idle EXCEPT !.pc = "authenticate", !.op = op,
                                         !.session = s, !.channel = c]
    BY <2>1, BecomesFrame DEF Request
  <2>3. At(r, "idle") /\ disclosed[s] > 0 /\ UNCHANGED flows
    BY <2>1 DEF Request, tables
  <2>4. /\ reqs'[r].pc = "authenticate"
        /\ reqs'[r].session = s
        /\ reqs'[r].op = op
        /\ reqs'[r].hit = {} /\ reqs'[r].held = {}
    BY <2>2 DEF Idle
  <2>5. op = "revokeDevice" =>
          /\ reqs'[r].device \in Devices
          /\ reqs'[r].prior = OpenSessionsOf(reqs'[r].device)
    BY <2>2 DEF Idle
  <2> QED
    BY <2>3, <2>4, <2>5
<1>5. CASE \E t \in TicketId, c \in Channel : Connect(r, t, c)
  <2>1. PICK t \in TicketId, c \in Channel : Connect(r, t, c)
    BY <1>5
  <2>2. reqs'[r] = [Idle EXCEPT !.pc = "consumeTicket", !.ticket = t,
                                !.channel = c]
    BY <2>1, BecomesFrame DEF Connect
  <2> QED
    BY <2>1, <2>2 DEF Idle, Connect, tables
<1> QED
  BY <1>1, <1>2, <1>3, <1>4, <1>5 DEF Arrive

\* Every step keeps LocalsOK.
LEMMA LocalsOKStep ==
    ASSUME TypeOK, LoginInv, NEW r \in ReqId, Arrive(r) \/ Handle(r) \/ Abort(r)
    PROVE  LocalsOK'
<1> USE DEF LoginInv
<1>0. TypeInv /\ Kept
  BY KeptStep DEF TypeInv
<1>1. \A f \in FlowId : flows[f].key \in DeviceKey => flows'[f].key \in DeviceKey
  BY <1>0 DEF Kept
<1>2. \A s \in SessionId : Exists(s) => Exists(s)'
  BY <1>0 DEF Kept, Exists
<1>3. ASSUME NEW p \in ReqId \ {r}
      PROVE  LocalOK(p)'
  <2>1. LocalOK(p) /\ reqs'[p] = reqs[p]
    BY <1>0, OneRequestMoves DEF LocalsOK
  <2>2. reqs[p].hit \subseteq SessionId /\ reqs[p].held \subseteq SessionId
    BY DEF TypeOK, RequestType
  <2> QED
    BY <1>1, <1>2, <2>1, <2>2 DEF LocalOK
<1>4. /\ LocalOK(r)
      /\ \A s \in reqs[r].hit \cup reqs[r].held : Exists(s)'
  BY <1>2 DEF LocalsOK, LocalOK, TypeOK, RequestType
<1>5. ASSUME reqs'[r] = Idle
      PROVE  LocalOK(r)'
  BY <1>5 DEF LocalOK, Idle, LoginPcs, SessionPcs, ExchangePcs, ActingPcs,
              RevokingPcs
<1> SUFFICES LocalOK(r)'
  BY <1>3 DEF LocalsOK
<1> USE DEF LocalOK, LoginPcs, SessionPcs, ExchangePcs, ActingPcs, RevokingPcs,
            Turns, Moves, At
<1>6. CASE Arrive(r)
  <2>1. \A s \in SessionId : disclosed[s] > 0 \/ grants[s].status # "none"
                             => Exists(s)'
    BY <1>2 DEF RowsOK
  <2>2. \A f \in FlowId : flows[f].status # "none" => flows[f].key \in DeviceKey
    BY DEF RowsOK
  <2> QED
    BY <1>0, <1>6, <2>1, <2>2, ArrivalEffect
<1>7. CASE ConsumeFlow(r)
  BY <1>0, <1>1, <1>2, <1>4, <1>5, <1>7, ConsumeFlowEffect
<1>8. CASE OidcExchange(r)
  BY <1>0, <1>1, <1>2, <1>4, <1>5, <1>8, OidcExchangeEffect
<1>9. CASE SelectIdentity(r)
  BY <1>0, <1>1, <1>2, <1>4, <1>5, <1>9, SelectIdentityEffect
<1>10. CASE InsertUser(r)
  BY <1>0, <1>1, <1>2, <1>4, <1>5, <1>10, InsertUserEffect
<1>11. CASE UpdateUser(r)
  BY <1>0, <1>1, <1>2, <1>4, <1>5, <1>11, UpdateUserEffect
<1>12. CASE RegisterDevice(r)
  <2>1. LoginDevice(r) \in Devices
    BY <1>4, <1>12 DEF RegisterDevice, LoginDevice, Devices
  <2> QED
    BY <1>0, <1>1, <1>4, <1>12, <2>1, RegisterDeviceEffect
<1>13. CASE CreateSession(r)
  <2>1. PICK s \in SessionId :
          /\ Moves(r, "resolveSession")
          /\ At(r, "createSession")
          /\ reqs'[r].session = s
          /\ sessions'[s].status = "open"
    BY <1>0, <1>13, CreateSessionEffect
  <2>2. Exists(s)'
    BY <2>1 DEF Exists
  <2> QED
    BY <1>1, <1>4, <2>1, <2>2
<1>14. CASE ResolveSession(r)
  BY <1>0, <1>1, <1>2, <1>4, <1>5, <1>14, ResolveSessionEffect
<1>15. CASE ConsumeLoginGrant(r)
  BY <1>0, <1>1, <1>2, <1>4, <1>5, <1>15, ConsumeLoginGrantEffect
<1>16. CASE Authenticate(r)
  <2>1. sessions[reqs[r].session].user \in UserId
    BY <1>4, <1>16 DEF Authenticate, RowsOK
  <2> QED
    BY <1>0, <1>1, <1>2, <1>4, <1>5, <1>16, <2>1, AuthenticateEffect
<1>17. CASE RevokeDevice(r)
  BY <1>0, <1>1, <1>2, <1>4, <1>5, <1>17, RevokeDeviceEffect
<1>18. CASE ReadPermissions(r)
  BY <1>0, <1>1, <1>2, <1>4, <1>5, <1>18, ReadPermissionsEffect
<1>19. CASE AuthenticateGrant(r)
  BY <1>0, <1>1, <1>2, <1>4, <1>5, <1>19, AuthenticateGrantEffect
<1>20. CASE Logout(r)
  <2>1. \A s \in {reqs[r].session} \cap OpenSessions : Exists(s)'
    BY <1>2 DEF OpenSessions, Exists
  <2> QED
    BY <1>0, <1>1, <1>2, <1>4, <1>20, <2>1, LogoutEffect
<1>21. CASE FindSessions(r)
  <2>1. \A s \in SessionsToRevoke(reqs[r].device) : Exists(s)'
    BY <1>2 DEF SessionsToRevoke, OpenSessionsOf, OpenSessions, Exists
  <2> QED
    BY <1>0, <1>1, <1>2, <1>4, <1>21, <2>1, FindSessionsEffect
<1>22. CASE \E s \in SessionId : RevokeSession(r, s)
  <2>1. PICK s \in SessionId : RevokeSession(r, s)
    BY <1>22
  <2>2. \A z \in {s} \cap OpenSessions : Exists(z)'
    BY <1>2 DEF OpenSessions, Exists
  <2> QED
    BY <1>0, <1>1, <1>2, <1>4, <2>1, <2>2, RevokeSessionEffect
<1>23. CASE ConsumeTicket(r)
  BY <1>0, <1>1, <1>2, <1>4, <1>5, <1>23, ConsumeTicketEffect
<1> HIDE DEF LocalOK, LoginPcs, SessionPcs, ExchangePcs, ActingPcs, RevokingPcs,
             Turns, Moves, At
<1> QED
  BY <1>0, <1>5, <1>6, <1>7, <1>8, <1>9, <1>10, <1>11, <1>12, <1>13, <1>14,
     <1>15, <1>16, <1>17, <1>18, <1>19, <1>20, <1>21, <1>22, <1>23,
     AnsweringEffect DEF Handle

\* Only create_session adds session rows.
LEMMA SessionsAdded ==
    ASSUME TypeOK, LoginInv, NEW r \in ReqId,
           Arrive(r) \/ Handle(r) \/ Abort(r), ~CreateSession(r)
    PROVE  \A s \in SessionId : Exists(s)' => Exists(s)
<1> USE DEF LoginInv
<1>0. TablesOK
  BY DEF TypeOK
<1>1. CASE LogoutCommit(r) \/ RevokeCommit(r)
  <2>1. \A s \in reqs[r].held : Exists(s)
    BY DEF LocalsOK, LocalOK
  <2>2. \A s \in SessionId : s \notin reqs[r].held => sessions'[s] = sessions[s]
    BY <1>1 DEF LogoutCommit, RevokeCommit, AfterRevoking
  <2> QED
    BY <2>1, <2>2 DEF Exists
<1>2. CASE ~LogoutCommit(r) /\ ~RevokeCommit(r)
  <2>1. UNCHANGED sessions
    BY <1>2
       DEF Arrive, Handle, StartLogin, Callback, ExchangeGrant,
           Request, Connect, AuthorizationUrl, ConsumeFlow, OidcExchange,
           SelectIdentity, InsertUser, UpdateUser, RegisterDevice,
           ResolveSession, PutLoginGrant, ConsumeLoginGrant,
           AuthenticateGrant, SendToken, Authenticate, Logout, RevokeDevice,
           FindSessions, RevokeSession, ReadPermissions, PutTicket,
           ConsumeTicket, Accept, Abort, tables
  <2> QED
    BY <2>1 DEF Exists
<1> QED
  BY <1>1, <1>2

\* Every step keeps RowsOK.
LEMMA RowsOKStep ==
    ASSUME TypeOK, LoginInv, NEW r \in ReqId, Arrive(r) \/ Handle(r) \/ Abort(r)
    PROVE  RowsOK'
<1> USE DEF LoginInv
<1>0. TypeInv /\ Kept /\ TablesOK
  BY KeptStep DEF TypeInv, TypeOK
<1>1. \A s \in SessionId : Exists(s) => Exists(s)'
  BY <1>0 DEF Kept, Exists
<1>2. \A f \in FlowId : flows'[f].status # "none" <=> flows'[f].key \in DeviceKey
  <2>1. CASE Arrive(r)
    BY <1>0, <2>1, ArrivalEffect DEF RowsOK
  <2>2. CASE AuthorizationUrl(r)
    <3>1. reqs[r].flow \in FlowId /\ flows[reqs[r].flow].key \in DeviceKey
      BY <2>2 DEF AuthorizationUrl, At, LocalsOK, LocalOK
    <3>2. flows' = [flows EXCEPT ![reqs[r].flow].status = "shared"]
      BY <2>2 DEF AuthorizationUrl
    <3> QED
      BY <1>0, <3>1, <3>2 DEF RowsOK, Kept, TablesOK, FlowRow
  <2>3. CASE ConsumeFlow(r)
    <3>1. reqs[r].flow \in FlowId /\ flows[reqs[r].flow].key \in DeviceKey
      BY <2>3 DEF ConsumeFlow, At, LocalsOK, LocalOK
    <3>2. \/ UNCHANGED flows
          \/ flows' = [flows EXCEPT ![reqs[r].flow].status = "used"]
      BY <2>3 DEF ConsumeFlow, FlowAfterConsume
    <3>3. CASE UNCHANGED flows
      BY <3>3 DEF RowsOK
    <3>4. CASE flows' = [flows EXCEPT ![reqs[r].flow].status = "used"]
      BY <1>0, <3>1, <3>4 DEF RowsOK, Kept, TablesOK, FlowRow
    <3> QED
      BY <3>2, <3>3, <3>4
  <2>4. CASE UNCHANGED flows
    BY <2>4 DEF RowsOK
  <2> QED
    BY <2>1, <2>2, <2>3, <2>4
       DEF Handle, OidcExchange, SelectIdentity, InsertUser, UpdateUser,
           RegisterDevice, CreateSession, ResolveSession, PutLoginGrant,
           ConsumeLoginGrant, AuthenticateGrant, SendToken, Authenticate,
           Logout, LogoutCommit, RevokeDevice, FindSessions, RevokeSession,
           RevokeCommit, ReadPermissions, PutTicket, ConsumeTicket, Accept,
           Abort, tables
<1>3. ASSUME NEW s \in SessionId, Exists(s)'
      PROVE  /\ sessions'[s].user \in UserId
             /\ sessions'[s].device \in Devices
             /\ sessions'[s].flow \in FlowId
  <2>1. CASE Exists(s)
    BY <1>0, <2>1 DEF RowsOK, Kept
  <2>2. CASE ~Exists(s)
    <3>1. CreateSession(r)
      BY <1>3, <2>2, SessionsAdded
    <3>2. /\ reqs[r].user \in UserId
          /\ reqs[r].device \in Devices
          /\ reqs[r].flow \in FlowId
      BY <3>1 DEF CreateSession, At, LocalsOK, LocalOK, LoginPcs
    <3>3. \E z \in SessionId :
            /\ sessions'[z].user = reqs[r].user
            /\ sessions'[z].device = reqs[r].device
            /\ sessions'[z].flow = reqs[r].flow
            /\ \A y \in SessionId \ {z} : sessions'[y] = sessions[y]
      BY <1>0, <3>1, CreateSessionEffect
    <3> QED
      BY <1>3, <2>2, <3>2, <3>3 DEF Exists
  <2> QED
    BY <2>1, <2>2
<1>4. ASSUME NEW s \in SessionId, grants'[s].status # "none"
      PROVE  Exists(s)'
  <2>1. CASE grants[s].status # "none"
    BY <1>1, <2>1 DEF RowsOK
  <2>2. CASE grants[s].status = "none"
    <3>1. PutLoginGrant(r) \/ ConsumeLoginGrant(r)
      BY <1>0, <1>4, <2>2
         DEF Arrive, Handle, StartLogin, Callback, ExchangeGrant,
             Request, Connect, AuthorizationUrl, ConsumeFlow, OidcExchange,
             SelectIdentity, InsertUser, UpdateUser, RegisterDevice,
             CreateSession, ResolveSession, AuthenticateGrant, SendToken,
             Authenticate, Logout, LogoutCommit, RevokeDevice, FindSessions,
             RevokeSession, RevokeCommit, ReadPermissions, PutTicket,
             ConsumeTicket, Accept, Abort, tables
    <3>2. Exists(reqs[r].session)
      BY <3>1 DEF PutLoginGrant, ConsumeLoginGrant, At, LocalsOK, LocalOK,
                  SessionPcs
    <3>3. \A z \in SessionId \ {reqs[r].session} : grants'[z] = grants[z]
      BY <1>0, <3>1 DEF PutLoginGrant, ConsumeLoginGrant, TablesOK
    <3> QED
      BY <1>1, <1>4, <2>2, <3>2, <3>3
  <2> QED
    BY <2>1, <2>2
<1>5. ASSUME NEW s \in SessionId, disclosed'[s] > 0
      PROVE  Exists(s)'
  <2>1. CASE SendToken(r)
    <3>1. Exists(reqs[r].session)
      BY <2>1 DEF SendToken, At, LocalsOK, LocalOK, ExchangePcs
    <3>2. \A z \in SessionId \ {reqs[r].session} : disclosed'[z] = disclosed[z]
      BY <2>1 DEF SendToken, TypeOK, HistoryOK
    <3> QED
      BY <1>1, <1>5, <3>1, <3>2 DEF RowsOK
  <2>2. CASE UNCHANGED disclosed
    BY <1>1, <1>5, <2>2 DEF RowsOK
  <2> QED
    BY <2>1, <2>2
       DEF Arrive, Handle, StartLogin, Callback, ExchangeGrant,
           Request, Connect, AuthorizationUrl, ConsumeFlow, OidcExchange,
           SelectIdentity, InsertUser, UpdateUser, RegisterDevice,
           CreateSession, ResolveSession, PutLoginGrant, ConsumeLoginGrant,
           AuthenticateGrant, Authenticate, Logout, LogoutCommit,
           RevokeDevice, FindSessions, RevokeSession, RevokeCommit,
           ReadPermissions, PutTicket, ConsumeTicket, Accept, Abort, tables,
           history
<1>6. ASSUME NEW t \in TicketId, tickets'[t].status # "none"
      PROVE  /\ tickets'[t].session \in SessionId
             /\ sessions'[tickets'[t].session].status # "none"
  <2>1. CASE PutTicket(r)
    <3>1. reqs[r].session \in SessionId /\ Exists(reqs[r].session)
      BY <2>1 DEF PutTicket, At, LocalsOK, LocalOK, ActingPcs
    <3>2. \/ tickets'[t] = tickets[t]
          \/ tickets'[t].session = reqs[r].session
      BY <1>0, <2>1 DEF PutTicket, TablesOK
    <3> QED
      BY <1>1, <1>6, <3>1, <3>2 DEF RowsOK, Exists
  <2>2. CASE ConsumeTicket(r)
    <3>1. \/ UNCHANGED tickets
          \/ /\ tickets[reqs[r].ticket].status = "live"
             /\ tickets' = [tickets EXCEPT ![reqs[r].ticket].status = "used"]
      BY <2>2 DEF ConsumeTicket, TicketMatches
    <3>2. tickets'[t].session = tickets[t].session /\ tickets[t].status # "none"
      <4>1. CASE UNCHANGED tickets
        BY <1>6, <4>1
      <4>2. CASE /\ tickets[reqs[r].ticket].status = "live"
                 /\ tickets' = [tickets EXCEPT ![reqs[r].ticket].status = "used"]
        BY <1>0, <1>6, <4>2 DEF TablesOK, TicketRow
      <4> QED
        BY <3>1, <4>1, <4>2
    <3> QED
      BY <1>1, <3>2 DEF RowsOK, Exists
  <2>3. CASE UNCHANGED tickets
    BY <1>1, <1>6, <2>3 DEF RowsOK, Exists
  <2> QED
    BY <2>1, <2>2, <2>3
       DEF Arrive, Handle, StartLogin, Callback, ExchangeGrant,
           Request, Connect, AuthorizationUrl, ConsumeFlow, OidcExchange,
           SelectIdentity, InsertUser, UpdateUser, RegisterDevice,
           CreateSession, ResolveSession, PutLoginGrant, ConsumeLoginGrant,
           AuthenticateGrant, SendToken, Authenticate, Logout, LogoutCommit,
           RevokeDevice, FindSessions, RevokeSession, RevokeCommit,
           ReadPermissions, Accept, Abort, tables
<1> QED
  BY <1>2, <1>3, <1>4, <1>5, <1>6 DEF RowsOK, Exists

-----------------------------------------------------------------------------
(***************************************************************************)
(* Ownership of flows and of login codes.                                  *)
(***************************************************************************)
\* The steps that neither start, share nor consume a flow nor add a session
\* either stay within a login, or leave the slot outside it.
LEMMA QuietStep ==
    ASSUME TypeInv, NEW r \in ReqId, Handle(r) \/ Abort(r),
           ~AuthorizationUrl(r), ~ConsumeFlow(r), ~CreateSession(r)
    PROVE  /\ UNCHANGED flows
           /\ reqs'[r].pc = "openGrant" => ConsumeLoginGrant(r)
           /\ reqs'[r].pc = "sendToken" => AuthenticateGrant(r)
           /\ \/ reqs'[r].pc \notin LoginPcs \cup {"authorizationUrl"}
              \/ /\ reqs'[r].pc \in LoginPcs
                 /\ reqs[r].pc \in LoginPcs
                 /\ reqs'[r].flow = reqs[r].flow
                 /\ reqs'[r].pc \in SessionPcs <=> reqs[r].pc \in SessionPcs
                 /\ reqs'[r].pc \in SessionPcs => reqs'[r].session = reqs[r].session
<1>1. UNCHANGED flows
  BY DEF Handle, OidcExchange, SelectIdentity, InsertUser, UpdateUser,
         RegisterDevice, ResolveSession, PutLoginGrant, ConsumeLoginGrant,
         AuthenticateGrant, SendToken, Authenticate, Logout, LogoutCommit,
         RevokeDevice, FindSessions, RevokeSession, RevokeCommit,
         ReadPermissions, PutTicket, ConsumeTicket, Accept, Abort, tables
<1>2. Idle.pc \notin LoginPcs \cup ExchangePcs \cup {"authorizationUrl"}
  BY DEF Idle, LoginPcs, ExchangePcs
<1> USE DEF Moves, Turns, At, LoginPcs, SessionPcs, ExchangePcs
<1>3. CASE OidcExchange(r)
  BY <1>1, <1>2, <1>3, OidcExchangeEffect
<1>4. CASE SelectIdentity(r)
  BY <1>1, <1>4, SelectIdentityEffect
<1>5. CASE InsertUser(r)
  BY <1>1, <1>2, <1>5, InsertUserEffect
<1>6. CASE UpdateUser(r)
  BY <1>1, <1>2, <1>6, UpdateUserEffect
<1>7. CASE RegisterDevice(r)
  BY <1>1, <1>7, RegisterDeviceEffect
<1>8. CASE ResolveSession(r)
  BY <1>1, <1>2, <1>8, ResolveSessionEffect
<1>9. CASE ConsumeLoginGrant(r)
  BY <1>1, <1>2, <1>9, ConsumeLoginGrantEffect
<1>10. CASE Authenticate(r)
  <2>1. reqs[r].op \in {"logout", "revokeDevice", "readPermissions"}
    BY <1>10 DEF Authenticate, TypeInv, LocalsOK, LocalOK
  <2> QED
    BY <1>1, <1>2, <1>10, <2>1, AuthenticateEffect
<1>11. CASE RevokeDevice(r)
  BY <1>1, <1>2, <1>11, RevokeDeviceEffect
<1>12. CASE ReadPermissions(r)
  BY <1>1, <1>12, ReadPermissionsEffect
<1>13. CASE AuthenticateGrant(r)
  BY <1>1, <1>2, <1>13, AuthenticateGrantEffect
<1>14. CASE Logout(r)
  BY <1>1, <1>14, LogoutEffect
<1>15. CASE FindSessions(r)
  BY <1>1, <1>15, FindSessionsEffect
<1>16. CASE \E s \in SessionId : RevokeSession(r, s)
  BY <1>1, <1>16, RevokeSessionEffect
<1>17. CASE ConsumeTicket(r)
  BY <1>1, <1>2, <1>17, ConsumeTicketEffect
<1> HIDE DEF Moves, Turns, At, LoginPcs, SessionPcs, ExchangePcs
<1> QED
  BY <1>1, <1>2, <1>3, <1>4, <1>5, <1>6, <1>7, <1>8, <1>9, <1>10, <1>11, <1>12,
     <1>13, <1>14, <1>15, <1>16, <1>17, AnsweringEffect DEF Handle, ExchangePcs

\* Every step keeps FlowOwnership.
LEMMA FlowOwnershipStep ==
    ASSUME TypeOK, LoginInv, NEW r \in ReqId, Arrive(r) \/ Handle(r) \/ Abort(r)
    PROVE  FlowOwnership'
<1> USE DEF LoginInv
<1>0. TypeInv /\ Kept /\ TablesOK
  BY KeptStep DEF TypeInv, TypeOK
<1>1. \A p \in ReqId \ {r} : reqs'[p] = reqs[p]
  BY <1>0, OneRequestMoves
<1>2. \A p \in ReqId :
        /\ reqs[p].pc \in LoginPcs \cup {"authorizationUrl"} =>
              reqs[p].flow \in FlowId
        /\ reqs[p].pc \in SessionPcs =>
              reqs[p].session \in SessionId /\ Exists(reqs[p].session)
  BY DEF LocalsOK, LocalOK
<1>3. \A s \in SessionId : Exists(s) => sessions[s].flow \in FlowId
  BY DEF RowsOK
<1>4. "authorizationUrl" \notin LoginPcs /\ "callback" \notin LoginPcs
      /\ SessionPcs \subseteq LoginPcs /\ "exchangeCode" \in LoginPcs \ SessionPcs
      /\ "createSession" \in LoginPcs \ SessionPcs
      /\ "resolveSession" \in SessionPcs
  BY DEF LoginPcs, SessionPcs
<1> USE DEF FlowOwnership, BeforeSession, At
<1>5. CASE Arrive(r)
  <2>1. /\ \A s \in SessionId : Exists(s)' => Exists(s)
        /\ reqs'[r].pc \notin LoginPcs
    BY <1>0, <1>5, SessionsAdded, ArrivalEffect DEF LoginPcs, CreateSession
  <2>2. \/ /\ reqs'[r].pc = "authorizationUrl"
           /\ reqs'[r].flow \in FlowId
           /\ flows[reqs'[r].flow].status = "none"
           /\ flows'[reqs'[r].flow].status = "stored"
           /\ \A f \in FlowId \ {reqs'[r].flow} : flows'[f] = flows[f]
        \/ /\ reqs'[r].pc # "authorizationUrl"
           /\ UNCHANGED flows
    BY <1>0, <1>5, ArrivalEffect
  <2> QED
    BY <1>0, <1>1, <1>2, <1>3, <1>4, <2>1, <2>2 DEF Kept
<1>6. CASE AuthorizationUrl(r)
  <2>1. reqs'[r].pc = "idle"
    BY <1>0, <1>6, AnsweringEffect DEF Idle
  <2>2. \A s \in SessionId : Exists(s)' => Exists(s)
    BY <1>6 DEF AuthorizationUrl, Exists
  <2>3. /\ reqs[r].pc = "authorizationUrl"
        /\ \A f \in FlowId \ {reqs[r].flow} : flows'[f] = flows[f]
    BY <1>0, <1>6 DEF AuthorizationUrl, TablesOK
  <2> QED
    BY <1>0, <1>1, <1>2, <1>3, <1>4, <2>1, <2>2, <2>3 DEF Kept, LoginPcs
<1>7. CASE ConsumeFlow(r)
  <2>1. \A s \in SessionId : Exists(s)' <=> Exists(s)
    BY <1>7 DEF ConsumeFlow, Exists
  <2>2. reqs[r].flow \in FlowId
    BY <1>7 DEF ConsumeFlow, LocalsOK, LocalOK
  <2>3. CASE reqs'[r] = Idle
    <3>1. reqs'[r].pc \notin LoginPcs \cup {"authorizationUrl"}
      BY <2>3 DEF Idle, LoginPcs
    <3>2. \A f \in FlowId : flows'[f] = flows[f] \/ flows[f].status = "shared"
      BY <1>0, <1>7 DEF ConsumeFlow, TablesOK
    <3> QED
      BY <1>0, <1>1, <1>2, <1>3, <1>4, <2>1, <3>1, <3>2 DEF Kept
  <2>4. CASE reqs'[r] # Idle
    <3>1. /\ reqs'[r].pc = "exchangeCode"
          /\ reqs'[r].flow = reqs[r].flow
      BY <1>0, <1>7, <2>4, ConsumeFlowEffect DEF Moves, Turns
    <3>2. /\ flows[reqs[r].flow].status = "shared"
          /\ flows' = [flows EXCEPT ![reqs[r].flow] =
                          FlowAfterConsume(reqs[r].flow)]
      <4>1. ~Answered(r)
        BY <1>0, <2>4, BecomesFrame DEF TypeInv, Answered
      <4> QED
        BY <1>7, <4>1 DEF ConsumeFlow
    <3>3. /\ flows'[reqs[r].flow].status = "used"
          /\ \A f \in FlowId \ {reqs[r].flow} : flows'[f] = flows[f]
      BY <1>0, <2>2, <3>2 DEF FlowAfterConsume, TablesOK, FlowRow
    <3> QED
      BY <1>0, <1>1, <1>2, <1>3, <1>4, <2>1, <2>2, <3>1, <3>2, <3>3 DEF Kept
  <2> QED
    BY <2>3, <2>4
<1>8. CASE CreateSession(r)
  <2>1. PICK s \in SessionId :
          /\ reqs[r].pc = "createSession"
          /\ reqs'[r].pc = "resolveSession"
          /\ reqs'[r].flow = reqs[r].flow
          /\ reqs'[r].session = s
          /\ sessions[s].status = "none"
          /\ sessions'[s].flow = reqs[r].flow
          /\ \A z \in SessionId \ {s} : sessions'[z] = sessions[z]
    BY <1>0, <1>8, CreateSessionEffect DEF Moves, Turns
  <2>2. UNCHANGED flows
    BY <1>8 DEF CreateSession
  <2> QED
    BY <1>0, <1>1, <1>2, <1>3, <1>4, <2>1, <2>2 DEF Exists
<1>9. CASE /\ Handle(r) \/ Abort(r)
           /\ ~AuthorizationUrl(r) /\ ~ConsumeFlow(r) /\ ~CreateSession(r)
  <2>1. /\ UNCHANGED flows
        /\ \/ reqs'[r].pc \notin LoginPcs \cup {"authorizationUrl"}
           \/ /\ reqs'[r].pc \in LoginPcs
              /\ reqs[r].pc \in LoginPcs
              /\ reqs'[r].flow = reqs[r].flow
              /\ reqs'[r].pc \in SessionPcs <=> reqs[r].pc \in SessionPcs
              /\ reqs'[r].pc \in SessionPcs => reqs'[r].session = reqs[r].session
    BY <1>0, <1>9, QuietStep
  <2>2. \A s \in SessionId : Exists(s)' => Exists(s)
    BY <1>9, SessionsAdded
  <2> QED
    BY <1>0, <1>1, <1>2, <1>3, <1>4, <2>1, <2>2 DEF Kept
<1> HIDE DEF FlowOwnership, BeforeSession, At
<1> QED
  BY <1>5, <1>6, <1>7, <1>8, <1>9

\* Every step keeps GrantOwnership.
LEMMA GrantOwnershipStep ==
    ASSUME TypeOK, LoginInv, NEW r \in ReqId, Arrive(r) \/ Handle(r) \/ Abort(r)
    PROVE  GrantOwnership'
<1> USE DEF LoginInv
<1>0. TypeInv /\ Kept /\ TablesOK /\ HistoryOK
  BY KeptStep DEF TypeInv, TypeOK
<1>1. \A p \in ReqId \ {r} : reqs'[p] = reqs[p]
  BY <1>0, OneRequestMoves
<1>2. \A p \in ReqId : reqs[p].pc \in SessionPcs \cup ExchangePcs
                                     \cup {"exchangeGrant"}
                       => reqs[p].session \in SessionId /\ Exists(reqs[p].session)
  BY DEF LocalsOK, LocalOK
<1>3. \A s \in SessionId : grants[s].status # "none" => Exists(s)
  BY DEF RowsOK
<1>4. \A p, q \in ReqId : p # q /\ reqs[p].pc \in SessionPcs /\ reqs[q].pc \in SessionPcs
                          => reqs[p].session # reqs[q].session
  BY DEF FlowOwnership, LoginPcs, SessionPcs
<1>5. /\ SessionPcs \cap ExchangePcs = {}
      /\ "exchangeGrant" \notin SessionPcs \cup ExchangePcs
      /\ Idle.pc \notin SessionPcs \cup ExchangePcs
      /\ "resolveSession" \in SessionPcs /\ "putGrant" \in SessionPcs
      /\ "openGrant" \in ExchangePcs /\ "sendToken" \in ExchangePcs
  BY DEF SessionPcs, ExchangePcs, Idle
<1> USE DEF GrantOwnership, At
<1>6. CASE CreateSession(r)
  <2>1. PICK s \in SessionId :
          /\ reqs'[r].pc = "resolveSession"
          /\ reqs'[r].session = s
          /\ sessions[s].status = "none"
    BY <1>0, <1>6, CreateSessionEffect DEF Moves, Turns
  <2>2. UNCHANGED <<grants, disclosed>>
    BY <1>6 DEF CreateSession, history
  <2> QED
    BY <1>0, <1>1, <1>2, <1>3, <1>5, <2>1, <2>2 DEF Exists
<1>7. CASE PutLoginGrant(r)
  <2>1. reqs'[r] = Idle
    BY <1>0, <1>7, AnsweringEffect
  <2>2. /\ reqs[r].pc = "putGrant"
        /\ grants'[reqs[r].session].status = "live"
        /\ \A s \in SessionId \ {reqs[r].session} : grants'[s] = grants[s]
        /\ UNCHANGED disclosed
    BY <1>0, <1>2, <1>5, <1>7 DEF PutLoginGrant, TablesOK, history
  <2> QED
    BY <1>0, <1>1, <1>2, <1>4, <1>5, <2>1, <2>2
<1>8. CASE ConsumeLoginGrant(r)
  <2>1. UNCHANGED disclosed
    BY <1>8 DEF ConsumeLoginGrant, history
  <2>2. CASE reqs'[r] = Idle
    <3>1. \A s \in SessionId : \/ grants'[s] = grants[s]
                               \/ grants[s].status = "live" /\ grants'[s].status = "used"
      BY <1>0, <1>8 DEF ConsumeLoginGrant, GrantAfterConsume, TablesOK, GrantRow
    <3> QED
      BY <1>0, <1>1, <1>2, <1>5, <2>1, <2>2, <3>1
  <2>3. CASE reqs'[r] # Idle
    <3>1. /\ reqs[r].pc = "exchangeGrant"
          /\ reqs'[r].pc = "openGrant"
          /\ reqs'[r].session = reqs[r].session
          /\ grants[reqs[r].session].status = "live"
          /\ grants' = [grants EXCEPT ![reqs[r].session] =
                           GrantAfterConsume(reqs[r].session)]
      BY <1>0, <1>8, <2>3, ConsumeLoginGrantEffect DEF Moves, Turns
    <3>2. /\ grants'[reqs[r].session].status = "used"
          /\ \A s \in SessionId \ {reqs[r].session} : grants'[s] = grants[s]
      BY <1>0, <1>2, <3>1 DEF GrantAfterConsume, TablesOK, GrantRow
    <3> QED
      BY <1>0, <1>1, <1>2, <1>5, <2>1, <3>1, <3>2
  <2> QED
    BY <2>2, <2>3
<1>9. CASE SendToken(r)
  <2>1. reqs'[r] = Idle /\ reqs[r].pc = "sendToken" /\ UNCHANGED grants
    BY <1>0, <1>9, AnsweringEffect DEF SendToken, tables
  <2>2. \A s \in SessionId \ {reqs[r].session} : disclosed'[s] = disclosed[s]
    BY <1>0, <1>9 DEF SendToken, HistoryOK
  <2> QED
    BY <1>0, <1>1, <1>2, <1>5, <2>1, <2>2
<1>10. CASE AuthenticateGrant(r)
  <2>1. UNCHANGED <<grants, disclosed>>
    BY <1>10 DEF AuthenticateGrant, tables, history
  <2>2. \/ reqs'[r] = Idle
        \/ /\ reqs[r].pc = "openGrant"
           /\ reqs'[r].pc = "sendToken"
           /\ reqs'[r].session = reqs[r].session
    BY <1>0, <1>10, AuthenticateGrantEffect DEF Moves, Turns
  <2> QED
    BY <1>0, <1>1, <1>2, <1>5, <2>1, <2>2
<1>11. CASE /\ UNCHANGED <<grants, disclosed>>
            /\ ~CreateSession(r) /\ ~ConsumeLoginGrant(r) /\ ~AuthenticateGrant(r)
  <2>1. \/ reqs'[r].pc \notin SessionPcs \cup ExchangePcs
        \/ /\ reqs'[r].pc \in SessionPcs
           /\ reqs[r].pc \in SessionPcs
           /\ reqs'[r].session = reqs[r].session
    <3>1. CASE Arrive(r)
      BY <1>0, <3>1, ArrivalEffect DEF SessionPcs, ExchangePcs
    <3>2. CASE AuthorizationUrl(r)
      BY <1>0, <1>5, <3>2, AnsweringEffect
    <3>3. CASE ConsumeFlow(r)
      BY <1>0, <1>5, <3>3, ConsumeFlowEffect
         DEF Moves, Turns, SessionPcs, ExchangePcs
    <3>4. CASE /\ Handle(r) \/ Abort(r)
               /\ ~AuthorizationUrl(r) /\ ~ConsumeFlow(r)
      <4>1. \/ reqs'[r].pc \notin SessionPcs
            \/ /\ reqs'[r].pc \in SessionPcs
               /\ reqs[r].pc \in SessionPcs
               /\ reqs'[r].session = reqs[r].session
        BY <1>0, <1>11, <3>4, QuietStep DEF SessionPcs, LoginPcs
      <4>2. reqs'[r].pc \notin ExchangePcs
        BY <1>0, <1>11, <3>4, QuietStep DEF ExchangePcs
      <4> QED
        BY <4>1, <4>2
    <3> QED
      BY <1>11, <3>1, <3>2, <3>3, <3>4
  <2> QED
    BY <1>0, <1>1, <1>2, <1>5, <1>11, <2>1
<1> HIDE DEF GrantOwnership, At
<1> QED
  BY <1>6, <1>7, <1>8, <1>9, <1>10, <1>11
     DEF Arrive, Handle, StartLogin, Callback, ExchangeGrant, Request, Connect,
         AuthorizationUrl, ConsumeFlow, OidcExchange, SelectIdentity,
         InsertUser, UpdateUser, RegisterDevice, ResolveSession, Authenticate,
         Logout, LogoutCommit, RevokeDevice, FindSessions, RevokeSession,
         RevokeCommit, ReadPermissions, PutTicket, ConsumeTicket, Accept,
         Abort, tables, history

-----------------------------------------------------------------------------
(***************************************************************************)
(* What the environment does, and the initial state.                       *)
(***************************************************************************)
\* The migrated, empty database satisfies the invariant.
LEMMA InitInv ==
    Init => TypeOK /\ LoginInv /\ TokenDisclosedOnce /\ OneSessionPerFlow
<1> SUFFICES ASSUME Init
             PROVE  TypeOK /\ LoginInv /\ TokenDisclosedOnce /\ OneSessionPerFlow
  OBVIOUS
<1>1. TablesOK
  BY DEF Init, TablesOK, FlowRow, UserRow, SessionRow, GrantRow, TicketRow
<1>2. TypeOK
  BY <1>1, IdleType DEF Init, TypeOK, HistoryOK
<1>3. Idle.pc = "idle" /\ Idle.op = "idle" /\ Idle.hit = {} /\ Idle.held = {}
  BY DEF Idle
<1>4. \A r \in ReqId : /\ reqs[r].pc = "idle" /\ reqs[r].op = "idle"
                       /\ reqs[r].hit = {} /\ reqs[r].held = {}
  BY <1>3 DEF Init
<1>5. LocalsOK
  BY <1>4 DEF LocalsOK, LocalOK, LoginPcs, ActingPcs, SessionPcs, ExchangePcs,
              RevokingPcs
<1>6. /\ \A f \in FlowId : flows[f].status = "none" /\ flows[f].key = None
      /\ \A s \in SessionId : ~Exists(s) /\ grants[s].status = "none"
                               /\ disclosed[s] = 0
      /\ \A t \in TicketId : tickets[t].status = "none"
  BY DEF Init, Exists
<1>7. RowsOK
  BY <1>6, NoneAssumption DEF RowsOK
<1>8. FlowOwnership /\ GrantOwnership
  BY <1>4, <1>6 DEF FlowOwnership, GrantOwnership, At, BeforeSession, LoginPcs,
                    SessionPcs, ExchangePcs
<1>9. TokenDisclosedOnce /\ OneSessionPerFlow
  BY <1>6 DEF TokenDisclosedOnce, OneSessionPerFlow, Exists
<1> QED
  BY <1>2, <1>5, <1>7, <1>8, <1>9 DEF LoginInv

\* An operator's edits and the passing of time touch nothing a login owns.
LEMMA EnvironmentStep ==
    ASSUME TypeOK, LoginInv, Operate \/ Tick \/ UNCHANGED vars
    PROVE  /\ TypeOK' /\ LoginInv'
           /\ UNCHANGED <<sessions, disclosed>>
<1>1. UNCHANGED <<flows, identities, devices, sessions, events, grants, tickets,
                  reqs, disclosed, accepts, ended>>
  BY DEF Operate, SetStatus, SetRoles, Tick, vars, tables, history
<1>2. clock' \in Nat
  BY DEF Operate, SetStatus, SetRoles, Tick, vars, TypeOK
<1>3. users' \in [UserId -> UserRow]
  <2>1. CASE \E u \in UserId : SetStatus(u)
    <3>1. PICK u \in UserId : SetStatus(u)
      BY <2>1
    <3>2. users[u] \in UserRow
      BY DEF TypeOK, TablesOK
    <3>3. [users[u] EXCEPT !.status = IF users[u].status = "active"
                                      THEN "disabled" ELSE "active"] \in UserRow
      BY <3>2 DEF UserRow
    <3> QED
      BY <3>1, <3>3 DEF SetStatus, TypeOK, TablesOK
  <2>2. CASE UNCHANGED users
    BY <2>2 DEF TypeOK, TablesOK
  <2> QED
    BY <2>1, <2>2 DEF Operate, SetRoles, Tick, vars, tables
<1>4. readers' \in SUBSET UserId /\ everReaders' \in SUBSET UserId
  BY DEF Operate, SetStatus, SetRoles, Tick, vars, tables, history, TypeOK,
         TablesOK, HistoryOK
<1>5. TypeOK'
  BY <1>1, <1>2, <1>3, <1>4 DEF TypeOK, TablesOK, HistoryOK
<1>6. LocalsOK'
  BY <1>1 DEF LoginInv, LocalsOK, LocalOK, Exists
<1>7. RowsOK'
  BY <1>1 DEF LoginInv, RowsOK, Exists
<1>8. FlowOwnership'
  BY <1>1 DEF LoginInv, FlowOwnership, At, BeforeSession, Exists
<1>9. GrantOwnership'
  BY <1>1 DEF LoginInv, GrantOwnership, At
<1> QED
  BY <1>1, <1>5, <1>6, <1>7, <1>8, <1>9 DEF LoginInv

\* Every step keeps the invariant.
LEMMA InvStep ==
    ASSUME TypeOK, LoginInv, [Next]_vars
    PROVE  TypeOK' /\ LoginInv'
<1>1. ASSUME NEW r \in ReqId, Arrive(r) \/ Handle(r) \/ Abort(r)
      PROVE  TypeOK' /\ LoginInv'
  <2>1. TypeInv
    BY DEF TypeInv, LoginInv
  <2>2. TypeOK'
    BY <1>1, <2>1, RequestTypeStep, TablesOKStep DEF TypeOK
  <2>3. LocalsOK' /\ RowsOK' /\ FlowOwnership' /\ GrantOwnership'
    BY <1>1, LocalsOKStep, RowsOKStep, FlowOwnershipStep, GrantOwnershipStep
  <2> QED
    BY <2>2, <2>3 DEF LoginInv
<1> QED
  BY <1>1, EnvironmentStep DEF Next

-----------------------------------------------------------------------------
(***************************************************************************)
(* The theorems.                                                           *)
(***************************************************************************)
\* TypeOK and LoginInv are inductive together: a step of a handler relies on
\* the locals and rows its earlier transactions left, so neither is inductive
\* without the other.
THEOREM LoginInvariant == Spec => [](TypeOK /\ LoginInv)
<1>1. Init => TypeOK /\ LoginInv
  BY InitInv
<1>2. TypeOK /\ LoginInv /\ [Next]_vars => TypeOK' /\ LoginInv'
  BY InvStep
<1> QED
  BY <1>1, <1>2, PTL DEF Spec

\* The identity tables, the handlers' locals and the history keep their types
\* in every behaviour of the service.
THEOREM TypeCorrect == Spec => []TypeOK
  BY LoginInvariant, PTL

\* exchange_login_grant sends the token of a session to a client at most once,
\* for any number of concurrent requests, retries and aborts: the code's row is
\* deleted by the exchange that sends it.
THEOREM DisclosureTheorem == Spec => []TokenDisclosedOnce
<1>1. Init => TokenDisclosedOnce
  BY InitInv
<1>2. ASSUME TypeOK, LoginInv, TokenDisclosedOnce, [Next]_vars
      PROVE  TokenDisclosedOnce'
  <2>1. CASE \E r \in ReqId : SendToken(r)
    <3>1. PICK r \in ReqId : SendToken(r)
      BY <2>1
    <3>2. reqs[r].session \in SessionId /\ disclosed[reqs[r].session] = 0
      BY <1>2, <3>1 DEF SendToken, At, LoginInv, LocalsOK, LocalOK,
                        GrantOwnership, ExchangePcs
    <3>3. /\ disclosed'[reqs[r].session] = 1
          /\ \A s \in SessionId \ {reqs[r].session} : disclosed'[s] = disclosed[s]
      BY <1>2, <3>1, <3>2 DEF SendToken, TypeOK, HistoryOK
    <3> QED
      BY <1>2, <3>3 DEF TokenDisclosedOnce
  <2>2. CASE UNCHANGED disclosed
    BY <1>2, <2>2 DEF TokenDisclosedOnce
  <2>3. ASSUME NEW r \in ReqId, Arrive(r) \/ Handle(r) \/ Abort(r),
               ~SendToken(r)
        PROVE  UNCHANGED disclosed
    BY <2>3
       DEF Arrive, Handle, StartLogin, Callback, ExchangeGrant, Request,
           Connect, AuthorizationUrl, ConsumeFlow, OidcExchange,
           SelectIdentity, InsertUser, UpdateUser, RegisterDevice,
           CreateSession, ResolveSession, PutLoginGrant, ConsumeLoginGrant,
           AuthenticateGrant, Authenticate, Logout, LogoutCommit,
           RevokeDevice, FindSessions, RevokeSession, RevokeCommit,
           ReadPermissions, PutTicket, ConsumeTicket, Accept, Abort, history
  <2>4. CASE Operate \/ Tick \/ UNCHANGED vars
    BY <1>2, <2>2, <2>4, EnvironmentStep
  <2> QED
    BY <1>2, <2>1, <2>2, <2>3, <2>4 DEF Next
<1> QED
  BY <1>1, <1>2, LoginInvariant, PTL DEF Spec

\* complete_login makes at most one session of an OIDC state value, for any
\* number of callbacks delivered, concurrently or again after an abort: the
\* flow's row is deleted by the callback that goes on.
THEOREM OneSessionTheorem == Spec => []OneSessionPerFlow
<1>1. Init => OneSessionPerFlow
  BY InitInv
<1>2. ASSUME TypeOK, LoginInv, OneSessionPerFlow, [Next]_vars
      PROVE  OneSessionPerFlow'
  <2>1. ASSUME NEW r \in ReqId, CreateSession(r)
        PROVE  OneSessionPerFlow'
    <3>1. TypeInv
      BY <1>2 DEF TypeInv, LoginInv
    <3>2. PICK s \in SessionId :
            /\ reqs[r].pc = "createSession"
            /\ sessions'[s].flow = reqs[r].flow
            /\ \A z \in SessionId \ {s} : sessions'[z] = sessions[z]
      BY <2>1, <3>1, CreateSessionEffect DEF At
    <3>3. \A z \in SessionId : Exists(z) => sessions[z].flow # reqs[r].flow
      BY <1>2, <3>2 DEF LoginInv, FlowOwnership, BeforeSession, LoginPcs,
                        SessionPcs
    <3> QED
      BY <1>2, <3>2, <3>3 DEF OneSessionPerFlow, Exists
  <2>2. ASSUME NEW r \in ReqId, Arrive(r) \/ Handle(r) \/ Abort(r),
               ~CreateSession(r)
        PROVE  OneSessionPerFlow'
    <3>1. Kept
      BY <1>2, <2>2, KeptStep
    <3>2. \A s \in SessionId : Exists(s)' => Exists(s)
      BY <1>2, <2>2, SessionsAdded
    <3> QED
      BY <1>2, <3>1, <3>2 DEF OneSessionPerFlow, Kept, Exists
  <2>3. CASE Operate \/ Tick \/ UNCHANGED vars
    <3>1. UNCHANGED sessions
      BY <1>2, <2>3, EnvironmentStep
    <3> QED
      BY <1>2, <3>1 DEF OneSessionPerFlow
  <2> QED
    BY <1>2, <2>1, <2>2, <2>3 DEF Next
<1> QED
  BY <1>1, <1>2, LoginInvariant, PTL DEF Spec

-----------------------------------------------------------------------------
(***************************************************************************)
(* The identity a login proves, and the window it must keep.               *)
(***************************************************************************)
\* What complete_login knows of its flow and of the person who logs in: the
\* identity it found or made is there, the device row is that of the flow's key,
\* and its now was taken before the flow expired.
LoginClaims(r) ==
    /\ reqs[r].pc \in {"updateUser", "registerDevice", "createSession"} =>
          <<reqs[r].subject, reqs[r].user>> \in identities
    /\ At(r, "createSession") =>
          reqs[r].device = <<reqs[r].user, flows[reqs[r].flow].key>>
    /\ reqs[r].pc \in LoginPcs => reqs[r].now < flows[reqs[r].flow].expires

IdentityInv ==
    /\ TypeOK /\ LoginInv
    /\ \A r \in ReqId : LoginClaims(r)
    /\ SessionIdentity /\ IdentityIntegrity /\ LoginWindow

\* In the empty database there is nothing to confuse.
LEMMA IdentityInit == Init => IdentityInv
<1>. SUFFICES ASSUME Init PROVE IdentityInv
  OBVIOUS
<1>1. TypeOK /\ LoginInv
  BY InitInv
<1>2. \A r \in ReqId : reqs[r].pc = "idle"
  BY DEF Init, Idle
<1>3. \A r \in ReqId : LoginClaims(r)
  BY <1>2 DEF LoginClaims, At, LoginPcs
<1>4. /\ \A s \in SessionId : sessions[s].status = "none"
                              /\ grants[s].status = "none"
      /\ \A u \in UserId : users[u].status = "none"
      /\ identities = {}
  BY DEF Init
<1>5. SessionIdentity /\ IdentityIntegrity /\ LoginWindow
  BY <1>4 DEF SessionIdentity, IdentityIntegrity, LoginWindow
<1>. QED BY <1>1, <1>3, <1>5 DEF IdentityInv

\* Each step of complete_login hands its knowledge on to the next.
LEMMA LoginClaimsStep ==
    ASSUME IdentityInv, NEW r \in ReqId, Arrive(r) \/ Handle(r) \/ Abort(r)
    PROVE  LoginClaims(r)'
<1>. USE DEF IdentityInv
<1>1. TypeInv /\ Kept
  BY KeptStep DEF LoginInv, TypeInv
<1>2. LocalOK(r) /\ LoginClaims(r) /\ reqs[r] \in RequestType
  BY DEF LoginInv, LocalsOK, TypeOK
<1>. DEFINE f == reqs[r].flow
<1>3. reqs[r].pc \in LoginPcs \cup {"callback"} =>
         /\ f \in FlowId
         /\ flows'[f].key = flows[f].key
         /\ flows'[f].expires = flows[f].expires
  BY <1>1, <1>2 DEF LocalOK, Kept
<1>4. CASE reqs'[r].pc \notin LoginPcs
  BY <1>4 DEF LoginClaims, At, LoginPcs
<1>5. CASE ConsumeFlow(r) /\ reqs'[r] # Idle
  <2>1. /\ At(r, "callback") /\ Moves(r, "exchangeCode")
        /\ reqs'[r].now = clock
    BY <1>1, <1>5, ConsumeFlowEffect
  <2>2. flows[f].expires > clock
    BY <1>1, <1>5, BecomesFrame DEF ConsumeFlow, Answered, TypeInv
  <2>3. clock \in Nat /\ flows[f].expires \in Nat
    BY <1>3, <2>1 DEF TypeOK, TablesOK, FlowRow, At
  <2>. QED BY <1>3, <2>1, <2>2, <2>3 DEF LoginClaims, At, Moves, Turns
<1>6. CASE /\ OidcExchange(r) \/ SelectIdentity(r) \/ ResolveSession(r)
           /\ reqs'[r] # Idle
  <2>1. /\ reqs[r].pc \in LoginPcs
        /\ reqs'[r].flow = f /\ reqs'[r].now = reqs[r].now
        /\ reqs'[r].pc \in {"selectIdentity", "insertUser", "updateUser",
                            "putGrant"}
        /\ reqs'[r].pc = "updateUser" =>
              <<reqs'[r].subject, reqs'[r].user>> \in identities
    BY <1>1, <1>6, OidcExchangeEffect, SelectIdentityEffect,
       ResolveSessionEffect
    DEF Moves, Turns, At, LoginPcs
  <2>. QED BY <1>1, <1>2, <1>3, <2>1 DEF LoginClaims, At, Kept
<1>7. CASE /\ InsertUser(r) \/ UpdateUser(r)
           /\ reqs'[r] # Idle
  <2>1. /\ At(r, "insertUser") \/ At(r, "updateUser")
        /\ Moves(r, "registerDevice") /\ reqs'[r].now = reqs[r].now
        /\ reqs'[r].subject = reqs[r].subject
        /\ At(r, "updateUser") => reqs'[r].user = reqs[r].user
        /\ ~At(r, "updateUser") =>
              <<reqs[r].subject, reqs'[r].user>> \in identities'
    BY <1>1, <1>7, InsertUserEffect, UpdateUserEffect DEF At
  <2>. QED BY <1>1, <1>2, <1>3, <2>1 DEF LoginClaims, At, Moves, Turns, LoginPcs, Kept
<1>8. CASE RegisterDevice(r)
  <2>1. /\ At(r, "registerDevice")
        /\ Moves(r, "createSession") /\ reqs'[r].now = reqs[r].now
        /\ reqs'[r].subject = reqs[r].subject /\ reqs'[r].user = reqs[r].user
        /\ reqs'[r].device = <<reqs[r].user, flows[f].key>>
    BY <1>1, <1>8, RegisterDeviceEffect DEF LoginDevice
  <2>. QED BY <1>1, <1>2, <1>3, <2>1 DEF LoginClaims, At, Moves, Turns, LoginPcs, Kept
<1>9. CASE CreateSession(r)
  <2>1. /\ At(r, "createSession")
        /\ Moves(r, "resolveSession") /\ reqs'[r].now = reqs[r].now
    BY <1>1, <1>9, CreateSessionEffect
  <2>. QED BY <1>2, <1>3, <2>1 DEF LoginClaims, At, Moves, Turns, LoginPcs
<1>10. CASE reqs'[r] = Idle
  BY <1>4, <1>10 DEF Idle, LoginPcs
<1>11. CASE Arrive(r)
  BY <1>1, <1>4, <1>11, ArrivalEffect DEF LoginPcs
<1>12. CASE Authenticate(r)
  <2>1. reqs[r].op \in {"logout", "revokeDevice", "readPermissions"}
    BY <1>2, <1>12 DEF LocalOK, Authenticate, At
  <2>2. reqs'[r] = Idle \/ reqs'[r].pc = reqs[r].op
    BY <1>1, <1>12, AuthenticateEffect DEF Moves, Turns
  <2>. QED BY <1>4, <1>10, <2>1, <2>2 DEF LoginPcs
<1>13. CASE ConsumeLoginGrant(r) \/ AuthenticateGrant(r) \/ ReadPermissions(r)
            \/ ConsumeTicket(r)
  <2>1. \/ reqs'[r] = Idle
        \/ reqs'[r].pc \in {"openGrant", "sendToken", "putTicket", "accept"}
    BY <1>1, <1>13, ConsumeLoginGrantEffect, AuthenticateGrantEffect,
       ReadPermissionsEffect, ConsumeTicketEffect
    DEF Moves, Turns
  <2>. QED BY <1>4, <1>10, <2>1 DEF LoginPcs
<1>14. CASE \/ Logout(r) \/ RevokeDevice(r) \/ FindSessions(r)
            \/ \E s \in SessionId : RevokeSession(r, s)
  <2>1. reqs'[r] = Idle \/ reqs'[r].pc \in ActingPcs
    BY <1>1, <1>14, LogoutEffect, RevokeDeviceEffect, FindSessionsEffect,
       RevokeSessionEffect
    DEF Moves, Turns, ActingPcs
  <2>. QED BY <1>4, <1>10, <2>1 DEF LoginPcs, ActingPcs
<1>. QED
  BY <1>1, <1>5, <1>6, <1>7, <1>8, <1>9, <1>10, <1>11, <1>12, <1>13, <1>14,
     AnsweringEffect
  DEF Handle

\* Only provision_identity writes users and identities.
LEMMA IdentitiesKept ==
    ASSUME NEW r \in ReqId, Arrive(r) \/ Handle(r) \/ Abort(r),
           ~InsertUser(r), ~UpdateUser(r)
    PROVE  UNCHANGED <<users, identities>>
BY DEF Arrive, Handle, StartLogin, Callback, ExchangeGrant, Request, Connect,
       AuthorizationUrl, ConsumeFlow, OidcExchange, SelectIdentity,
       RegisterDevice, CreateSession, ResolveSession, PutLoginGrant,
       ConsumeLoginGrant, AuthenticateGrant, SendToken, Authenticate, Logout,
       LogoutCommit, RevokeDevice, FindSessions, RevokeSession, RevokeCommit,
       ReadPermissions, PutTicket, ConsumeTicket, Accept, Abort, tables

\* The unique constraints keep subjects, users and addresses one to one when
\* the INSERT or UPDATE comes long after the SELECT.
LEMMA IdentityIntegrityStep ==
    ASSUME IdentityInv, NEW r \in ReqId, Arrive(r) \/ Handle(r) \/ Abort(r)
    PROVE  IdentityIntegrity'
<1>. USE DEF IdentityInv
<1>1. users \in [UserId -> UserRow] /\ identities \subseteq Subject \X UserId
  BY DEF TypeOK, TablesOK
<1>2. LocalOK(r)
  BY DEF LoginInv, LocalsOK
<1>3. CASE UNCHANGED <<users, identities>>
  BY <1>3 DEF IdentityIntegrity
<1>4. CASE InsertUser(r) /\ ~UNCHANGED <<users, identities>>
  <2>. DEFINE x == reqs[r].subject
              e == reqs[r].email
  <2>1. PICK u \in UserId :
           /\ users[u].status = "none"
           /\ ~EmailTaken(e, u) /\ ~SubjectTaken(x)
           /\ users' = [users EXCEPT ![u] = [status |-> "active", email |-> e]]
           /\ identities' = identities \cup {<<x, u>>}
    BY <1>4 DEF InsertUser
  <2>2. /\ users'[u].status = "active" /\ users'[u].email = e
        /\ \A v \in UserId \ {u} : users'[v] = users[v]
    BY <1>1, <2>1
  <2>3. x \in Subject
    BY <1>2, <1>4 DEF LocalOK, InsertUser, At
  <2>4. /\ \A y \in Subject : <<y, u>> \notin identities
        /\ \A v \in UserId : <<x, v>> \notin identities
        /\ \A v \in UserId \ {u} : users[v].status # "none" => users[v].email # e
    BY <2>1 DEF IdentityIntegrity, SubjectTaken, EmailTaken
  <2>5. \A i, j \in identities' : i[1] = j[1] <=> i[2] = j[2]
    <3>1. \A i \in identities : i[1] # x /\ i[2] # u
      <4>1. TAKE i \in identities
      <4>2. i[1] \in Subject /\ i[2] \in UserId /\ i = <<i[1], i[2]>>
        BY <1>1
      <4>. QED BY <2>4, <4>2
    <3>. QED BY <2>1, <3>1 DEF IdentityIntegrity
  <2>6. \A v \in UserId : users'[v].status # "none" <=>
           \E y \in Subject : <<y, v>> \in identities'
    BY <2>1, <2>2, <2>3 DEF IdentityIntegrity
  <2>7. \A v, w \in UserId :
           v # w /\ users'[v].status # "none" /\ users'[w].status # "none"
           => users'[v].email # users'[w].email
    BY <2>2, <2>4 DEF IdentityIntegrity
  <2>. QED BY <2>5, <2>6, <2>7 DEF IdentityIntegrity
<1>5. CASE UpdateUser(r) /\ ~UNCHANGED <<users, identities>>
  <2>. DEFINE u == reqs[r].user
              e == reqs[r].email
  <2>1. /\ UNCHANGED identities /\ ~EmailTaken(e, u)
        /\ users' = [users EXCEPT ![u].email = e]
    BY <1>5 DEF UpdateUser
  <2>2. u \in UserId
    BY <1>2, <1>5 DEF LocalOK, UpdateUser, At
  <2>3. /\ users'[u].status = users[u].status /\ users'[u].email = e
        /\ \A v \in UserId \ {u} : users'[v] = users[v]
    BY <1>1, <2>1, <2>2 DEF UserRow
  <2>4. \A v \in UserId \ {u} : users[v].status # "none" => users[v].email # e
    BY <2>1 DEF EmailTaken
  <2>5. /\ \A i, j \in identities' : i[1] = j[1] <=> i[2] = j[2]
        /\ \A v \in UserId : users'[v].status = users[v].status
    BY <2>1, <2>3 DEF IdentityIntegrity
  <2>6. \A v, w \in UserId :
           v # w /\ users'[v].status # "none" /\ users'[w].status # "none"
           => users'[v].email # users'[w].email
    BY <2>2, <2>3, <2>4 DEF IdentityIntegrity
  <2>. QED BY <2>1, <2>5, <2>6 DEF IdentityIntegrity
<1>. QED BY <1>3, <1>4, <1>5, IdentitiesKept

\* Only a login's last two steps write a session or a code; they write what the
\* login knows.
LEMMA SessionIdentityStep ==
    ASSUME IdentityInv, NEW r \in ReqId, Arrive(r) \/ Handle(r) \/ Abort(r)
    PROVE  SessionIdentity' /\ LoginWindow'
<1>. USE DEF IdentityInv
<1>1. TypeInv /\ Kept
  BY KeptStep DEF LoginInv, TypeInv
<1>2. LocalOK(r) /\ LoginClaims(r) /\ reqs[r] \in RequestType
  BY DEF LoginInv, LocalsOK, TypeOK
<1>3. /\ \A s \in SessionId : sessions[s] \in SessionRow /\ grants[s] \in GrantRow
      /\ \A f \in FlowId : flows[f] \in FlowRow
      /\ SessionTtl \in Nat /\ GrantTtl \in Nat
  BY TtlAssumption DEF TypeOK, TablesOK
<1>4. \A s \in SessionId : Exists(s) =>
         /\ sessions[s].flow \in FlowId
         /\ flows[sessions[s].flow].key \in DeviceKey
  BY DEF LoginInv, RowsOK, FlowOwnership
<1>5. \A s \in SessionId : Exists(s) =>
         /\ <<sessions'[s].subject, sessions'[s].user>> \in identities'
         /\ sessions'[s].device =
               <<sessions'[s].user, flows'[sessions'[s].flow].key>>
         /\ sessions'[s].expires <
               flows'[sessions'[s].flow].expires + SessionTtl
         /\ flows'[sessions'[s].flow].expires = flows[sessions[s].flow].expires
  BY <1>1, <1>4 DEF Kept, SessionIdentity, LoginWindow, Exists
<1>6. \A s \in SessionId : sessions'[s].status # "none" =>
         /\ <<sessions'[s].subject, sessions'[s].user>> \in identities'
         /\ sessions'[s].device =
               <<sessions'[s].user, flows'[sessions'[s].flow].key>>
         /\ sessions'[s].expires <
               flows'[sessions'[s].flow].expires + SessionTtl
  <2>1. CASE CreateSession(r)
    <3>1. PICK s \in SessionId :
             /\ At(r, "createSession")
             /\ sessions'[s].user = reqs[r].user
             /\ sessions'[s].device = reqs[r].device
             /\ sessions'[s].expires = reqs[r].now + SessionTtl
             /\ sessions'[s].flow = reqs[r].flow
             /\ sessions'[s].subject = reqs[r].subject
             /\ \A z \in SessionId \ {s} : sessions'[z] = sessions[z]
      BY <1>1, <2>1, CreateSessionEffect
    <3>2. /\ reqs[r].flow \in FlowId
          /\ flows'[reqs[r].flow] = flows[reqs[r].flow]
          /\ identities' = identities
          /\ reqs[r].now \in Nat /\ flows[reqs[r].flow].expires \in Nat
          /\ reqs[r].now < flows[reqs[r].flow].expires
      BY <1>2, <1>3, <2>1, <3>1
      DEF LocalOK, LoginClaims, At, LoginPcs, CreateSession, RequestType, FlowRow
    <3>3. /\ <<reqs[r].subject, reqs[r].user>> \in identities
          /\ reqs[r].device = <<reqs[r].user, flows[reqs[r].flow].key>>
      BY <1>2, <3>1 DEF LoginClaims, At
    <3>. QED BY <1>3, <1>5, <3>1, <3>2, <3>3 DEF Exists
  <2>2. CASE ~CreateSession(r)
    BY <1>5, <2>2, SessionsAdded DEF Exists
  <2>. QED BY <2>1, <2>2
<1>7. SessionIdentity'
  BY <1>6 DEF SessionIdentity
<1>8. \A s \in SessionId : grants'[s].status # "none" =>
         grants'[s].expires < flows'[sessions'[s].flow].expires + GrantTtl
  <2>1. \A s \in SessionId : grants[s].status # "none" => Exists(s)
    BY DEF LoginInv, RowsOK
  <2>2. CASE PutLoginGrant(r)
    <3>. DEFINE s == reqs[r].session
    <3>1. /\ At(r, "putGrant") /\ UNCHANGED <<flows, sessions>>
          /\ grants' = [grants EXCEPT ![s] =
                            [status |-> "live", expires |-> GrantExpiry(r)]]
      BY <2>2 DEF PutLoginGrant
    <3>2. /\ s \in SessionId /\ sessions[s].flow = reqs[r].flow
          /\ reqs[r].flow \in FlowId
          /\ reqs[r].now < flows[reqs[r].flow].expires
      BY <1>2, <3>1
      DEF LocalOK, LoginClaims, At, LoginPcs, SessionPcs, LoginInv,
          FlowOwnership
    <3>3. /\ grants'[s].expires = reqs[r].now + GrantTtl
          /\ \A z \in SessionId \ {s} : grants'[z] = grants[z]
      BY <3>1, <3>2 DEF GrantExpiry, TypeOK, TablesOK
    <3>4. reqs[r].now \in Nat /\ flows[reqs[r].flow].expires \in Nat
      BY <1>2, <1>3, <3>2 DEF RequestType, FlowRow
    <3>. QED BY <1>3, <3>1, <3>2, <3>3, <3>4 DEF LoginWindow
  <2>3. CASE ConsumeLoginGrant(r)
    <3>1. /\ UNCHANGED <<flows, sessions>>
          /\ \A s \in SessionId : /\ grants'[s].expires = grants[s].expires
                                  /\ grants'[s].status # "none" =>
                                        grants[s].status # "none"
      <4>1. CASE UNCHANGED grants
        BY <2>3, <4>1 DEF ConsumeLoginGrant
      <4>2. CASE /\ grants[reqs[r].session].status = "live"
                 /\ grants' = [grants EXCEPT ![reqs[r].session] =
                                   GrantAfterConsume(reqs[r].session)]
        BY <1>3, <2>3, <4>2
        DEF ConsumeLoginGrant, GrantAfterConsume, TypeOK, TablesOK, GrantRow
      <4>. QED BY <2>3, <4>1, <4>2 DEF ConsumeLoginGrant
    <3>. QED BY <3>1 DEF LoginWindow
  <2>4. CASE ~PutLoginGrant(r) /\ ~ConsumeLoginGrant(r)
    <3>1. UNCHANGED grants
      BY <2>4
      DEF Arrive, Handle, StartLogin, Callback, ExchangeGrant, Request, Connect,
          AuthorizationUrl, ConsumeFlow, OidcExchange, SelectIdentity,
          InsertUser, UpdateUser, RegisterDevice, CreateSession,
          ResolveSession, AuthenticateGrant, SendToken, Authenticate, Logout,
          LogoutCommit, RevokeDevice, FindSessions, RevokeSession,
          RevokeCommit, ReadPermissions, PutTicket, ConsumeTicket, Accept,
          Abort, tables
    <3>. QED BY <1>1, <1>5, <2>1, <3>1 DEF LoginWindow, Kept
  <2>. QED BY <2>2, <2>3, <2>4
<1>. QED BY <1>6, <1>7, <1>8 DEF LoginWindow

\* Every step keeps the invariant.
LEMMA IdentityNext == IdentityInv /\ [Next]_vars => IdentityInv'
<1>. SUFFICES ASSUME IdentityInv, [Next]_vars PROVE IdentityInv'
  OBVIOUS
<1>. USE DEF IdentityInv
<1>1. TypeOK' /\ LoginInv'
  BY InvStep
<1>2. ASSUME NEW r \in ReqId, Arrive(r) \/ Handle(r) \/ Abort(r)
      PROVE  IdentityInv'
  <2>1. TypeInv /\ Kept
    BY <1>2, KeptStep DEF LoginInv, TypeInv
  <2>2. ASSUME NEW p \in ReqId \ {r} PROVE LoginClaims(p)'
    <3>1. reqs'[p] = reqs[p] /\ LocalOK(p) /\ LoginClaims(p)
      BY <1>2, <2>1, OneRequestMoves DEF LoginInv, LocalsOK
    <3>2. reqs[p].pc \in LoginPcs =>
             /\ flows'[reqs[p].flow].key = flows[reqs[p].flow].key
             /\ flows'[reqs[p].flow].expires = flows[reqs[p].flow].expires
      BY <2>1, <3>1 DEF LocalOK, Kept
    <3>. QED BY <2>1, <3>1, <3>2 DEF LoginClaims, At, LoginPcs, Kept
  <2>. QED
    BY <1>1, <1>2, <2>2, LoginClaimsStep, IdentityIntegrityStep,
       SessionIdentityStep
<1>3. CASE Operate \/ Tick \/ UNCHANGED vars
  <2>1. UNCHANGED <<flows, identities, sessions, grants, reqs>>
    BY <1>3 DEF Operate, SetStatus, SetRoles, Tick, vars, tables
  <2>2. \A u \in UserId : /\ users'[u].email = users[u].email
                          /\ users'[u].status # "none" <=>
                                users[u].status # "none"
    <3>1. CASE UNCHANGED users
      BY <3>1
    <3>2. CASE \E u \in UserId : SetStatus(u)
      <4>1. PICK u \in UserId : SetStatus(u)
        BY <3>2
      <4>2. users \in [UserId -> UserRow]
        BY DEF TypeOK, TablesOK
      <4>. QED BY <4>1, <4>2 DEF SetStatus, UserRow
    <3>. QED BY <1>3, <3>1, <3>2 DEF Operate, SetRoles, Tick, vars, tables
  <2>3. IdentityIntegrity'
    BY <2>1, <2>2 DEF IdentityIntegrity
  <2>4. /\ SessionIdentity' /\ LoginWindow'
        /\ \A r \in ReqId : LoginClaims(r)'
    BY <2>1 DEF SessionIdentity, LoginWindow, LoginClaims, At
  <2>. QED BY <1>1, <2>3, <2>4
<1>. QED BY <1>2, <1>3 DEF Next

\* The invariant of the login: what it knows of the person and of its time.
THEOREM IdentityInvariant == Spec => []IdentityInv
<1>. QED BY IdentityInit, IdentityNext, PTL DEF Spec

\* complete_login makes a session for the user bound to the subject that the
\* provider vouched for, on the device whose key started the login.
THEOREM IdentityTheorem == Spec => []SessionIdentity
<1>1. IdentityInv => SessionIdentity
  BY DEF IdentityInv
<1>. QED BY <1>1, IdentityInvariant, PTL

\* provision_identity keeps subjects, users and e-mail addresses one to one,
\* however its SELECTs, INSERTs and UPDATEs interleave.
THEOREM IntegrityTheorem == Spec => []IdentityIntegrity
<1>1. IdentityInv => IdentityIntegrity
  BY DEF IdentityInv
<1>. QED BY <1>1, IdentityInvariant, PTL

\* The now of complete_login dates the session and its code, and was taken
\* before the flow expired: no delay extends the window.
THEOREM WindowTheorem == Spec => []LoginWindow
<1>1. IdentityInv => LoginWindow
  BY DEF IdentityInv
<1>. QED BY <1>1, IdentityInvariant, PTL

-----------------------------------------------------------------------------
(***************************************************************************)
(* Logout and the revocation of devices.                                   *)
(***************************************************************************)
\* A device row is that of its user, in the session and before it.
DevicesOfUsers ==
    /\ \A s \in SessionId :
          Exists(s) => sessions[s].device[1] = sessions[s].user
    /\ \A r \in ReqId :
          At(r, "createSession") => reqs[r].device[1] = reqs[r].user

\* A request acts for the user of the session it authenticated.
ActsForOwner ==
    \A r \in ReqId :
        reqs[r].pc \in ActingPcs =>
            reqs[r].user = sessions[reqs[r].session].user

\* What a device revocation knows of its sessions: those it must end are of the
\* device, and from its second UPDATE on each of them is still to be taken, is
\* held or is revoked.
RevocationsKnow ==
    \A r \in ReqId :
        /\ reqs[r].op = "revokeDevice" =>
              \A s \in reqs[r].prior :
                  Exists(s) /\ sessions[s].device = reqs[r].device
        /\ reqs[r].pc \in {"findSessions", "revokeSessions"} =>
              reqs[r].device[1] = reqs[r].user
        /\ At(r, "revokeSessions") =>
              /\ \A s \in reqs[r].hit \cup reqs[r].held :
                    sessions[s].device = reqs[r].device
              /\ \A s \in reqs[r].prior :
                    \/ s \in reqs[r].hit \cup reqs[r].held
                    \/ sessions[s].status = "revoked"

\* Row locks exclude each other: one request holds a session row, and no one
\* else revokes that session; one device revocation holds a device row.
LocksOK ==
    /\ \A r \in ReqId :
          /\ \A s \in reqs[r].held : sessions[s].status = "open"
          /\ reqs[r].hit # {} => At(r, "revokeSessions")
          /\ reqs[r].held # {} => reqs[r].pc \in {"logoutCommit", "revokeSessions"}
          /\ reqs[r].hit \cap reqs[r].held = {}
          /\ At(r, "logoutCommit") =>
                /\ reqs[r].held \subseteq {reqs[r].session}
                /\ \/ reqs[r].session \in reqs[r].held
                   \/ sessions[reqs[r].session].status = "revoked"
    /\ \A r, q \in ReqId :
          r # q => /\ reqs[r].held \cap reqs[q].held = {}
                   /\ \A d \in Devices : ~(HoldsDevice(r, d) /\ HoldsDevice(q, d))

RevocationInv == DevicesOfUsers /\ ActsForOwner /\ RevocationsKnow /\ LocksOK

IInv == TypeOK /\ LoginInv /\ RevocationInv /\ EndedStayEnded /\ EventLedger

-----------------------------------------------------------------------------
\* Initially no session exists and nothing was promised.
LEMMA RevocationInit == Init => IInv
<1>. SUFFICES ASSUME Init PROVE IInv
  OBVIOUS
<1>1. TypeOK /\ LoginInv
  BY InitInv
<1>2. \A r \in ReqId : /\ reqs[r].pc = "idle" /\ reqs[r].op = "idle"
                       /\ reqs[r].hit = {} /\ reqs[r].held = {}
  BY DEF Init, Idle
<1>3. \A s \in SessionId : sessions[s].status = "none" /\ events[s] = << >>
  BY DEF Init
<1>4. RevocationInv
  BY <1>2, <1>3 DEF RevocationInv, DevicesOfUsers, ActsForOwner,
                    RevocationsKnow, LocksOK, HoldsDevice, Exists, At, ActingPcs
<1>5. EndedStayEnded /\ EventLedger
  BY <1>3 DEF Init, EndedStayEnded, EventLedger
<1>. QED BY <1>1, <1>4, <1>5 DEF IInv

\* What the invariant needs of the record of a request after its step.
RecordOK(r) ==
    /\ reqs'[r].pc = "createSession" => reqs'[r].device[1] = reqs'[r].user
    /\ reqs'[r].pc \in ActingPcs =>
          /\ reqs'[r].session \in SessionId /\ Exists(reqs'[r].session)
          /\ reqs'[r].user = sessions[reqs'[r].session].user
    /\ reqs'[r].op = "revokeDevice" =>
          \A s \in reqs'[r].prior :
              Exists(s) /\ sessions[s].device = reqs'[r].device
    /\ reqs'[r].pc \in {"findSessions", "revokeSessions"} =>
          reqs'[r].device[1] = reqs'[r].user
    /\ reqs'[r].pc = "revokeSessions" =>
          /\ \A s \in reqs'[r].hit \cup reqs'[r].held :
                Exists(s) /\ sessions[s].device = reqs'[r].device
          /\ \A s \in reqs'[r].prior :
                \/ s \in reqs'[r].hit \cup reqs'[r].held
                \/ sessions[s].status = "revoked"

\* A step of a request leaves its own record in order.
LEMMA RecordStep ==
    ASSUME IInv, NEW r \in ReqId, Arrive(r) \/ Handle(r) \/ Abort(r)
    PROVE  RecordOK(r)
<1>. USE DEF IInv
<1>1. TypeInv
  BY DEF LoginInv, TypeInv
<1>2. LocalOK(r) /\ LocalOK(r)'
  BY LocalsOKStep DEF LoginInv, LocalsOK
<1>3. reqs[r] \in RequestType /\ reqs[r].prior \subseteq SessionId
  BY DEF TypeOK, RequestType
<1>4. Idle.pc = "idle" /\ Idle.op = "idle"
  BY DEF Idle
<1>5. CASE reqs'[r] = Idle
  BY <1>4, <1>5 DEF RecordOK, ActingPcs
<1>6. CASE Arrive(r)
  <2>1. reqs'[r].pc \notin ActingPcs \cup {"createSession"}
    BY <1>1, <1>6, ArrivalEffect DEF ActingPcs
  <2>2. reqs'[r].op = "revokeDevice" =>
          reqs'[r].prior = OpenSessionsOf(reqs'[r].device)
    BY <1>1, <1>6, ArrivalEffect
  <2>. QED
    BY <2>1, <2>2
    DEF RecordOK, OpenSessionsOf, OpenSessions, Exists, ActingPcs
<1>7. CASE Authenticate(r) /\ reqs'[r] # Idle
  <2>1. /\ At(r, "authenticate") /\ Moves(r, reqs[r].op)
        /\ reqs'[r].session = reqs[r].session
        /\ reqs'[r].device = reqs[r].device
        /\ reqs'[r].prior = reqs[r].prior
        /\ reqs'[r].user = sessions[reqs[r].session].user
    BY <1>1, <1>7, AuthenticateEffect
  <2>2. /\ reqs[r].session \in SessionId /\ Exists(reqs[r].session)
        /\ reqs[r].op \in {"logout", "revokeDevice", "readPermissions"}
    BY <1>2, <2>1 DEF LocalOK, At
  <2>. QED
    BY <2>1, <2>2 DEF RecordOK, Moves, Turns, RevocationInv, RevocationsKnow
<1>. DEFINE Own == /\ reqs[r].session \in SessionId /\ Exists(reqs[r].session)
                   /\ reqs[r].user = sessions[reqs[r].session].user
<1>a. reqs[r].pc \in ActingPcs => Own
  BY <1>2 DEF LocalOK, RevocationInv, ActsForOwner
<1>b. reqs[r].pc \in RevokingPcs =>
        /\ reqs[r].op = "revokeDevice"
        /\ \A s \in reqs[r].prior :
              Exists(s) /\ sessions[s].device = reqs[r].device
  BY <1>2 DEF LocalOK, RevocationInv, RevocationsKnow
<1>c. \A s \in SessionId : sessions[s].status \in {"none", "open", "revoked"}
  BY DEF TypeOK, TablesOK, SessionRow
<1>8. CASE RevokeDevice(r) /\ reqs'[r] # Idle
  <2>1. /\ At(r, "revokeDevice") /\ Moves(r, "findSessions")
        /\ OwnLiveDevice(r)
        /\ reqs'[r].session = reqs[r].session
        /\ reqs'[r].user = reqs[r].user
        /\ reqs'[r].device = reqs[r].device
        /\ reqs'[r].prior = reqs[r].prior
    BY <1>1, <1>8, RevokeDeviceEffect
  <2>2. reqs[r].pc \in ActingPcs /\ reqs[r].pc \in RevokingPcs
    BY <2>1 DEF At, ActingPcs, RevokingPcs
  <2>. QED
    BY <1>a, <1>b, <2>1, <2>2 DEF RecordOK, Moves, Turns, OwnLiveDevice
<1>13. CASE FindSessions(r)
  <2>1. /\ At(r, "findSessions") /\ Turns(r, "revokeSessions")
        /\ reqs'[r].session = reqs[r].session
        /\ reqs'[r].user = reqs[r].user
        /\ reqs'[r].device = reqs[r].device
        /\ reqs'[r].prior = reqs[r].prior
        /\ reqs'[r].hit = OpenSessionsOf(reqs[r].device)
        /\ reqs'[r].held = reqs[r].held
    BY <1>1, <1>13, FindSessionsEffect DEF SessionsToRevoke
  <2>2. reqs[r].pc \in ActingPcs /\ reqs[r].pc \in RevokingPcs
    BY <2>1 DEF At, ActingPcs, RevokingPcs
  <2>3. reqs[r].device[1] = reqs[r].user /\ reqs[r].held = {}
    BY <2>1 DEF RevocationInv, RevocationsKnow, LocksOK, At
  <2>4. \A s \in reqs[r].prior : \/ s \in OpenSessionsOf(reqs[r].device)
                                 \/ sessions[s].status = "revoked"
    BY <1>3, <1>b, <1>c, <2>2 DEF OpenSessionsOf, OpenSessions, Exists
  <2>5. \A s \in OpenSessionsOf(reqs[r].device) :
           Exists(s) /\ sessions[s].device = reqs[r].device
    BY DEF OpenSessionsOf, OpenSessions, Exists
  <2>. QED
    BY <1>a, <1>b, <2>1, <2>2, <2>3, <2>4, <2>5 DEF RecordOK, Turns
<1>14. CASE \E s \in SessionId : RevokeSession(r, s)
  <2>1. PICK s \in SessionId : RevokeSession(r, s)
    BY <1>14
  <2>2. /\ At(r, "revokeSessions") /\ Turns(r, "revokeSessions")
        /\ s \in reqs[r].hit
        /\ reqs'[r].session = reqs[r].session
        /\ reqs'[r].user = reqs[r].user
        /\ reqs'[r].device = reqs[r].device
        /\ reqs'[r].prior = reqs[r].prior
        /\ reqs'[r].hit = reqs[r].hit \ {s}
        /\ reqs'[r].held = reqs[r].held \cup ({s} \cap OpenSessions)
    BY <1>1, <2>1, RevokeSessionEffect
  <2>3. reqs[r].pc \in ActingPcs /\ reqs[r].pc \in RevokingPcs
    BY <2>2 DEF At, ActingPcs, RevokingPcs
  <2>4. /\ reqs[r].device[1] = reqs[r].user
        /\ \A z \in reqs[r].hit \cup reqs[r].held :
              Exists(z) /\ sessions[z].device = reqs[r].device
        /\ \A z \in reqs[r].prior :
              z \in reqs[r].hit \cup reqs[r].held \/ sessions[z].status = "revoked"
    BY <1>2, <2>2 DEF RevocationInv, RevocationsKnow, LocalOK, At
  <2>5. s \in OpenSessions \/ sessions[s].status = "revoked"
    BY <1>c, <2>2, <2>4 DEF OpenSessions, Exists
  <2>. QED
    BY <1>a, <1>b, <2>2, <2>3, <2>4, <2>5 DEF RecordOK, Turns
<1>15. CASE Logout(r)
  <2>1. /\ At(r, "logout") /\ Turns(r, "logoutCommit")
        /\ reqs'[r].session = reqs[r].session /\ reqs'[r].user = reqs[r].user
    BY <1>1, <1>15, LogoutEffect
  <2>2. reqs[r].pc \in ActingPcs /\ reqs[r].op # "revokeDevice"
    BY <1>2, <2>1 DEF LocalOK, At, ActingPcs, RevokingPcs
  <2>. QED BY <1>a, <2>1, <2>2 DEF RecordOK, Turns
<1>9. CASE ReadPermissions(r)
  <2>1. /\ At(r, "readPermissions") /\ Moves(r, "putTicket")
        /\ reqs'[r].session = reqs[r].session /\ reqs'[r].user = reqs[r].user
    BY <1>1, <1>9, ReadPermissionsEffect
  <2>2. reqs[r].pc \in ActingPcs /\ reqs[r].op # "revokeDevice"
    BY <1>2, <2>1 DEF LocalOK, At, ActingPcs, RevokingPcs
  <2>. QED BY <1>a, <2>1, <2>2 DEF RecordOK, Moves, Turns
<1>10. CASE RegisterDevice(r)
  <2>1. /\ Moves(r, "createSession") /\ reqs'[r].user = reqs[r].user
        /\ reqs'[r].device = <<reqs[r].user, flows[reqs[r].flow].key>>
    BY <1>1, <1>10, RegisterDeviceEffect DEF LoginDevice
  <2>2. reqs'[r].op # "revokeDevice"
    BY <1>2, <2>1 DEF LocalOK, Moves, Turns, RevokingPcs
  <2>. QED BY <2>1, <2>2 DEF RecordOK, Moves, Turns, ActingPcs
<1>11. CASE reqs'[r].pc \notin ActingPcs \cup {"createSession", "authenticate"}
  <2>1. reqs'[r].op # "revokeDevice"
    BY <1>2, <1>11 DEF LocalOK, ActingPcs, RevokingPcs
  <2>. QED BY <1>11, <2>1 DEF RecordOK, ActingPcs
<1>12. CASE /\ ConsumeFlow(r) \/ OidcExchange(r) \/ SelectIdentity(r)
               \/ InsertUser(r) \/ UpdateUser(r) \/ CreateSession(r)
               \/ ResolveSession(r) \/ ConsumeLoginGrant(r)
               \/ AuthenticateGrant(r) \/ ConsumeTicket(r)
            /\ reqs'[r] # Idle
  <2>1. reqs'[r].pc \in {"exchangeCode", "selectIdentity", "insertUser",
                         "updateUser", "registerDevice", "resolveSession",
                         "putGrant", "openGrant", "sendToken", "accept"}
    BY <1>1, <1>12, ConsumeFlowEffect, OidcExchangeEffect,
       SelectIdentityEffect, InsertUserEffect, UpdateUserEffect,
       CreateSessionEffect, ResolveSessionEffect, ConsumeLoginGrantEffect,
       AuthenticateGrantEffect, ConsumeTicketEffect
    DEF Moves, Turns
  <2>. QED BY <1>11, <2>1 DEF ActingPcs
<1>. QED
  BY <1>1, <1>5, <1>6, <1>7, <1>8, <1>9, <1>10, <1>12, <1>13, <1>14, <1>15,
     AnsweringEffect
  DEF Handle

\* A request whose step is none of those that deal with locks holds none after.
LEMMA NoLocksAfter ==
    ASSUME IInv, NEW r \in ReqId, Arrive(r) \/ Handle(r) \/ Abort(r),
           ~Logout(r), ~RevokeDevice(r), ~FindSessions(r),
           ~ \E s \in SessionId : RevokeSession(r, s)
    PROVE  /\ reqs'[r].hit = {} /\ reqs'[r].held = {}
           /\ reqs'[r].pc \notin {"logoutCommit", "findSessions", "revokeSessions"}
<1>. USE DEF IInv
<1>1. TypeInv /\ LocalOK(r)
  BY DEF LoginInv, TypeInv, LocalsOK
<1>2. /\ reqs[r].hit # {} => reqs[r].pc = "revokeSessions"
      /\ reqs[r].held # {} => reqs[r].pc \in {"logoutCommit", "revokeSessions"}
  BY DEF RevocationInv, LocksOK, At
<1>3. CASE reqs'[r] = Idle
  BY <1>3 DEF Idle
<1>4. CASE Arrive(r)
  BY <1>1, <1>4, ArrivalEffect
<1>5. CASE Authenticate(r)
  <2>1. reqs[r].op \in {"logout", "revokeDevice", "readPermissions"}
    BY <1>1, <1>5 DEF LocalOK, Authenticate, At
  <2>. QED
    BY <1>1, <1>2, <1>3, <1>5, <2>1, AuthenticateEffect DEF Moves, Turns, At
<1>6. CASE /\ \/ ConsumeFlow(r) \/ OidcExchange(r) \/ SelectIdentity(r)
              \/ InsertUser(r) \/ UpdateUser(r) \/ RegisterDevice(r)
           /\ reqs'[r] # Idle
  <2>1. /\ reqs[r].pc \notin {"logoutCommit", "revokeSessions"}
        /\ reqs'[r].hit = reqs[r].hit /\ reqs'[r].held = reqs[r].held
        /\ reqs'[r].pc \in {"exchangeCode", "selectIdentity", "insertUser",
                           "updateUser", "registerDevice", "createSession"}
    BY <1>1, <1>6, ConsumeFlowEffect, OidcExchangeEffect, SelectIdentityEffect,
       InsertUserEffect, UpdateUserEffect, RegisterDeviceEffect
    DEF At, Moves, Turns
  <2>. QED BY <1>2, <2>1
<1>7. CASE CreateSession(r)
  <2>1. At(r, "createSession") /\ Moves(r, "resolveSession")
    BY <1>1, <1>7, CreateSessionEffect
  <2>. QED BY <1>2, <2>1 DEF At, Moves, Turns
<1>8. CASE /\ \/ ResolveSession(r) \/ ConsumeLoginGrant(r)
              \/ AuthenticateGrant(r) \/ ReadPermissions(r) \/ ConsumeTicket(r)
           /\ reqs'[r] # Idle
  <2>1. /\ reqs[r].pc \notin {"logoutCommit", "revokeSessions"}
        /\ reqs'[r].hit = reqs[r].hit /\ reqs'[r].held = reqs[r].held
        /\ reqs'[r].pc \in {"putGrant", "openGrant", "sendToken", "putTicket",
                           "accept"}
    BY <1>1, <1>8, ResolveSessionEffect, ConsumeLoginGrantEffect,
       AuthenticateGrantEffect, ReadPermissionsEffect, ConsumeTicketEffect
    DEF At, Moves, Turns
  <2>. QED BY <1>2, <2>1
<1>. QED
  BY <1>1, <1>3, <1>4, <1>5, <1>6, <1>7, <1>8, AnsweringEffect DEF Handle

\* Locks keep excluding each other: a row is taken only when no one holds it,
\* and only its holder changes it.
LEMMA LocksStep ==
    ASSUME IInv, NEW r \in ReqId, Arrive(r) \/ Handle(r) \/ Abort(r)
    PROVE  LocksOK'
<1>. USE DEF IInv
<1>1. TypeInv /\ Kept /\ LocksOK
  BY KeptStep DEF LoginInv, TypeInv, RevocationInv
<1>2. \A p \in ReqId \ {r} : reqs'[p] = reqs[p]
  BY <1>1, OneRequestMoves
<1>3. \A p \in ReqId : /\ reqs[p].held \subseteq SessionId
                       /\ reqs[p].hit \subseteq SessionId
  BY DEF TypeOK, RequestType
<1>4. \A p \in ReqId \ {r} : \A s \in reqs[p].held : sessions'[s] = sessions[s]
  <2>1. CASE LogoutCommit(r) \/ RevokeCommit(r)
    <3>1. \A s \in SessionId \ reqs[r].held : sessions'[s] = sessions[s]
      BY <2>1 DEF LogoutCommit, RevokeCommit, AfterRevoking
    <3>2. \A p \in ReqId \ {r} : reqs[p].held \cap reqs[r].held = {}
      BY <1>1 DEF LocksOK
    <3>. QED BY <1>3, <3>1, <3>2
  <2>2. CASE CreateSession(r)
    <3>1. PICK s \in SessionId :
             /\ sessions[s].status = "none"
             /\ \A z \in SessionId \ {s} : sessions'[z] = sessions[z]
      BY <1>1, <2>2, CreateSessionEffect
    <3>2. \A p \in ReqId : s \notin reqs[p].held
      BY <1>1, <3>1 DEF LocksOK
    <3>. QED BY <1>3, <3>1, <3>2
  <2>3. CASE UNCHANGED sessions
    BY <2>3
  <2>. QED
    BY <2>1, <2>2, <2>3
    DEF Arrive, Handle, StartLogin, Callback, ExchangeGrant, Request, Connect,
        AuthorizationUrl, ConsumeFlow, OidcExchange, SelectIdentity,
        InsertUser, UpdateUser, RegisterDevice, ResolveSession, PutLoginGrant,
        ConsumeLoginGrant, AuthenticateGrant, SendToken, Authenticate, Logout,
        RevokeDevice, FindSessions, RevokeSession, ReadPermissions, PutTicket,
        ConsumeTicket, Accept, Abort, tables
<1>5. ASSUME NEW p \in ReqId \ {r}
      PROVE  /\ \A s \in reqs'[p].held : sessions'[s].status = "open"
             /\ reqs'[p].hit # {} => reqs'[p].pc = "revokeSessions"
             /\ reqs'[p].held # {} =>
                   reqs'[p].pc \in {"logoutCommit", "revokeSessions"}
             /\ reqs'[p].hit \cap reqs'[p].held = {}
             /\ reqs'[p].pc = "logoutCommit" =>
                   /\ reqs'[p].held \subseteq {reqs'[p].session}
                   /\ \/ reqs'[p].session \in reqs'[p].held
                      \/ sessions'[reqs'[p].session].status = "revoked"
  <2>1. reqs'[p] = reqs[p]
    BY <1>2
  <2>2. reqs[p].pc = "logoutCommit" => reqs[p].session \in SessionId
    BY DEF LoginInv, LocalsOK, LocalOK, ActingPcs
  <2>. QED BY <1>1, <1>4, <2>1, <2>2 DEF LocksOK, Kept, At
<1>. DEFINE Own ==
        /\ \A s \in reqs'[r].held : sessions'[s].status = "open"
        /\ reqs'[r].hit # {} => reqs'[r].pc = "revokeSessions"
        /\ reqs'[r].held # {} => reqs'[r].pc \in {"logoutCommit", "revokeSessions"}
        /\ reqs'[r].hit \cap reqs'[r].held = {}
        /\ reqs'[r].pc = "logoutCommit" =>
              /\ reqs'[r].held \subseteq {reqs'[r].session}
              /\ \/ reqs'[r].session \in reqs'[r].held
                 \/ sessions'[reqs'[r].session].status = "revoked"
     Apart ==
        \A p \in ReqId \ {r} :
           /\ reqs[p].held \cap reqs'[r].held = {}
           /\ reqs'[r].pc \in {"findSessions", "revokeSessions"}
              => ~HoldsDevice(p, reqs'[r].device)
<1>6. Own /\ Apart
  <2>1. CASE Logout(r)
    <3>1. /\ At(r, "logout") /\ ~SessionLocked(reqs[r].session)
          /\ Turns(r, "logoutCommit")
          /\ reqs'[r].session = reqs[r].session
          /\ reqs'[r].hit = reqs[r].hit
          /\ reqs'[r].held = {reqs[r].session} \cap OpenSessions
          /\ UNCHANGED sessions
      BY <1>1, <2>1, LogoutEffect DEF Logout, tables
    <3>2. reqs[r].hit = {} /\ reqs[r].session \in SessionId
          /\ Exists(reqs[r].session)
      BY <1>1, <3>1 DEF LocksOK, At, LoginInv, LocalsOK, LocalOK, ActingPcs
    <3>3. sessions[reqs[r].session].status \in {"open", "revoked"}
      BY <3>2 DEF TypeOK, TablesOK, SessionRow, Exists
    <3>. QED
      BY <3>1, <3>2, <3>3 DEF Turns, SessionLocked, OpenSessions
  <2>2. CASE RevokeDevice(r) /\ reqs'[r] # Idle
    <3>1. /\ At(r, "revokeDevice") /\ Moves(r, "findSessions")
          /\ ~DeviceLocked(reqs[r].device)
          /\ reqs'[r].device = reqs[r].device
      BY <1>1, <2>2, RevokeDeviceEffect
    <3>2. reqs[r].hit = {} /\ reqs[r].held = {}
      BY <1>1, <3>1 DEF LocksOK, At
    <3>. QED BY <3>1, <3>2 DEF Moves, Turns, DeviceLocked
  <2>3. CASE FindSessions(r)
    <3>1. /\ At(r, "findSessions") /\ Turns(r, "revokeSessions")
          /\ reqs'[r].device = reqs[r].device
          /\ reqs'[r].held = reqs[r].held
      BY <1>1, <2>3, FindSessionsEffect
    <3>2. reqs[r].held = {} /\ HoldsDevice(r, reqs[r].device)
          /\ reqs[r].device \in Devices
      BY <1>1, <3>1 DEF LocksOK, HoldsDevice, At, LoginInv, LocalsOK, LocalOK,
                        RevokingPcs
    <3>. QED BY <1>1, <3>1, <3>2 DEF Turns, LocksOK
  <2>4. CASE \E s \in SessionId : RevokeSession(r, s)
    <3>1. PICK s \in SessionId : RevokeSession(r, s)
      BY <2>4
    <3>2. /\ At(r, "revokeSessions") /\ ~SessionLocked(s)
          /\ Turns(r, "revokeSessions")
          /\ reqs'[r].device = reqs[r].device
          /\ reqs'[r].hit = reqs[r].hit \ {s}
          /\ reqs'[r].held = reqs[r].held \cup ({s} \cap OpenSessions)
          /\ UNCHANGED sessions
      BY <1>1, <3>1, RevokeSessionEffect DEF RevokeSession, tables
    <3>3. HoldsDevice(r, reqs[r].device) /\ reqs[r].device \in Devices
      BY <3>2 DEF HoldsDevice, At, LoginInv, LocalsOK, LocalOK, RevokingPcs
    <3>4. Own
      BY <1>1, <3>2 DEF Turns, LocksOK, OpenSessions
    <3>5. Apart
      BY <1>1, <3>2, <3>3 DEF LocksOK, SessionLocked, OpenSessions
    <3>. QED BY <3>4, <3>5
  <2>5. CASE reqs'[r] = Idle
    BY <2>5 DEF Idle
  <2>6. CASE /\ ~Logout(r) /\ ~RevokeDevice(r) /\ ~FindSessions(r)
             /\ ~ \E s \in SessionId : RevokeSession(r, s)
    BY <2>6, NoLocksAfter
  <2>. QED BY <2>1, <2>2, <2>3, <2>4, <2>5, <2>6
<1>7. ASSUME NEW p \in ReqId, NEW q \in ReqId, p # q
      PROVE  /\ reqs'[p].held \cap reqs'[q].held = {}
             /\ \A d \in Devices : ~(HoldsDevice(p, d)' /\ HoldsDevice(q, d)')
  <2>1. CASE p # r /\ q # r
    BY <1>1, <1>2, <1>7, <2>1 DEF LocksOK, HoldsDevice
  <2>2. CASE p = r
    BY <1>2, <1>6, <1>7, <2>2 DEF HoldsDevice
  <2>3. CASE q = r
    BY <1>2, <1>6, <1>7, <2>3 DEF HoldsDevice
  <2>. QED BY <2>1, <2>2, <2>3
<1>. QED BY <1>5, <1>6, <1>7 DEF LocksOK, At

\* Sessions keep their user and device, so what a request knows stays true.
LEMMA RevocationStep ==
    ASSUME IInv, NEW r \in ReqId, Arrive(r) \/ Handle(r) \/ Abort(r)
    PROVE  RevocationInv'
<1>. USE DEF IInv
<1>1. TypeInv /\ Kept
  BY KeptStep DEF LoginInv, TypeInv
<1>2. /\ RecordOK(r)
      /\ \A p \in ReqId \ {r} : reqs'[p] = reqs[p]
  BY <1>1, RecordStep, OneRequestMoves
<1>3. \A s \in SessionId : Exists(s) =>
         /\ Exists(s)'
         /\ sessions'[s].user = sessions[s].user
         /\ sessions'[s].device = sessions[s].device
         /\ sessions[s].status = "revoked" => sessions'[s].status = "revoked"
  BY <1>1 DEF Kept, Exists
<1>4. \A p \in ReqId :
         /\ reqs[p].prior \subseteq SessionId /\ reqs[p].hit \subseteq SessionId
         /\ reqs[p].held \subseteq SessionId
         /\ reqs'[p].prior \subseteq SessionId
         /\ reqs'[p].hit \subseteq SessionId
         /\ reqs'[p].held \subseteq SessionId
  <2>1. reqs \in [ReqId -> RequestType] /\ reqs' \in [ReqId -> RequestType]
    BY <1>1, RequestTypeStep DEF TypeOK
  <2>. QED BY <2>1 DEF RequestType
<1>5. \A p \in ReqId : LocalOK(p) /\ LocalOK(p)'
  BY LocalsOKStep DEF LoginInv, LocalsOK
<1>6. DevicesOfUsers'
  <2>1. CASE CreateSession(r)
    <3>1. PICK s \in SessionId :
             /\ reqs[r].pc = "createSession"
             /\ sessions'[s].user = reqs[r].user
             /\ sessions'[s].device = reqs[r].device
             /\ \A z \in SessionId \ {s} : sessions'[z] = sessions[z]
      BY <1>1, <2>1, CreateSessionEffect DEF At
    <3>. QED
      BY <1>2, <3>1 DEF DevicesOfUsers, RevocationInv, RecordOK, At, Exists
  <2>2. CASE ~CreateSession(r)
    <3>1. \A s \in SessionId : Exists(s)' => Exists(s)
      BY <2>2, SessionsAdded
    <3>. QED
      BY <1>2, <1>3, <3>1 DEF DevicesOfUsers, RevocationInv, RecordOK, At
  <2>. QED BY <2>1, <2>2
<1>7. ActsForOwner'
  <2>1. ASSUME NEW p \in ReqId, reqs'[p].pc \in ActingPcs
        PROVE  reqs'[p].user = sessions'[reqs'[p].session].user
    <3>1. CASE p = r
      BY <1>2, <1>3, <2>1, <3>1 DEF RecordOK
    <3>2. CASE p # r
      <4>1. reqs'[p] = reqs[p]
        BY <1>2, <3>2
      <4>2. reqs[p].session \in SessionId /\ Exists(reqs[p].session)
        BY <1>5, <2>1, <4>1 DEF LocalOK
      <4>. QED
        BY <1>3, <2>1, <4>1, <4>2 DEF RevocationInv, ActsForOwner
    <3>. QED BY <3>1, <3>2
  <2>. QED BY <2>1 DEF ActsForOwner
<1>8. RevocationsKnow'
  <2>1. ASSUME NEW p \in ReqId, reqs'[p].op = "revokeDevice"
        PROVE  \A s \in reqs'[p].prior :
                   Exists(s)' /\ sessions'[s].device = reqs'[p].device
    <3>1. CASE p = r
      BY <1>2, <1>3, <1>4, <2>1, <3>1 DEF RecordOK
    <3>2. CASE p # r
      BY <1>2, <1>3, <1>4, <2>1, <3>2 DEF RevocationInv, RevocationsKnow
    <3>. QED BY <3>1, <3>2
  <2>2. ASSUME NEW p \in ReqId,
               reqs'[p].pc \in {"findSessions", "revokeSessions"}
        PROVE  reqs'[p].device[1] = reqs'[p].user
    BY <1>2, <2>2 DEF RecordOK, RevocationInv, RevocationsKnow
  <2>3. ASSUME NEW p \in ReqId, reqs'[p].pc = "revokeSessions"
        PROVE  /\ \A s \in reqs'[p].hit \cup reqs'[p].held :
                     sessions'[s].device = reqs'[p].device
               /\ \A s \in reqs'[p].prior :
                     \/ s \in reqs'[p].hit \cup reqs'[p].held
                     \/ sessions'[s].status = "revoked"
    <3>1. CASE p = r
      <4>1. reqs'[p].op = "revokeDevice"
        BY <1>5, <2>3 DEF LocalOK, RevokingPcs
      <4>. QED BY <1>2, <1>3, <1>4, <2>3, <3>1, <4>1 DEF RecordOK
    <3>2. CASE p # r
      <4>1. reqs'[p] = reqs[p]
        BY <1>2, <3>2
      <4>2. /\ reqs[p].op = "revokeDevice"
            /\ \A s \in reqs[p].hit \cup reqs[p].held : Exists(s)
        BY <1>5, <2>3, <4>1 DEF LocalOK, RevokingPcs
      <4>. QED
        BY <1>3, <1>4, <2>3, <4>1, <4>2 DEF RevocationInv, RevocationsKnow, At
    <3>. QED BY <3>1, <3>2
  <2>. QED BY <2>1, <2>2, <2>3 DEF RevocationsKnow, At
<1>. QED BY <1>6, <1>7, <1>8, LocksStep DEF RevocationInv

\* What appending does to the length and the elements of an event list.
LEMMA Appended ==
    ASSUME NEW S, NEW c \in Seq(S), NEW y \in S, NEW i \in 1 .. Len(c)
    PROVE  /\ Append(c, y) \in Seq(S)
           /\ Len(Append(c, y)) = Len(c) + 1
           /\ Append(c, y)[i] = c[i]
           /\ Append(c, y)[Len(c) + 1] = y
BY AppendProperties

\* A list of one event with an event appended is the list of the two.
LEMMA AppendToOne ==
    ASSUME NEW S, NEW c \in Seq(S), NEW y \in S, 1 \in 1 .. Len(c),
           NEW b \in Seq(S), Len(b) = Len(c) + 1,
           b[1] = c[1], b[Len(c) + 1] = y,
           \A i \in 1 .. Len(b) : i = 1 \/ i = Len(c) + 1
    PROVE  Append(c, y) = b
<1>1. Append(c, y) \in Seq(S) /\ Len(Append(c, y)) = Len(b)
  BY Appended
<1>2. Append(c, y)[1] = b[1]
  BY Appended
<1>3. Append(c, y)[Len(c) + 1] = b[Len(c) + 1]
  BY Appended
<1>4. ASSUME NEW a \in Seq(S), Len(a) = Len(b), a[Len(c) + 1] = b[Len(c) + 1],
             a[1] = b[1]
      PROVE  a = b
  <2>1. \A i \in 1 .. Len(a) : a[i] = b[i]
    BY <1>4, Zenon
  <2>2. Len(a) = Len(b)
    BY <1>4
  <2>. QED BY <2>1, <2>2, SeqEqual, Zenon
<1>. QED BY <1>1, <1>2, <1>3, <1>4, Zenon

\* What is promised to have ended has ended, and its event is written once.
LEMMA EndedStep ==
    ASSUME IInv, NEW r \in ReqId, Arrive(r) \/ Handle(r) \/ Abort(r)
    PROVE  EndedStayEnded' /\ EventLedger'
<1>. USE DEF IInv
<1>1. TypeInv /\ Kept /\ TablesOK /\ HistoryOK /\ LocalOK(r)
  BY KeptStep DEF LoginInv, TypeInv, TypeOK, LocalsOK
<1>2. \A s \in ended : sessions'[s].status = "revoked"
  BY <1>1 DEF EndedStayEnded, Kept, HistoryOK
<1>3. CASE LogoutCommit(r)
  <2>. DEFINE s == reqs[r].session
              S == reqs[r].held
  <2>1. s \in SessionId /\ Exists(s)
    BY <1>1, <1>3 DEF LogoutCommit, At, LocalOK, ActingPcs
  <2>a. \/ S = {s} /\ sessions[s].status = "open"
        \/ S = {} /\ sessions[s].status = "revoked"
    BY <1>3 DEF LogoutCommit, RevocationInv, LocksOK, At
  <2>2. /\ sessions'[s].status = "revoked"
        /\ \A z \in SessionId \ {s} : sessions'[z] = sessions[z]
    BY <1>1, <1>3, <2>1, <2>a
    DEF LogoutCommit, AfterRevoking, TablesOK, SessionRow
  <2>3. /\ events'[s] = RevocationEvents(r)
        /\ \A z \in SessionId \ {s} : events'[z] = events[z]
    BY <1>1, <1>3, <2>1 DEF LogoutCommit, TablesOK
  <2>4. ended' = ended \cup {s}
    BY <1>3 DEF LogoutCommit
  <2>5. EndedStayEnded'
    BY <1>2, <2>2, <2>4 DEF EndedStayEnded
  <2>6. events'[s] \in {<<"session.created">>,
                        <<"session.created", "session.revoked">>}
    <3>1. CASE sessions[s].status = "open"
      <4>1. events[s] = <<"session.created">>
        BY <2>1, <3>1 DEF EventLedger
      <4>2. events'[s] = Append(events[s], "session.revoked")
        BY <2>3, <2>a, <3>1 DEF RevocationEvents
      <4>. HIDE DEF s
      <4>. DEFINE c == <<"session.created">>
                  b == <<"session.created", "session.revoked">>
      <4>3. /\ "session.revoked" \in EventType
            /\ c \in Seq(EventType) /\ Len(c) = 1 /\ c[1] = "session.created"
            /\ b \in Seq(EventType) /\ Len(b) = 2
            /\ b[1] = "session.created" /\ b[2] = "session.revoked"
        BY DEF EventType
      <4>4. events'[s] = Append(c, "session.revoked")
        BY <4>1, <4>2
      <4>. HIDE DEF b, c
      <4>5. events'[s] = b
        <5>1. 1 \in 1 .. Len(c) /\ Len(b) = Len(c) + 1 /\ b[1] = c[1]
          BY <4>3
        <5>2. b[Len(c) + 1] = "session.revoked"
          BY <4>3
        <5>3. \A i \in 1 .. Len(b) : i = 1 \/ i = Len(c) + 1
          BY <4>3
        <5>. QED BY <4>3, <4>4, <5>1, <5>2, <5>3, AppendToOne, Zenon
      <4>. QED BY <4>5 DEF b
    <3>2. CASE sessions[s].status # "open"
      BY <2>1, <2>3, <2>a, <3>2 DEF EventLedger, RevocationEvents, Exists
    <3>. QED BY <3>1, <3>2
  <2>. QED BY <2>2, <2>3, <2>5, <2>6 DEF EventLedger
<1>4. CASE RevokeCommit(r)
  <2>1. /\ ended' = ended \cup reqs[r].prior /\ UNCHANGED events
        /\ \A s \in SessionId : sessions'[s] =
              IF s \in reqs[r].held THEN [sessions[s] EXCEPT !.status = "revoked"]
                                    ELSE sessions[s]
        /\ At(r, "revokeSessions") /\ reqs[r].hit = {}
    BY <1>4 DEF RevokeCommit, AfterRevoking
  <2>2. \A s \in reqs[r].held : sessions'[s].status = "revoked" /\ Exists(s)
    <3>1. reqs[r].held \subseteq SessionId
      BY DEF TypeOK, RequestType
    <3>2. \A s \in SessionId : sessions[s] \in SessionRow
      BY <1>1 DEF TablesOK
    <3>. QED BY <1>1, <2>1, <3>1, <3>2 DEF LocalOK, At, SessionRow
  <2>3. \A s \in reqs[r].prior : sessions'[s].status = "revoked"
    <3>1. \A s \in reqs[r].prior : s \in SessionId
                /\ (s \in reqs[r].held \/ sessions[s].status = "revoked")
      BY <2>1 DEF RevocationInv, RevocationsKnow, TypeOK, RequestType
    <3>. QED BY <2>2, <3>1, <1>1 DEF Kept
  <2>4. EndedStayEnded'
    BY <1>2, <2>1, <2>3 DEF EndedStayEnded
  <2>. QED BY <2>1, <2>2, <2>4 DEF EventLedger, Exists
<1>5. CASE CreateSession(r)
  <2>1. PICK s \in SessionId :
           /\ sessions[s].status = "none" /\ sessions'[s].status = "open"
           /\ events' = [events EXCEPT ![s] = Append(@, "session.created")]
           /\ \A z \in SessionId \ {s} : sessions'[z] = sessions[z]
    BY <1>1, <1>5, CreateSessionEffect
  <2>2. UNCHANGED ended
    BY <1>5 DEF CreateSession, history
  <2>3. /\ events'[s] = <<"session.created">>
        /\ \A z \in SessionId \ {s} : events'[z] = events[z]
    <3>1. events[s] = << >>
      BY <2>1 DEF EventLedger
    <3>2. events'[s] = Append(events[s], "session.created")
      BY <1>1, <2>1 DEF TablesOK
    <3>3. \A z \in SessionId \ {s} : events'[z] = events[z]
      BY <1>1, <2>1 DEF TablesOK
    <3>. QED BY <3>1, <3>2, <3>3
  <2>. QED BY <1>2, <2>1, <2>2, <2>3 DEF EndedStayEnded, EventLedger
<1>6. CASE UNCHANGED <<sessions, events, ended>>
  BY <1>6 DEF EndedStayEnded, EventLedger
<1>. QED
  BY <1>3, <1>4, <1>5, <1>6
  DEF Arrive, Handle, StartLogin, Callback, ExchangeGrant, Request, Connect,
      AuthorizationUrl, ConsumeFlow, OidcExchange, SelectIdentity, InsertUser,
      UpdateUser, RegisterDevice, ResolveSession, PutLoginGrant,
      ConsumeLoginGrant, AuthenticateGrant, SendToken, Authenticate, Logout,
      RevokeDevice, FindSessions, RevokeSession, ReadPermissions, PutTicket,
      ConsumeTicket, Accept, Abort, tables, history

\* Every handler step keeps the invariant.
LEMMA RevocationNext == IInv /\ [Next]_vars => IInv'
<1>. SUFFICES ASSUME IInv, [Next]_vars PROVE IInv'
  OBVIOUS
<1>1. TypeOK' /\ LoginInv'
  BY InvStep DEF IInv
<1>2. ASSUME NEW r \in ReqId, Arrive(r) \/ Handle(r) \/ Abort(r)
      PROVE  RevocationInv' /\ EndedStayEnded' /\ EventLedger'
  BY <1>2, RevocationStep, EndedStep
<1>3. CASE Operate \/ Tick \/ UNCHANGED vars
  <2>1. UNCHANGED <<sessions, events, reqs, ended>>
    BY <1>3 DEF Operate, SetStatus, SetRoles, Tick, vars, tables, history
  <2>. QED
    BY <1>1, <2>1 DEF IInv, RevocationInv, DevicesOfUsers, ActsForOwner,
                      RevocationsKnow, LocksOK, HoldsDevice, EndedStayEnded,
                      EventLedger, Exists, At
<1>. QED BY <1>1, <1>2, <1>3 DEF Next, IInv

-----------------------------------------------------------------------------
\* The invariant of revocation.
THEOREM RevocationInvariant == Spec => []IInv
<1>. QED BY RevocationInit, RevocationNext, PTL DEF Spec

\* A 204 from logout or revoke_device is kept: the sessions it covers stay
\* revoked, whatever logins, logouts and revocations run beside it.
THEOREM EndedTheorem == Spec => []EndedStayEnded
<1>1. IInv => EndedStayEnded
  BY DEF IInv
<1>. QED BY <1>1, RevocationInvariant, PTL

\* revoke_session and create_session keep session_events: created once, revoked
\* at most once and only for a session that is.
THEOREM LedgerTheorem == Spec => []EventLedger
<1>1. IInv => EventLedger
  BY DEF IInv
<1>. QED BY <1>1, RevocationInvariant, PTL

\* An open session is revoked by an authenticated request of its own user.
LEMMA OwnerStep ==
    ASSUME IInv, [Next]_vars, NEW s \in SessionId,
           sessions[s].status = "open", sessions'[s].status = "revoked"
    PROVE  \E r \in ReqId : /\ reqs[r].pc \in ActingPcs
                            /\ reqs[r].user = sessions[s].user
<1>. USE DEF IInv
<1>1. CASE \E r \in ReqId : LogoutCommit(r)
  <2>1. PICK r \in ReqId : LogoutCommit(r)
    BY <1>1
  <2>2. s = reqs[r].session
    BY <2>1 DEF LogoutCommit, AfterRevoking, RevocationInv, LocksOK
  <2>. QED
    BY <2>1, <2>2 DEF LogoutCommit, At, ActingPcs, RevocationInv, ActsForOwner
<1>2. CASE \E r \in ReqId : RevokeCommit(r)
  <2>1. PICK r \in ReqId : RevokeCommit(r)
    BY <1>2
  <2>2. s \in reqs[r].held
    BY <2>1 DEF RevokeCommit, AfterRevoking
  <2>3. /\ sessions[s].device = reqs[r].device
        /\ reqs[r].device[1] = reqs[r].user
        /\ sessions[s].device[1] = sessions[s].user
    BY <2>1, <2>2 DEF RevokeCommit, RevocationInv, RevocationsKnow,
                      DevicesOfUsers, Exists, At
  <2>. QED BY <2>1, <2>3 DEF RevokeCommit, At, ActingPcs
<1>3. CASE \E r \in ReqId : CreateSession(r)
  <2>1. PICK r \in ReqId : CreateSession(r)
    BY <1>3
  <2>. QED BY <2>1 DEF CreateSession, TypeOK, TablesOK
<1>4. ASSUME NEW r \in ReqId, Arrive(r) \/ Handle(r) \/ Abort(r),
             ~LogoutCommit(r), ~RevokeCommit(r), ~CreateSession(r)
      PROVE  UNCHANGED sessions
  BY <1>4
  DEF Arrive, Handle, StartLogin, Callback, ExchangeGrant, Request, Connect,
      AuthorizationUrl, ConsumeFlow, OidcExchange, SelectIdentity, InsertUser,
      UpdateUser, RegisterDevice, ResolveSession, PutLoginGrant,
      ConsumeLoginGrant, AuthenticateGrant, SendToken, Authenticate, Logout,
      RevokeDevice, FindSessions, RevokeSession, ReadPermissions, PutTicket,
      ConsumeTicket, Accept, Abort, tables
<1>5. CASE Operate \/ Tick \/ UNCHANGED vars
  BY <1>5, EnvironmentStep
<1>. QED BY <1>1, <1>2, <1>3, <1>4, <1>5 DEF Next

\* No one but its user ends a session.
THEOREM OwnerTheorem == Spec => RevokedByOwner
<1>1. IInv /\ [Next]_vars =>
        [\A s \in SessionId :
          sessions[s].status = "open" /\ sessions'[s].status = "revoked"
          => \E r \in ReqId : /\ reqs[r].pc \in ActingPcs
                              /\ reqs[r].user = sessions[s].user]_vars
  BY OwnerStep
<1>. QED BY <1>1, RevocationInvariant, PTL DEF Spec, RevokedByOwner

\* Whoever waits, waits for a request that is further on: logins, logouts and
\* revocations that want their first row wait for holders of rows; a revocation
\* that holds its device waits for logouts only, since two revocations hold
\* different devices and a session has one; a logout holds its last row.
LEMMA SomeoneProceeds == IInv => NoDeadlock
<1>. SUFFICES ASSUME IInv, NEW Q \in (SUBSET ReqId) \ {{}}
              PROVE  \E r \in Q : \A q \in Q : ~WaitsFor(r, q)
  BY DEF NoDeadlock
<1>. USE DEF IInv
<1>1. LocksOK /\ RevocationsKnow
  BY DEF RevocationInv
<1>2. Q \subseteq ReqId /\ Q # {}
  OBVIOUS
<1>3. CASE \E r \in Q : reqs[r].pc \in {"logoutCommit", "findSessions"}
  <2>1. PICK r \in Q : reqs[r].pc \in {"logoutCommit", "findSessions"}
    BY <1>3
  <2>2. \A q \in Q : ~WaitsFor(r, q)
    BY <1>1, <1>2, <2>1 DEF WaitsFor, LocksOK, At
  <2>. QED BY <2>2
<1>4. CASE /\ \A r \in Q : reqs[r].pc \notin {"logoutCommit", "findSessions"}
           /\ \E r \in Q : reqs[r].pc = "revokeSessions"
  <2>1. PICK r \in Q : reqs[r].pc = "revokeSessions"
    BY <1>4
  <2>2. ASSUME NEW q \in Q, WaitsFor(r, q)
        PROVE  FALSE
    <3>1. PICK s : s \in reqs[r].hit /\ s \in reqs[q].held
      BY <2>1, <2>2 DEF WaitsFor, At
    <3>2. r # q
      BY <1>1, <1>2, <3>1 DEF LocksOK
    <3>3. reqs[q].pc = "revokeSessions"
      BY <1>1, <1>2, <1>4, <3>1 DEF LocksOK
    <3>4. sessions[s].device = reqs[r].device /\ sessions[s].device = reqs[q].device
      BY <1>1, <1>2, <2>1, <3>1, <3>3 DEF RevocationsKnow, At
    <3>5. reqs[r].device \in Devices
      BY <1>2, <2>1 DEF LoginInv, LocalsOK, LocalOK, RevokingPcs
    <3>. QED
      BY <1>1, <1>2, <2>1, <3>2, <3>3, <3>4, <3>5 DEF LocksOK, HoldsDevice
  <2>. QED BY <2>2
<1>5. CASE \A r \in Q : reqs[r].pc \notin {"logoutCommit", "findSessions",
                                           "revokeSessions"}
  <2>1. \A q \in Q : /\ reqs[q].held = {} /\ reqs[q].hit = {}
                     /\ \A d : ~HoldsDevice(q, d)
    BY <1>1, <1>2, <1>5 DEF LocksOK, HoldsDevice, At
  <2>2. \A r, q \in Q : ~WaitsFor(r, q)
    BY <2>1 DEF WaitsFor
  <2>. QED BY <1>2, <2>2
<1>. QED BY <1>3, <1>4, <1>5

\* Row locks never close a circle: in every state, of every set of requests one
\* waits for none of the set.
THEOREM NoDeadlockTheorem == Spec => []NoDeadlock
<1>. QED BY SomeoneProceeds, RevocationInvariant, PTL

-----------------------------------------------------------------------------
(***************************************************************************)
(* Tickets and sockets.                                                    *)
(***************************************************************************)
\* Issued tickets are of sessions whose token a client has, those for the health
\* channel of users that held the permission; only a used ticket opened a socket.
TicketRowOK(t) ==
    /\ accepts[t] <= 1
    /\ accepts[t] > 0 => tickets[t].status = "used"
    /\ tickets[t].status # "none" =>
          /\ disclosed[tickets[t].session] > 0
          /\ tickets[t].channel = HealthChannel =>
                sessions[tickets[t].session].user \in everReaders

\* A permission that was read had been given.
PermissionKnown(r) == reqs[r].may => reqs[r].user \in everReaders

\* What a request past its token knows of it and of the permissions it read.
TokenKnown(r) ==
    /\ reqs[r].pc \in ActingPcs \cup {"authenticate"} =>
          disclosed[reqs[r].session] > 0
    /\ At(r, "putTicket") => PermissionKnown(r)

\* A ticket is consumed by one handshake, which has yet to open its socket.
TicketOwnership ==
    /\ \A r \in ReqId :
          At(r, "accept") => /\ tickets[reqs[r].ticket].status = "used"
                             /\ accepts[reqs[r].ticket] = 0
    /\ \A r, q \in ReqId :
          r # q /\ At(r, "accept") /\ At(q, "accept")
          => reqs[r].ticket # reqs[q].ticket

TicketInv ==
    /\ readers \subseteq everReaders
    /\ \A t \in TicketId : TicketRowOK(t)
    /\ \A r \in ReqId : TokenKnown(r)
    /\ TicketOwnership

SocketInv == IInv /\ TicketInv

\* No tickets, no sockets and no permissions to begin with.
LEMMA SocketInit == Init => SocketInv
<1>. SUFFICES ASSUME Init PROVE SocketInv
  OBVIOUS
<1>1. IInv
  BY RevocationInit
<1>2. \A r \in ReqId : reqs[r].pc = "idle"
  BY DEF Init, Idle
<1>3. \A t \in TicketId : TicketRowOK(t)
  BY DEF Init, TicketRowOK
<1>4. \A r \in ReqId : TokenKnown(r)
  BY <1>2 DEF TokenKnown, ActingPcs, At
<1>5. readers \subseteq everReaders
  BY DEF Init
<1>6. TicketOwnership
  BY <1>2 DEF TicketOwnership, At
<1>. QED BY <1>1, <1>3, <1>4, <1>5, <1>6 DEF SocketInv, TicketInv

\* The three ways past a check: a request comes to send a token, to open a
\* socket or to act for a user by the step that made the check, and leaves the
\* first two by sending, opening or failing.
LEMMA PassStep ==
    ASSUME TypeInv, NEW r \in ReqId, Arrive(r) \/ Handle(r) \/ Abort(r)
    PROVE  /\ reqs'[r].pc = "sendToken" => AuthenticateGrant(r)
           /\ reqs'[r].pc = "accept" => ConsumeTicket(r)
           /\ reqs'[r].pc \in ActingPcs =>
                 \/ Authenticate(r)
                 \/ /\ reqs[r].pc \in ActingPcs
                    /\ reqs'[r].session = reqs[r].session
           /\ reqs'[r].pc = "authenticate" => Arrive(r)
           /\ reqs'[r].pc = "putTicket" => ReadPermissions(r)
           /\ At(r, "sendToken") => SendToken(r) \/ Abort(r)
           /\ At(r, "accept") => Accept(r) \/ Abort(r)
<1>1. /\ At(r, "sendToken") => SendToken(r) \/ Abort(r)
      /\ At(r, "accept") => Accept(r) \/ Abort(r)
  <2>1. Arrive(r) => At(r, "idle")
    BY ArrivalEffect
  <2>2. ASSUME Handle(r), ~SendToken(r), ~Accept(r)
        PROVE  reqs[r].pc \notin {"sendToken", "accept"}
    <3>1. CASE \/ AuthorizationUrl(r) \/ PutLoginGrant(r) \/ LogoutCommit(r)
               \/ RevokeCommit(r) \/ PutTicket(r)
      BY <3>1 DEF AuthorizationUrl, PutLoginGrant, LogoutCommit, RevokeCommit,
                  PutTicket, At
    <3>2. CASE \/ ConsumeFlow(r) \/ OidcExchange(r) \/ SelectIdentity(r)
               \/ InsertUser(r) \/ UpdateUser(r) \/ RegisterDevice(r)
               \/ CreateSession(r) \/ ResolveSession(r)
               \/ ConsumeLoginGrant(r)
      BY <3>2 DEF ConsumeFlow, OidcExchange, SelectIdentity, InsertUser,
                  UpdateUser, RegisterDevice, CreateSession, ResolveSession,
                  ConsumeLoginGrant, At
    <3>3. CASE \/ AuthenticateGrant(r) \/ Authenticate(r) \/ Logout(r)
               \/ RevokeDevice(r) \/ FindSessions(r) \/ ReadPermissions(r)
               \/ ConsumeTicket(r) \/ \E s \in SessionId : RevokeSession(r, s)
      BY <3>3 DEF AuthenticateGrant, Authenticate, Logout, RevokeDevice,
                  FindSessions, ReadPermissions, ConsumeTicket, RevokeSession,
                  At
    <3>. QED BY <2>2, <3>1, <3>2, <3>3 DEF Handle
  <2>3. SendToken(r) => At(r, "sendToken")
    BY DEF SendToken
  <2>4. Accept(r) => At(r, "accept")
    BY DEF Accept
  <2>. QED BY <2>1, <2>2, <2>3, <2>4 DEF At
<1>2. CASE reqs'[r].pc \notin ActingPcs \cup {"sendToken", "accept", "authenticate"}
  BY <1>1, <1>2 DEF ActingPcs
<1>3. CASE Arrive(r)
  <2>1. reqs'[r].pc \in {"authorizationUrl", "callback", "exchangeGrant",
                         "authenticate", "consumeTicket"}
    BY <1>3, ArrivalEffect
  <2>. QED BY <1>1, <1>3, <2>1 DEF ActingPcs
<1>4. CASE reqs'[r] = Idle
  BY <1>2, <1>4 DEF Idle, ActingPcs
<1>5. CASE /\ ConsumeFlow(r) \/ OidcExchange(r) \/ SelectIdentity(r)
              \/ InsertUser(r) \/ UpdateUser(r) \/ RegisterDevice(r)
              \/ CreateSession(r) \/ ResolveSession(r) \/ ConsumeLoginGrant(r)
           /\ reqs'[r] # Idle
  <2>1. reqs'[r].pc \in {"exchangeCode", "selectIdentity", "insertUser",
                         "updateUser", "registerDevice", "createSession",
                         "resolveSession", "putGrant", "openGrant"}
    BY <1>5, ConsumeFlowEffect, OidcExchangeEffect, SelectIdentityEffect,
       InsertUserEffect, UpdateUserEffect, RegisterDeviceEffect,
       CreateSessionEffect, ResolveSessionEffect, ConsumeLoginGrantEffect
    DEF Moves, Turns
  <2>. QED BY <1>2, <2>1 DEF ActingPcs
<1>6. CASE AuthenticateGrant(r) /\ reqs'[r] # Idle
  <2>1. reqs'[r].pc = "sendToken"
    BY <1>6, AuthenticateGrantEffect DEF Moves, Turns
  <2>. QED BY <1>1, <1>6, <2>1 DEF ActingPcs
<1>7. CASE ConsumeTicket(r) /\ reqs'[r] # Idle
  <2>1. reqs'[r].pc = "accept"
    BY <1>7, ConsumeTicketEffect DEF Moves, Turns
  <2>. QED BY <1>1, <1>7, <2>1 DEF ActingPcs
<1>8. CASE Authenticate(r) /\ reqs'[r] # Idle
  <2>1. reqs'[r].pc \in {"logout", "revokeDevice", "readPermissions"}
    BY <1>8, AuthenticateEffect DEF TypeInv, LocalsOK, LocalOK, Moves, Turns, At
  <2>. QED BY <1>1, <1>8, <2>1
<1>9. CASE ReadPermissions(r)
  <2>1. /\ reqs[r].pc \in ActingPcs
        /\ reqs'[r].session = reqs[r].session
        /\ reqs'[r].pc = "putTicket"
    BY <1>9, ReadPermissionsEffect DEF Moves, Turns, At, ActingPcs
  <2>. QED BY <1>1, <1>9, <2>1
<1>10. CASE /\ Logout(r) \/ RevokeDevice(r) \/ FindSessions(r)
              \/ \E s \in SessionId : RevokeSession(r, s)
           /\ reqs'[r] # Idle
  <2>1. /\ reqs[r].pc \in ActingPcs
        /\ reqs'[r].session = reqs[r].session
        /\ reqs'[r].pc \in {"logoutCommit", "findSessions", "revokeSessions"}
    BY <1>10, LogoutEffect, RevokeDeviceEffect, FindSessionsEffect,
       RevokeSessionEffect
    DEF Moves, Turns, At, ActingPcs
  <2>. QED BY <1>1, <2>1
<1>. QED
  BY <1>3, <1>4, <1>5, <1>6, <1>7, <1>8, <1>10, <1>9, AnsweringEffect
  DEF Handle

\* What was disclosed stays disclosed, and a step past the token is taken by a
\* request that had it.
LEMMA TokenKnownStep ==
    ASSUME SocketInv, NEW r \in ReqId, Arrive(r) \/ Handle(r) \/ Abort(r)
    PROVE  /\ \A s \in SessionId : disclosed[s] > 0 => disclosed'[s] > 0
           /\ UNCHANGED <<readers, everReaders>>
           /\ TokenKnown(r)'
<1>. USE DEF SocketInv, IInv
<1>1. TypeInv /\ LocalOK(r) /\ reqs[r] \in RequestType
  BY DEF LoginInv, TypeInv, LocalsOK, TypeOK
<1>2. UNCHANGED <<readers, everReaders>>
  BY DEF Arrive, Handle, StartLogin, Callback, ExchangeGrant, Request, Connect,
         AuthorizationUrl, ConsumeFlow, OidcExchange, SelectIdentity,
         InsertUser, UpdateUser, RegisterDevice, CreateSession,
         ResolveSession, PutLoginGrant, ConsumeLoginGrant, AuthenticateGrant,
         SendToken, Authenticate, Logout, LogoutCommit, RevokeDevice,
         FindSessions, RevokeSession, RevokeCommit, ReadPermissions,
         PutTicket, ConsumeTicket, Accept, Abort, tables, history
<1>3. \A s \in SessionId : disclosed[s] > 0 => disclosed'[s] > 0
  <2>1. CASE SendToken(r)
    <3>1. disclosed \in [SessionId -> Nat]
      BY DEF TypeOK, HistoryOK
    <3>. QED BY <2>1, <3>1 DEF SendToken
  <2>2. CASE ~SendToken(r)
    BY <2>2
    DEF Arrive, Handle, StartLogin, Callback, ExchangeGrant, Request, Connect,
        AuthorizationUrl, ConsumeFlow, OidcExchange, SelectIdentity,
        InsertUser, UpdateUser, RegisterDevice, CreateSession,
        ResolveSession, PutLoginGrant, ConsumeLoginGrant, AuthenticateGrant,
        Authenticate, Logout, LogoutCommit, RevokeDevice, FindSessions,
        RevokeSession, RevokeCommit, ReadPermissions, PutTicket,
        ConsumeTicket, Accept, Abort, tables, history
  <2>. QED BY <2>1, <2>2
<1>4. reqs'[r].pc \in ActingPcs \cup {"authenticate"} =>
         disclosed'[reqs'[r].session] > 0
  <2>1. CASE reqs'[r].pc = "authenticate"
    <3>1. Arrive(r)
      BY <1>1, <2>1, PassStep
    <3>. QED BY <1>1, <1>3, <2>1, <3>1, ArrivalEffect
  <2>2. CASE reqs'[r].pc \in ActingPcs
    <3>1. /\ reqs[r].pc \in ActingPcs \cup {"authenticate"}
          /\ reqs'[r].session = reqs[r].session
      <4>1. CASE Authenticate(r)
        BY <1>1, <2>2, <4>1, AuthenticateEffect DEF Idle, ActingPcs, At
      <4>. QED BY <1>1, <2>2, <4>1, PassStep
    <3>2. reqs[r].session \in SessionId /\ disclosed[reqs[r].session] > 0
      BY <1>1, <3>1 DEF LocalOK, TicketInv, TokenKnown
    <3>. QED BY <1>3, <3>1, <3>2
  <2>. QED BY <2>1, <2>2
<1>5. CASE ReadPermissions(r)
  <2>1. reqs'[r].user = reqs[r].user
    BY <1>1, <1>5, ReadPermissionsEffect
  <2>2. reqs'[r].may = (reqs[r].user \in readers)
    <3>1. reqs'[r] = [reqs[r] EXCEPT !.pc = "putTicket",
                                     !.may = reqs[r].user \in readers]
      BY <1>1, <1>5, BecomesFrame DEF ReadPermissions, TypeInv
    <3>. QED BY <1>1, <3>1 DEF RequestType
  <2>3. PermissionKnown(r)'
    BY <1>2, <2>1, <2>2, Zenon DEF TicketInv, PermissionKnown
  <2>. QED BY <1>2, <1>3, <1>4, <2>3 DEF TokenKnown
<1>6. CASE ~ReadPermissions(r)
  <2>1. reqs'[r].pc # "putTicket"
    BY <1>1, <1>6, PassStep
  <2>. QED BY <1>2, <1>3, <1>4, <2>1 DEF TokenKnown, At
<1>. QED BY <1>5, <1>6

\* PutTicket writes what the request knows, ConsumeTicket spends it, and Accept
\* opens the socket of a ticket that its request alone has consumed.
LEMMA TicketRowsStep ==
    ASSUME SocketInv, NEW r \in ReqId, Arrive(r) \/ Handle(r) \/ Abort(r)
    PROVE  /\ \A t \in TicketId : TicketRowOK(t)'
           /\ TicketOwnership'
<1>. USE DEF SocketInv, IInv
<1>1. TypeInv /\ LocalOK(r) /\ Kept /\ reqs[r] \in RequestType
  BY KeptStep DEF LoginInv, TypeInv, LocalsOK, TypeOK
<1>2. /\ \A s \in SessionId : disclosed[s] > 0 => disclosed'[s] > 0
      /\ UNCHANGED <<readers, everReaders>>
      /\ \A p \in ReqId \ {r} : reqs'[p] = reqs[p]
  BY <1>1, TokenKnownStep, OneRequestMoves
<1>3. \A t \in TicketId :
         /\ tickets[t] \in TicketRow /\ accepts[t] \in Nat
         /\ tickets[t].status # "none" => tickets[t].session \in SessionId
                                          /\ Exists(tickets[t].session)
  BY DEF TypeOK, TablesOK, HistoryOK, LoginInv, RowsOK
<1>4. \A s \in SessionId : Exists(s) => sessions'[s].user = sessions[s].user
  BY <1>1 DEF Kept
<1>5. ASSUME NEW t \in TicketId,
             /\ tickets'[t].session = tickets[t].session
             /\ tickets'[t].channel = tickets[t].channel
             /\ tickets'[t].status # "none" => tickets[t].status # "none",
             accepts'[t] <= 1,
             accepts'[t] > 0 => tickets'[t].status = "used"
      PROVE  TicketRowOK(t)'
  BY <1>2, <1>3, <1>4, <1>5 DEF TicketRowOK, TicketInv
<1>a. ASSUME reqs'[r].pc # "accept",
             \A t \in TicketId : tickets[t].status = "used" =>
                                     tickets'[t].status = "used",
             \A q \in ReqId \ {r} : At(q, "accept") =>
                 accepts'[reqs[q].ticket] = accepts[reqs[q].ticket]
      PROVE  TicketOwnership'
  <2>1. \A q \in ReqId : At(q, "accept") => reqs[q].ticket \in TicketId
    BY DEF LoginInv, LocalsOK, LocalOK, At
  <2>. QED BY <1>2, <1>a, <2>1 DEF TicketInv, TicketOwnership, At
<1>6. CASE UNCHANGED <<tickets, accepts>> /\ reqs'[r].pc # "accept"
  BY <1>5, <1>a, <1>6 DEF TicketRowOK, TicketInv
<1>7. CASE PutTicket(r)
  <2>0. reqs'[r] = Idle /\ UNCHANGED accepts
    BY <1>1, <1>7, AnsweringEffect DEF PutTicket, history
  <2>a. CASE UNCHANGED tickets
    BY <1>6, <2>0, <2>a DEF Idle
  <2>b. CASE ~UNCHANGED tickets
    <3>1. PICK t \in TicketId :
             /\ tickets[t].status = "none"
             /\ tickets' = [tickets EXCEPT ![t] =
                   [status |-> "live", session |-> reqs[r].session,
                    channel |-> reqs[r].channel,
                    expires |-> clock + TicketTtl]]
      BY <1>7, <2>b DEF PutTicket
    <3>2. /\ tickets'[t].status = "live" /\ tickets'[t].session = reqs[r].session
          /\ tickets'[t].channel = reqs[r].channel
          /\ \A z \in TicketId \ {t} : tickets'[z] = tickets[z]
      BY <3>1 DEF TypeOK, TablesOK
    <3>3. /\ At(r, "putTicket") /\ TicketPermitted(r)
          /\ UNCHANGED <<sessions, disclosed>>
      BY <1>7, <2>b DEF PutTicket, history
    <3>4. /\ reqs[r].session \in SessionId
          /\ disclosed[reqs[r].session] > 0
          /\ reqs[r].user = sessions[reqs[r].session].user
          /\ PermissionKnown(r)
      BY <1>1, <3>3
      DEF LocalOK, At, ActingPcs, TicketInv, TokenKnown, RevocationInv,
          ActsForOwner
    <3>5. accepts[t] = 0
      BY <1>3, <3>1 DEF TicketInv, TicketRowOK
    <3>6. TicketRowOK(t)'
      BY <1>2, <2>0, <3>2, <3>3, <3>4, <3>5
      DEF TicketRowOK, TicketPermitted, PermissionKnown
    <3>7. \A z \in TicketId : TicketRowOK(z)'
      BY <1>5, <2>0, <3>2, <3>6 DEF TicketRowOK, TicketInv
    <3>8. TicketOwnership'
      BY <1>a, <2>0, <3>1, <3>2 DEF Idle
    <3>. QED BY <3>7, <3>8
  <2>. QED BY <2>a, <2>b
<1>8. CASE ConsumeTicket(r) /\ reqs'[r] # Idle
  <2>. DEFINE t == reqs[r].ticket
  <2>1. /\ At(r, "consumeTicket") /\ tickets[t].status = "live"
        /\ tickets' = [tickets EXCEPT ![t].status = "used"]
        /\ reqs'[r].pc = "accept" /\ reqs'[r].ticket = t
    BY <1>1, <1>8, ConsumeTicketEffect DEF TicketMatches, Moves, Turns
  <2>2. t \in TicketId /\ UNCHANGED accepts
    BY <1>1, <1>8, <2>1 DEF LocalOK, At, ConsumeTicket, history
  <2>3. accepts[t] = 0
    BY <1>3, <2>1, <2>2 DEF TicketInv, TicketRowOK
  <2>4. /\ tickets'[t].status = "used"
        /\ tickets'[t].session = tickets[t].session
        /\ tickets'[t].channel = tickets[t].channel
        /\ \A z \in TicketId \ {t} : tickets'[z] = tickets[z]
    BY <1>3, <2>1, <2>2 DEF TypeOK, TablesOK, TicketRow
  <2>5. \A z \in TicketId : TicketRowOK(z)'
    BY <1>5, <2>1, <2>2, <2>3, <2>4 DEF TicketRowOK, TicketInv
  <2>6. \A q \in ReqId \ {r} : At(q, "accept") =>
           reqs[q].ticket \in TicketId \ {t}
    BY <2>1 DEF LoginInv, LocalsOK, LocalOK, At, TicketInv, TicketOwnership
  <2>7. TicketOwnership'
    BY <1>2, <2>1, <2>2, <2>3, <2>4, <2>6 DEF TicketInv, TicketOwnership, At
  <2>. QED BY <2>5, <2>7
<1>9. CASE Accept(r)
  <2>. DEFINE t == reqs[r].ticket
  <2>1. /\ At(r, "accept") /\ UNCHANGED tickets /\ reqs'[r] = Idle
        /\ accepts' = [accepts EXCEPT ![t] = @ + 1]
    BY <1>1, <1>9, AnsweringEffect DEF Accept, tables
  <2>2. t \in TicketId /\ tickets[t].status = "used" /\ accepts[t] = 0
    BY <1>1, <2>1 DEF LocalOK, At, TicketInv, TicketOwnership
  <2>3. accepts'[t] = 1 /\ \A z \in TicketId \ {t} : accepts'[z] = accepts[z]
    BY <2>1, <2>2 DEF TypeOK, HistoryOK
  <2>4. \A z \in TicketId : TicketRowOK(z)'
    BY <1>5, <2>1, <2>2, <2>3 DEF TicketRowOK, TicketInv
  <2>5. \A q \in ReqId \ {r} : At(q, "accept") =>
           reqs[q].ticket \in TicketId \ {t}
    BY <2>1 DEF LoginInv, LocalsOK, LocalOK, At, TicketInv, TicketOwnership
  <2>6. TicketOwnership'
    BY <1>a, <2>1, <2>3, <2>5 DEF Idle
  <2>. QED BY <2>4, <2>6
<1>10. CASE ConsumeTicket(r) /\ reqs'[r] = Idle
  <2>1. UNCHANGED <<tickets, accepts>>
    BY <1>1, <1>10, ConsumeTicketEffect DEF ConsumeTicket, history, Moves, Turns,
                                            Idle
  <2>. QED BY <1>6, <1>10, <2>1 DEF Idle
<1>11. CASE ~PutTicket(r) /\ ~ConsumeTicket(r) /\ ~Accept(r)
  <2>1. UNCHANGED <<tickets, accepts>>
    BY <1>11
    DEF Arrive, Handle, StartLogin, Callback, ExchangeGrant, Request, Connect,
        AuthorizationUrl, ConsumeFlow, OidcExchange, SelectIdentity,
        InsertUser, UpdateUser, RegisterDevice, CreateSession,
        ResolveSession, PutLoginGrant, ConsumeLoginGrant, AuthenticateGrant,
        SendToken, Authenticate, Logout, LogoutCommit, RevokeDevice,
        FindSessions, RevokeSession, RevokeCommit, ReadPermissions, Abort,
        tables, history
  <2>2. reqs'[r].pc # "accept"
    BY <1>1, <1>11, PassStep
  <2>. QED BY <1>6, <2>1, <2>2
<1>. QED BY <1>7, <1>8, <1>9, <1>10, <1>11

\* Every step keeps the invariant.
LEMMA SocketNext == SocketInv /\ [Next]_vars => SocketInv'
<1>. SUFFICES ASSUME SocketInv, [Next]_vars PROVE SocketInv'
  OBVIOUS
<1>. USE DEF SocketInv
<1>1. IInv' /\ TypeInv
  BY RevocationNext DEF IInv, LoginInv, TypeInv
<1>2. ASSUME NEW r \in ReqId, Arrive(r) \/ Handle(r) \/ Abort(r)
      PROVE  TicketInv'
  <2>1. /\ \A s \in SessionId : disclosed[s] > 0 => disclosed'[s] > 0
        /\ UNCHANGED <<readers, everReaders>>
        /\ TokenKnown(r)'
    BY <1>2, TokenKnownStep
  <2>2. ASSUME NEW p \in ReqId \ {r} PROVE TokenKnown(p)'
    <3>1. reqs'[p] = reqs[p] /\ LocalOK(p) /\ TokenKnown(p)
      BY <1>1, <1>2, OneRequestMoves DEF IInv, LoginInv, LocalsOK, TicketInv
    <3>2. PermissionKnown(p) => PermissionKnown(p)'
      BY <2>1, <3>1 DEF PermissionKnown
    <3>. QED BY <2>1, <3>1, <3>2 DEF TokenKnown, At, LocalOK
  <2>3. (\A t \in TicketId : TicketRowOK(t)') /\ TicketOwnership'
    BY <1>2, TicketRowsStep
  <2>. QED BY <2>1, <2>2, <2>3 DEF TicketInv
<1>3. CASE Operate \/ Tick \/ UNCHANGED vars
  <2>1. UNCHANGED <<sessions, tickets, reqs, disclosed, accepts>>
    BY <1>3 DEF Operate, SetStatus, SetRoles, Tick, vars, tables, history
  <2>2. everReaders \subseteq everReaders' /\ readers' \subseteq everReaders'
    <3>1. CASE \E u \in UserId : SetRoles(u)
      BY <3>1 DEF SetRoles, TicketInv
    <3>2. CASE UNCHANGED <<readers, everReaders>>
      BY <3>2 DEF TicketInv
    <3>. QED
      BY <1>3, <3>1, <3>2 DEF Operate, SetStatus, Tick, vars, tables, history
  <2>3. \A t \in TicketId : TicketRowOK(t)'
    BY <2>1, <2>2 DEF TicketInv, TicketRowOK
  <2>4. ASSUME NEW r \in ReqId PROVE TokenKnown(r)'
    <3>1. PermissionKnown(r) => PermissionKnown(r)'
      BY <2>1, <2>2 DEF PermissionKnown
    <3>. QED BY <2>1, <3>1 DEF TicketInv, TokenKnown, At
  <2>5. TicketOwnership'
    BY <2>1 DEF TicketInv, TicketOwnership, At
  <2>. QED BY <1>1, <2>2, <2>3, <2>4, <2>5 DEF TicketInv
<1>. QED BY <1>1, <1>2, <1>3 DEF Next

\* The invariant of the tickets.
THEOREM TicketInvariant == Spec => []SocketInv
<1>. QED BY SocketInit, SocketNext, PTL DEF Spec

\* consume_ws_ticket opens one socket per ticket, for a client that has the
\* token, and on the health channel for users that held system.health.read.
THEOREM AuthorityTheorem == Spec => []SocketAuthority
<1>1. SocketInv => SocketAuthority
  <2>. SUFFICES ASSUME SocketInv, NEW t \in TicketId
                PROVE  /\ accepts[t] <= 1
                       /\ accepts[t] > 0 => disclosed[tickets[t].session] > 0
                       /\ accepts[t] > 0 /\ tickets[t].channel = HealthChannel
                          => sessions[tickets[t].session].user \in everReaders
    BY DEF SocketAuthority
  <2>. QED BY DEF SocketInv, TicketInv, TicketRowOK
<1>. QED BY <1>1, TicketInvariant, PTL

\* A ticket stays issued to the session it was issued to, and only ConsumeTicket
\* makes one used.
LEMMA TicketsKept ==
    ASSUME TypeInv, NEW r \in ReqId, Arrive(r) \/ Handle(r) \/ Abort(r)
    PROVE  /\ \A t \in TicketId : tickets[t].status # "none" =>
                                      tickets'[t].session = tickets[t].session
           /\ ~ConsumeTicket(r) =>
                 \A s \in SessionId : UsedTickets(s)' = UsedTickets(s)
<1>1. tickets \in [TicketId -> TicketRow]
  BY DEF TypeInv, TypeOK, TablesOK
<1>2. CASE PutTicket(r)
  <2>1. CASE UNCHANGED tickets
    BY <2>1 DEF UsedTickets
  <2>2. CASE \E t \in TicketId :
               /\ tickets[t].status = "none"
               /\ tickets' = [tickets EXCEPT ![t] =
                     [status |-> "live", session |-> reqs[r].session,
                      channel |-> reqs[r].channel,
                      expires |-> clock + TicketTtl]]
    <3>1. PICK t \in TicketId :
             /\ tickets[t].status = "none" /\ tickets'[t].status = "live"
             /\ \A z \in TicketId \ {t} : tickets'[z] = tickets[z]
      BY <1>1, <2>2
    <3>. QED BY <3>1 DEF UsedTickets
  <2>. QED BY <1>2, <2>1, <2>2 DEF PutTicket
<1>3. CASE ConsumeTicket(r)
  BY <1>1, <1>3 DEF ConsumeTicket, TicketRow
<1>4. CASE ~PutTicket(r) /\ ~ConsumeTicket(r)
  <2>1. UNCHANGED tickets
    BY <1>4
    DEF Arrive, Handle, StartLogin, Callback, ExchangeGrant, Request, Connect,
        AuthorizationUrl, ConsumeFlow, OidcExchange, SelectIdentity,
        InsertUser, UpdateUser, RegisterDevice, CreateSession,
        ResolveSession, PutLoginGrant, ConsumeLoginGrant, AuthenticateGrant,
        SendToken, Authenticate, Logout, LogoutCommit, RevokeDevice,
        FindSessions, RevokeSession, RevokeCommit, ReadPermissions, Accept,
        Abort, tables
  <2>. QED BY <2>1 DEF UsedTickets
<1>. QED BY <1>2, <1>3, <1>4

\* Each of the three checks reads the row of the session it lets somebody use,
\* so once the session has ended no request passes one.
LEMMA NobodyInStep ==
    ASSUME SocketInv, [Next]_vars, NEW s \in ended
    PROVE  LetIn(s)' \subseteq LetIn(s)
<1>. USE DEF SocketInv, IInv
<1>1. TypeInv /\ s \in SessionId /\ sessions[s].status = "revoked"
  BY DEF LoginInv, TypeInv, EndedStayEnded, TypeOK, HistoryOK
<1>2. ASSUME NEW r \in ReqId, Arrive(r) \/ Handle(r) \/ Abort(r),
             NEW p \in ReqId, p \in LetIn(s)'
      PROVE  p \in LetIn(s)
  <2>1. CASE p # r
    <3>1. reqs'[p] = reqs[p]
      BY <1>1, <1>2, <2>1, OneRequestMoves
    <3>2. At(p, "accept") =>
             tickets'[reqs[p].ticket].session = tickets[reqs[p].ticket].session
      BY <1>1, <1>2, TicketsKept
      DEF LoginInv, LocalsOK, LocalOK, At, TicketInv, TicketOwnership
    <3>. QED BY <1>2, <3>1, <3>2 DEF LetIn, At
  <2>2. CASE p = r /\ reqs'[r].pc = "sendToken"
    <3>1. AuthenticateGrant(r) /\ reqs'[r].session = s
      BY <1>1, <1>2, <2>2, PassStep DEF LetIn, At
    <3>. QED BY <1>1, <2>2, <3>1, AuthenticateGrantEffect DEF Idle
  <2>3. CASE p = r /\ reqs'[r].pc = "accept"
    <3>1. ConsumeTicket(r) /\ tickets'[reqs'[r].ticket].session = s
      BY <1>1, <1>2, <2>3, PassStep DEF LetIn, At, ActingPcs
    <3>2. /\ reqs'[r].ticket = reqs[r].ticket
          /\ TicketMatches(reqs[r].ticket, reqs[r].channel)
      <4>1. reqs'[r] # Idle
        BY <2>3 DEF Idle
      <4>. QED BY <1>1, <3>1, <4>1, ConsumeTicketEffect
    <3>3. reqs[r].ticket \in TicketId
      BY <3>1 DEF ConsumeTicket, LoginInv, LocalsOK, LocalOK, At
    <3>4. tickets[reqs[r].ticket].session = s
      BY <1>1, <1>2, <3>1, <3>2, <3>3, TicketsKept DEF TicketMatches
    <3>. QED BY <1>1, <3>2, <3>4 DEF TicketMatches
  <2>4. CASE p = r /\ reqs'[r].pc \in ActingPcs
    <3>1. reqs'[r].session = s
      BY <1>2, <2>4 DEF LetIn, At, ActingPcs
    <3>2. CASE Authenticate(r)
      <4>1. \/ reqs'[r] = Idle
            \/ sessions[reqs[r].session].status = "open"
        BY <1>1, <3>2, BecomesFrame DEF Authenticate, Resolves, Answered, TypeInv
      <4>. QED BY <1>1, <2>4, <3>1, <3>2, <4>1, AuthenticateEffect
           DEF Idle, ActingPcs
    <3>3. CASE reqs[r].pc \in ActingPcs /\ reqs'[r].session = reqs[r].session
      BY <2>4, <3>1, <3>3 DEF LetIn
    <3>. QED BY <1>1, <1>2, <2>4, <3>2, <3>3, PassStep
  <2>. QED BY <1>2, <2>1, <2>2, <2>3, <2>4 DEF LetIn, At
<1>3. CASE Operate \/ Tick \/ UNCHANGED vars
  <2>1. UNCHANGED <<tickets, reqs>>
    BY <1>3 DEF Operate, SetStatus, SetRoles, Tick, vars, tables
  <2>. QED BY <2>1 DEF LetIn, At
<1>. QED BY <1>2, <1>3 DEF Next, LetIn

\* A session that logout or revoke_device has ended lets nobody in any more.
THEOREM NobodyInTheorem == Spec => EndedLetsNobodyIn
<1>1. SocketInv /\ [Next]_vars =>
        [\A s \in ended : LetIn(s)' \subseteq LetIn(s)]_vars
  BY NobodyInStep
<1>. QED BY <1>1, TicketInvariant, PTL DEF Spec, EndedLetsNobodyIn

-----------------------------------------------------------------------------
(***************************************************************************)
(* The refinement of SessionLedger.                                        *)
(***************************************************************************)
\* The ledger has the same variables to begin with.
LEMMA LedgerInit == Init => Ledger!Init
<1>. SUFFICES ASSUME Init PROVE Ledger!Init
  OBVIOUS
<1>1. /\ \A s \in SessionId : /\ sessions[s].status = "none"
                              /\ grants[s].status = "none"
                              /\ TokenOf(s) = "kept"
                              /\ UsedTickets(s) = {}
      /\ ended = {}
      /\ {t \in TicketId : accepts[t] > 0} = {}
  BY DEF Init, Idle, TokenOf, DueToken, UsedTickets, At
<1>. QED BY <1>1 DEF Ledger!Init

\* A step that leaves life, codes, tokens, promises, used tickets and sockets
\* alone does not show in the ledger.
LEMMA LedgerStutter ==
    ASSUME \A s \in SessionId : /\ sessions'[s].status = sessions[s].status
                                /\ grants'[s].status = grants[s].status
                                /\ TokenOf(s)' = TokenOf(s)
                                /\ UsedTickets(s)' = UsedTickets(s),
           UNCHANGED <<accepts, ended>>
    PROVE  UNCHANGED Ledger!vars
<1>1. /\ UNCHANGED [s \in SessionId |-> sessions[s].status]
      /\ UNCHANGED [s \in SessionId |-> grants[s].status]
      /\ UNCHANGED [s \in SessionId |-> TokenOf(s)]
      /\ UNCHANGED [s \in SessionId |-> UsedTickets(s)]
      /\ UNCHANGED {t \in TicketId : accepts[t] > 0}
  OBVIOUS
<1>. QED BY <1>1 DEF Ledger!vars

\* Only the exchange that may send a token changes how far it has got.
LEMMA TokensKept ==
    ASSUME TypeInv, NEW r \in ReqId, Arrive(r) \/ Handle(r) \/ Abort(r),
           ~AuthenticateGrant(r), ~At(r, "sendToken")
    PROVE  \A s \in SessionId : TokenOf(s)' = TokenOf(s)
<1>1. ~SendToken(r)
  BY DEF SendToken
<1>2. UNCHANGED disclosed
  BY <1>1
  DEF Arrive, Handle, StartLogin, Callback, ExchangeGrant, Request, Connect,
      AuthorizationUrl, ConsumeFlow, OidcExchange, SelectIdentity,
      InsertUser, UpdateUser, RegisterDevice, CreateSession,
      ResolveSession, PutLoginGrant, ConsumeLoginGrant, Authenticate, Logout,
      LogoutCommit, RevokeDevice, FindSessions, RevokeSession, RevokeCommit,
      ReadPermissions, PutTicket, ConsumeTicket, Accept, Abort, history
<1>3. /\ reqs'[r].pc # "sendToken"
      /\ \A q \in ReqId \ {r} : reqs'[q] = reqs[q]
  BY PassStep, OneRequestMoves
<1>4. \A s \in SessionId : DueToken(s)' <=> DueToken(s)
  BY <1>3 DEF DueToken, At
<1>. QED BY <1>2, <1>4 DEF TokenOf

\* CreateSession is Create.
LEMMA LedgerCreate ==
    ASSUME SocketInv, NEW r \in ReqId, CreateSession(r)
    PROVE  \E s \in SessionId : Ledger!Create(s)
<1>1. TypeInv /\ UNCHANGED <<grants, tickets, history>>
  BY DEF SocketInv, IInv, LoginInv, TypeInv, CreateSession
<1>2. PICK s \in SessionId :
         /\ sessions[s].status = "none" /\ sessions'[s].status = "open"
         /\ \A z \in SessionId \ {s} : sessions'[z] = sessions[z]
  BY <1>1, CreateSessionEffect
<1>3. [z \in SessionId |-> sessions'[z].status] =
         [[z \in SessionId |-> sessions[z].status] EXCEPT ![s] = "open"]
  BY <1>2
<1>4. /\ At(r, "createSession") /\ ~AuthenticateGrant(r) /\ Handle(r)
      /\ ~ConsumeTicket(r)
  BY DEF CreateSession, AuthenticateGrant, ConsumeTicket, Handle, At
<1>5. \A z \in SessionId : /\ TokenOf(z)' = TokenOf(z)
                           /\ UsedTickets(z)' = UsedTickets(z)
  BY <1>1, <1>4, TokensKept, TicketsKept DEF At
<1>6. /\ UNCHANGED [z \in SessionId |-> grants[z].status]
      /\ UNCHANGED [z \in SessionId |-> TokenOf(z)]
      /\ UNCHANGED [z \in SessionId |-> UsedTickets(z)]
      /\ UNCHANGED {t \in TicketId : accepts[t] > 0}
      /\ UNCHANGED ended
  BY <1>1, <1>5 DEF history
<1>. QED BY <1>2, <1>3, <1>6 DEF Ledger!Create

\* PutLoginGrant is Seal: the session exists and has no code yet.
LEMMA LedgerSeal ==
    ASSUME SocketInv, NEW r \in ReqId, PutLoginGrant(r)
    PROVE  \E s \in SessionId : Ledger!Seal(s)
<1>. DEFINE s == reqs[r].session
<1>1. /\ At(r, "putGrant") /\ UNCHANGED <<sessions, tickets, history>>
      /\ grants' = [grants EXCEPT ![s] =
                        [status |-> "live", expires |-> GrantExpiry(r)]]
  BY DEF PutLoginGrant
<1>2. /\ TypeInv /\ s \in SessionId /\ Exists(s) /\ grants[s].status = "none"
      /\ grants \in [SessionId -> GrantRow]
  BY <1>1 DEF SocketInv, IInv, LoginInv, LocalsOK, LocalOK, GrantOwnership, At,
              SessionPcs, TypeInv, TypeOK, TablesOK
<1>3. [z \in SessionId |-> grants'[z].status] =
         [[z \in SessionId |-> grants[z].status] EXCEPT ![s] = "live"]
  BY <1>1, <1>2
<1>4. ~AuthenticateGrant(r) /\ ~ConsumeTicket(r) /\ Handle(r)
  BY <1>1 DEF AuthenticateGrant, ConsumeTicket, Handle, At
<1>5. \A z \in SessionId : /\ TokenOf(z)' = TokenOf(z)
                           /\ UsedTickets(z)' = UsedTickets(z)
  BY <1>1, <1>2, <1>4, TokensKept, TicketsKept DEF At
<1>6. /\ UNCHANGED [z \in SessionId |-> sessions[z].status]
      /\ UNCHANGED [z \in SessionId |-> TokenOf(z)]
      /\ UNCHANGED [z \in SessionId |-> UsedTickets(z)]
      /\ UNCHANGED {t \in TicketId : accepts[t] > 0}
      /\ UNCHANGED ended
  BY <1>1, <1>5 DEF history
<1>. QED BY <1>2, <1>3, <1>6 DEF Ledger!Seal, Exists

\* ConsumeLoginGrant is Spend, or refuses and shows nothing.
LEMMA LedgerSpend ==
    ASSUME SocketInv, NEW r \in ReqId, ConsumeLoginGrant(r)
    PROVE  (\E s \in SessionId : Ledger!Spend(s)) \/ UNCHANGED Ledger!vars
<1>. DEFINE s == reqs[r].session
<1>1. At(r, "exchangeGrant") /\ UNCHANGED <<sessions, tickets, history>>
  BY DEF ConsumeLoginGrant
<1>2. TypeInv /\ s \in SessionId /\ grants \in [SessionId -> GrantRow]
  BY <1>1 DEF SocketInv, IInv, LoginInv, LocalsOK, LocalOK, At, TypeInv,
              TypeOK, TablesOK
<1>3. ~AuthenticateGrant(r) /\ ~ConsumeTicket(r) /\ Handle(r)
  BY <1>1 DEF AuthenticateGrant, ConsumeTicket, Handle, At
<1>4. \A z \in SessionId : /\ TokenOf(z)' = TokenOf(z)
                           /\ UsedTickets(z)' = UsedTickets(z)
  BY <1>1, <1>2, <1>3, TokensKept, TicketsKept DEF At
<1>5. CASE UNCHANGED grants
  BY <1>1, <1>4, <1>5, LedgerStutter DEF history
<1>6. CASE /\ grants[s].status = "live"
           /\ grants' = [grants EXCEPT ![s] = GrantAfterConsume(s)]
  <2>1. [z \in SessionId |-> grants'[z].status] =
           [[z \in SessionId |-> grants[z].status] EXCEPT ![s] = "used"]
    BY <1>2, <1>6 DEF GrantAfterConsume, GrantRow
  <2>2. /\ UNCHANGED [z \in SessionId |-> sessions[z].status]
        /\ UNCHANGED [z \in SessionId |-> TokenOf(z)]
        /\ UNCHANGED [z \in SessionId |-> UsedTickets(z)]
        /\ UNCHANGED {t \in TicketId : accepts[t] > 0}
        /\ UNCHANGED ended
    BY <1>1, <1>4 DEF history
  <2>. QED BY <1>2, <1>6, <2>1, <2>2 DEF Ledger!Spend
<1>. QED BY <1>5, <1>6 DEF ConsumeLoginGrant

\* AuthenticateGrant is Grant, or finds the session ended and shows nothing.
LEMMA LedgerGrant ==
    ASSUME SocketInv, NEW r \in ReqId, AuthenticateGrant(r)
    PROVE  (\E s \in SessionId : Ledger!Grant(s)) \/ UNCHANGED Ledger!vars
<1>. USE DEF SocketInv, IInv
<1>1. /\ At(r, "openGrant") /\ Handle(r) /\ ~ConsumeTicket(r)
      /\ UNCHANGED <<sessions, grants, tickets, disclosed, accepts, ended>>
  BY DEF AuthenticateGrant, ConsumeTicket, Handle, At, tables, history
<1>2. TypeInv /\ \A q \in ReqId \ {r} : reqs'[q] = reqs[q]
  BY <1>1, OneRequestMoves DEF TypeInv, LoginInv
<1>3. PICK s \in SessionId :
         /\ s = reqs[r].session /\ grants[s].status = "used"
         /\ disclosed[s] = 0 /\ ~DueToken(s)
  BY <1>1 DEF LoginInv, LocalsOK, LocalOK, GrantOwnership, DueToken, At,
              ExchangePcs
<1>4. \A z \in SessionId : UsedTickets(z)' = UsedTickets(z)
  BY <1>1, <1>2, TicketsKept
<1>5. CASE reqs'[r] = Idle
  <2>1. \A z \in SessionId : DueToken(z)' <=> DueToken(z)
    BY <1>1, <1>2, <1>5 DEF DueToken, At, Idle
  <2>2. \A z \in SessionId : TokenOf(z)' = TokenOf(z)
    BY <1>1, <2>1 DEF TokenOf
  <2>. QED BY <1>1, <1>4, <2>2, LedgerStutter
<1>6. CASE reqs'[r] # Idle
  <2>1. /\ reqs'[r].pc = "sendToken" /\ reqs'[r].session = s
        /\ sessions[s].status = "open"
    BY <1>2, <1>3, <1>6, AuthenticateGrantEffect DEF Moves, Turns
  <2>2. /\ DueToken(s)'
        /\ \A z \in SessionId \ {s} : DueToken(z)' <=> DueToken(z)
    BY <1>1, <1>2, <1>3, <2>1 DEF DueToken, At
  <2>3. /\ TokenOf(s) = "kept" /\ TokenOf(s)' = "due"
        /\ \A z \in SessionId \ {s} : TokenOf(z)' = TokenOf(z)
    BY <1>1, <1>3, <2>2 DEF TokenOf
  <2>4. [z \in SessionId |-> TokenOf(z)'] =
           [[z \in SessionId |-> TokenOf(z)] EXCEPT ![s] = "due"]
    BY <2>3
  <2>5. UNCHANGED [z \in SessionId |-> UsedTickets(z)]
    BY <1>4
  <2>. QED BY <1>1, <1>3, <2>1, <2>3, <2>4, <2>5 DEF Ledger!Grant
<1>. QED BY <1>5, <1>6

\* The end of an exchange that was to send a token is Disclose.
LEMMA LedgerDisclose ==
    ASSUME SocketInv, NEW r \in ReqId, At(r, "sendToken"),
           SendToken(r) \/ Abort(r)
    PROVE  \E s \in SessionId : Ledger!Disclose(s)
<1>. USE DEF SocketInv, IInv
<1>1. /\ UNCHANGED <<sessions, grants, tickets, accepts, ended>>
      /\ ~ConsumeTicket(r)
      /\ Handle(r) \/ Abort(r)
  BY DEF SendToken, Abort, ConsumeTicket, Handle, At, tables, history
<1>2. /\ TypeInv /\ reqs'[r] = Idle
      /\ \A q \in ReqId \ {r} : reqs'[q] = reqs[q]
  <2>1. TypeInv
    BY DEF TypeInv, LoginInv
  <2>. QED BY <1>1, <2>1, OneRequestMoves, AnsweringEffect
<1>3. PICK s \in SessionId :
         /\ s = reqs[r].session /\ disclosed[s] = 0 /\ DueToken(s)
         /\ \A q \in ReqId \ {r} : At(q, "sendToken") => reqs[q].session # s
  BY DEF LoginInv, LocalsOK, LocalOK, GrantOwnership, DueToken, At, ExchangePcs
<1>4. /\ ~DueToken(s)'
      /\ \A z \in SessionId \ {s} : DueToken(z)' <=> DueToken(z)
  BY <1>2, <1>3 DEF DueToken, At, Idle
<1>5. /\ disclosed'[s] \in {0, 1}
      /\ \A z \in SessionId \ {s} : disclosed'[z] = disclosed[z]
  BY <1>3
  DEF SendToken, Abort, history, TypeOK, HistoryOK
<1>6. /\ TokenOf(s) = "due" /\ TokenOf(s)' \in {"sent", "kept"}
      /\ \A z \in SessionId \ {s} : TokenOf(z)' = TokenOf(z)
  BY <1>3, <1>4, <1>5 DEF TokenOf
<1>7. UNCHANGED [z \in SessionId |-> UsedTickets(z)]
  BY <1>1, <1>2, TicketsKept
<1>8. \E end \in {"sent", "kept"} :
         [z \in SessionId |-> TokenOf(z)'] =
            [[z \in SessionId |-> TokenOf(z)] EXCEPT ![s] = end]
  BY <1>6
<1>. QED BY <1>1, <1>3, <1>6, <1>7, <1>8 DEF Ledger!Disclose

\* The commits of revoke_session and of revoke_device are End: they revoke the
\* rows they hold, which are open.
LEMMA LedgerEnd ==
    ASSUME SocketInv, NEW r \in ReqId, LogoutCommit(r) \/ RevokeCommit(r)
    PROVE  Ledger!End
<1>. USE DEF SocketInv, IInv
<1>. DEFINE S == reqs[r].held
<1>1. /\ TypeInv /\ sessions \in [SessionId -> SessionRow] /\ LocalOK(r)
      /\ reqs[r].prior \subseteq SessionId /\ S \subseteq SessionId
  BY DEF TypeInv, TypeOK, TablesOK, RequestType, LoginInv, LocalsOK
<1>2. /\ sessions' = AfterRevoking(S)
      /\ UNCHANGED <<grants, disclosed, accepts>>
      /\ reqs[r].pc \in {"logoutCommit", "revokeSessions"}
  BY DEF LogoutCommit, RevokeCommit, At
<1>3. /\ \A s \in S : sessions[s].status = "open"
      /\ \A s \in SessionId : sessions'[s].status =
            IF s \in S THEN "revoked" ELSE sessions[s].status
  BY <1>1, <1>2 DEF AfterRevoking, RevocationInv, LocksOK, SessionRow
<1>4. /\ ended \subseteq ended'
      /\ \A s \in ended' \ ended :
            s \in SessionId /\ sessions'[s].status = "revoked"
  <2>1. CASE LogoutCommit(r)
    <3>1. At(r, "logoutCommit") /\ ended' = ended \cup {reqs[r].session}
      BY <2>1 DEF LogoutCommit
    <3>2. reqs[r].session \in SessionId
      BY <1>1, <3>1 DEF LocalOK, At, ActingPcs
    <3>3. reqs[r].session \in S \/ sessions[reqs[r].session].status = "revoked"
      BY <3>1 DEF RevocationInv, LocksOK
    <3>. QED BY <1>3, <3>1, <3>2, <3>3
  <2>2. CASE RevokeCommit(r)
    <3>1. /\ At(r, "revokeSessions") /\ ended' = ended \cup reqs[r].prior
          /\ reqs[r].hit = {}
      BY <2>2 DEF RevokeCommit
    <3>2. \A s \in reqs[r].prior :
             s \in S \/ sessions[s].status = "revoked"
      BY <3>1 DEF RevocationInv, RevocationsKnow
    <3>. QED BY <1>1, <1>3, <3>1, <3>2
  <2>. QED BY <2>1, <2>2
<1>5. /\ ~AuthenticateGrant(r) /\ ~At(r, "sendToken") /\ ~ConsumeTicket(r)
      /\ Handle(r)
  BY <1>2 DEF AuthenticateGrant, ConsumeTicket, Handle, At
<1>6. /\ UNCHANGED [s \in SessionId |-> grants[s].status]
      /\ UNCHANGED [s \in SessionId |-> TokenOf(s)]
      /\ UNCHANGED [s \in SessionId |-> UsedTickets(s)]
      /\ UNCHANGED {t \in TicketId : accepts[t] > 0}
  BY <1>1, <1>2, <1>5, TokensKept, TicketsKept
<1>7. [s \in SessionId |-> sessions'[s].status] =
         [s \in SessionId |-> IF s \in S THEN "revoked"
                              ELSE [z \in SessionId |-> sessions[z].status][s]]
  BY <1>3
<1>. HIDE DEF S
<1>. QED BY <1>1, <1>3, <1>4, <1>6, <1>7 DEF Ledger!End

\* ConsumeTicket is Admit, or refuses the handshake and shows nothing.
LEMMA LedgerAdmit ==
    ASSUME SocketInv, NEW r \in ReqId, ConsumeTicket(r)
    PROVE  \/ \E s \in SessionId, t \in TicketId : Ledger!Admit(s, t)
           \/ UNCHANGED Ledger!vars
<1>. USE DEF SocketInv, IInv
<1>. DEFINE t == reqs[r].ticket
<1>1. /\ At(r, "consumeTicket") /\ Handle(r)
      /\ UNCHANGED <<sessions, grants, disclosed, accepts, ended>>
  BY DEF ConsumeTicket, Handle, history
<1>2. TypeInv /\ ~AuthenticateGrant(r) /\ ~At(r, "sendToken")
  BY <1>1 DEF TypeInv, LoginInv, AuthenticateGrant, At
<1>3. \A z \in SessionId : TokenOf(z)' = TokenOf(z)
  BY <1>1, <1>2, TokensKept
<1>4. CASE UNCHANGED tickets
  <2>1. \A z \in SessionId : UsedTickets(z)' = UsedTickets(z)
    BY <1>4 DEF UsedTickets
  <2>. QED BY <1>1, <1>3, <2>1, LedgerStutter
<1>5. CASE /\ TicketMatches(t, reqs[r].channel)
           /\ tickets' = [tickets EXCEPT ![t].status = "used"]
  <2>1. t \in TicketId /\ tickets \in [TicketId -> TicketRow]
    BY <1>1 DEF LoginInv, LocalsOK, LocalOK, At, TypeOK, TablesOK
  <2>2. PICK s \in SessionId :
           /\ s = tickets[t].session /\ tickets[t].status = "live"
           /\ sessions[s].status = "open"
    BY <1>5, <2>1 DEF TicketMatches, LoginInv, RowsOK
  <2>3. TokenOf(s) = "sent"
    BY <2>1, <2>2 DEF TicketInv, TicketRowOK, TokenOf
  <2>4. \A u \in TicketId :
           /\ tickets'[u].session = tickets[u].session
           /\ tickets'[u].status = IF u = t THEN "used" ELSE tickets[u].status
    BY <1>5, <2>1 DEF TicketRow
  <2>. HIDE DEF t
  <2>5. /\ \A z \in SessionId : t \notin UsedTickets(z)
        /\ \A z \in SessionId \ {s} : UsedTickets(z)' = UsedTickets(z)
        /\ UsedTickets(s)' = UsedTickets(s) \cup {t}
    BY <2>1, <2>2, <2>4 DEF UsedTickets
  <2>6. [z \in SessionId |-> UsedTickets(z)'] =
           [[z \in SessionId |-> UsedTickets(z)] EXCEPT ![s] = @ \cup {t}]
    BY <2>5
  <2>7. UNCHANGED [z \in SessionId |-> TokenOf(z)]
    BY <1>3
  <2>8. Ledger!Admit(s, t)
    BY <1>1, <2>2, <2>3, <2>5, <2>6, <2>7 DEF Ledger!Admit
  <2>. QED BY <2>1, <2>8
<1>. QED BY <1>4, <1>5 DEF ConsumeTicket

\* Accept is Open: its ticket was used and has no socket yet.
LEMMA LedgerOpen ==
    ASSUME SocketInv, NEW r \in ReqId, Accept(r)
    PROVE  \E t \in TicketId : Ledger!Open(t)
<1>. USE DEF SocketInv, IInv
<1>. DEFINE t == reqs[r].ticket
<1>1. /\ At(r, "accept") /\ Handle(r)
      /\ UNCHANGED <<sessions, grants, tickets, ended>>
      /\ accepts' = [accepts EXCEPT ![t] = @ + 1]
  BY DEF Accept, Handle, tables
<1>2. /\ TypeInv /\ ~AuthenticateGrant(r) /\ ~At(r, "sendToken")
      /\ ~ConsumeTicket(r)
  BY <1>1 DEF TypeInv, LoginInv, AuthenticateGrant, ConsumeTicket, At
<1>3. /\ t \in TicketId /\ accepts[t] = 0 /\ tickets[t].status = "used"
      /\ accepts \in [TicketId -> Nat]
  BY <1>1 DEF LoginInv, LocalsOK, LocalOK, At, TicketInv, TicketOwnership,
              TypeOK, HistoryOK
<1>4. PICK s \in SessionId : t \in UsedTickets(s)
  BY <1>3 DEF LoginInv, RowsOK, UsedTickets
<1>5. /\ t \notin {u \in TicketId : accepts[u] > 0}
      /\ {u \in TicketId : accepts'[u] > 0} =
            {u \in TicketId : accepts[u] > 0} \cup {t}
  BY <1>1, <1>3
<1>6. /\ UNCHANGED [z \in SessionId |-> TokenOf(z)]
      /\ UNCHANGED [z \in SessionId |-> UsedTickets(z)]
  BY <1>1, <1>2, TokensKept, TicketsKept
<1>. HIDE DEF t
<1>. QED BY <1>1, <1>3, <1>4, <1>5, <1>6 DEF Ledger!Open

\* Every step of the service is a step of the ledger or does not show there.
LEMMA LedgerNext ==
    ASSUME SocketInv, [Next]_vars
    PROVE  Ledger!Next \/ UNCHANGED Ledger!vars
<1>0. TypeInv
  BY DEF SocketInv, IInv, TypeInv, LoginInv
<1>1. ASSUME NEW r \in ReqId, Arrive(r) \/ Handle(r) \/ Abort(r)
      PROVE  Ledger!Next \/ UNCHANGED Ledger!vars
  <2>1. CASE At(r, "sendToken")
    <3>1. SendToken(r) \/ Abort(r)
      BY <1>0, <1>1, <2>1, PassStep
    <3>. QED BY <2>1, <3>1, LedgerDisclose DEF Ledger!Next
  <2>2. CASE CreateSession(r) \/ PutLoginGrant(r) \/ ConsumeLoginGrant(r)
             \/ AuthenticateGrant(r)
    BY <2>2, LedgerCreate, LedgerSeal, LedgerSpend, LedgerGrant
    DEF Ledger!Next
  <2>3. CASE LogoutCommit(r) \/ RevokeCommit(r)
    BY <2>3, LedgerEnd DEF Ledger!Next
  <2>4. CASE ConsumeTicket(r) \/ Accept(r)
    BY <2>4, LedgerAdmit, LedgerOpen DEF Ledger!Next
  <2>5. CASE /\ ~At(r, "sendToken") /\ ~AuthenticateGrant(r)
             /\ ~ConsumeTicket(r)
             /\ UNCHANGED <<sessions, grants, accepts, ended>>
    BY <1>0, <1>1, <2>5, TokensKept, TicketsKept, LedgerStutter
  <2>6. CASE \/ Arrive(r) \/ Abort(r) \/ AuthorizationUrl(r)
             \/ ConsumeFlow(r) \/ OidcExchange(r) \/ SelectIdentity(r)
             \/ InsertUser(r) \/ UpdateUser(r) \/ RegisterDevice(r)
             \/ ResolveSession(r) \/ Authenticate(r) \/ Logout(r)
             \/ RevokeDevice(r) \/ FindSessions(r)
             \/ (\E s \in SessionId : RevokeSession(r, s))
             \/ ReadPermissions(r) \/ PutTicket(r)
    <3>1. UNCHANGED <<sessions, grants, accepts, ended>>
      BY <2>6
      DEF Arrive, StartLogin, Callback, ExchangeGrant, Request, Connect, Abort,
          AuthorizationUrl, ConsumeFlow, OidcExchange, SelectIdentity,
          InsertUser, UpdateUser, RegisterDevice, ResolveSession, Authenticate,
          Logout, RevokeDevice, FindSessions, RevokeSession, ReadPermissions,
          PutTicket, tables, history
    <3>. QED BY <2>1, <2>2, <2>4, <2>5, <3>1
  <2>7. SendToken(r) => At(r, "sendToken")
    BY DEF SendToken
  <2>. QED BY <1>1, <2>1, <2>2, <2>3, <2>4, <2>6, <2>7 DEF Handle
<1>2. CASE Operate \/ Tick \/ UNCHANGED vars
  <2>1. UNCHANGED <<sessions, grants, tickets, reqs, disclosed, accepts, ended>>
    BY <1>2 DEF Operate, SetStatus, SetRoles, Tick, vars, tables, history
  <2>2. \A s \in SessionId : /\ TokenOf(s)' = TokenOf(s)
                             /\ UsedTickets(s)' = UsedTickets(s)
    BY <2>1 DEF TokenOf, DueToken, UsedTickets, At
  <2>. QED BY <2>1, <2>2, LedgerStutter
<1>. QED BY <1>1, <1>2 DEF Next

\* To the holder of a token the service is the SessionLedger: whatever requests
\* run, each of their steps is one of its steps or invisible to it.
THEOREM LedgerRefinement == Spec => ImplementsLedger
<1>1. Init => Ledger!Init
  BY LedgerInit
<1>2. SocketInv /\ [Next]_vars => [Ledger!Next]_(Ledger!vars)
  BY LedgerNext
<1>. QED
  BY <1>1, <1>2, TicketInvariant, PTL DEF Spec, ImplementsLedger, Ledger!Spec
=============================================================================
