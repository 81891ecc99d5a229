# A TLA+ model of Pentagon5

Pentagon5 is the foundation of a trading platform: a Python authentication
service and API gateway on one PostgreSQL database, a Tauri desktop
application with a TypeScript API client, a shared Python runtime, and a
stand-alone paper trading engine. This directory models the parts of it that
keep state, checks them with TLC and proves the central properties with TLAPS.

Module and action names follow the source; `PROJECT.json` maps each definition
to the lines it models.

## 1. The system

| Part | State | Operations | Talks to |
|---|---|---|---|
| Authentication service (`services/authentication`) | identity tables: flows, users, identities, devices, sessions, session events, login grants, WebSocket tickets | `start_login`, `complete_login`, `exchange_login_grant`, `authenticate`, `logout`, `revoke_device`, `issue_ws_ticket`, `consume_ws_ticket` | PostgreSQL; the OIDC provider; the desktop over HTTP and WebSocket |
| API gateway (`services/api-gateway`) | none of its own | the same routes, in a second process on the same database | as above |
| OIDC client (`oidc.py`) | cached provider metadata | `metadata`, `authorization_url`, `exchange` | the provider |
| WebSocket server loop (`app.py`) | subscriptions of one socket | subscribe, unsubscribe, heartbeat | ticket table, at the handshake only |
| UUIDv7 generator (`pentagon5_runtime/uuid7.py`) | last millisecond, last random value, a lock | `uuid7`, `is_uuid7` | called from every thread |
| Request middleware (`observability.py`) | metrics | timeout, body limit, error envelope | wraps each handler |
| Desktop application and shell (`apps/macos-desktop`) | session state, Keychain token, pending callback | sign in, callback, sign out | API client; the Keychain |
| API client (`packages/api-client`) | one `ReconnectingWebSocket` per session | `start`, `stop`, connect, reconnect | gateway |
| Paper trading (`src/broker`, `src/strategy`) | orders, executions, positions, account, strategy status | `place_order`, `cancel_order`, `connect`, `start`, `on_event` | runner calls broker |
| Market data (`src/marketdata`) | an HTTP client, subscriptions | `connect`, `disconnect`, `get_quote`, `get_ohlcv`, `subscribe` | HTTP |
| Database schema (`infrastructure/database`, migrations 0001 and 0002) | every table, most of them not written by a service yet | foreign keys with `ON DELETE`, unique keys, append-only triggers | any SQL client |

The other directories under `services/` are placeholders with a README and no
code.

### What is hard here

* **Two processes, one database.** `complete_login` is a chain of separate
  transactions with an awaited call to the provider in the middle. Another
  request, in either process, gets in between any two of them; an exception, a
  crash or a timeout may cut the chain anywhere. Nothing but the form of the SQL
  (`DELETE ... RETURNING`, unique constraints, `WHERE revoked_at IS NULL`)
  keeps a replayed callback or code from being used twice.
* **Values used long after they were read.** The `now` of `complete_login` is
  taken before the provider answers; the principal of a request is resolved in
  one transaction and trusted in the next ones; permissions are read in a third.
* **Revocation under READ COMMITTED.** `revoke_device` sees the sessions that
  were committed when its statement began, and other writers of the same rows
  wait for it to commit.
* **A session that ends under a running connection.** Ticket request, handshake
  and accepted socket are three looks at the session, at most; the client has to
  tell a refusal from a failure by a status or a close code.
* **A cache filled across an await.** Logins share the provider's metadata, and
  the provider changes its document and its keys while they wait.
* **Referential actions.** One `DELETE` runs through several chains of
  `CASCADE`, `RESTRICT` and `SET NULL` at once, and through triggers.
* **Callbacks in the client.** A ticket that arrives after `stop()`, a close
  event after an error event, a timer that is armed while the user signs out.
* **Counters and fields at their limit.** The random field of a UUIDv7 wraps
  within a millisecond, the clock is set back, threads overtake each other.
* **Incremental bookkeeping.** Cash, positions, average prices and the account
  snapshot of the broker are each updated on their own by every fill.

The list `hazards` in `PROJECT.json` puts each at its line, with the properties
that would notice it going wrong.

### What correctness means, part by part

* Login: a state value makes at most one session, a code discloses its token at
  most once, the session belongs to the person the provider vouched for, and no
  delay extends the windows the configuration sets.
* Revocation: what a 204 answer promised stays so, by the owner's act only, and
  the event log tells it once.
* Tickets: one socket per ticket, and only with the authority it needs.
* Requests that hold rows while they wait for others never wait in a circle, and
  all are answered.
* OIDC: secrets go to checked endpoints only, and a rotation of keys does not
  make later logins fail.
* Schema: a workspace can be deleted unless something that must be kept keeps it,
  audit events never change, and no deletion elsewhere removes or detaches a
  trading record or somebody else's data.
* UUIDv7: increasing, never repeated, always well formed.
* Reconnecting client: one connection at a time, none after `stop()`, a state
  that is true, no endless reconnecting.
* Client and backend together: "denied" is true, and a session that ended leaves
  nothing behind that keeps trying.
* WebSocket loop: the subscription limit is exact, answers are in order, and no
  client is closed on without a cause.
* Desktop: memory, Keychain and connection agree, and a logout is final.
* Paper trading: the books agree with the executions, and never go negative.

## 2. The modules

### `AuthService` (`MCAuthService`; `AuthService_proofs`)

The authentication service in both processes. A request takes a slot of
`ReqId`; `reqs[r].pc` names the step it takes next, and the other fields of
`reqs[r]` are the handler's local variables. One action is one transaction,
one await, one statement of a transaction that may wait for a row while it holds
another, or the answer that carries a token: the points where another connection
can get in.

| Handler | Actions in order |
|---|---|
| `start_login` | `StartLogin`, `AuthorizationUrl` |
| `complete_login` | `Callback`, `ConsumeFlow`, `OidcExchange`, `SelectIdentity`, `InsertUser` or `UpdateUser`, `RegisterDevice`, `CreateSession`, `ResolveSession`, `PutLoginGrant` |
| `exchange_login_grant` | `ExchangeGrant`, `ConsumeLoginGrant`, `AuthenticateGrant`, `SendToken` |
| authenticated routes | `Request`, `Authenticate`, then `Logout` and `LogoutCommit`, or `RevokeDevice`, `FindSessions`, a `RevokeSession` per session and `RevokeCommit`, or `ReadPermissions` and `PutTicket` |
| WebSocket handshake | `Connect`, `ConsumeTicket`, `Accept` |
| a failure, a crash, a request given up | `Abort`, at every step |
| the world | `Tick` (the clock), `SetStatus` and `SetRoles` (an operator at the database) |

Reductions, and why they lose nothing the properties speak of:

* A transaction of one statement, or of statements that take no lock another
  action waits for, is atomic at its commit. `provision_identity` reads and
  then inserts or updates, so it is two steps: its race is between them.
* `revoke_device` takes the row of the device (`RevokeDevice`), finds the sessions
  its second UPDATE sees (`FindSessions`) and takes them one by one, in any
  order, waiting for whoever holds one and passing over those that were revoked
  meanwhile (`RevokeSession`). `revoke_session` takes one row (`Logout`). All of
  it is visible, and unlocked, only at the commit (`RevokeCommit`,
  `LogoutCommit`); in between readers see the old rows, and the writers
  `RegisterDevice`, `Logout`, `RevokeDevice` and `RevokeSession` wait.
* The locks that are left out are leaves, held by a transaction that takes no
  further one of those above, or that conflicts with none: the user row and the
  unique entries of `provision_identity`, and the key-share locks of foreign
  keys, which an UPDATE of other columns does not conflict with. Two users whose
  subjects swap e-mail addresses can wait for each other's unique entry;
  PostgreSQL then aborts one, which is `Abort`. Its deadlock detector has no other
  part in the model, so a circle of the rows above would be a deadlock here.
* A token leaves with the response (`SendToken`) and a socket opens with `accept()`
  (`Accept`), both after the transaction that looked at the session and without
  looking again.
* The timeout middleware answers 504 and either cancels the handler (`Abort`)
  or leaves the thread running (the step happens, nobody uses the answer). A
  lost response is the latter too.
* Tokens, codes, states and tickets are fresh identifiers, and fingerprints are
  injective. A login code is identified with the session it seals, a device with
  the pair its unique constraint makes a key. `disabled` and `deleted` users are
  the same to this code.
* History variables (`disclosed`, `accepts`, `ended`, `everReaders`, and the
  columns `flow` and `subject` of a session) record what was sent, opened,
  promised and vouched for. They decide nothing in a handler; a client presents
  a session's token only once it was disclosed. A session joins `ended` when
  the logout or the device revocation that covers it commits, which is before
  the 204 leaves, so the properties ask for more than what a client can see;
  `revoke_device` covers the sessions that were open on the device when the
  request was made.

### `SessionLedger`

The abstract specification of one opaque token: created, sealed under a code,
granted and sent once, admitting tickets, revoked, and promised to have ended;
eight actions and no requests, users, devices or clock. An exchange is let through
(`Grant`) and a handshake is (`Admit`) while the session is open; the token
arrives (`Disclose`) and the socket opens (`Open`) whenever they do, or never, also
after `End`. `AuthService` implements it by the mapping `Ledger` at its end: the
life of a session is the status of its row, its code the row of its grant, a token
is due while a request is at `sendToken`, and admitted are the tickets that were
consumed. What the ledger forbids is what crosses several handlers: an exchange or
a handshake let through after the revocation, a second token for a code, a promise
before the revocation is committed, a second socket for a ticket.

### `Uuid7` (`MCUuid7`; `Uuid7_proofs`)

`uuid7()` by threads of one process: `Call` enters, `Draw` is the section under
the lock (compare with the clock, carry, store), `Return` comes any time later.
`SetClock` moves the clock anywhere. The 48-, 12- and 62-bit fields are
`TimeMod`, `HiMod` and `LoMod`; `Value` packs them with version and variant, and
`Canonical` unpacks them the way `is_uuid7` does. The timestamp is bounded by
`ms < TimeMod` in the guards: the source has no guard, and 48 bits of
milliseconds end in the year 10889.

### `PaperTrading` (`MCPaperTrading`; `PaperTrading_proofs`)

`MockBrokerProvider` and `StrategyRunner`: `PlaceOrder` with `_apply_fill` and
the refreshed account in one action, `CancelOrder`, `Connect`, `Disconnect`,
`Start`, `Stop`, and `OnEvent`, which passes on any signal a strategy could
return, gated by the strategy's status. Rejected orders raise before they
change anything and are the disabled cases of `PlaceOrder`. `MarketValue` is the
sum of `_refresh_account`; the sums of `LedgerReplay` are written with the same
`SumFunction`.

### `ReconnectingSocket` (`LiveConnection_proofs`)

`ReconnectingWebSocket` and the browser under it. A slot of `Conn` is a
connection attempt from its timer (`armed`) over a pending `getTicket()`
(`ticket`) to a socket (`connecting`, `open`, `closing`), so that a second
chain of attempts would be visible as a second busy slot. `TimerFires`, `Ticket`,
`TicketFails`, `Open`, `InvalidMessage`, `Error` and `Close` are the callbacks.
`App.tsx` makes one instance per session and starts it once; so does `Start`.
In this module the environment is arbitrary: tickets and sockets succeed, fail
and are refused in any order. TLC runs it inside `LiveConnection`. Its theorems
are about this module alone, and hold in `LiveConnection` because that
implements it.

### `WebSocketSession` (`MCWebSocketSession`; `WebSocketSession_proofs`)

The loop of `websocket()` after the handshake that `AuthService` models. One
task serves a socket, so what interleaves is the client, which sends frames
ahead (`Send`) and leaves (`Disconnect`) at any await. `Receive` is a pass of the
loop up to its first send, `Ack` and `HealthEnvelope` are the sends, `SendFails`
is the `WebSocketDisconnect` a send may raise. A frame is abstracted to the case
the loop makes of it, with a case of its own for one that raises something other
than `ValueError` (an `operation` that is a list or an object): that ends the
handler, and the server closes with 1011. `sent` keeps which frame each answer was for, as the
correlation id does.

### `LiveConnection` (`MCLiveConnection`; `LiveConnection_proofs`)

`ReconnectingSocket` composed with the backend of one session: the module extends
it and joins each event of the client with what the backend and the network make
of it. `IssueTicket` answers the ticket request, `ConsumeTicket` and `Accept` take
the handshake, `HandlerEnds` is the loop that finds its client gone, and
`EndSession` happens at any time, once. The answer travels (`reply`), so the
session may end between the answer and its use, and between each two of these
steps. A refused handshake is a response 403 and reaches the browser as 1006,
not as the 1008 that `close()` was given; the codes of `Closed` say so.

### `OidcClient` (`MCOidcClient`; `OidcClient_proofs`)

`OIDCClient` of one process with concurrent logins, an action per await: `Begin`
reads the cache, `Discover` and `Store` fill it, `Post` and `GetJwks` are the
requests, `Validate` is the sequence of checks in `exchange`, and `RequestFails`
is any `httpx.HTTPError`. The provider changes its document (`ChangeDocument`)
and its keys (`ChangeKeys`: a key is published before it signs), and the process
restarts. A document and a token carry at most one flaw, since the first flaw
found is what decides; the operators `Accepted` and `Refusal` keep the order of
the checks. `AuthService` has all of this as one step, `OidcExchange`.

### `DatabaseSchema` (`MCDatabaseSchema`; `DatabaseSchema_proofs`)

The schema at head. `References` lists every foreign key of both migrations with
its `ON DELETE` action, `Keys` the unique keys made of foreign keys, `AppendOnly`
the statements the triggers of `audit.events` refuse. A row is `<<table, number>>`
and the rows it refers to. The actions are the statements of any SQL client that
succeed: `Insert`, `Relink` (an `UPDATE` of one foreign key), `Delete`,
`Truncate`. `Delete` computes what PostgreSQL does in rounds: the row, the rows
that cascade from it (`FirstRound`), the rows that cascade from those
(`Deleted`); `RESTRICT` spares a row that goes in the same round; `SET NULL`
blanks the columns that are left (`Blanked`) and, being an `UPDATE`, fires the
triggers (`Raises`).

### `DesktopApp` (`MCDesktopApp`; `DesktopApp_proofs`)

`App.tsx` over the Keychain commands of the shell. An async function
(`authenticate`, `handleCallback`, `login`, `logout`, the effect of the first
render) is a task in a slot of `Task`, with a step per await: a command to the
shell or the backend takes effect in one step (`Forget`, `StoreToken`,
`Exchange`, `SignOut`), and its answer is acted on in a later one (`Forgotten`,
`Stored`, ...), so answers come in any order. `session` and `token` are what the
setters were last given; `Render` copies them to `shown`, which is what the
buttons and the closures of `logout` see, and runs the effect that owns the
connection. `Restart` loses all of it but the Keychain. `Issue` and `Expire` are
the browser and the backend; a callback URL may be delivered again or never.
`socket` is the token the running `ReconnectingSocket` was made for.

## 3. The runs

| Run | Instance | Checks |
|---|---|---|
| `auth_login` | 2 requests, 2 flows, sessions, users, subjects and e-mail addresses, 1 device key, clock 0..2 with TTLs 1, 1 and 2, an operator that disables users | `TypeOK`, `TokenDisclosedOnce`, `OneSessionPerFlow`, `SessionIdentity`, `IdentityIntegrity`, `LoginWindow`, `LoginInv`, `EndedStayEnded`, `EventLedger`, `RevokedByOwner` |
| `auth_ticket` | 2 requests, 2 sessions, 1 ticket, 2 channels, roles that come and go, clock 0..1 | `SocketAuthority`, `EndedLetsNobodyIn`, `ImplementsLedger` |
| `auth_live` | 2 requests, 2 sessions on one device, fair | `NoDeadlock`, `RequestsAnswered` |
| `oidc_client` | 2 logins, 3 keys of which two share an id, 1 new document, 1 restart, production | `OnlySoundEndpoints`, `KeysAreFresh` |
| `live_connection` | 3 slots, 5 reconnects (the default of the code), fair | `SingleChain`, `StoppedIsSilent`, `StateHonest`, `DeniedIsTrue`, `Settles`, `EventuallyQuiet` |
| `invalid_frame` | the same; a counterexample is expected | `DeniedIsClosed` |
| `websocket_session` | 2 ids, a limit of 1 (the default), 4 frames | `SubscriptionLimit`, `ClosedForCause`, `AnswersInOrder` |
| `desktop_session` | 2 tasks, 2 logins, 1 restart | `LogoutFinal`, `SocketFollowsSession`, `AtRestIfSequential` |
| `desktop_at_rest` | the same; a counterexample is expected | `ActiveTokenAtRest` |
| `uuid7` | 2 threads, fields of 3, 2 and 2 values | `MonotonicCalls`, `NeverReissued`, `Canonical` |
| `paper_trading` | 2 symbols, quantities 1 and 2, cash for three units, 5 orders | `TypeOK`, `LedgerReplay`, `ValueConserved`, `ExecutionsMatchOrders` |
| `schema` | 2 users, 2 workspaces and a row of each of 9 tables around them | `WorkspaceDeletion`, `TradingRecordsKept`, `AuditKept`, `AccountDeletion` |

**Why the bounds are enough for the interesting cases.** Every race of the
service is between two requests for one row; two slots show it, with two
values of everything that could be confused. Identifiers are never reused, so
two flows are a login and its rival, and slots are freed by answers, so a
behaviour has many more requests than slots. For more requests than two there
are the proofs. The clock runs past every TTL where a property speaks of time,
and stands still where none does. Two logins suffice for a cache with one entry;
of three keys one is rotated in, and two can be mistaken for each other. With
three slots a broken client would show two chains and still have room. Four
frames reach the limit, repeat, free and exceed it. Two tasks overlap in
every pair of async functions; the second login brings the newer token that an
older task can clobber, and the restart the saved one. Three timestamps and four
random values let the random field wrap while the clock is behind, ahead and
level. Cash for three units makes purchases fail, and five orders open, average,
close and reopen a position. The tables of the `schema` run are those where
chains of `CASCADE`, `RESTRICT` and `SET NULL` meet: a user deletes sessions and
through them tickets, blanks the device of others' sessions, and is held by the
workspaces and configurations that name them, and a risk state can borrow the
configuration of the other workspace.

**Symmetry** is declared on interchangeable identifiers, and not in the runs
with liveness properties.

**Deadlock** is checked except in the authentication runs and that of the
WebSocket loop: there the identifiers are used up in the end and an idle server
is a legitimate last state, and a closed socket is too. That no request hangs
before that is `NoDeadlock`, about the rows they wait for, and `RequestsAnswered`.

**Fairness.** `AuthService`: a handler that can take its step takes it (the
event loop schedules it and every provider call has a timeout): weak fairness of
`Handle`. A writer waiting for a row lock stands in PostgreSQL's queue for it:
strong fairness of the four waiting steps, since a lock that is taken and
released again by others would defeat weak fairness. No fairness on arrivals,
aborts, the operator or the clock. `LiveConnection`: timers fire, `fetch`
settles, a socket that is connecting or closing ends up open or closed, and the
server notices a client that left. Nothing makes an open socket close, a ticket
succeed or the user stop. The other modules state no fairness.

### What the runs show

All properties hold except `ActiveTokenAtRest` and `DeniedIsClosed`.

`ActiveTokenAtRest`: the README of the desktop says
that the token is stored in the Keychain, that the user is restored from it, and
that tokens are "in Keychain at rest". When a callback URL launches the
application, the check of the saved token and the exchange of the new code run
side by side. A check that fails late deletes the Keychain entry, whichever token
it holds by then, and the application ends signed in with a token that the next
start will not find. A check that succeeds late puts the older token back in
memory while the Keychain holds the newer one. `AtRestIfSequential` shows that
overlapping tasks are the only cause: without them memory and Keychain agree
through failing commands, lost answers and restarts.

`DeniedIsClosed`: when a frame does not parse, `onmessage` reports "denied" and
calls `close(1008, ...)`, and the test of the client expects the socket to be
closed by it. A browser's WebSocket throws for any code a page gives but 1000 and
3000 to 4999; the test's fake socket does not. So the socket stays open and goes
on receiving while the desktop shows the connection as denied. `StateHonest` and
`DeniedIsTrue` state what is left: an open socket is shown as connected or, after
such a frame, as denied, and "denied" without a socket is the backend's word.

Points a reader of the code may not expect:

* A session created by a login that is already past `register_device` when
  `revoke_device` takes its snapshot is not revoked with the device. It is
  unusable as long as the device is revoked, and usable again when the device
  logs in again, which clears the revocation. The model reaches this state. No
  document says otherwise, so no property forbids it; `EndedStayEnded` is about
  the sessions that were open when the revocation was requested.
* A ticket issued by a request past authentication survives the logout of its
  session as a row, and is never consumed, because `consume_ws_ticket` joins the
  session. An accepted socket, on the other hand, is never checked again.
* A logout may be answered between the transaction that consumes a ticket and
  `accept()`, or between that of an exchange and its response: the socket then
  opens, and the token arrives, for a session that has ended. The model reaches
  both. `EndedLetsNobodyIn` says what holds: nobody who has not passed the check
  by the time of the commit ever passes it.
* `StoppedIsSilent` needs both re-reads of `stopped`, after the ticket and in
  the close handler, and needs an instance to be started once. Starting a
  stopped instance again while a ticket is pending would make two chains.
* A logout in the desktop is final for the Keychain in every interleaving. In
  memory a check of the same token that was answered before the logout and is
  acted on after it brings the token back, until the next request is refused;
  `LogoutFinal` allows just that.
* An audit event keeps every user and workspace it names from being deleted: its
  foreign keys are `ON DELETE SET NULL`, which is an update, which the
  append-only trigger refuses.
* Nothing ties the configuration of a `risk_states` row to the row's own
  workspace: a state of one workspace on a configuration of another keeps that
  other from being deleted (`Keeping`). A workspace's own state restricts its own
  configuration too, and does not keep it, since both are deleted in one round.
* The OIDC metadata are cached until the process restarts: when the provider
  moves its endpoints, every login fails until then. Keys are requested for each
  login, and follow a rotation.
* A WebSocket handshake refused for a spent or revoked ticket looks to the client
  like a lost connection. It tries again, and it is the refused ticket request
  that ends in "denied".
* When a callback launches the application and the backend's status is slow, the
  effect of the first render shows "signed-out" over a session that was just
  signed in. No document speaks of it.

## 4. What is proved

`AuthService_proofs`, for any sets of requests, flows, sessions, users, devices
and tickets, and any positive TTLs (`TtlAssumption`), `None` being different
from every identifier (`NoneAssumption`):

* `TypeCorrect`: `Spec => []TypeOK`.
* `LoginInvariant`: `Spec => [](TypeOK /\ LoginInv)`.
* `OneSessionTheorem`: `Spec => []OneSessionPerFlow`.
* `DisclosureTheorem`: `Spec => []TokenDisclosedOnce`.

Neither safety property is inductive. That a flow makes one session rests on
which request holds it: a flow is consumed by one callback, no two requests
inside a login have the same flow, and none of them that has not created its
session yet has one already (`FlowOwnership`). That a token is disclosed once
rests in the same way on the code: not stored before `PutLoginGrant`, consumed
by one exchange, undisclosed until then (`GrantOwnership`). Both need the local
variables of a handler to be set when it uses them (`LocalsOK`) and rows to
refer to rows (`RowsOK`). `LoginInv` is the conjunction of the four. The proof
first shows, action by action, what a step does to the tables (the `...Effect`
lemmas), and then takes each part of the invariant through the steps that can
disturb it; steps that touch none of its rows are dealt with together.

On these invariants the rest of the module builds, under the same assumptions, in
four parts:

* **Identity**: `IdentityTheorem`, `IntegrityTheorem`, `WindowTheorem`. The three
  properties speak of rows, and the rows are written from local variables that
  were filled transactions earlier. `LoginClaims` carries them across: between
  `SelectIdentity` and `CreateSession` the subject stays bound to the user the
  request found or made, the device row is that of the flow's key, and the `now`
  the request goes on with was taken before the flow expired.
* **Revocation**: `EndedTheorem`, `LedgerTheorem`, `OwnerTheorem`. The invariant
  `IInv` adds that a request acts for the user of the session it authenticated
  (`ActsForOwner`) and, for the window between the second UPDATE of
  `revoke_device` and its commit, that each session the answer will cover is
  among the rows it holds, those it still has to take, or revoked already
  (`RevocationsKnow`). Without it the commit could promise the end of a session
  that it does not revoke. `LocksOK` says who holds what: no row has two holders.
* **Locks**: `NoDeadlockTheorem`. Whoever waits, waits for a request that is
  further on: a request that wants its first row waits for holders of rows, a
  revocation that holds its device waits for logouts only, because two revocations
  hold different devices and a session has one, and a logout that holds its row
  waits for nobody.
* **Admission**: `AuthorityTheorem`, `NobodyInTheorem`. `TicketInv` says what a
  stored ticket proves of its session and its user, what a request in progress
  knows of the token and of the permission it has read, and that a ticket about to
  be accepted is used, by one request, and has opened nothing (`TicketOwnership`).
* **Refinement**: `LedgerRefinement`, `Spec => ImplementsLedger`. Initial states
  map to initial states; a lemma for each action that writes a session, a grant
  or a ticket shows which step of `SessionLedger` it is (`CreateSession` is
  `Create`, `PutLoginGrant` is `Seal`, `ConsumeLoginGrant` is `Spend`,
  `AuthenticateGrant` is `Grant`, `SendToken` is `Disclose`, and so is an `Abort`
  that loses the answer, `LogoutCommit` and `RevokeCommit` are `End`,
  `ConsumeTicket` is `Admit`, `Accept` is `Open`), and every other step leaves the
  mapped variables alone. The guards of the ledger's steps come from the
  invariants above.

`Uuid7_proofs`, for every set of threads and every size of the fields
(`FieldAssumption`: positive): `MonotonicTheorem`, `UniqueTheorem` and
`CanonicalTheorem`. The invariant adds to the properties `DrawnInv`: what a
thread has drawn is not above what the module remembers, and distinct draws
are distinct. The rest is arithmetic of packed fields (`ValueOrder`): the packed
value is ordered as the pair of timestamp and random value.

`OidcClient_proofs`, for any sets of logins and keys, any number of documents
(`KeyAssumption`: there are finitely many keys, at least one; `NoneAssumption`):
`ClientTypes`, `SoundEndpoints`, `KeysFresh`. `KeysAreFresh` is about a step of
a login, and needs to know what happened to its key since its token was made:
`KeyFollows` says that, unless the key set changed in between, the key is still
published before the login reads the key set, and in the login's copy
afterwards.

`LiveConnection_proofs`, for any number of slots and reconnects
(`AttemptsAssumption`), first about the client alone, whatever its tickets and
sockets do: `SingleChainTheorem`, `StoppedTheorem`, `HonestTheorem`. The
properties do not say what `this.timer` and `this.socket` refer to, and every
callback acts through them. `FieldsNameSlots` does: an armed slot is the
timer's, and a slot is a socket exactly if it is the current one. `OneBusy` is
`SingleChain` without the count, and `Silent` bounds what may be left over after
`stop()`: a ticket on its way or a closing socket.

* **The part of `Settles` and `EventuallyQuiet` that needs no fairness.**
  `TryingTheorem`: while the client shows "connecting" or "reconnecting", an
  attempt is under way. `BudgetTheorem`: each step that leaves it trying lowers
  `Budget`, the reconnects that are left and then the stages of the current
  attempt. `LateBudgetTheorem`: once the session has ended, every event of the
  connection lowers a budget and nothing raises it. It also counts the one socket
  that may still open, when its handshake was admitted before the end, since
  opening it forgives the reconnects. So neither goes on forever; that the client
  does not stand still in between is fairness, and TLC's.
* **The composition.** `LiveImplementsSocket`, `LiveSpec => Spec`: every step of
  the composition is an event of the client or invisible to it, so the theorems
  above hold against the backend too (`LiveSocketTheorem`).
* **What the backend adds.** `DeniedTheorem`. The invariant `LiveIInv` puts
  together that a ticket is refused for an ended session only (`BackendInv`),
  what the client's own invariant says of a stopped instance and of the socket
  a frame arrives on, and `DeniedIsTrue` itself. Its part `SlotsAgree` says that
  what the two ends know of a slot is of the same attempt; `AcceptedTheorem`
  follows, that an open socket was accepted in this attempt and not in one
  before.

`WebSocketSession_proofs`, for every limit, any ids and any number of frames
(`LimitAssumption`): `LoopTypes`, `LimitHolds`, `CauseHolds`, `OrderHolds`.
`SetStands` identifies the set the loop keeps with what the frames read so far
leave standing, and `Answered` says which answers are out at each point of the
loop, between an acknowledgement and its health envelope in particular. The
step from n frames to n + 1 is a lemma (`StandingStep`), so no induction is
needed.

`DesktopApp_proofs`, for any number of tasks, logins and restarts
(`BoundAssumption`): `DesktopTypes`, `SocketOfSession`, `LogoutIsFinal`,
`SequentialAtRest`. That a removed token cannot come back to the Keychain rests
on `StoredOnce`: a token is stored by the one task that exchanged its grant,
before anything else holds it. `NotInKeychain` covers the time between the
removal and the moment its task hears of it. `Sequential` is the invariant
behind `AtRestIfSequential`: what each step may rely on as long as no two tasks
have overlapped.

`DatabaseSchema_proofs`, for any set of rows of the modelled tables
(`RowAssumption`), about all foreign keys of both migrations:
`WorkspacesAreDeletable`, `AuditEventsAreKept`, `TradingRecordsAreKept`,
`AccountsAreDeletedAlone`. They rest on the lemma `ReferentialIntegrity`, which is
what PostgreSQL gives for any schema. The argument is about the shape of this one
(`SchemaShaped`): cascades start at five root tables or at the three that hang
off them, so two rounds end them; no `SET NULL` column is part of a key, so
blanking never makes two rows equal; the foreign keys of orders, executions,
positions and manual exits are all `RESTRICT`, so a deletion elsewhere never
reaches them; and what cascades from a user names that user in `user_id`, or
is a ticket or an event of one of that user's sessions. What surrounds a workspace
(`SchemaAroundWorkspaces`) leaves four ways to keep one: an order, position or
manual exit of its own, an event that names it, and a risk state that is not in
its first round but names a configuration that is.

`PaperTrading_proofs`, for any symbols, quantities, price and starting cash
(`AmountAssumption`: quantities and price positive, cash not negative) and any
number of orders: `TypeTheorem`, `ReplayTheorem`, `ConservationTheorem`,
`MatchTheorem`. They are proved together, since each fill relies on all of them:
`CancelOrder` changes nothing because every order is filled (`MatchTheorem`),
the average stays the price because the positions held so far were averaged at
it (`ConservationTheorem`), and the equity stays because the cash lost what the
positions cost (`Balanced`). The books are sums, over the executions and over the
positions, and the library defines a sum by recursion over a set in an order of
its own choosing. The first part of the module shows that such a sum exists for
a finite set of integers (`SumsExist`), depends on the summed function alone
(`SumsAgree`), may be taken in any order (`SumSplits`), and therefore changes
with the function at one point by the change at that point (`SumChanges`), which
is what one fill does. Each of the three is an induction over the subsets of a
finite set, made without an induction rule: a set of counterexamples would have
a minimal element (`MinimalSubset`, from the well-foundedness of strict subsets).

### Only model-checked

`RequestsAnswered`, `Settles`, `EventuallyQuiet`: liveness under
fairness is out of the prover's reach, since it needs to reason about when an
action is enabled. Every invariant, action property and refinement of the runs
that pass is proved.

The type invariants of `Uuid7`, `OidcClient`, `ReconnectingSocket`,
`WebSocketSession`, `DesktopApp` and `DatabaseSchema` are in no run: they are part of what is
proved.

## 5. What is not modelled

* Body limits, metrics, CORS, logging, envelopes, configuration: checks and
  conversions without state between two requests.
* Rounding. Amounts are exact in `PaperTrading`; the code's `Decimal` is, up to 28
  significant digits, so what is shown holds of amounts that stay within them.
* A backend that accepts every socket and then closes it: `onopen` forgives the
  attempts made, so the client keeps reconnecting, as it is written to. For
  `Settles` a connection that opened has settled.
* Roles and permissions, apart from who holds `system.health.read`, the one
  permission the code asks for.
* The desktop's messages and its display of the user, and the shell's validation
  of the authorization URL, which is one way for `login` to fail.
* Market data: one HTTP request and the parsing of one answer per call; nothing
  interleaves.
* In the schema, check constraints, unique constraints that involve columns other
  than foreign keys, indexes and `TRUNCATE ... CASCADE`. The transitions of the
  trading mode have no code yet.
* The placeholder services.
* Scripts, containers, generated contracts.

## 6. Plan

Done: `AuthService` with `SessionLedger`, `Uuid7`, `OidcClient`,
`ReconnectingSocket`, `LiveConnection`, `WebSocketSession`, `DesktopApp`,
`DatabaseSchema` and `PaperTrading`, checked, and proved but for their liveness.

Left:

1. The choice of the latest complete candle in `src/marketdata`, as a function
   against its definition over bounded inputs.
2. The request middleware with its timeout as a component of its own; it is
   part of `AuthService` as `Abort` now.
3. A second `start()` of the same `ReconnectingWebSocket`, which the class
   allows and the desktop never does.
4. The state machines that only the schema knows so far (trading mode, manual
   exits, orders), when a service implements them.
5. `LiveConnection` under `DesktopApp`, so that a sign-out and a lost connection
   overlap across the two.
