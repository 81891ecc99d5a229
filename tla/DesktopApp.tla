----------------------------- MODULE DesktopApp -----------------------------
(***************************************************************************)
(* The desktop's session: App.tsx over the Keychain commands of lib.rs,    *)
(* across restarts of the application.  An async function is a task; a     *)
(* step of it runs from one await to the next, so tasks interleave at      *)
(* their awaits, and answers of the backend and of the Keychain come back  *)
(* in any order.  React collects what the steps set and renders later.     *)
(*                                                                         *)
(* Abstractions.  The n-th login code and the session token exchanged for  *)
(* it are both n.  The user and the message are left out: they are set     *)
(* together with the token and the session.  The reconnecting WebSocket    *)
(* (module ReconnectingSocket) is here the token it was made for.          *)
(***************************************************************************)
EXTENDS Naturals

CONSTANTS
    Task,           \* slots for async functions in progress
    MaxLogins,      \* bound on the login codes the backend issues
    MaxRestarts     \* bound on the restarts of the application

ASSUME BoundAssumption == MaxLogins \in Nat /\ MaxRestarts \in Nat

Token == 1 .. MaxLogins
None  == 0

VARIABLES
    session, token, \* what the setters were last given
    backend,        \* the backend's status was read
    shown,          \* what was rendered: the state the handlers see
    socket,         \* the token of the running connection
    tasks,          \* async functions in progress
    keychain,       \* the auth-token entry
    deviceKey,      \* the device-key entry exists
    browser,        \* a login is open in the browser
    codes,          \* backend: login grants
    open,           \* backend: open sessions
    restarts,
    overlapped,     \* history: two tasks were in progress together
    left            \* history: tokens whose logout ran to its end

state    == <<session, token, backend>>
rendered == <<shown, socket>>
shell    == <<keychain, deviceKey>>
world    == <<browser, codes, open, restarts>>
vars == <<state, rendered, tasks, shell, world, overlapped, left>>

Done   == [step |-> "none", token |-> None, answer |-> "none"]
Launch == [Done EXCEPT !.step = "load"]
Blank  == [session |-> "disconnected", token |-> None, backend |-> FALSE]

At(k, s)   == tasks[k].step = s
Goes(k, s) == tasks' = [tasks EXCEPT ![k].step = s]
Ends(k)    == tasks' = [tasks EXCEPT ![k] = Done]
Sets(s, t) == session' = s /\ token' = t /\ UNCHANGED backend
Shows(s)   == Sets(s, token)

\* A handler is called: an async function starts in a free slot.
Begins(k, q) ==
    /\ tasks[k] = Done
    /\ tasks' = [tasks EXCEPT ![k] = q]
    /\ overlapped' = (overlapped \/ \E j \in Task : tasks[j] # Done)

Init ==
    /\ session = "disconnected"
    /\ token = None
    /\ backend = FALSE
    /\ shown = Blank
    /\ socket = None
    /\ \E k \in Task : tasks = [j \in Task |-> IF j = k THEN Launch ELSE Done]
    /\ keychain = None
    /\ deviceKey = FALSE
    /\ browser = FALSE
    /\ codes = [c \in Token |-> "none"]
    /\ open = {}
    /\ restarts = 0
    /\ overlapped = FALSE
    /\ left = {}

-----------------------------------------------------------------------------
(***************************************************************************)
(* Rendering.  The effect on [client, session, token] stops the connection *)
(* of the last render and makes one for a signed-in session.               *)
(***************************************************************************)
NeverStopped ==                       \* mutant: no cleanup, no stopSocket()
    IF session = "authenticated" THEN token ELSE socket
SocketAfterEffect ==
    IF session = "authenticated" THEN token ELSE None

Render ==
    /\ shown # [session |-> session, token |-> token, backend |-> backend]
    /\ shown' = [session |-> session, token |-> token, backend |-> backend]
    /\ socket' = IF <<session, token>> # <<shown.session, shown.token>>
                 THEN SocketAfterEffect ELSE socket
    /\ UNCHANGED <<state, tasks, shell, world, overlapped, left>>

-----------------------------------------------------------------------------
(***************************************************************************)
(* The effect of the first render: the backend's status and the saved      *)
(* token, both awaited, then authenticate(savedToken).                     *)
(***************************************************************************)
LoadToken(k) ==
    /\ At(k, "load")
    /\ tasks' = [tasks EXCEPT ![k].step = "status", ![k].token = keychain]
    /\ UNCHANGED <<state, rendered, shell, world, overlapped, left>>

Status(k) ==
    /\ At(k, "status")
    /\ backend' = TRUE
    /\ \/ /\ tasks[k].token # None
          /\ Goes(k, "getSession")
          /\ UNCHANGED <<session, token>>
       \/ /\ tasks[k].token = None
          /\ session' = "signed-out"
          /\ Ends(k)
          /\ UNCHANGED token
    /\ UNCHANGED <<rendered, shell, world, overlapped, left>>

\* Either of the two is rejected.
StatusFails(k) ==
    /\ At(k, "load") \/ At(k, "status")
    /\ Shows("disconnected")
    /\ Ends(k)
    /\ UNCHANGED <<rendered, shell, world, overlapped, left>>

Failure == {"expired", "denied"}

\* The backend's answer to GET /v1/auth/session leaves; no answer is an error
\* too, and a 403 is told apart.
GetSession(k) ==
    /\ At(k, "getSession")
    /\ \E a \in Failure \cup {b \in {"authenticated"} : tasks[k].token \in open} :
          tasks' = [tasks EXCEPT ![k].step = "checked", ![k].answer = a]
    /\ UNCHANGED <<state, rendered, shell, world, overlapped, left>>

Checked(k) ==
    /\ At(k, "checked")
    /\ \/ /\ tasks[k].answer = "authenticated"
          /\ Sets("authenticated", tasks[k].token)
          /\ Ends(k)
       \/ /\ tasks[k].answer # "authenticated"
          /\ Goes(k, "forget")
          /\ UNCHANGED state
    /\ UNCHANGED <<rendered, shell, world, overlapped, left>>

\* delete_auth_token; its failure is ignored here.
Forget(k) ==
    /\ At(k, "forget")
    /\ keychain' \in {None, keychain}
    /\ Goes(k, "forgotten")
    /\ UNCHANGED <<state, rendered, deviceKey, world, overlapped, left>>

Forgotten(k) ==
    /\ At(k, "forgotten")
    /\ Sets(tasks[k].answer, None)
    /\ Ends(k)
    /\ UNCHANGED <<rendered, shell, world, overlapped, left>>

-----------------------------------------------------------------------------
(***************************************************************************)
(* login(): the device key, the authorization URL, the browser.            *)
(***************************************************************************)
Login(k) ==
    /\ shown.backend
    /\ shown.session \notin {"authenticated", "authenticating"}
    /\ Begins(k, [Done EXCEPT !.step = "deviceKey"])
    /\ Shows("authenticating")
    /\ UNCHANGED <<rendered, shell, world, left>>

GetOrCreateDeviceKey(k) ==
    /\ At(k, "deviceKey")
    /\ deviceKey' = TRUE
    /\ Goes(k, "openLogin")
    /\ UNCHANGED <<state, rendered, keychain, world, overlapped, left>>

OpenOidcLogin(k) ==
    /\ At(k, "openLogin")
    /\ browser' = TRUE
    /\ Ends(k)
    /\ UNCHANGED <<state, rendered, shell, codes, open, restarts, overlapped, left>>

LoginFails(k) ==
    /\ At(k, "deviceKey") \/ At(k, "openLogin")
    /\ Shows("disconnected")
    /\ Ends(k)
    /\ UNCHANGED <<rendered, shell, world, overlapped, left>>

-----------------------------------------------------------------------------
(***************************************************************************)
(* handleCallback(url): a URL may be delivered again, by a second click or *)
(* by getCurrent after a restart.                                          *)
(***************************************************************************)
Callback(k, c) ==
    /\ codes[c] # "none"
    /\ Begins(k, [Done EXCEPT !.step = "exchange", !.token = c])
    /\ Shows("authenticating")
    /\ UNCHANGED <<rendered, shell, world, left>>

\* parseAuthCallback throws, or the URL carries an error: no await, one render.
CallbackRefused ==
    /\ Shows("denied")
    /\ UNCHANGED <<rendered, tasks, shell, world, overlapped, left>>

Exchange(k) ==
    LET c == tasks[k].token IN
    /\ At(k, "exchange")
    /\ codes[c] = "live"
    /\ codes' = [codes EXCEPT ![c] = "used"]
    /\ Goes(k, "store")
    /\ UNCHANGED <<state, rendered, shell, browser, open, restarts, overlapped, left>>

\* The grant is refused, or the answer does not arrive, the grant used or not.
ExchangeFails(k) ==
    /\ At(k, "exchange")
    /\ codes' \in {codes, [codes EXCEPT ![tasks[k].token] = "used"]}
    /\ Shows("denied")
    /\ Ends(k)
    /\ UNCHANGED <<rendered, shell, browser, open, restarts, overlapped, left>>

KeychainSkipped(t) == keychain             \* mutant: storeToken left out
KeychainAfterStore(t) == t

StoreToken(k) ==
    /\ At(k, "store")
    /\ keychain' = KeychainAfterStore(tasks[k].token)
    /\ Goes(k, "stored")
    /\ UNCHANGED <<state, rendered, deviceKey, world, overlapped, left>>

StoreFails(k) ==
    /\ At(k, "store")
    /\ Shows("denied")
    /\ Ends(k)
    /\ UNCHANGED <<rendered, shell, world, overlapped, left>>

Stored(k) ==
    /\ At(k, "stored")
    /\ Sets("authenticated", tasks[k].token)
    /\ Ends(k)
    /\ UNCHANGED <<rendered, shell, world, overlapped, left>>

-----------------------------------------------------------------------------
(***************************************************************************)
(* logout(), with the token of the last render.                            *)
(***************************************************************************)
Logout(k) ==
    /\ shown.session = "authenticated"
    /\ Begins(k, [Done EXCEPT !.step = "signOut", !.token = shown.token])
    /\ socket' = None
    /\ UNCHANGED <<state, shown, shell, world, left>>

\* POST /v1/auth/logout; any failure is ignored, effective or not.
SignOut(k) ==
    /\ At(k, "signOut")
    /\ open' \in {open, open \ {tasks[k].token}}
    /\ Goes(k, "remove")
    /\ UNCHANGED <<state, rendered, shell, browser, codes, restarts, overlapped, left>>

KeychainKept == keychain                   \* mutant: deleteToken left out
KeychainAfterRemove == None

RemoveToken(k) ==
    /\ At(k, "remove")
    /\ keychain' = KeychainAfterRemove
    /\ Goes(k, "removed")
    /\ UNCHANGED <<state, rendered, deviceKey, world, overlapped, left>>

\* deleteToken() is rejected, and so is the promise of logout().
RemoveFails(k) ==
    /\ At(k, "remove")
    /\ Ends(k)
    /\ UNCHANGED <<state, rendered, shell, world, overlapped, left>>

Removed(k) ==
    /\ At(k, "removed")
    /\ Sets("signed-out", None)
    /\ Ends(k)
    /\ left' = left \cup {tasks[k].token}
    /\ UNCHANGED <<rendered, shell, world, overlapped>>

-----------------------------------------------------------------------------
(***************************************************************************)
(* External: the browser, the backend, and the user quitting.              *)
(***************************************************************************)
\* The login in the browser succeeds: the backend opens a session and issues
\* its code.
Issue(c) ==
    /\ browser
    /\ codes[c] = "none"
    /\ \A d \in Token : d < c => codes[d] # "none"
    /\ browser' = FALSE
    /\ codes' = [codes EXCEPT ![c] = "live"]
    /\ open' = open \cup {c}
    /\ UNCHANGED <<state, rendered, tasks, shell, restarts, overlapped, left>>

\* A session expires, or is revoked from elsewhere.
Expire(t) ==
    /\ t \in open
    /\ open' = open \ {t}
    /\ UNCHANGED <<state, rendered, tasks, shell, browser, codes, restarts,
                   overlapped, left>>

\* The application quits or crashes, and is started again.
Restart ==
    /\ restarts < MaxRestarts
    /\ restarts' = restarts + 1
    /\ session' = "disconnected"
    /\ token' = None
    /\ backend' = FALSE
    /\ shown' = Blank
    /\ socket' = None
    /\ \E k \in Task : tasks' = [j \in Task |-> IF j = k THEN Launch ELSE Done]
    /\ overlapped' = FALSE
    /\ UNCHANGED <<shell, browser, codes, open, left>>

Step(k) ==
    \/ LoadToken(k) \/ Status(k) \/ StatusFails(k)
    \/ GetSession(k) \/ Checked(k) \/ Forget(k) \/ Forgotten(k)
    \/ GetOrCreateDeviceKey(k) \/ OpenOidcLogin(k) \/ LoginFails(k)
    \/ Exchange(k) \/ ExchangeFails(k)
    \/ StoreToken(k) \/ StoreFails(k) \/ Stored(k)
    \/ SignOut(k) \/ RemoveToken(k) \/ RemoveFails(k) \/ Removed(k)

Next ==
    \/ Render
    \/ \E k \in Task :
          \/ Step(k)
          \/ Login(k) \/ Logout(k) \/ \E c \in Token : Callback(k, c)
    \/ CallbackRefused
    \/ \E c \in Token : Issue(c) \/ Expire(c)
    \/ Restart

Spec == Init /\ [][Next]_vars

-----------------------------------------------------------------------------
SessionState == {"disconnected", "signed-out", "authenticating",
                 "authenticated", "expired", "denied"}
Steps == {"none", "load", "status", "getSession", "checked", "forget",
          "forgotten", "deviceKey", "openLogin", "exchange", "store", "stored",
          "signOut", "remove", "removed"}

\* The state hooks hold members of SessionState, and the tokens in memory, in
\* the Keychain and in tasks are tokens the backend issued.
TypeOK ==
    /\ session \in SessionState
    /\ token \in Token \cup {None}
    /\ backend \in BOOLEAN
    /\ shown \in [session : SessionState, token : Token \cup {None},
                  backend : BOOLEAN]
    /\ socket \in Token \cup {None}
    /\ tasks \in [Task -> [step : Steps, token : Token \cup {None},
                           answer : SessionState \cup {"none"}]]
    /\ keychain \in Token \cup {None}
    /\ deviceKey \in BOOLEAN
    /\ browser \in BOOLEAN
    /\ codes \in [Token -> {"none", "live", "used"}]
    /\ open \in SUBSET Token
    /\ restarts \in 0 .. MaxRestarts
    /\ overlapped \in BOOLEAN
    /\ left \in SUBSET Token

Quiet == \A k \in Task : tasks[k] = Done

\* A logout that ran to its end is final: no restart restores its token from the
\* Keychain, whatever tasks were in progress, and its token is back in memory or
\* in a connection only if a task overlapped (a late answer of getSession).
LogoutFinal ==
    \A t \in left :
        /\ keychain # t
        /\ t \in {token, socket} => overlapped

\* A connection belongs to the session that is shown: none runs for another
\* token, none while the desktop shows anything but a signed-in session.
SocketFollowsSession ==
    socket # None => shown.session = "authenticated" /\ shown.token = socket

\* As long as no two tasks overlap, memory and Keychain agree when all is done:
\* a signed-in session would be restored, a signed-out one would not, through
\* failing Keychain commands, lost answers and restarts.
AtRestIfSequential ==
    Quiet /\ ~overlapped =>
        /\ session = "authenticated" => keychain = token
        /\ session = "signed-out" => keychain = None

\* README.md of the desktop: "Tokens are held in memory while active and in
\* Keychain at rest".  When all tasks have ended, the token of the signed-in
\* session is the one in the Keychain, also when tasks overlapped.
ActiveTokenAtRest ==
    Quiet /\ session = "authenticated" => keychain = token
=============================================================================
