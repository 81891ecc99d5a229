------------------------- MODULE DesktopApp_proofs -------------------------
(***************************************************************************)
(* The safety of DesktopApp, for any number of tasks, logins and restarts. *)
(***************************************************************************)
EXTENDS DesktopApp, TLAPS

TaskRecord == [step : Steps, token : Token \cup {None},
               answer : SessionState \cup {"none"}]

Active(k) == tasks[k].step # "none"

\* A free slot is Done; where a token is needed there is one, and an answer.
TasksHaveTokens ==
    /\ \A k \in Task : ~Active(k) => tasks[k] = Done
    /\ \A k \in Task :
          tasks[k].step \in {"getSession", "checked", "exchange", "store",
                            "stored", "signOut", "remove", "removed"} =>
              tasks[k].token # None
    /\ \A k \in Task :
          /\ tasks[k].step = "checked" =>
                tasks[k].answer \in Failure \cup {"authenticated"}
          /\ tasks[k].step \in {"forget", "forgotten"} =>
                tasks[k].answer \in Failure
    /\ session = "authenticated" => token # None
    /\ shown.session = "authenticated" => shown.token # None

\* The desktop holds t: in memory, on screen, in the Keychain or in a task that
\* got it from there; or it has logged out of it.
Held(t) ==
    \/ t \in {keychain, token, shown.token} \cup left
    \/ \E k \in Task : /\ tasks[k].token = t
                       /\ tasks[k].step \in {"status", "getSession", "checked",
                             "stored", "signOut", "remove", "removed"}

Storing(k, t) == tasks[k].step = "store" /\ tasks[k].token = t

\* A token gets into the Keychain once: its grant is used for one task, which
\* stores it before anything else holds it.
StoredOnce ==
    \A t \in Token :
        /\ Held(t) => codes[t] = "used"
        /\ \A k \in Task : Storing(k, t) =>
              /\ codes[t] = "used"
              /\ ~Held(t)
              /\ \A j \in Task : Storing(j, t) => j = k

\* Nor does it come back to the Keychain when it was removed.
NotInKeychain ==
    /\ \A t \in left : keychain # t
    /\ \A k \in Task : tasks[k].step = "removed" => keychain # tasks[k].token

Agree == /\ session = "authenticated" => keychain = token
         /\ session = "signed-out" => keychain = None

\* What each step relies on when no other task runs.
Sequential ==
    ~overlapped =>
        /\ \A j, k \in Task : Active(j) /\ Active(k) => j = k
        /\ token \notin left /\ socket \notin left
        /\ (\A k \in Task : ~Active(k)) => Agree
        /\ \A k \in Task :
              /\ tasks[k].step \in {"status", "getSession", "checked",
                                   "stored"} =>
                    tasks[k].token \notin left /\ tasks[k].token = keychain
              /\ tasks[k].step \in {"signOut", "remove", "removed"} =>
                    /\ socket # tasks[k].token
                    /\ session = "authenticated" /\ token = tasks[k].token =>
                          shown.session = "authenticated" /\ shown.token = token
              /\ tasks[k].step \in {"signOut", "remove"} => Agree
              /\ tasks[k].step = "removed" => keychain = None
              /\ tasks[k].step \in {"deviceKey", "openLogin"} =>
                    session \notin {"authenticated", "signed-out"}

IInv ==
    /\ TypeOK /\ SocketFollowsSession
    /\ TasksHaveTokens /\ StoredOnce /\ NotInKeychain /\ Sequential

USE BoundAssumption DEF BoundAssumption

-----------------------------------------------------------------------------
\* What the operators on tasks do to each slot.
LEMMA NoneIsNoToken == None \notin Token
BY DEF None, Token

\* A task that has ended is a task record like any other.
LEMMA DoneRecord == /\ Done \in TaskRecord
                    /\ Done.step = "none" /\ Done.token = None
                    /\ Launch \in TaskRecord
                    /\ Launch.step = "load" /\ Launch.token = None
BY DEF Done, Launch, TaskRecord, Steps

\* A task that advances has its new record, and no other task changes.
LEMMA GoesTo ==
    ASSUME TypeOK, NEW k \in Task, NEW s \in Steps, Goes(k, s)
    PROVE  /\ tasks' \in [Task -> TaskRecord]
           /\ tasks'[k].step = s /\ tasks'[k].token = tasks[k].token
           /\ tasks'[k].answer = tasks[k].answer
           /\ \A j \in Task \ {k} : tasks'[j] = tasks[j]
BY DEF TypeOK, Goes, TaskRecord

\* A task that ends leaves its slot free, and no other task changes.
LEMMA EndsAt ==
    ASSUME TypeOK, NEW k \in Task, Ends(k)
    PROVE  /\ tasks' \in [Task -> TaskRecord]
           /\ tasks'[k] = Done
           /\ \A j \in Task \ {k} : tasks'[j] = tasks[j]
<1>1. tasks \in [Task -> TaskRecord]
  BY DEF TypeOK, TaskRecord
<1>. QED BY <1>1, DoneRecord DEF Ends

\* A task that begins takes a free slot, and overlaps those that run.
LEMMA BeginsAt ==
    ASSUME TypeOK, TasksHaveTokens, NEW k \in Task, NEW q \in TaskRecord,
           Begins(k, q)
    PROVE  /\ tasks' \in [Task -> TaskRecord]
           /\ ~Active(k)
           /\ tasks'[k] = q
           /\ \A j \in Task \ {k} : tasks'[j] = tasks[j]
           /\ overlapped' \in BOOLEAN
           /\ ~overlapped' => ~overlapped /\ \A j \in Task : ~Active(j)
<1>1. tasks \in [Task -> TaskRecord]
  BY DEF TypeOK, TaskRecord
<1>2. \A j \in Task : ~Active(j) <=> tasks[j] = Done
  BY DoneRecord DEF TasksHaveTokens, Active
<1>. QED BY <1>1, <1>2 DEF Begins, TypeOK

\* Nothing new is held or being stored, and no grant is live again.
LEMMA StillOnce ==
    ASSUME StoredOnce,
           \A t \in Token : codes[t] = "used" => codes'[t] = "used",
           \A t \in Token : Held(t)' => Held(t),
           \A t \in Token : \A j \in Task : Storing(j, t)' => Storing(j, t)
    PROVE  StoredOnce'
BY DEF StoredOnce

\* authenticate() reads the Keychain: the token it takes is the stored one.
LEMMA LoadTokenInv ==
    ASSUME IInv, NEW k \in Task, LoadToken(k)
    PROVE  IInv'
<1>. USE NoneIsNoToken, DoneRecord
        DEF IInv, LoadToken, At, state, rendered, shell, world, Sets, Shows
<1>1. /\ tasks' \in [Task -> TaskRecord]
      /\ tasks'[k].step = "status" /\ tasks'[k].token = keychain
      /\ \A j \in Task \ {k} : tasks'[j] = tasks[j]
  BY DEF TypeOK, TaskRecord, Steps
<1>2. TypeOK'
  BY <1>1 DEF TypeOK, TaskRecord
<1>3. SocketFollowsSession'
  BY <1>1 DEF SocketFollowsSession
<1>4. TasksHaveTokens'
  BY <1>1 DEF TasksHaveTokens, Active
<1>5. StoredOnce'
  BY <1>1, StillOnce DEF Held, Storing, TypeOK
<1>6. NotInKeychain'
  BY <1>1 DEF NotInKeychain
<1>7. Sequential'
  BY <1>1 DEF Sequential, Active, Agree, NotInKeychain
<1>. QED BY <1>2, <1>3, <1>4, <1>5, <1>6, <1>7

\* The status check fails: the desktop is disconnected, nothing is stored.
LEMMA StatusFailsInv ==
    ASSUME IInv, NEW k \in Task, StatusFails(k)
    PROVE  IInv'
<1>. USE NoneIsNoToken, DoneRecord
        DEF IInv, StatusFails, At, state, rendered, shell, world, Sets, Shows
<1>1. /\ tasks' \in [Task -> TaskRecord] /\ tasks'[k] = Done
      /\ \A j \in Task \ {k} : tasks'[j] = tasks[j]
  BY EndsAt
<1>2. TypeOK'
  BY <1>1 DEF TypeOK, TaskRecord, SessionState
<1>3. SocketFollowsSession'
  BY <1>1 DEF SocketFollowsSession
<1>4. TasksHaveTokens'
  BY <1>1 DEF TasksHaveTokens, Active
<1>5. StoredOnce'
  BY <1>1, StillOnce DEF Held, Storing, TypeOK
<1>6. NotInKeychain'
  BY <1>1 DEF NotInKeychain
<1>7. Sequential'
  BY <1>1 DEF Sequential, Active, Agree
<1>. QED BY <1>2, <1>3, <1>4, <1>5, <1>6, <1>7

\* The backend is reachable: the task goes on with its token.
LEMMA StatusInv ==
    ASSUME IInv, NEW k \in Task, Status(k)
    PROVE  IInv'
<1>. USE NoneIsNoToken, DoneRecord
        DEF IInv, Status, At, state, rendered, shell, world, Sets, Shows
<1>1. /\ tasks' \in [Task -> TaskRecord]
      /\ tasks[k].token = None => tasks'[k] = Done
      /\ tasks[k].token # None =>
            /\ tasks'[k].step = "getSession" /\ tasks'[k].token = tasks[k].token
            /\ tasks'[k].answer = tasks[k].answer
      /\ \A j \in Task \ {k} : tasks'[j] = tasks[j]
  BY GoesTo, EndsAt DEF Steps
<1>2. TypeOK'
  BY <1>1 DEF TypeOK, TaskRecord, SessionState
<1>3. SocketFollowsSession'
  BY <1>1 DEF SocketFollowsSession
<1>4. TasksHaveTokens'
  BY <1>1 DEF TasksHaveTokens, Active
<1>5. StoredOnce'
  BY <1>1, StillOnce DEF Held, Storing, TypeOK
<1>6. NotInKeychain'
  BY <1>1 DEF NotInKeychain
<1>7. Sequential'
  BY <1>1 DEF Sequential, Active, Agree
<1>. QED BY <1>2, <1>3, <1>4, <1>5, <1>6, <1>7

\* The answer to GET /v1/auth/session says what the session is at that time.
LEMMA GetSessionInv ==
    ASSUME IInv, NEW k \in Task, GetSession(k)
    PROVE  IInv'
<1>. USE NoneIsNoToken, DoneRecord
        DEF IInv, GetSession, At, state, rendered, shell, world, Sets, Shows
<1>1. /\ tasks' \in [Task -> TaskRecord]
      /\ tasks'[k].step = "checked" /\ tasks'[k].token = tasks[k].token
      /\ tasks'[k].answer \in Failure \cup {"authenticated"}
      /\ \A j \in Task \ {k} : tasks'[j] = tasks[j]
  <2>1. PICK a \in Failure \cup {"authenticated"} :
           tasks' = [tasks EXCEPT ![k].step = "checked", ![k].answer = a]
    OBVIOUS
  <2>2. tasks \in [Task -> TaskRecord] /\ a \in SessionState \cup {"none"}
    BY DEF TypeOK, TaskRecord, Failure, SessionState
  <2>. QED BY <2>1, <2>2 DEF TaskRecord, Steps
<1>2. TypeOK'
  BY <1>1 DEF TypeOK, TaskRecord
<1>3. SocketFollowsSession'
  BY <1>1 DEF SocketFollowsSession
<1>4. TasksHaveTokens'
  BY <1>1 DEF TasksHaveTokens, Active
<1>5. StoredOnce'
  BY <1>1, StillOnce DEF Held, Storing, TypeOK
<1>6. NotInKeychain'
  BY <1>1 DEF NotInKeychain
<1>7. Sequential'
  BY <1>1 DEF Sequential, Active
<1>. QED BY <1>2, <1>3, <1>4, <1>5, <1>6, <1>7

\* authenticate() signs in with a checked token; a refused one is forgotten.
LEMMA CheckedInv ==
    ASSUME IInv, NEW k \in Task, Checked(k)
    PROVE  IInv'
<1>. USE NoneIsNoToken, DoneRecord
        DEF IInv, Checked, At, state, rendered, shell, world, Sets, Shows
<1>1. /\ tasks' \in [Task -> TaskRecord]
      /\ tasks[k].answer = "authenticated" => tasks'[k] = Done
      /\ tasks[k].answer # "authenticated" =>
            /\ tasks'[k].step = "forget" /\ tasks'[k].token = tasks[k].token
            /\ tasks'[k].answer = tasks[k].answer
      /\ \A j \in Task \ {k} : tasks'[j] = tasks[j]
  BY GoesTo, EndsAt DEF Steps
<1>2. TypeOK'
  BY <1>1 DEF TypeOK, TaskRecord
<1>3. SocketFollowsSession'
  BY <1>1 DEF SocketFollowsSession
<1>4. TasksHaveTokens'
  BY <1>1 DEF TasksHaveTokens, Active
<1>5. StoredOnce'
  BY <1>1, StillOnce DEF Held, Storing, TypeOK
<1>6. NotInKeychain'
  BY <1>1 DEF NotInKeychain
<1>7. Sequential'
  BY <1>1 DEF Sequential, Active, Agree
<1>. QED BY <1>2, <1>3, <1>4, <1>5, <1>6, <1>7

\* deleteToken() after a refusal takes whatever the Keychain holds.
LEMMA ForgetInv ==
    ASSUME IInv, NEW k \in Task, Forget(k)
    PROVE  IInv'
<1>. USE NoneIsNoToken, DoneRecord
        DEF IInv, Forget, At, state, rendered, shell, world, Sets, Shows
<1>1. /\ tasks' \in [Task -> TaskRecord]
      /\ tasks'[k].step = "forgotten" /\ tasks'[k].token = tasks[k].token
      /\ tasks'[k].answer = tasks[k].answer
      /\ \A j \in Task \ {k} : tasks'[j] = tasks[j]
  BY GoesTo DEF Steps
<1>2. TypeOK'
  BY <1>1 DEF TypeOK, TaskRecord
<1>3. SocketFollowsSession'
  BY <1>1 DEF SocketFollowsSession
<1>4. TasksHaveTokens'
  BY <1>1 DEF TasksHaveTokens, Active
<1>5. StoredOnce'
  BY <1>1, StillOnce DEF Held, Storing, TypeOK
<1>6. NotInKeychain'
  BY <1>1 DEF NotInKeychain, TypeOK, StoredOnce, Held, Storing,
              TasksHaveTokens
<1>7. Sequential'
  BY <1>1 DEF Sequential, Active
<1>. QED BY <1>2, <1>3, <1>4, <1>5, <1>6, <1>7

\* After a refused token the desktop is expired or denied, and has no token.
LEMMA ForgottenInv ==
    ASSUME IInv, NEW k \in Task, Forgotten(k)
    PROVE  IInv'
<1>. USE NoneIsNoToken, DoneRecord
        DEF IInv, Forgotten, At, state, rendered, shell, world, Sets, Shows
<1>1. /\ tasks' \in [Task -> TaskRecord] /\ tasks'[k] = Done
      /\ \A j \in Task \ {k} : tasks'[j] = tasks[j]
  BY EndsAt
<1>2. TypeOK'
  BY <1>1 DEF TypeOK, TaskRecord, SessionState, TasksHaveTokens, Failure
<1>3. SocketFollowsSession'
  BY <1>1 DEF SocketFollowsSession
<1>4. TasksHaveTokens'
  BY <1>1 DEF TasksHaveTokens, Active, Failure
<1>5. StoredOnce'
  BY <1>1, StillOnce DEF Held, Storing, TypeOK
<1>6. NotInKeychain'
  BY <1>1 DEF NotInKeychain
<1>7. Sequential'
  BY <1>1 DEF Sequential, Active, Agree, TypeOK, NotInKeychain, StoredOnce,
              Held, Storing, TasksHaveTokens, Failure
<1>. QED BY <1>2, <1>3, <1>4, <1>5, <1>6, <1>7

\* The device key is read or made: no token is involved.
LEMMA GetOrCreateDeviceKeyInv ==
    ASSUME IInv, NEW k \in Task, GetOrCreateDeviceKey(k)
    PROVE  IInv'
<1>. USE NoneIsNoToken, DoneRecord
        DEF IInv, GetOrCreateDeviceKey, At, state, rendered, shell, world, Sets,
            Shows
<1>1. /\ tasks' \in [Task -> TaskRecord]
      /\ tasks'[k].step = "openLogin" /\ tasks'[k].token = tasks[k].token
      /\ tasks'[k].answer = tasks[k].answer
      /\ \A j \in Task \ {k} : tasks'[j] = tasks[j]
  BY GoesTo DEF Steps
<1>2. TypeOK'
  BY <1>1 DEF TypeOK, TaskRecord
<1>3. SocketFollowsSession'
  BY <1>1 DEF SocketFollowsSession
<1>4. TasksHaveTokens'
  BY <1>1 DEF TasksHaveTokens, Active
<1>5. StoredOnce'
  BY <1>1, StillOnce DEF Held, Storing, TypeOK
<1>6. NotInKeychain'
  BY <1>1 DEF NotInKeychain
<1>7. Sequential'
  BY <1>1 DEF Sequential, Active
<1>. QED BY <1>2, <1>3, <1>4, <1>5, <1>6, <1>7

\* The browser is opened with a new login: no token is involved.
LEMMA OpenOidcLoginInv ==
    ASSUME IInv, NEW k \in Task, OpenOidcLogin(k)
    PROVE  IInv'
<1>. USE NoneIsNoToken, DoneRecord
        DEF IInv, OpenOidcLogin, At, state, rendered, shell, world, Sets, Shows
<1>1. /\ tasks' \in [Task -> TaskRecord] /\ tasks'[k] = Done
      /\ \A j \in Task \ {k} : tasks'[j] = tasks[j]
  BY EndsAt
<1>2. TypeOK'
  BY <1>1 DEF TypeOK, TaskRecord
<1>3. SocketFollowsSession'
  BY <1>1 DEF SocketFollowsSession
<1>4. TasksHaveTokens'
  BY <1>1 DEF TasksHaveTokens, Active
<1>5. StoredOnce'
  BY <1>1, StillOnce DEF Held, Storing, TypeOK
<1>6. NotInKeychain'
  BY <1>1 DEF NotInKeychain
<1>7. Sequential'
  BY <1>1 DEF Sequential, Active, Agree
<1>. QED BY <1>2, <1>3, <1>4, <1>5, <1>6, <1>7

\* A login that cannot be started leaves the tokens alone.
LEMMA LoginFailsInv ==
    ASSUME IInv, NEW k \in Task, LoginFails(k)
    PROVE  IInv'
<1>. USE NoneIsNoToken, DoneRecord
        DEF IInv, LoginFails, At, state, rendered, shell, world, Sets, Shows
<1>1. /\ tasks' \in [Task -> TaskRecord] /\ tasks'[k] = Done
      /\ \A j \in Task \ {k} : tasks'[j] = tasks[j]
  BY EndsAt
<1>2. TypeOK'
  BY <1>1 DEF TypeOK, TaskRecord, SessionState
<1>3. SocketFollowsSession'
  BY <1>1 DEF SocketFollowsSession
<1>4. TasksHaveTokens'
  BY <1>1 DEF TasksHaveTokens, Active
<1>5. StoredOnce'
  BY <1>1, StillOnce DEF Held, Storing, TypeOK
<1>6. NotInKeychain'
  BY <1>1 DEF NotInKeychain
<1>7. Sequential'
  BY <1>1 DEF Sequential, Active, Agree
<1>. QED BY <1>2, <1>3, <1>4, <1>5, <1>6, <1>7

\* The exchange uses the grant up, so its token is at no other task.
LEMMA ExchangeInv ==
    ASSUME IInv, NEW k \in Task, Exchange(k)
    PROVE  IInv'
<1>. USE NoneIsNoToken, DoneRecord
        DEF IInv, Exchange, At, state, rendered, shell, world, Sets, Shows
<1>1. /\ tasks' \in [Task -> TaskRecord]
      /\ tasks'[k].step = "store" /\ tasks'[k].token = tasks[k].token
      /\ tasks'[k].answer = tasks[k].answer
      /\ \A j \in Task \ {k} : tasks'[j] = tasks[j]
  BY GoesTo DEF Steps
<1>2. TypeOK'
  BY <1>1 DEF TypeOK, TaskRecord
<1>3. SocketFollowsSession'
  BY <1>1 DEF SocketFollowsSession
<1>4. TasksHaveTokens'
  BY <1>1 DEF TasksHaveTokens, Active
<1>5. StoredOnce'
  <2>. DEFINE c == tasks[k].token
  <2>1. c \in Token
    BY DEF TypeOK, TasksHaveTokens, TaskRecord
  <2>2. /\ codes'[c] = "used" /\ ~Held(c) /\ \A j \in Task : ~Storing(j, c)
        /\ \A t \in Token \ {c} : codes'[t] = codes[t]
    BY <2>1 DEF StoredOnce, TypeOK
  <2>3. \A t \in Token : Held(t)' => Held(t)
    BY <1>1 DEF Held
  <2>4. \A t \in Token : \A j \in Task :
           Storing(j, t)' => Storing(j, t) \/ (j = k /\ t = c)
    BY <1>1 DEF Storing
  <2>. QED BY <2>1, <2>2, <2>3, <2>4 DEF StoredOnce
<1>6. NotInKeychain'
  BY <1>1 DEF NotInKeychain
<1>7. Sequential'
  BY <1>1 DEF Sequential, Active
<1>. QED BY <1>2, <1>3, <1>4, <1>5, <1>6, <1>7

\* A failed exchange ends the callback without a token.
LEMMA ExchangeFailsInv ==
    ASSUME IInv, NEW k \in Task, ExchangeFails(k)
    PROVE  IInv'
<1>. USE NoneIsNoToken, DoneRecord
        DEF IInv, ExchangeFails, At, state, rendered, shell, world, Sets, Shows
<1>1. /\ tasks' \in [Task -> TaskRecord] /\ tasks'[k] = Done
      /\ \A j \in Task \ {k} : tasks'[j] = tasks[j]
  BY EndsAt
<1>2. TypeOK'
  BY <1>1 DEF TypeOK, TaskRecord, SessionState
<1>3. SocketFollowsSession'
  BY <1>1 DEF SocketFollowsSession
<1>4. TasksHaveTokens'
  BY <1>1 DEF TasksHaveTokens, Active
<1>5. StoredOnce'
  BY <1>1, StillOnce DEF Held, Storing, TypeOK
<1>6. NotInKeychain'
  BY <1>1 DEF NotInKeychain
<1>7. Sequential'
  BY <1>1 DEF Sequential, Active, Agree
<1>. QED BY <1>2, <1>3, <1>4, <1>5, <1>6, <1>7

\* storeToken() puts a token in the Keychain that was never there before.
LEMMA StoreTokenInv ==
    ASSUME IInv, NEW k \in Task, StoreToken(k)
    PROVE  IInv'
<1>. USE NoneIsNoToken, DoneRecord
        DEF IInv, StoreToken, At, KeychainAfterStore, state, rendered, shell,
            world, Sets, Shows
<1>1. /\ tasks' \in [Task -> TaskRecord]
      /\ tasks'[k].step = "stored" /\ tasks'[k].token = tasks[k].token
      /\ tasks'[k].answer = tasks[k].answer
      /\ \A j \in Task \ {k} : tasks'[j] = tasks[j]
  BY GoesTo DEF Steps
<1>2. TypeOK'
  BY <1>1 DEF TypeOK, TaskRecord
<1>3. SocketFollowsSession'
  BY <1>1 DEF SocketFollowsSession
<1>4. TasksHaveTokens'
  BY <1>1 DEF TasksHaveTokens, Active
<1>5. StoredOnce'
  BY <1>1 DEF StoredOnce, Held, Storing, TypeOK
<1>6. NotInKeychain'
  BY <1>1 DEF NotInKeychain, TypeOK, StoredOnce, Held, Storing,
              TasksHaveTokens
<1>7. Sequential'
  BY <1>1 DEF Sequential, Active, Agree, TypeOK, NotInKeychain, StoredOnce,
              Held, Storing, TasksHaveTokens, Failure
<1>. QED BY <1>2, <1>3, <1>4, <1>5, <1>6, <1>7

\* A token that cannot be stored is given up.
LEMMA StoreFailsInv ==
    ASSUME IInv, NEW k \in Task, StoreFails(k)
    PROVE  IInv'
<1>. USE NoneIsNoToken, DoneRecord
        DEF IInv, StoreFails, At, state, rendered, shell, world, Sets, Shows
<1>1. /\ tasks' \in [Task -> TaskRecord] /\ tasks'[k] = Done
      /\ \A j \in Task \ {k} : tasks'[j] = tasks[j]
  BY EndsAt
<1>2. TypeOK'
  BY <1>1 DEF TypeOK, TaskRecord, SessionState
<1>3. SocketFollowsSession'
  BY <1>1 DEF SocketFollowsSession
<1>4. TasksHaveTokens'
  BY <1>1 DEF TasksHaveTokens, Active
<1>5. StoredOnce'
  BY <1>1, StillOnce DEF Held, Storing, TypeOK
<1>6. NotInKeychain'
  BY <1>1 DEF NotInKeychain
<1>7. Sequential'
  BY <1>1 DEF Sequential, Active, Agree
<1>. QED BY <1>2, <1>3, <1>4, <1>5, <1>6, <1>7

\* handleCallback() signs in with the token it has stored.
LEMMA StoredInv ==
    ASSUME IInv, NEW k \in Task, Stored(k)
    PROVE  IInv'
<1>. USE NoneIsNoToken, DoneRecord
        DEF IInv, Stored, At, state, rendered, shell, world, Sets, Shows
<1>1. /\ tasks' \in [Task -> TaskRecord] /\ tasks'[k] = Done
      /\ \A j \in Task \ {k} : tasks'[j] = tasks[j]
  BY EndsAt
<1>2. TypeOK'
  BY <1>1 DEF TypeOK, TaskRecord, SessionState
<1>3. SocketFollowsSession'
  BY <1>1 DEF SocketFollowsSession
<1>4. TasksHaveTokens'
  BY <1>1 DEF TasksHaveTokens, Active
<1>5. StoredOnce'
  BY <1>1, StillOnce DEF Held, Storing, TypeOK
<1>6. NotInKeychain'
  BY <1>1 DEF NotInKeychain
<1>7. Sequential'
  BY <1>1 DEF Sequential, Active, Agree
<1>. QED BY <1>2, <1>3, <1>4, <1>5, <1>6, <1>7

\* POST /v1/auth/logout ends the session or is lost; the tokens stay where
\* they are.
LEMMA SignOutInv ==
    ASSUME IInv, NEW k \in Task, SignOut(k)
    PROVE  IInv'
<1>. USE NoneIsNoToken, DoneRecord
        DEF IInv, SignOut, At, state, rendered, shell, world, Sets, Shows
<1>1. /\ tasks' \in [Task -> TaskRecord]
      /\ tasks'[k].step = "remove" /\ tasks'[k].token = tasks[k].token
      /\ tasks'[k].answer = tasks[k].answer
      /\ \A j \in Task \ {k} : tasks'[j] = tasks[j]
  BY GoesTo DEF Steps
<1>2. TypeOK'
  BY <1>1 DEF TypeOK, TaskRecord
<1>3. SocketFollowsSession'
  BY <1>1 DEF SocketFollowsSession
<1>4. TasksHaveTokens'
  BY <1>1 DEF TasksHaveTokens, Active
<1>5. StoredOnce'
  BY <1>1, StillOnce DEF Held, Storing, TypeOK
<1>6. NotInKeychain'
  BY <1>1 DEF NotInKeychain
<1>7. Sequential'
  BY <1>1 DEF Sequential, Active, Agree
<1>. QED BY <1>2, <1>3, <1>4, <1>5, <1>6, <1>7

\* deleteToken() of logout() takes whatever the Keychain holds.
LEMMA RemoveTokenInv ==
    ASSUME IInv, NEW k \in Task, RemoveToken(k)
    PROVE  IInv'
<1>. USE NoneIsNoToken, DoneRecord
        DEF IInv, RemoveToken, At, KeychainAfterRemove, state, rendered, shell,
            world, Sets, Shows
<1>1. /\ tasks' \in [Task -> TaskRecord]
      /\ tasks'[k].step = "removed" /\ tasks'[k].token = tasks[k].token
      /\ tasks'[k].answer = tasks[k].answer
      /\ \A j \in Task \ {k} : tasks'[j] = tasks[j]
  BY GoesTo DEF Steps
<1>2. TypeOK'
  BY <1>1 DEF TypeOK, TaskRecord
<1>3. SocketFollowsSession'
  BY <1>1 DEF SocketFollowsSession
<1>4. TasksHaveTokens'
  BY <1>1 DEF TasksHaveTokens, Active
<1>5. StoredOnce'
  BY <1>1, StillOnce DEF Held, Storing, TypeOK
<1>6. NotInKeychain'
  BY <1>1 DEF NotInKeychain, TypeOK, StoredOnce, Held, Storing,
              TasksHaveTokens
<1>7. Sequential'
  BY <1>1 DEF Sequential, Active
<1>. QED BY <1>2, <1>3, <1>4, <1>5, <1>6, <1>7

\* A failed deleteToken() ends the logout: nothing is said to be removed.
LEMMA RemoveFailsInv ==
    ASSUME IInv, NEW k \in Task, RemoveFails(k)
    PROVE  IInv'
<1>. USE NoneIsNoToken, DoneRecord
        DEF IInv, RemoveFails, At, state, rendered, shell, world, Sets, Shows
<1>1. /\ tasks' \in [Task -> TaskRecord] /\ tasks'[k] = Done
      /\ \A j \in Task \ {k} : tasks'[j] = tasks[j]
  BY EndsAt
<1>2. TypeOK'
  BY <1>1 DEF TypeOK, TaskRecord
<1>3. SocketFollowsSession'
  BY <1>1 DEF SocketFollowsSession
<1>4. TasksHaveTokens'
  BY <1>1 DEF TasksHaveTokens, Active
<1>5. StoredOnce'
  BY <1>1, StillOnce DEF Held, Storing, TypeOK
<1>6. NotInKeychain'
  BY <1>1 DEF NotInKeychain
<1>7. Sequential'
  BY <1>1 DEF Sequential, Active, Agree
<1>. QED BY <1>2, <1>3, <1>4, <1>5, <1>6, <1>7

\* logout() ends signed out, and the token it had is gone.
LEMMA RemovedInv ==
    ASSUME IInv, NEW k \in Task, Removed(k)
    PROVE  IInv'
<1>. USE NoneIsNoToken, DoneRecord
        DEF IInv, Removed, At, state, rendered, shell, world, Sets, Shows
<1>1. /\ tasks' \in [Task -> TaskRecord] /\ tasks'[k] = Done
      /\ \A j \in Task \ {k} : tasks'[j] = tasks[j]
  BY EndsAt
<1>2. TypeOK'
  BY <1>1 DEF TypeOK, TaskRecord, SessionState, TasksHaveTokens, Failure
<1>3. SocketFollowsSession'
  BY <1>1 DEF SocketFollowsSession
<1>4. TasksHaveTokens'
  BY <1>1 DEF TasksHaveTokens, Active
<1>5. StoredOnce'
  BY <1>1, StillOnce DEF Held, Storing, TypeOK
<1>6. NotInKeychain'
  BY <1>1 DEF NotInKeychain
<1>7. Sequential'
  BY <1>1 DEF Sequential, Active, Agree, NotInKeychain
<1>. QED BY <1>2, <1>3, <1>4, <1>5, <1>6, <1>7

\* login() begins with the state of the last render.
LEMMA LoginInv ==
    ASSUME IInv, NEW k \in Task, Login(k)
    PROVE  IInv'
<1>. USE NoneIsNoToken, DoneRecord
        DEF IInv, Login, state, rendered, shell, world, Sets, Shows
<1>1. /\ tasks' \in [Task -> TaskRecord] /\ ~Active(k)
      /\ tasks'[k].step = "deviceKey" /\ tasks'[k].token = None
      /\ \A j \in Task \ {k} : tasks'[j] = tasks[j]
      /\ overlapped' \in BOOLEAN
      /\ ~overlapped' => ~overlapped /\ \A j \in Task : ~Active(j)
  <2>. DEFINE q == [Done EXCEPT !.step = "deviceKey"]
  <2>1. q \in TaskRecord /\ q.step = "deviceKey" /\ q.token = None
    BY DEF Done, TaskRecord, Steps, TypeOK
  <2>2. Begins(k, q)
    OBVIOUS
  <2>. HIDE DEF q
  <2>. QED BY <2>1, <2>2, BeginsAt
<1>2. TypeOK'
  BY <1>1 DEF TypeOK, TaskRecord, SessionState
<1>3. SocketFollowsSession'
  BY <1>1 DEF SocketFollowsSession
<1>4. TasksHaveTokens'
  BY <1>1 DEF TasksHaveTokens, Active
<1>5. StoredOnce'
  BY <1>1, StillOnce DEF Held, Storing, TypeOK
<1>6. NotInKeychain'
  BY <1>1 DEF NotInKeychain
<1>7. Sequential'
  BY <1>1 DEF Sequential, Active
<1>. QED BY <1>2, <1>3, <1>4, <1>5, <1>6, <1>7

\* handleCallback() begins with the grant of its URL, used before or not.
LEMMA CallbackInv ==
    ASSUME IInv, NEW k \in Task, NEW c \in Token, Callback(k, c)
    PROVE  IInv'
<1>. USE NoneIsNoToken, DoneRecord
        DEF IInv, Callback, state, rendered, shell, world, Sets, Shows
<1>1. /\ tasks' \in [Task -> TaskRecord] /\ ~Active(k)
      /\ tasks'[k].step = "exchange" /\ tasks'[k].token = c
      /\ \A j \in Task \ {k} : tasks'[j] = tasks[j]
      /\ overlapped' \in BOOLEAN
      /\ ~overlapped' => ~overlapped /\ \A j \in Task : ~Active(j)
  <2>. DEFINE q == [Done EXCEPT !.step = "exchange", !.token = c]
  <2>1. q \in TaskRecord /\ q.step = "exchange" /\ q.token = c
    BY DEF Done, TaskRecord, Steps, TypeOK
  <2>2. Begins(k, q)
    OBVIOUS
  <2>. HIDE DEF q
  <2>. QED BY <2>1, <2>2, BeginsAt
<1>2. TypeOK'
  BY <1>1 DEF TypeOK, TaskRecord, SessionState
<1>3. SocketFollowsSession'
  BY <1>1 DEF SocketFollowsSession
<1>4. TasksHaveTokens'
  BY <1>1 DEF TasksHaveTokens, Active
<1>5. StoredOnce'
  BY <1>1, StillOnce DEF Held, Storing, TypeOK
<1>6. NotInKeychain'
  BY <1>1 DEF NotInKeychain
<1>7. Sequential'
  BY <1>1 DEF Sequential, Active
<1>. QED BY <1>2, <1>3, <1>4, <1>5, <1>6, <1>7

\* logout() begins with the token of the last render, and closes its socket.
LEMMA LogoutInv ==
    ASSUME IInv, NEW k \in Task, Logout(k)
    PROVE  IInv'
<1>. USE NoneIsNoToken, DoneRecord
        DEF IInv, Logout, state, rendered, shell, world, Sets, Shows
<1>1. /\ tasks' \in [Task -> TaskRecord] /\ ~Active(k)
      /\ tasks'[k].step = "signOut" /\ tasks'[k].token = shown.token
      /\ \A j \in Task \ {k} : tasks'[j] = tasks[j]
      /\ overlapped' \in BOOLEAN
      /\ ~overlapped' => ~overlapped /\ \A j \in Task : ~Active(j)
  <2>. DEFINE q == [Done EXCEPT !.step = "signOut", !.token = shown.token]
  <2>1. q \in TaskRecord /\ q.step = "signOut" /\ q.token = shown.token
    BY DEF Done, TaskRecord, Steps, TypeOK
  <2>2. Begins(k, q)
    OBVIOUS
  <2>. HIDE DEF q
  <2>. QED BY <2>1, <2>2, BeginsAt
<1>2. TypeOK'
  BY <1>1 DEF TypeOK, TaskRecord
<1>3. SocketFollowsSession'
  BY <1>1 DEF SocketFollowsSession
<1>4. TasksHaveTokens'
  BY <1>1 DEF TasksHaveTokens, Active
<1>5. StoredOnce'
  BY <1>1, StillOnce DEF Held, Storing, TypeOK
<1>6. NotInKeychain'
  BY <1>1 DEF NotInKeychain
<1>7. Sequential'
  BY <1>1 DEF Sequential, Active, Agree, TypeOK, TasksHaveTokens
<1>. QED BY <1>2, <1>3, <1>4, <1>5, <1>6, <1>7

\* A render shows the state, and its effect moves the socket to the session.
LEMMA RenderInv ==
    ASSUME IInv, Render
    PROVE  IInv'
<1>. USE NoneIsNoToken, DoneRecord
        DEF IInv, Render, SocketAfterEffect, state, rendered, shell, world,
            Sets, Shows
<1>1. tasks' = tasks
  OBVIOUS
<1>2. TypeOK'
  BY <1>1 DEF TypeOK
<1>3. SocketFollowsSession'
  BY <1>1 DEF SocketFollowsSession
<1>4. TasksHaveTokens'
  BY <1>1 DEF TasksHaveTokens, Active
<1>5. StoredOnce'
  BY <1>1, StillOnce DEF Held, Storing, TypeOK
<1>6. NotInKeychain'
  BY <1>1 DEF NotInKeychain
<1>7. Sequential'
  BY <1>1 DEF Sequential, Active, Agree, TypeOK, TasksHaveTokens
<1>. QED BY <1>2, <1>3, <1>4, <1>5, <1>6, <1>7

\* A callback URL without a usable grant changes what is shown only.
LEMMA CallbackRefusedInv ==
    ASSUME IInv, CallbackRefused
    PROVE  IInv'
<1>. USE NoneIsNoToken, DoneRecord
        DEF IInv, CallbackRefused, state, rendered, shell, world, Sets, Shows
<1>1. tasks' = tasks
  OBVIOUS
<1>2. TypeOK'
  BY <1>1 DEF TypeOK, TaskRecord, SessionState
<1>3. SocketFollowsSession'
  BY <1>1 DEF SocketFollowsSession
<1>4. TasksHaveTokens'
  BY <1>1 DEF TasksHaveTokens, Active
<1>5. StoredOnce'
  BY <1>1, StillOnce DEF Held, Storing, TypeOK
<1>6. NotInKeychain'
  BY <1>1 DEF NotInKeychain
<1>7. Sequential'
  BY <1>1 DEF Sequential, Active, Agree
<1>. QED BY <1>2, <1>3, <1>4, <1>5, <1>6, <1>7

\* The backend issues a grant for a login: its token is new.
LEMMA IssueInv ==
    ASSUME IInv, NEW c \in Token, Issue(c)
    PROVE  IInv'
<1>. USE NoneIsNoToken, DoneRecord
        DEF IInv, Issue, state, rendered, shell, world, Sets, Shows
<1>1. tasks' = tasks
  OBVIOUS
<1>2. TypeOK'
  BY <1>1 DEF TypeOK
<1>3. SocketFollowsSession'
  BY <1>1 DEF SocketFollowsSession
<1>4. TasksHaveTokens'
  BY <1>1 DEF TasksHaveTokens, Active
<1>5. StoredOnce'
  BY <1>1, StillOnce DEF Held, Storing, TypeOK
<1>6. NotInKeychain'
  BY <1>1 DEF NotInKeychain
<1>7. Sequential'
  BY <1>1 DEF Sequential, Active, Agree
<1>. QED BY <1>2, <1>3, <1>4, <1>5, <1>6, <1>7

\* The backend ends a session by itself.
LEMMA ExpireInv ==
    ASSUME IInv, NEW t \in Token, Expire(t)
    PROVE  IInv'
<1>. USE NoneIsNoToken, DoneRecord
        DEF IInv, Expire, state, rendered, shell, world, Sets, Shows
<1>1. tasks' = tasks
  OBVIOUS
<1>2. TypeOK'
  BY <1>1 DEF TypeOK
<1>3. SocketFollowsSession'
  BY <1>1 DEF SocketFollowsSession
<1>4. TasksHaveTokens'
  BY <1>1 DEF TasksHaveTokens, Active
<1>5. StoredOnce'
  BY <1>1, StillOnce DEF Held, Storing, TypeOK
<1>6. NotInKeychain'
  BY <1>1 DEF NotInKeychain
<1>7. Sequential'
  BY <1>1 DEF Sequential, Active, Agree
<1>. QED BY <1>2, <1>3, <1>4, <1>5, <1>6, <1>7

\* The application quits: tasks and memory are lost, the Keychain is not.
LEMMA RestartInv ==
    ASSUME IInv, Restart
    PROVE  IInv'
<1>. USE NoneIsNoToken, DoneRecord
        DEF IInv, Restart, Blank, state, rendered, shell, world, Sets, Shows
<1>1. PICK k \in Task : /\ tasks' \in [Task -> TaskRecord]
                        /\ tasks'[k] = Launch
                        /\ \A j \in Task \ {k} : tasks'[j] = Done
  BY DEF Restart
<1>2. TypeOK'
  <2>2. tasks' \in [Task -> TaskRecord]
    BY <1>1
  <2>3. shown' \in [session : SessionState, token : Token \cup {None},
                    backend : BOOLEAN]
    BY DEF SessionState
  <2>4. restarts' \in 0 .. MaxRestarts
    BY DEF TypeOK
  <2>. QED BY <2>2, <2>3, <2>4 DEF TypeOK, TaskRecord, SessionState
<1>3. SocketFollowsSession'
  BY <1>1 DEF SocketFollowsSession
<1>4. TasksHaveTokens'
  BY <1>1 DEF TasksHaveTokens, Active
<1>5. StoredOnce'
  BY <1>1, StillOnce DEF Held, Storing, TypeOK
<1>6. NotInKeychain'
  BY <1>1 DEF NotInKeychain
<1>7. Sequential'
  BY <1>1 DEF Sequential, Active, Agree, TypeOK
<1>. QED BY <1>2, <1>3, <1>4, <1>5, <1>6, <1>7

-----------------------------------------------------------------------------
\* The application starts with an empty Keychain and nothing issued.
LEMMA InitInv == Init => IInv
<1>. SUFFICES ASSUME Init PROVE IInv
  OBVIOUS
<1>. USE NoneIsNoToken, DoneRecord DEF Init
<1>1. PICK k \in Task : tasks = [j \in Task |-> IF j = k THEN Launch ELSE Done]
  OBVIOUS
<1>2. /\ tasks \in [Task -> TaskRecord]
      /\ tasks[k] = Launch /\ \A j \in Task \ {k} : tasks[j] = Done
  BY <1>1
<1>3. TypeOK
  <2>1. shown \in [session : SessionState, token : Token \cup {None},
                   backend : BOOLEAN]
    BY DEF Blank, SessionState
  <2>2. restarts \in 0 .. MaxRestarts
    OBVIOUS
  <2>. QED BY <1>2, <2>1, <2>2 DEF TypeOK, TaskRecord, SessionState
<1>4. SocketFollowsSession /\ NotInKeychain
  BY <1>2 DEF SocketFollowsSession, NotInKeychain
<1>5. TasksHaveTokens
  BY <1>2 DEF TasksHaveTokens, Active, Blank
<1>6. StoredOnce
  BY <1>2 DEF StoredOnce, Held, Storing, Blank
<1>7. Sequential
  BY <1>2 DEF Sequential, Active
<1>. QED BY <1>3, <1>4, <1>5, <1>6, <1>7 DEF IInv

\* Every step of the application and of its surroundings keeps the invariant.
LEMMA NextInv == IInv /\ [Next]_vars => IInv'
<1>. SUFFICES ASSUME IInv, [Next]_vars PROVE IInv'
  OBVIOUS
<1>1. ASSUME NEW k \in Task, Step(k) PROVE IInv'
  BY <1>1, LoadTokenInv, StatusInv, StatusFailsInv, GetSessionInv, CheckedInv,
     ForgetInv, ForgottenInv, GetOrCreateDeviceKeyInv, OpenOidcLoginInv,
     LoginFailsInv, ExchangeInv, ExchangeFailsInv, StoreTokenInv,
     StoreFailsInv, StoredInv, SignOutInv, RemoveTokenInv,
     RemoveFailsInv, RemovedInv
  DEF Step
<1>2. CASE UNCHANGED vars
  BY <1>2 DEF vars, state, rendered, shell, world, IInv, TypeOK,
              SocketFollowsSession, TasksHaveTokens, Active, StoredOnce, Held,
              Storing, NotInKeychain, Sequential, Agree
<1>. QED
  BY <1>1, <1>2, RenderInv, LoginInv, LogoutInv, CallbackInv,
     CallbackRefusedInv, IssueInv, ExpireInv, RestartInv
  DEF Next

\* The invariant the properties follow from.
THEOREM DesktopInvariant == Spec => []IInv
<1>. QED BY InitInv, NextInv, PTL DEF Spec

\* The session, the tokens and the tasks keep their types.
THEOREM DesktopTypes == Spec => []TypeOK
<1>1. IInv => TypeOK
  BY DEF IInv
<1>. QED BY <1>1, DesktopInvariant, PTL

\* No socket runs for a session that is not the one shown.
THEOREM SocketOfSession == Spec => []SocketFollowsSession
<1>1. IInv => SocketFollowsSession
  BY DEF IInv
<1>. QED BY <1>1, DesktopInvariant, PTL

\* Logged out is logged out, however many tasks and restarts there are.
THEOREM LogoutIsFinal == Spec => []LogoutFinal
<1>1. IInv => LogoutFinal
  BY DEF IInv, NotInKeychain, Sequential, LogoutFinal
<1>. QED BY <1>1, DesktopInvariant, PTL

\* One task at a time leaves memory and Keychain in agreement.
THEOREM SequentialAtRest == Spec => []AtRestIfSequential
<1>1. IInv => AtRestIfSequential
  BY DoneRecord DEF IInv, Sequential, Active, Agree, Quiet, AtRestIfSequential
<1>. QED BY <1>1, DesktopInvariant, PTL
=============================================================================
