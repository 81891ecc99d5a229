--------------------------- MODULE DatabaseSchema ---------------------------
(***************************************************************************)
(* The PostgreSQL schema at head: what its foreign keys, their ON DELETE   *)
(* actions, its keys and the append-only triggers of audit.events let an   *)
(* SQL client do to rows that hang together.  A row is its table, a name   *)
(* and the rows its foreign keys name; its other columns are left out, and *)
(* so are the checks on them.                                              *)
(*                                                                         *)
(* Each action is one statement that succeeds; one that an integrity rule  *)
(* or a trigger refuses changes nothing.  PostgreSQL runs the referential  *)
(* actions of a DELETE in rounds: those of the rows deleted in one round   *)
(* all run before those of the rows they delete.                           *)
(***************************************************************************)
EXTENDS FiniteSets

CONSTANTS
    Row,        \* the rows that may be inserted, as <<table, name>>
    None        \* NULL

ASSUME RowAssumption ==
    /\ \A x \in Row : x = <<x[1], x[2]>> /\ x[1] \in STRING
    /\ None \notin Row

Refs(tables, column, target, onDelete) ==
    {[from |-> t, column |-> column, to |-> target, on |-> onDelete] :
        t \in tables}

-----------------------------------------------------------------------------
(***************************************************************************)
(* The foreign keys, by bounded schema.                                    *)
(***************************************************************************)
IdentityRefs ==
    Refs({"user_roles", "devices", "sessions"}, "user", "users", "CASCADE")
    \cup Refs({"user_roles", "role_permissions"}, "role", "roles", "CASCADE")
    \cup Refs({"role_permissions"}, "permission", "permissions", "CASCADE")
    \cup Refs({"sessions"}, "device", "devices", "SET NULL")

AuthenticationRefs ==
    Refs({"oidc_identities", "session_events"}, "user", "users", "CASCADE")
    \cup Refs({"websocket_tickets", "session_events"}, "session", "sessions",
              "CASCADE")

PersonalizationRefs ==
    Refs({"user_preferences", "sound_preferences", "notification_preferences",
          "notification_events", "dashboard_layouts"}, "user", "users",
         "CASCADE")
    \cup Refs({"user_preferences"}, "theme", "themes", "SET NULL")
    \cup Refs({"user_preferences"}, "background", "background_assets",
              "SET NULL")
    \cup Refs({"user_preferences", "sound_preferences"}, "sound",
              "sound_assets", "SET NULL")

WorkspacesWithOwner ==                 \* mutant: workspaces deleted with owners
    Refs({"workspaces"}, "owner", "users", "CASCADE")
    \cup Refs({"workspace_members"}, "workspace", "workspaces", "CASCADE")
    \cup Refs({"workspace_members"}, "user", "users", "CASCADE")
WorkspaceRefs ==
    Refs({"workspaces"}, "owner", "users", "RESTRICT")
    \cup Refs({"workspace_members"}, "workspace", "workspaces", "CASCADE")
    \cup Refs({"workspace_members"}, "user", "users", "CASCADE")

OperationsRefs ==
    Refs({"server_connections"}, "workspace", "workspaces", "CASCADE")
    \cup Refs({"system_health_events"}, "connection", "server_connections",
              "CASCADE")

MarketRefs ==
    Refs({"quotes", "signals"}, "instrument", "instruments", "CASCADE")
    \cup Refs({"signals", "market_feed_health_events"}, "workspace",
              "workspaces", "CASCADE")

RiskStatesKept ==                      \* mutant: risk states not deleted along
    Refs({"trading_modes", "mode_transitions", "risk_configurations"},
         "workspace", "workspaces", "CASCADE")
    \cup Refs({"risk_states"}, "workspace", "workspaces", "RESTRICT")
    \cup Refs({"trading_modes", "mode_transitions", "risk_configurations"},
              "user", "users", "RESTRICT")
    \cup Refs({"risk_states"}, "configuration", "risk_configurations",
              "RESTRICT")
TradingControlRefs ==
    Refs({"trading_modes", "mode_transitions", "risk_configurations",
          "risk_states"}, "workspace", "workspaces", "CASCADE")
    \cup Refs({"trading_modes", "mode_transitions", "risk_configurations"},
              "user", "users", "RESTRICT")
    \cup Refs({"risk_states"}, "configuration", "risk_configurations",
              "RESTRICT")

OrdersWithWorkspace ==                 \* mutant: orders deleted with workspaces
    Refs({"orders", "positions"}, "workspace", "workspaces", "CASCADE")
    \cup Refs({"orders", "positions"}, "instrument", "instruments", "RESTRICT")
    \cup Refs({"executions"}, "order", "orders", "RESTRICT")
OrderRefs ==
    Refs({"orders", "positions"}, "workspace", "workspaces", "RESTRICT")
    \cup Refs({"orders", "positions"}, "instrument", "instruments", "RESTRICT")
    \cup Refs({"executions"}, "order", "orders", "RESTRICT")

ReportingRefs ==
    Refs({"pnl", "broker_health", "reconciliation_states"}, "workspace",
         "workspaces", "CASCADE")
    \cup Refs({"pnl"}, "instrument", "instruments", "SET NULL")
    \cup Refs({"manual_broker_exits"}, "workspace", "workspaces", "RESTRICT")
    \cup Refs({"manual_broker_exits"}, "instrument", "instruments", "RESTRICT")
    \cup Refs({"manual_broker_exits", "reconciliation_states"}, "user",
              "users", "RESTRICT")
    \cup Refs({"reconciliation_states"}, "exit", "manual_broker_exits",
              "SET NULL")

AuditRefs ==
    Refs({"events"}, "workspace", "workspaces", "SET NULL")
    \cup Refs({"events"}, "actor", "users", "SET NULL")

References ==
    IdentityRefs \cup AuthenticationRefs \cup PersonalizationRefs
    \cup WorkspaceRefs \cup OperationsRefs \cup MarketRefs
    \cup TradingControlRefs \cup OrderRefs \cup ReportingRefs \cup AuditRefs

\* Columns without nullable=False, besides those a SET NULL must blank.
NullableCascades == {<<"system_health_events", "connection">>,
                     <<"session_events", "session">>}
Nullable(ref) ==
    ref.on = "SET NULL" \/ <<ref.from, ref.column>> \in NullableCascades

\* Primary keys and unique constraints made of foreign keys only.
Keys == [t \in {"user_roles", "role_permissions", "user_preferences",
                "workspace_members", "trading_modes", "risk_states",
                "positions"} |->
          CASE t = "user_roles"        -> {"user", "role"}
            [] t = "role_permissions"  -> {"role", "permission"}
            [] t = "user_preferences"  -> {"user"}
            [] t = "workspace_members" -> {"workspace", "user"}
            [] t = "positions"         -> {"workspace", "instrument"}
            [] t \in {"trading_modes", "risk_states"} -> {"workspace"}]

IsEvent(x) == x[1] = "events"

\* The statements the triggers of audit.events raise an exception on.
DeleteOnly == {"DELETE", "TRUNCATE"}   \* mutant: UPDATE not covered
AppendOnly == {"UPDATE", "DELETE", "TRUNCATE"}

-----------------------------------------------------------------------------
VARIABLE db     \* the rows there are, with what their foreign keys name

Foreign == [k \in {<<ref.from, ref.column>> : ref \in References} |->
              CHOOSE ref \in References : k = <<ref.from, ref.column>>]
RefOf(x, c) == Foreign[<<x[1], c>>]

Columns == [t \in {x[1] : x \in Row} |->
              {ref.column : ref \in {k \in References : k.from = t}}]

Init == db = [x \in {} |-> None]

\* The rows that name a row of S in a foreign key with the given action.
Referring(S, action) ==
    {x \in DOMAIN db :
        \E c \in DOMAIN db[x] : db[x][c] \in S /\ RefOf(x, c).on = action}

\* What a foreign key may hold: a row of its target, or NULL where allowed.
Permitted(x, c, y) ==
    \/ y = None /\ Nullable(RefOf(x, c))
    \/ y \in DOMAIN db /\ y[1] = RefOf(x, c).to

KeyFree(x, links) ==
    x[1] \in DOMAIN Keys =>
        \A y \in DOMAIN db \ {x} :
            y[1] = x[1] => \E c \in Keys[x[1]] : db[y][c] # links[c]

Insert(x) ==
    /\ x \notin DOMAIN db
    /\ \E links \in [Columns[x[1]] -> DOMAIN db \cup {None}] :
          /\ \A c \in DOMAIN links : Permitted(x, c, links[c])
          /\ KeyFree(x, links)
          /\ db' = [y \in DOMAIN db \cup {x} |->
                      IF y = x THEN links ELSE db[y]]

\* UPDATE of one foreign key of a row.
Relink(x, c, y) ==
    /\ db[x][c] # y
    /\ Permitted(x, c, y)
    /\ KeyFree(x, [db[x] EXCEPT ![c] = y])
    /\ ~(IsEvent(x) /\ "UPDATE" \in AppendOnly)
    /\ db' = [db EXCEPT ![x][c] = y]

\* The rows a DELETE of x takes with it: no chain of cascades is longer.
FirstRound(x) == {x} \cup Referring({x}, "CASCADE")
Deleted(x)    == FirstRound(x) \cup Referring(FirstRound(x), "CASCADE")

\* RESTRICT is checked for the rows of a round when their other referential
\* actions run: what the same round deletes does not restrict any more.
Restricted(x) ==
    \/ Referring({x}, "RESTRICT") # {}
    \/ \E S \in {FirstRound(x), Deleted(x)} : Referring(S, "RESTRICT") \ S # {}

\* SET NULL is an UPDATE: it fires the triggers of the row it changes.
Raises(x) ==
    \/ "DELETE" \in AppendOnly /\ \E y \in Deleted(x) : IsEvent(y)
    \/ /\ "UPDATE" \in AppendOnly
       /\ \E y \in Referring(Deleted(x), "SET NULL") : IsEvent(y)

Blanked(y, S) ==
    [c \in DOMAIN db[y] |->
        IF db[y][c] \in S /\ RefOf(y, c).on = "SET NULL" THEN None
                                                         ELSE db[y][c]]

Delete(x) ==
    /\ ~Restricted(x)
    /\ ~Raises(x)
    /\ db' = [y \in DOMAIN db \ Deleted(x) |-> Blanked(y, Deleted(x))]

\* TRUNCATE, without CASCADE, of a table no foreign key refers to.
Truncate(t) ==
    /\ \A ref \in References : ref.to # t
    /\ ~(t = "events" /\ "TRUNCATE" \in AppendOnly)
    /\ db' = [x \in {y \in DOMAIN db : y[1] # t} |-> db[x]]

Next ==
    \/ \E x \in Row : Insert(x)
    \/ \E x \in DOMAIN db :
          \/ Delete(x)
          \/ \E c \in DOMAIN db[x], y \in Row \cup {None} : Relink(x, c, y)
          \/ Truncate(x[1])

Spec == Init /\ [][Next]_db

-----------------------------------------------------------------------------
(***************************************************************************)
(* Properties.                                                             *)
(***************************************************************************)
Names(x, column, y) == column \in DOMAIN db[x] /\ db[x][column] = y

\* Referential integrity: a row names rows of the right table that exist, or NULL
\* where the column may be NULL, and keys stay unique.
TypeOK ==
    /\ DOMAIN db \subseteq Row
    /\ \A x \in DOMAIN db :
          /\ db[x] \in [Columns[x[1]] -> Row \cup {None}]
          /\ \A c \in DOMAIN db[x] : Permitted(x, c, db[x][c])
          /\ KeyFree(x, db[x])

\* An audit event is what it was when it was inserted for as long as the
\* database lives.  Its foreign keys are declared ON DELETE SET NULL, but the
\* append-only trigger stops that update too, and with it the deletion of any
\* user or workspace an event names.
AuditKept ==
    [][\A x \in DOMAIN db : IsEvent(x) =>
          x \in DOMAIN db' /\ db'[x] = db[x]]_db

\* Orders, executions, positions and manual exits are neither removed nor
\* detached by a statement that removes rows of another table, directly or
\* through any chain of referential actions.
TradingRecordsKept ==
    [][\A x \in DOMAIN db, y \in DOMAIN db \ DOMAIN db' :
          /\ x[1] \in {"orders", "executions", "positions",
                        "manual_broker_exits"}
          /\ y[1] # x[1]
          => x \in DOMAIN db' /\ db'[x] = db[x]]_db

\* Deleting a user takes along what hangs from that user and nothing of anyone
\* else's: no workspace, no membership or preference of another user, no ticket
\* or event of another user's session.
AccountDeletion ==
    [][\A u, x \in DOMAIN db \ DOMAIN db' :
          u[1] = "users" =>
              \/ x = u
              \/ Names(x, "user", u)
              \/ \E y \in DOMAIN db : /\ Names(x, "session", y)
                                      /\ Names(y, "user", u)]_db

\* What keeps a workspace: a trading record of it, an audit event that names it,
\* or a risk state of another workspace that has borrowed its configuration.
Keeping(w) ==
    {x \in DOMAIN db :
        \/ /\ x[1] \in {"orders", "positions", "manual_broker_exits", "events"}
           /\ db[x]["workspace"] = w
        \/ /\ x[1] = "risk_states"
           /\ db[x]["workspace"] # w
           /\ db[db[x]["configuration"]]["workspace"] = w}

\* A workspace can be deleted unless something like that keeps it: its own risk
\* state restricts its own risk configuration, and both go with it all the same,
\* as do its modes, members, servers, signals and reports.
WorkspaceDeletion ==
    \A w \in DOMAIN db :
        w[1] = "workspaces" => (Restricted(w) \/ Raises(w) <=> Keeping(w) # {})
=============================================================================
