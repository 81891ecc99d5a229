------------------------ MODULE DatabaseSchema_proofs ------------------------
(***************************************************************************)
(* Theorems about DatabaseSchema, for any set of rows.                     *)
(***************************************************************************)
EXTENDS DatabaseSchema, TLAPS

\* Tables that are only ever deleted from directly or by a cascade of one of
\* the tables their own foreign keys name.
Roots    == {"users", "roles", "permissions", "workspaces", "instruments"}
Branches == {"sessions", "devices", "server_connections"}
Ledger   == {"orders", "executions", "positions", "manual_broker_exits"}

InKey(t, column) == t \in DOMAIN Keys /\ column \in Keys[t]

\* A foreign key with the shape the lemmas below rely on.
Shaped(ref) ==
    /\ ref = [from |-> ref.from, column |-> ref.column, to |-> ref.to,
              on |-> ref.on]
    /\ ref.on = "CASCADE" => /\ ref.from \notin Roots
                             /\ ref.to \in Roots \cup Branches
                             /\ ref.from \in Branches => ref.to \in Roots
                             /\ ref.to = "users" =>
                                   /\ ref.column = "user"
                                   /\ ref.from # "server_connections"
                             /\ ref.to \in {"sessions", "devices"} =>
                                   ref.column = "session"
    /\ ref.from \in Ledger => ref.on = "RESTRICT"
    /\ ref.on \in {"CASCADE", "SET NULL", "RESTRICT"}
    /\ ref.on = "SET NULL" => ~InKey(ref.from, ref.column)

\* A group of foreign keys that cascade at most from a root or a branch, never
\* from or into a ledger table, is shaped as the cascade argument needs.
LEMMA RefsShaped ==
    ASSUME NEW tables, NEW column, NEW target, NEW onDelete,
           onDelete = "CASCADE" =>
              /\ tables \cap Roots = {}
              /\ target \in Roots \cup Branches
              /\ tables \cap Branches # {} => target \in Roots
              /\ target = "users" =>
                    column = "user" /\ "server_connections" \notin tables
              /\ target \in {"sessions", "devices"} => column = "session",
           tables \cap Ledger # {} => onDelete = "RESTRICT",
           onDelete \in {"CASCADE", "SET NULL", "RESTRICT"},
           onDelete = "SET NULL" => \A t \in tables : ~InKey(t, column)
    PROVE  \A ref \in Refs(tables, column, target, onDelete) : Shaped(ref)
<1> TAKE ref \in Refs(tables, column, target, onDelete)
<1>1. PICK t \in tables : ref = [from |-> t, column |-> column,
                                to |-> target, on |-> onDelete]
  BY DEF Refs
<1> QED  BY <1>1 DEF Shaped

\* The foreign keys of every bounded schema have that shape.
LEMMA SchemaShaped == \A ref \in References : Shaped(ref)
<1>1. \A ref \in IdentityRefs : Shaped(ref)
  BY RefsShaped
     DEF IdentityRefs, Roots, Branches, Ledger, InKey, Keys
<1>2. \A ref \in AuthenticationRefs : Shaped(ref)
  BY RefsShaped
     DEF AuthenticationRefs, Roots, Branches, Ledger, InKey, Keys
<1>3. \A ref \in PersonalizationRefs : Shaped(ref)
  BY RefsShaped
     DEF PersonalizationRefs, Roots, Branches, Ledger, InKey, Keys
<1>4. \A ref \in WorkspaceRefs : Shaped(ref)
  BY RefsShaped
     DEF WorkspaceRefs, Roots, Branches, Ledger, InKey, Keys
<1>5. \A ref \in OperationsRefs : Shaped(ref)
  BY RefsShaped
     DEF OperationsRefs, Roots, Branches, Ledger, InKey, Keys
<1>6. \A ref \in MarketRefs : Shaped(ref)
  BY RefsShaped
     DEF MarketRefs, Roots, Branches, Ledger, InKey, Keys
<1>7. \A ref \in TradingControlRefs : Shaped(ref)
  BY RefsShaped
     DEF TradingControlRefs, Roots, Branches, Ledger, InKey, Keys
<1>8. \A ref \in OrderRefs : Shaped(ref)
  BY RefsShaped
     DEF OrderRefs, Roots, Branches, Ledger, InKey, Keys
<1>9. \A ref \in ReportingRefs : Shaped(ref)
  BY RefsShaped
     DEF ReportingRefs, Roots, Branches, Ledger, InKey, Keys
<1>10. \A ref \in AuditRefs : Shaped(ref)
  BY RefsShaped
     DEF AuditRefs, Roots, Branches, Ledger, InKey, Keys
<1> QED
  BY <1>1, <1>2, <1>3, <1>4, <1>5, <1>6, <1>7, <1>8, <1>9, <1>10
     DEF References

-----------------------------------------------------------------------------
(***************************************************************************)
(* Referential integrity.                                                  *)
(***************************************************************************)
\* Every foreign key is found by its table and column.
LEMMA ForeignType ==
    ASSUME NEW x \in Row, NEW c \in Columns[x[1]]
    PROVE  /\ RefOf(x, c) \in References
           /\ RefOf(x, c).from = x[1]
           /\ RefOf(x, c).column = c
<1>1. PICK ref \in References : ref.from = x[1] /\ ref.column = c
  BY DEF Columns
<1>2. <<x[1], c>> \in DOMAIN Foreign
  BY <1>1 DEF Foreign
<1>3. RefOf(x, c) = CHOOSE k \in References : <<x[1], c>> = <<k.from, k.column>>
  BY <1>2 DEF RefOf, Foreign
<1>4. \E k \in References : <<x[1], c>> = <<k.from, k.column>>
  BY <1>1
<1>5. /\ RefOf(x, c) \in References
      /\ <<x[1], c>> = <<RefOf(x, c).from, RefOf(x, c).column>>
  BY <1>3, <1>4
<1> QED  BY <1>5

\* The keys are made of foreign keys.
LEMMA KeysAreColumns ==
    ASSUME NEW x \in Row, x[1] \in DOMAIN Keys
    PROVE  Keys[x[1]] \subseteq Columns[x[1]]
<1> DEFINE Has(t, c) == \E ref \in References : ref.from = t /\ ref.column = c
<1>1. ASSUME NEW tables, NEW column, NEW target, NEW onDelete,
             Refs(tables, column, target, onDelete) \subseteq References
      PROVE  \A t \in tables : Has(t, column)
  <2> SUFFICES ASSUME NEW t \in tables  PROVE Has(t, column)
    OBVIOUS
  <2>1. [from |-> t, column |-> column, to |-> target, on |-> onDelete]
          \in Refs(tables, column, target, onDelete)
    BY DEF Refs
  <2> QED  BY <1>1, <2>1
<1> HIDE DEF Has
<1>2. /\ Has("user_roles", "user")
      /\ Has("user_roles", "role") /\ Has("role_permissions", "role")
      /\ Has("role_permissions", "permission")
  <2>1. /\ Refs({"user_roles", "devices", "sessions"}, "user", "users",
               "CASCADE") \subseteq References
        /\ Refs({"user_roles", "role_permissions"}, "role", "roles", "CASCADE")
             \subseteq References
        /\ Refs({"role_permissions"}, "permission", "permissions", "CASCADE")
             \subseteq References
    BY DEF References, IdentityRefs
  <2> QED  BY <1>1, <2>1
<1>3. Has("user_preferences", "user")
  <2>1. Refs({"user_preferences", "sound_preferences",
              "notification_preferences", "notification_events",
              "dashboard_layouts"}, "user", "users", "CASCADE")
          \subseteq References
    BY DEF References, PersonalizationRefs
  <2> QED  BY <1>1, <2>1
<1>4. Has("workspace_members", "workspace") /\ Has("workspace_members", "user")
  <2>1. /\ Refs({"workspace_members"}, "workspace", "workspaces", "CASCADE")
             \subseteq References
        /\ Refs({"workspace_members"}, "user", "users", "CASCADE")
             \subseteq References
    BY DEF References, WorkspaceRefs
  <2> QED  BY <1>1, <2>1
<1>5. Has("trading_modes", "workspace") /\ Has("risk_states", "workspace")
  <2>1. Refs({"trading_modes", "mode_transitions", "risk_configurations",
              "risk_states"}, "workspace", "workspaces", "CASCADE")
          \subseteq References
    BY DEF References, TradingControlRefs
  <2> QED  BY <1>1, <2>1
<1>6. Has("positions", "workspace") /\ Has("positions", "instrument")
  <2>1. /\ Refs({"orders", "positions"}, "workspace", "workspaces", "RESTRICT")
             \subseteq References
        /\ Refs({"orders", "positions"}, "instrument", "instruments",
               "RESTRICT") \subseteq References
    BY DEF References, OrderRefs
  <2> QED  BY <1>1, <2>1
<1>7. \A c \in Keys[x[1]] : Has(x[1], c)
  BY <1>2, <1>3, <1>4, <1>5, <1>6 DEF Keys
<1> QED  BY <1>7 DEF Columns, Has

\* Cascades stop after two rounds: what a DELETE takes along is closed.
LEMMA DeletedClosed ==
    ASSUME TypeOK, NEW x \in DOMAIN db
    PROVE  Referring(Deleted(x), "CASCADE") \subseteq Deleted(x)
<1> SUFFICES ASSUME NEW y \in Referring(Deleted(x), "CASCADE"),
                    y \notin Deleted(x)
             PROVE  FALSE
  OBVIOUS
<1> DEFINE Cascades(a, b) ==
      \E c \in DOMAIN db[a] : db[a][c] = b /\ RefOf(a, c).on = "CASCADE"
<1>1. \A a, b \in DOMAIN db : Cascades(a, b) =>
         \E ref \in References :
            ref.on = "CASCADE" /\ ref.from = a[1] /\ ref.to = b[1]
  <2> SUFFICES ASSUME NEW a \in DOMAIN db, NEW b \in DOMAIN db,
                      NEW c \in DOMAIN db[a], db[a][c] = b,
                      RefOf(a, c).on = "CASCADE"
               PROVE  \E ref \in References : /\ ref.on = "CASCADE"
                                              /\ ref.from = a[1]
                                              /\ ref.to = b[1]
    OBVIOUS
  <2>1. a \in Row /\ c \in Columns[a[1]] /\ Permitted(a, c, b)
    BY DEF TypeOK
  <2>2. b # None
    BY RowAssumption DEF TypeOK
  <2>3. RefOf(a, c).to = b[1]
    BY <2>1, <2>2 DEF Permitted
  <2> QED  BY <2>1, <2>3, ForeignType
<1>2. /\ FirstRound(x) \subseteq DOMAIN db
      /\ Deleted(x) \subseteq DOMAIN db
      /\ \A a \in FirstRound(x) : a = x \/ Cascades(a, x)
      /\ \A a \in Deleted(x) :
            a \in FirstRound(x) \/ \E b \in FirstRound(x) : Cascades(a, b)
      /\ \A a, b \in DOMAIN db :
            Cascades(a, b) /\ b \in FirstRound(x) => a \in Deleted(x)
      /\ \A a \in DOMAIN db : Cascades(a, x) => a \in FirstRound(x)
  BY DEF FirstRound, Deleted, Referring
<1>3. PICK z \in Deleted(x) : y \in DOMAIN db /\ Cascades(y, z)
  BY DEF Referring
<1>4. z \notin FirstRound(x)
  BY <1>2, <1>3
<1>5. PICK w \in FirstRound(x) : Cascades(z, w)
  BY <1>2, <1>4
<1>6. w # x /\ Cascades(w, x)
  BY <1>2, <1>4, <1>5
<1>7. PICK r1 \in References :
         r1.on = "CASCADE" /\ r1.from = y[1] /\ r1.to = z[1]
  BY <1>1, <1>2, <1>3
<1>8. PICK r2 \in References :
         r2.on = "CASCADE" /\ r2.from = z[1] /\ r2.to = w[1]
  BY <1>1, <1>2, <1>5
<1>9. PICK r3 \in References :
         r3.on = "CASCADE" /\ r3.from = w[1] /\ r3.to = x[1]
  BY <1>1, <1>2, <1>6
<1> QED
  BY <1>7, <1>8, <1>9, SchemaShaped DEF Shaped

\* An INSERT keeps every row's foreign keys and keys in order.
LEMMA InsertStep ==
    ASSUME TypeOK, NEW x \in Row, Insert(x)
    PROVE  TypeOK'
<1>1. PICK links \in [Columns[x[1]] -> DOMAIN db \cup {None}] :
         /\ \A c \in DOMAIN links : Permitted(x, c, links[c])
         /\ KeyFree(x, links)
         /\ db' = [y \in DOMAIN db \cup {x} |->
                     IF y = x THEN links ELSE db[y]]
  BY DEF Insert
<1>2. x \notin DOMAIN db
  BY DEF Insert
<1>3. /\ DOMAIN db' = DOMAIN db \cup {x}
      /\ db'[x] = links
      /\ \A y \in DOMAIN db : db'[y] = db[y]
  BY <1>1, <1>2
<1>4. \A y \in DOMAIN db' : \A c \in DOMAIN db'[y] :
         Permitted(y, c, db[y][c])'
  BY <1>1, <1>3 DEF Permitted, RefOf, TypeOK
<1>5. \A y \in DOMAIN db' : db'[y] \in [Columns[y[1]] -> Row \cup {None}]
  BY <1>1, <1>3 DEF TypeOK
<1>6. \A y \in DOMAIN db' : KeyFree(y, db[y])'
  <2> SUFFICES ASSUME NEW y \in DOMAIN db', y[1] \in DOMAIN Keys,
                      NEW z \in DOMAIN db' \ {y}, z[1] = y[1]
               PROVE  \E c \in Keys[y[1]] : db'[z][c] # db'[y][c]
    BY DEF KeyFree
  <2>1. \A w \in DOMAIN db :
           w[1] = x[1] /\ x[1] \in DOMAIN Keys =>
              \E c \in Keys[x[1]] : db'[w][c] # db'[x][c]
    BY <1>1, <1>2, <1>3 DEF KeyFree
  <2>2. CASE y = x \/ z = x
    BY <1>3, <2>1, <2>2
  <2>3. CASE y # x /\ z # x
    BY <1>3, <2>3 DEF KeyFree, TypeOK
  <2> QED  BY <2>2, <2>3
<1> QED
  BY <1>3, <1>4, <1>5, <1>6 DEF TypeOK

\* So does an UPDATE of a foreign key.
LEMMA RelinkStep ==
    ASSUME TypeOK, NEW x \in DOMAIN db, NEW c \in DOMAIN db[x],
           NEW y \in Row \cup {None}, Relink(x, c, y)
    PROVE  TypeOK'
<1> DEFINE links == [db[x] EXCEPT ![c] = y]
<1>1. /\ DOMAIN db' = DOMAIN db
      /\ db'[x] = links
      /\ \A z \in DOMAIN db \ {x} : db'[z] = db[z]
  BY DEF Relink
<1>2. links \in [Columns[x[1]] -> Row \cup {None}]
  BY DEF TypeOK
<1>3. \A d \in DOMAIN links : Permitted(x, d, links[d])
  BY <1>2 DEF Relink, TypeOK
<1>4. KeyFree(x, links)
  BY DEF Relink
<1> HIDE DEF links
<1>5. \A z \in DOMAIN db' : \A d \in DOMAIN db'[z] :
         Permitted(z, d, db[z][d])'
  <2> SUFFICES ASSUME NEW z \in DOMAIN db', NEW d \in DOMAIN db'[z]
               PROVE  Permitted(z, d, db[z][d])'
    OBVIOUS
  <2>1. Permitted(z, d, db'[z][d])
    BY <1>1, <1>3 DEF TypeOK
  <2> QED  BY <1>1, <2>1 DEF Permitted, RefOf
<1>6. \A z \in DOMAIN db' : KeyFree(z, db[z])'
  <2> SUFFICES ASSUME NEW z \in DOMAIN db', z[1] \in DOMAIN Keys,
                      NEW w \in DOMAIN db' \ {z}, w[1] = z[1]
               PROVE  \E d \in Keys[z[1]] : db'[w][d] # db'[z][d]
    BY DEF KeyFree
  <2>1. CASE z = x \/ w = x
    BY <1>1, <1>4, <2>1 DEF KeyFree
  <2>2. CASE z # x /\ w # x
    BY <1>1, <2>2 DEF KeyFree, TypeOK
  <2> QED  BY <2>1, <2>2
<1> QED
  BY <1>1, <1>2, <1>5, <1>6 DEF TypeOK

\* A DELETE leaves no foreign key that names a deleted row: it deletes the rows
\* that cascade, blanks those that are set to NULL, and is refused otherwise.
LEMMA DeleteStep ==
    ASSUME TypeOK, NEW x \in DOMAIN db, Delete(x)
    PROVE  TypeOK'
<1> DEFINE S == Deleted(x)
<1>1. Referring(S, "CASCADE") \subseteq S
  BY DeletedClosed
<1>2. Referring(S, "RESTRICT") \subseteq S
  BY DEF Delete, Restricted
<1> HIDE DEF S
<1>3. /\ DOMAIN db' = DOMAIN db \ S
      /\ \A y \in DOMAIN db \ S : db'[y] = Blanked(y, S)
  BY DEF Delete, S
<1>4. \A y \in DOMAIN db \ S : \A c \in DOMAIN db[y] :
         db[y][c] \in S => RefOf(y, c).on = "SET NULL"
  <2> SUFFICES ASSUME NEW y \in DOMAIN db \ S, NEW c \in DOMAIN db[y],
                      db[y][c] \in S
               PROVE  RefOf(y, c).on = "SET NULL"
    OBVIOUS
  <2>1. RefOf(y, c) \in References
    BY ForeignType DEF TypeOK
  <2>2. RefOf(y, c).on \in {"CASCADE", "SET NULL", "RESTRICT"}
    BY <2>1, SchemaShaped DEF Shaped
  <2> QED  BY <1>1, <1>2, <2>2 DEF Referring
<1>5. \A y \in DOMAIN db' :
         /\ DOMAIN db'[y] = DOMAIN db[y]
         /\ \A c \in DOMAIN db[y] :
               \/ db'[y][c] = db[y][c] /\ db[y][c] \notin S
               \/ db'[y][c] = None /\ RefOf(y, c).on = "SET NULL"
  <2> SUFFICES ASSUME NEW y \in DOMAIN db'
               PROVE  /\ DOMAIN db'[y] = DOMAIN db[y]
                      /\ \A c \in DOMAIN db[y] :
                            \/ db'[y][c] = db[y][c] /\ db[y][c] \notin S
                            \/ /\ db'[y][c] = None
                               /\ RefOf(y, c).on = "SET NULL"
    OBVIOUS
  <2>1. y \in DOMAIN db \ S /\ db'[y] = Blanked(y, S)
    BY <1>3
  <2> QED  BY <1>4, <2>1 DEF Blanked
<1>6. \A y \in DOMAIN db' : db'[y] \in [Columns[y[1]] -> Row \cup {None}]
  <2> SUFFICES ASSUME NEW y \in DOMAIN db'
               PROVE  db'[y] \in [Columns[y[1]] -> Row \cup {None}]
    OBVIOUS
  <2>1. y \in DOMAIN db /\ db'[y] = Blanked(y, S)
    BY <1>3
  <2>2. db[y] \in [Columns[y[1]] -> Row \cup {None}]
    BY <2>1 DEF TypeOK
  <2> QED  BY <2>1, <2>2 DEF Blanked
<1>7. \A y \in DOMAIN db' : \A c \in DOMAIN db'[y] :
         Permitted(y, c, db[y][c])'
  <2> SUFFICES ASSUME NEW y \in DOMAIN db', NEW c \in DOMAIN db'[y]
               PROVE  Permitted(y, c, db[y][c])'
    OBVIOUS
  <2>1. y \in DOMAIN db /\ c \in DOMAIN db[y] /\ Permitted(y, c, db[y][c])
    BY <1>3, <1>5 DEF TypeOK
  <2>2. CASE db'[y][c] = db[y][c] /\ db[y][c] \notin S
    BY <1>3, <2>1, <2>2 DEF Permitted, RefOf
  <2>3. CASE db'[y][c] = None /\ RefOf(y, c).on = "SET NULL"
    BY <2>3 DEF Permitted, Nullable, RefOf
  <2> QED  BY <1>5, <2>1, <2>2, <2>3
<1>8. \A y \in DOMAIN db' : KeyFree(y, db[y])'
  <2> SUFFICES ASSUME NEW y \in DOMAIN db', y[1] \in DOMAIN Keys,
                      NEW z \in DOMAIN db' \ {y}, z[1] = y[1]
               PROVE  \E c \in Keys[y[1]] : db'[z][c] # db'[y][c]
    BY DEF KeyFree
  <2>1. PICK c \in Keys[y[1]] : db[z][c] # db[y][c]
    BY <1>3 DEF KeyFree, TypeOK
  <2>2. c \in Columns[y[1]]
    BY KeysAreColumns, <1>3 DEF TypeOK
  <2>3. \A w \in {y, z} : RefOf(w, c).on # "SET NULL"
    <3> SUFFICES ASSUME NEW w \in {y, z}
                 PROVE  RefOf(w, c).on # "SET NULL"
      OBVIOUS
    <3>1. w \in Row /\ c \in Columns[w[1]]
      BY <1>3, <2>2 DEF TypeOK
    <3>2. /\ RefOf(w, c) \in References
          /\ RefOf(w, c).from = y[1]
          /\ RefOf(w, c).column = c
      BY <3>1, ForeignType
    <3> QED  BY <3>2, SchemaShaped DEF Shaped, InKey
  <2> QED  BY <1>3, <1>5, <2>1, <2>2, <2>3 DEF TypeOK
<1> QED
  BY <1>3, <1>6, <1>7, <1>8 DEF TypeOK

\* TRUNCATE takes the rows of a table no foreign key refers to.
LEMMA TruncateStep ==
    ASSUME TypeOK, NEW t, Truncate(t)
    PROVE  TypeOK'
<1>1. /\ DOMAIN db' = {y \in DOMAIN db : y[1] # t}
      /\ \A y \in DOMAIN db' : db'[y] = db[y]
  BY DEF Truncate
<1>2. \A y \in DOMAIN db' : \A c \in DOMAIN db'[y] :
         Permitted(y, c, db[y][c])'
  <2> SUFFICES ASSUME NEW y \in DOMAIN db', NEW c \in DOMAIN db'[y]
               PROVE  Permitted(y, c, db[y][c])'
    OBVIOUS
  <2>1. /\ y \in Row /\ c \in Columns[y[1]]
        /\ Permitted(y, c, db[y][c])
    BY <1>1 DEF TypeOK
  <2>2. RefOf(y, c).to # t
    BY <2>1, ForeignType DEF Truncate
  <2> QED  BY <1>1, <2>1, <2>2 DEF Permitted, RefOf
<1>3. \A y \in DOMAIN db' : KeyFree(y, db[y])'
  BY <1>1 DEF KeyFree, TypeOK
<1> QED
  BY <1>1, <1>2, <1>3 DEF TypeOK

\* Every statement keeps referential integrity.
LEMMA NextStep == TypeOK /\ [Next]_db => TypeOK'
<1> SUFFICES ASSUME TypeOK, [Next]_db
             PROVE  TypeOK'
  OBVIOUS
<1>1. CASE \E x \in Row : Insert(x)
  BY <1>1, InsertStep
<1>2. CASE \E x \in DOMAIN db : Delete(x)
  BY <1>2, DeleteStep
<1>3. CASE \E x \in DOMAIN db :
             \E c \in DOMAIN db[x], y \in Row \cup {None} : Relink(x, c, y)
  BY <1>3, RelinkStep
<1>4. CASE \E x \in DOMAIN db : Truncate(x[1])
  BY <1>4, TruncateStep
<1>5. CASE UNCHANGED db
  BY <1>5 DEF TypeOK, KeyFree, Permitted, RefOf
<1> QED
  BY <1>1, <1>2, <1>3, <1>4, <1>5 DEF Next

\* The invariant of the theorems below.  That PostgreSQL keeps it is no merit of
\* the schema; that this model keeps it shows that two rounds are all the rounds
\* a DELETE has (DeletedClosed), and that no SET NULL column is part of a key.
LEMMA ReferentialIntegrity == Spec => []TypeOK
<1>1. Init => TypeOK
  BY DEF Init, TypeOK
<1>2. TypeOK /\ [Next]_db => TypeOK'
  BY NextStep
<1> QED
  BY <1>1, <1>2, PTL DEF Spec

-----------------------------------------------------------------------------
(***************************************************************************)
(* What deletions never reach.                                             *)
(***************************************************************************)
\* What a DELETE removes besides its own row cascades from something, and what
\* it changes loses a foreign key that is set to NULL.
LEMMA DeleteEffect ==
    ASSUME TypeOK, NEW x \in DOMAIN db, Delete(x), NEW y \in DOMAIN db, y # x
    PROVE  /\ y \notin DOMAIN db' =>
                 \E ref \in References : ref.from = y[1] /\ ref.on = "CASCADE"
           /\ y \in DOMAIN db' /\ db'[y] # db[y] =>
                 /\ y \in Referring(Deleted(x), "SET NULL")
                 /\ \E ref \in References :
                       ref.from = y[1] /\ ref.on = "SET NULL"
<1> DEFINE Holds(action) ==
      \E ref \in References : ref.from = y[1] /\ ref.on = action
<1>1. ASSUME NEW S, NEW action, y \in Referring(S, action)
      PROVE  Holds(action)
  <2>1. PICK c \in DOMAIN db[y] : RefOf(y, c).on = action
    BY <1>1 DEF Referring
  <2>2. y \in Row /\ c \in Columns[y[1]]
    BY DEF TypeOK
  <2> QED  BY <2>1, <2>2, ForeignType
<1>2. y \notin DOMAIN db' => Holds("CASCADE")
  <2> SUFFICES ASSUME y \notin DOMAIN db'  PROVE Holds("CASCADE")
    OBVIOUS
  <2>1. y \in Deleted(x)
    BY DEF Delete
  <2>2. \E S : y \in Referring(S, "CASCADE")
    BY <2>1 DEF Deleted, FirstRound
  <2> QED  BY <1>1, <2>2
<1>3. y \in DOMAIN db' /\ db'[y] # db[y] =>
         y \in Referring(Deleted(x), "SET NULL")
  <2> SUFFICES ASSUME y \in DOMAIN db', y \notin Referring(Deleted(x), "SET NULL")
               PROVE  db'[y] = db[y]
    OBVIOUS
  <2>1. db'[y] = Blanked(y, Deleted(x))
    BY DEF Delete
  <2>2. \A c \in DOMAIN db[y] :
           ~(db[y][c] \in Deleted(x) /\ RefOf(y, c).on = "SET NULL")
    BY DEF Referring
  <2>3. Blanked(y, Deleted(x)) = [c \in DOMAIN db[y] |-> db[y][c]]
    BY <2>2 DEF Blanked
  <2>4. db[y] \in [Columns[y[1]] -> Row \cup {None}]
    BY DEF TypeOK
  <2> QED  BY <2>1, <2>3, <2>4
<1> QED  BY <1>1, <1>2, <1>3

\* An audit event stays exactly as it was inserted: the triggers stop the
\* statements on its own table, and the SET NULL of its foreign keys with them.
THEOREM AuditEventsAreKept == Spec => AuditKept
<1> DEFINE Kept == \A x \in DOMAIN db : IsEvent(x) =>
                      x \in DOMAIN db' /\ db'[x] = db[x]
<1>1. TypeOK /\ [Next]_db => [Kept]_db
  <2> SUFFICES ASSUME TypeOK, Next, NEW e \in DOMAIN db, IsEvent(e)
               PROVE  e \in DOMAIN db' /\ db'[e] = db[e]
    BY DEF Kept
  <2>1. CASE \E x \in Row : Insert(x)
    <3>1. PICK x \in Row : Insert(x)
      BY <2>1
    <3>2. x # e
      BY <3>1 DEF Insert
    <3> QED  BY <3>1, <3>2 DEF Insert
  <2>2. CASE \E x \in DOMAIN db : Delete(x)
    <3>1. PICK x \in DOMAIN db : Delete(x)
      BY <2>2
    <3>2. e \notin Deleted(x) /\ e \notin Referring(Deleted(x), "SET NULL")
      BY <3>1 DEF Delete, Raises, AppendOnly
    <3>3. e \in DOMAIN db'
      BY <3>1, <3>2 DEF Delete
    <3>4. e # x
      BY <3>2 DEF Deleted, FirstRound
    <3> QED  BY <3>1, <3>2, <3>3, <3>4, DeleteEffect
  <2>3. CASE \E x \in DOMAIN db :
               \E c \in DOMAIN db[x], y \in Row \cup {None} : Relink(x, c, y)
    <3>1. PICK x \in DOMAIN db :
             \E c \in DOMAIN db[x], y \in Row \cup {None} : Relink(x, c, y)
      BY <2>3
    <3>2. x # e
      BY <3>1 DEF Relink, AppendOnly
    <3> QED  BY <3>1, <3>2 DEF Relink
  <2>4. CASE \E x \in DOMAIN db : Truncate(x[1])
    <3>1. PICK x \in DOMAIN db : Truncate(x[1])
      BY <2>4
    <3>2. e[1] # x[1]
      BY <3>1 DEF Truncate, AppendOnly, IsEvent
    <3> QED  BY <3>1, <3>2 DEF Truncate
  <2> QED  BY <2>1, <2>2, <2>3, <2>4 DEF Next
<1> QED
  BY <1>1, ReferentialIntegrity, PTL DEF Spec, AuditKept, Kept

\* No order, execution, position or manual exit is lost or detached because
\* something else was deleted: all their foreign keys are ON DELETE RESTRICT.
THEOREM TradingRecordsAreKept == Spec => TradingRecordsKept
<1> DEFINE Kept == \A x \in DOMAIN db, y \in DOMAIN db \ DOMAIN db' :
                      /\ x[1] \in {"orders", "executions", "positions",
                                    "manual_broker_exits"}
                      /\ y[1] # x[1]
                      => x \in DOMAIN db' /\ db'[x] = db[x]
<1>1. TypeOK /\ [Next]_db => [Kept]_db
  <2> SUFFICES ASSUME TypeOK, Next,
                      NEW x \in DOMAIN db, NEW y \in DOMAIN db \ DOMAIN db',
                      x[1] \in Ledger, y[1] # x[1]
               PROVE  x \in DOMAIN db' /\ db'[x] = db[x]
    BY DEF Kept, Ledger
  <2>1. CASE \E z \in Row : Insert(z)
    BY <2>1 DEF Insert
  <2>2. CASE \E z \in DOMAIN db : Delete(z)
    <3>1. PICK z \in DOMAIN db : Delete(z)
      BY <2>2
    <3>2. \A ref \in References :
             ref.from = x[1] => ref.on = "RESTRICT"
      BY SchemaShaped DEF Shaped
    <3>3. CASE x # z
      BY <3>1, <3>2, <3>3, DeleteEffect
    <3>4. CASE x = z
      <4>1. y \in Deleted(x) /\ y # x
        BY <3>1, <3>4 DEF Delete
      <4>2. PICK w \in DOMAIN db : \E c \in DOMAIN db[w] :
               db[w][c] = x /\ RefOf(w, c).on = "CASCADE"
        BY <4>1 DEF Deleted, FirstRound, Referring
      <4>3. PICK c \in DOMAIN db[w] :
               db[w][c] = x /\ RefOf(w, c).on = "CASCADE"
        BY <4>2
      <4>4. /\ w \in Row /\ c \in Columns[w[1]] /\ x \in Row
            /\ Permitted(w, c, x)
        BY <4>3 DEF TypeOK
      <4>5. RefOf(w, c).to = x[1] /\ RefOf(w, c) \in References
        BY <4>4, ForeignType, RowAssumption DEF Permitted
      <4> QED  BY <4>3, <4>5, SchemaShaped DEF Shaped, Ledger, Roots, Branches
    <3> QED  BY <3>3, <3>4
  <2>3. CASE \E z \in DOMAIN db :
               \E c \in DOMAIN db[z], w \in Row \cup {None} : Relink(z, c, w)
    BY <2>3 DEF Relink
  <2>4. CASE \E z \in DOMAIN db : Truncate(z[1])
    BY <2>4 DEF Truncate
  <2> QED  BY <2>1, <2>2, <2>3, <2>4 DEF Next
<1> QED
  BY <1>1, ReferentialIntegrity, PTL DEF Spec, TradingRecordsKept, Kept

\* The one row of users a DELETE removes is the row it names.
LEMMA UserDeleted ==
    ASSUME TypeOK, NEW z \in DOMAIN db, Delete(z),
           NEW u \in DOMAIN db \ DOMAIN db', u[1] = "users"
    PROVE  z = u
<1>. SUFFICES ASSUME u # z PROVE FALSE
  OBVIOUS
<1>1. PICK ref \in References : ref.from = u[1] /\ ref.on = "CASCADE"
  BY DeleteEffect
<1>. QED BY <1>1, SchemaShaped DEF Shaped, Roots

\* What cascades from a row names it in a foreign key to its table.
LEMMA CascadeNames ==
    ASSUME TypeOK, NEW S, S \subseteq DOMAIN db,
           NEW y \in Referring(S, "CASCADE")
    PROVE  \E c \in DOMAIN db[y], w \in S, ref \in References :
              /\ db[y][c] = w
              /\ ref.from = y[1] /\ ref.column = c
              /\ ref.to = w[1] /\ ref.on = "CASCADE"
<1>1. y \in DOMAIN db
  BY DEF Referring
<1>2. PICK c \in DOMAIN db[y] : db[y][c] \in S /\ RefOf(y, c).on = "CASCADE"
  BY DEF Referring
<1>3. /\ y \in Row /\ c \in Columns[y[1]] /\ db[y][c] # None
      /\ Permitted(y, c, db[y][c])
  BY <1>1, <1>2, RowAssumption DEF TypeOK
<1>4. /\ RefOf(y, c) \in References
      /\ RefOf(y, c).from = y[1] /\ RefOf(y, c).column = c
  BY <1>3, ForeignType
<1>5. RefOf(y, c).to = db[y][c][1]
  BY <1>3 DEF Permitted
<1>. QED BY <1>2, <1>4, <1>5

\* Deleting a user ends what that user owns alone: the first round of cascades
\* follows columns named user_id, and of the tables it reaches only sessions
\* have rows hanging from them, by their column session_id.
THEOREM AccountsAreDeletedAlone == Spec => AccountDeletion
<1> DEFINE OwnOnly == \A u, x \in DOMAIN db \ DOMAIN db' :
                         u[1] = "users" =>
                             \/ x = u
                             \/ Names(x, "user", u)
                             \/ \E y \in DOMAIN db : /\ Names(x, "session", y)
                                                     /\ Names(y, "user", u)
<1>1. TypeOK /\ [Next]_db => [OwnOnly]_db
  <2> SUFFICES ASSUME TypeOK, Next,
                      NEW u \in DOMAIN db \ DOMAIN db',
                      NEW x \in DOMAIN db \ DOMAIN db',
                      u[1] = "users", x # u, ~Names(x, "user", u)
               PROVE  \E y \in DOMAIN db : /\ Names(x, "session", y)
                                           /\ Names(y, "user", u)
    BY DEF OwnOnly
  <2>1. CASE \E z \in Row : Insert(z)
    BY <2>1 DEF Insert
  <2>2. CASE \E z \in DOMAIN db : Delete(z)
    <3>1. Delete(u)
      BY <2>2, UserDeleted
    <3>2. x \in Deleted(u)
      BY <3>1 DEF Delete
    <3>3. ASSUME NEW y \in Referring({u}, "CASCADE")
          PROVE  /\ y \in DOMAIN db /\ y[1] # "server_connections"
                 /\ y[1] \notin Roots
                 /\ Names(y, "user", u)
      <4>1. PICK c \in DOMAIN db[y], w \in {u}, ref \in References :
               /\ db[y][c] = w
               /\ ref.from = y[1] /\ ref.column = c
               /\ ref.to = w[1] /\ ref.on = "CASCADE"
        BY CascadeNames
      <4>2. y \in DOMAIN db
        BY DEF Referring
      <4> QED  BY <4>1, <4>2, SchemaShaped DEF Shaped, Names
    <3>4. x \notin Referring({u}, "CASCADE") =>
             x \in Referring(FirstRound(u), "CASCADE")
      BY <3>2 DEF Deleted, FirstRound
    <3>5. CASE x \in Referring(FirstRound(u), "CASCADE")
               /\ x \notin Referring({u}, "CASCADE")
      <4>1. FirstRound(u) \subseteq DOMAIN db
        BY <3>3 DEF FirstRound
      <4>2. PICK c \in DOMAIN db[x], w \in FirstRound(u), ref \in References :
               /\ db[x][c] = w
               /\ ref.from = x[1] /\ ref.column = c
               /\ ref.to = w[1] /\ ref.on = "CASCADE"
        BY <3>5, <4>1, CascadeNames
      <4>3. CASE w = u
        <5>1. c = "user"
          BY <4>2, <4>3, SchemaShaped DEF Shaped
        <5> QED  BY <4>2, <4>3, <5>1 DEF Names
      <4>4. CASE w \in Referring({u}, "CASCADE")
        <5>1. w[1] \in {"sessions", "devices"}
          BY <3>3, <4>2, <4>4, SchemaShaped DEF Shaped, Branches
        <5>2. c = "session"
          BY <4>2, <5>1, SchemaShaped DEF Shaped
        <5> QED  BY <3>3, <4>2, <4>4, <5>2 DEF Names
      <4> QED  BY <4>2, <4>3, <4>4 DEF FirstRound
    <3> QED  BY <3>3, <3>4, <3>5
  <2>3. CASE \E z \in DOMAIN db :
               \E c \in DOMAIN db[z], w \in Row \cup {None} : Relink(z, c, w)
    BY <2>3 DEF Relink
  <2>4. CASE \E z \in DOMAIN db : Truncate(z[1])
    <3>1. PICK z \in DOMAIN db : Truncate(z[1])
      BY <2>4
    <3>2. z[1] = "users"
      BY <3>1 DEF Truncate
    <3>3. [from |-> "sessions", column |-> "user", to |-> "users",
           on |-> "CASCADE"] \in References
      BY DEF References, IdentityRefs, Refs
    <3> QED  BY <3>1, <3>2, <3>3 DEF Truncate
  <2> QED  BY <2>1, <2>2, <2>3, <2>4 DEF Next
<1> QED
  BY <1>1, ReferentialIntegrity, PTL DEF Spec, AccountDeletion, OwnOnly

-----------------------------------------------------------------------------
(***************************************************************************)
(* What keeps a workspace.                                                 *)
(***************************************************************************)
\* A foreign key as a workspace meets it.
AroundWorkspaces(ref) ==
    /\ ref.column = "workspace" <=> ref.to = "workspaces"
    /\ ref.from = "events" => ref.on = "SET NULL" /\ ref.to \in Roots
    /\ ref.on = "RESTRICT" =>
          ref.to \in Roots \cup {"orders", "risk_configurations"}
    /\ ref.on = "RESTRICT" /\ ref.to = "workspaces" => ref.from \in Ledger
    /\ ref.column = "configuration" <=> ref.to = "risk_configurations"
    /\ ref.to = "risk_configurations" =>
          ref.from = "risk_states" /\ ref.on = "RESTRICT"
    /\ ref.from = "risk_configurations" /\ ref.on = "CASCADE" =>
          ref.to = "workspaces"
    /\ ref.to = "workspaces"
       /\ ref.from \in {"risk_configurations", "risk_states"} =>
          ref.on = "CASCADE"
    /\ ref.from = "executions" => ref.to # "workspaces"

\* A group of foreign keys is around workspaces as its tables, its target and its
\* action say.
LEMMA RefsAroundWorkspaces ==
    ASSUME NEW tables, NEW column, NEW target, NEW onDelete,
           column = "workspace" <=> target = "workspaces",
           "events" \in tables => onDelete = "SET NULL" /\ target \in Roots,
           onDelete = "RESTRICT" =>
              target \in Roots \cup {"orders", "risk_configurations"},
           onDelete = "RESTRICT" /\ target = "workspaces" =>
              tables \subseteq Ledger,
           column = "configuration" <=> target = "risk_configurations",
           target = "risk_configurations" =>
              tables = {"risk_states"} /\ onDelete = "RESTRICT",
           "risk_configurations" \in tables /\ onDelete = "CASCADE" =>
              target = "workspaces",
           /\ target = "workspaces"
           /\ "risk_configurations" \in tables \/ "risk_states" \in tables
           => onDelete = "CASCADE",
           "executions" \in tables => target # "workspaces"
    PROVE  \A ref \in Refs(tables, column, target, onDelete) :
              AroundWorkspaces(ref)
<1> TAKE ref \in Refs(tables, column, target, onDelete)
<1>1. PICK t \in tables : ref = [from |-> t, column |-> column,
                                to |-> target, on |-> onDelete]
  BY DEF Refs
<1>2. /\ ref.from \in tables /\ ref.column = column
      /\ ref.to = target /\ ref.on = onDelete
  BY <1>1
<1> QED  BY <1>2 DEF AroundWorkspaces

\* So much holds of the foreign keys of every bounded schema.
LEMMA SchemaAroundWorkspaces == \A ref \in References : AroundWorkspaces(ref)
<1>1. \A ref \in IdentityRefs : AroundWorkspaces(ref)
  BY RefsAroundWorkspaces DEF IdentityRefs, Roots, Ledger
<1>2. \A ref \in AuthenticationRefs : AroundWorkspaces(ref)
  BY RefsAroundWorkspaces DEF AuthenticationRefs, Roots, Ledger
<1>3. \A ref \in PersonalizationRefs : AroundWorkspaces(ref)
  BY RefsAroundWorkspaces DEF PersonalizationRefs, Roots, Ledger
<1>4. \A ref \in WorkspaceRefs : AroundWorkspaces(ref)
  BY RefsAroundWorkspaces DEF WorkspaceRefs, Roots, Ledger
<1>5. \A ref \in OperationsRefs : AroundWorkspaces(ref)
  BY RefsAroundWorkspaces DEF OperationsRefs, Roots, Ledger
<1>6. \A ref \in MarketRefs : AroundWorkspaces(ref)
  BY RefsAroundWorkspaces DEF MarketRefs, Roots, Ledger
<1>7. \A ref \in TradingControlRefs : AroundWorkspaces(ref)
  BY RefsAroundWorkspaces DEF TradingControlRefs, Roots, Ledger
<1>8. \A ref \in OrderRefs : AroundWorkspaces(ref)
  BY RefsAroundWorkspaces DEF OrderRefs, Roots, Ledger
<1>9. \A ref \in ReportingRefs : AroundWorkspaces(ref)
  BY RefsAroundWorkspaces DEF ReportingRefs, Roots, Ledger
<1>10. \A ref \in AuditRefs : AroundWorkspaces(ref)
  BY RefsAroundWorkspaces DEF AuditRefs, Roots, Ledger
<1>. QED
  BY <1>1, <1>2, <1>3, <1>4, <1>5, <1>6, <1>7, <1>8, <1>9, <1>10 DEF References

\* The columns that Keeping reads are there.
LEMMA KeepingColumns ==
    ASSUME TypeOK, NEW x \in DOMAIN db
    PROVE  /\ x[1] \in {"orders", "positions", "manual_broker_exits", "events",
                        "risk_states", "risk_configurations"}
                 => "workspace" \in DOMAIN db[x]
           /\ x[1] = "risk_states" => "configuration" \in DOMAIN db[x]
<1>1. x \in Row /\ DOMAIN db[x] = Columns[x[1]]
  BY DEF TypeOK
<1>2. ASSUME NEW column, NEW target, NEW action,
             [from |-> x[1], column |-> column, to |-> target, on |-> action]
                \in References
      PROVE  column \in DOMAIN db[x]
  <2>1. column \in {ref.column : ref \in {k \in References : k.from = x[1]}}
    BY <1>2
  <2>. QED BY <1>1, <2>1 DEF Columns
<1>3. \A t \in {"orders", "positions", "manual_broker_exits"} :
         [from |-> t, column |-> "workspace", to |-> "workspaces",
          on |-> "RESTRICT"] \in References
  BY DEF References, OrderRefs, ReportingRefs, Refs
<1>4. [from |-> "events", column |-> "workspace", to |-> "workspaces",
       on |-> "SET NULL"] \in References
  BY DEF References, AuditRefs, Refs
<1>5. \A t \in {"risk_states", "risk_configurations"} :
         [from |-> t, column |-> "workspace", to |-> "workspaces",
          on |-> "CASCADE"] \in References
  BY DEF References, TradingControlRefs, Refs
<1>6. [from |-> "risk_states", column |-> "configuration",
       to |-> "risk_configurations", on |-> "RESTRICT"] \in References
  BY DEF References, TradingControlRefs, Refs
<1>7. CASE x[1] \in {"orders", "positions", "manual_broker_exits"}
  BY <1>2, <1>3, <1>7
<1>8. CASE x[1] = "events"
  BY <1>2, <1>4, <1>8
<1>9. CASE x[1] \in {"risk_states", "risk_configurations"}
  <2>1. "workspace" \in DOMAIN db[x]
    BY <1>2, <1>5, <1>9
  <2>2. x[1] = "risk_states" => "configuration" \in DOMAIN db[x]
    BY <1>2, <1>6
  <2>. QED BY <1>9, <2>1, <2>2
<1>. QED BY <1>7, <1>8, <1>9

\* The foreign key by which one row names another.
LEMMA LinkRef ==
    ASSUME TypeOK, NEW x \in DOMAIN db, NEW c \in DOMAIN db[x],
           db[x][c] \in DOMAIN db
    PROVE  /\ RefOf(x, c) \in References
           /\ RefOf(x, c).from = x[1] /\ RefOf(x, c).column = c
           /\ RefOf(x, c).to = db[x][c][1]
<1>1. /\ x \in Row /\ c \in Columns[x[1]] /\ db[x][c] # None
      /\ Permitted(x, c, db[x][c])
  BY RowAssumption DEF TypeOK
<1>. QED BY <1>1, ForeignType DEF Permitted

\* What keeps a workspace stops its deletion.
LEMMA KeptWorkspace ==
    ASSUME TypeOK, NEW w \in DOMAIN db, w[1] = "workspaces", NEW x \in Keeping(w)
    PROVE  Restricted(w) \/ Raises(w)
<1>1. x \in DOMAIN db /\ w \in FirstRound(w) /\ w \in Deleted(w)
  BY DEF Keeping, FirstRound, Deleted
<1>2. CASE x[1] \in {"orders", "positions", "manual_broker_exits"}
           /\ db[x]["workspace"] = w
  <2>1. "workspace" \in DOMAIN db[x]
    BY <1>1, <1>2, KeepingColumns
  <2>2. RefOf(x, "workspace").on = "RESTRICT"
    <3>1. /\ RefOf(x, "workspace") \in References
          /\ RefOf(x, "workspace").from = x[1]
      BY <1>1, <1>2, <2>1, LinkRef
    <3>. QED BY <1>2, <3>1, SchemaShaped DEF Shaped, Ledger
  <2>3. x \in Referring({w}, "RESTRICT")
    BY <1>1, <1>2, <2>1, <2>2 DEF Referring
  <2>. QED BY <2>3 DEF Restricted
<1>3. CASE x[1] = "events" /\ db[x]["workspace"] = w
  <2>1. "workspace" \in DOMAIN db[x]
    BY <1>1, <1>3, KeepingColumns
  <2>2. RefOf(x, "workspace").on = "SET NULL"
    <3>1. /\ RefOf(x, "workspace") \in References
          /\ RefOf(x, "workspace").from = "events"
      BY <1>1, <1>3, <2>1, LinkRef
    <3>. QED BY <3>1, SchemaAroundWorkspaces DEF AroundWorkspaces
  <2>3. x \in Referring(Deleted(w), "SET NULL") /\ IsEvent(x)
    BY <1>1, <1>3, <2>1, <2>2 DEF Referring, IsEvent
  <2>. QED BY <2>3 DEF Raises, AppendOnly
<1>4. CASE /\ x[1] = "risk_states" /\ db[x]["workspace"] # w
           /\ db[db[x]["configuration"]]["workspace"] = w
  <2>. DEFINE k == db[x]["configuration"]
  <2>1. /\ "configuration" \in DOMAIN db[x]
        /\ x \in Row /\ "configuration" \in Columns[x[1]]
        /\ Permitted(x, "configuration", k)
    BY <1>1, <1>4, KeepingColumns DEF TypeOK
  <2>2. /\ RefOf(x, "configuration") \in References
        /\ RefOf(x, "configuration").from = "risk_states"
        /\ RefOf(x, "configuration").column = "configuration"
    BY <1>4, <2>1, ForeignType
  <2>3. /\ RefOf(x, "configuration").to = "risk_configurations"
        /\ RefOf(x, "configuration").on = "RESTRICT"
        /\ ~Nullable(RefOf(x, "configuration"))
    BY <2>2, SchemaAroundWorkspaces
    DEF AroundWorkspaces, Nullable, NullableCascades
  <2>4. k \in DOMAIN db /\ k[1] = "risk_configurations"
    BY <2>1, <2>3 DEF Permitted
  <2>. HIDE DEF k
  <2>5. "workspace" \in DOMAIN db[k] /\ db[k]["workspace"] = w
    BY <1>4, <2>4, KeepingColumns DEF k
  <2>6. RefOf(k, "workspace").on = "CASCADE"
    <3>1. /\ RefOf(k, "workspace") \in References
          /\ RefOf(k, "workspace").from = "risk_configurations"
          /\ RefOf(k, "workspace").to = "workspaces"
      BY <2>4, <2>5, LinkRef
    <3>. QED BY <3>1, SchemaAroundWorkspaces DEF AroundWorkspaces
  <2>7. k \in FirstRound(w)
    BY <2>4, <2>5, <2>6 DEF FirstRound, Referring
  <2>8. x \in Referring(FirstRound(w), "RESTRICT")
    BY <1>1, <2>1, <2>3, <2>7 DEF Referring, k
  <2>9. x \notin FirstRound(w)
    <3>1. ASSUME NEW c \in DOMAIN db[x], db[x][c] = w
          PROVE  FALSE
      <4>1. c = "workspace"
        <5>1. /\ RefOf(x, c) \in References /\ RefOf(x, c).column = c
              /\ RefOf(x, c).to = "workspaces"
          BY <1>1, <3>1, LinkRef
        <5>. QED BY <5>1, SchemaAroundWorkspaces DEF AroundWorkspaces
      <4>. QED BY <1>4, <3>1, <4>1
    <3>. QED BY <1>4, <3>1 DEF FirstRound, Referring
  <2>. QED BY <2>8, <2>9 DEF Restricted
<1>. QED BY <1>2, <1>3, <1>4 DEF Keeping

\* Of what goes with a workspace only risk configurations of its own can
\* restrict anything.
LEMMA GoesAlong ==
    ASSUME TypeOK, NEW w \in DOMAIN db, w[1] = "workspaces",
           NEW y \in Deleted(w), y # w
    PROVE  /\ y \in DOMAIN db
           /\ y[1] \notin Roots \cup Ledger \cup {"events"}
           /\ y[1] = "risk_configurations" =>
                 "workspace" \in DOMAIN db[y] /\ db[y]["workspace"] = w
<1>1. ASSUME NEW S, S \subseteq DOMAIN db, NEW z \in Referring(S, "CASCADE")
      PROVE  /\ z \in DOMAIN db
             /\ z[1] \notin Roots \cup Ledger \cup {"events"}
             /\ z[1] = "risk_configurations" =>
                   \E v \in S : /\ "workspace" \in DOMAIN db[z]
                                /\ db[z]["workspace"] = v
                                /\ v[1] = "workspaces"
  <2>1. PICK c \in DOMAIN db[z], v \in S, ref \in References :
           /\ db[z][c] = v
           /\ ref.from = z[1] /\ ref.column = c
           /\ ref.to = v[1] /\ ref.on = "CASCADE"
    BY <1>1, CascadeNames
  <2>2. Shaped(ref) /\ AroundWorkspaces(ref)
    BY SchemaShaped, SchemaAroundWorkspaces
  <2>3. z[1] \notin Roots \cup Ledger \cup {"events"}
    BY <2>1, <2>2 DEF Shaped, AroundWorkspaces
  <2>4. z[1] = "risk_configurations" => c = "workspace" /\ v[1] = "workspaces"
    BY <2>1, <2>2 DEF AroundWorkspaces
  <2>5. z \in DOMAIN db
    BY <1>1 DEF Referring
  <2>. QED BY <2>1, <2>3, <2>4, <2>5
<1>2. /\ FirstRound(w) \subseteq DOMAIN db
      /\ \A v \in FirstRound(w) : v[1] = "workspaces" => v = w
  BY <1>1 DEF FirstRound, Roots
<1>3. PICK S \in {{w}, FirstRound(w)} : y \in Referring(S, "CASCADE")
  BY DEF Deleted, FirstRound
<1>. QED BY <1>1, <1>2, <1>3

\* Nothing else stops the deletion of a workspace.
LEMMA FreeWorkspace ==
    ASSUME TypeOK, NEW w \in DOMAIN db, w[1] = "workspaces",
           Restricted(w) \/ Raises(w)
    PROVE  Keeping(w) # {}
<1>1. /\ FirstRound(w) \subseteq Deleted(w)
      /\ Deleted(w) \subseteq DOMAIN db
      /\ w \in FirstRound(w)
  BY DEF FirstRound, Deleted, Referring
<1>2. ASSUME NEW x \in Referring({w}, "RESTRICT")
      PROVE  x \in Keeping(w)
  <2>1. PICK c \in DOMAIN db[x] :
           x \in DOMAIN db /\ db[x][c] = w /\ RefOf(x, c).on = "RESTRICT"
    BY <1>2 DEF Referring
  <2>2. /\ RefOf(x, c) \in References /\ RefOf(x, c).from = x[1]
        /\ RefOf(x, c).column = c /\ RefOf(x, c).to = "workspaces"
    BY <2>1, LinkRef
  <2>3. x[1] \in Ledger \ {"executions"} /\ c = "workspace"
    BY <2>1, <2>2, SchemaAroundWorkspaces DEF AroundWorkspaces
  <2>. QED BY <2>1, <2>3 DEF Keeping, Ledger
<1>3. ASSUME NEW S \in {FirstRound(w), Deleted(w)},
             NEW x \in Referring(S, "RESTRICT") \ S
      PROVE  x \in Keeping(w)
  <2>1. PICK c \in DOMAIN db[x] :
           x \in DOMAIN db /\ db[x][c] \in S /\ RefOf(x, c).on = "RESTRICT"
    BY <1>3 DEF Referring
  <2>. DEFINE y == db[x][c]
  <2>2. y \in Deleted(w) /\ y \in DOMAIN db
    BY <1>1, <1>3, <2>1
  <2>3. /\ RefOf(x, c) \in References /\ RefOf(x, c).from = x[1]
        /\ RefOf(x, c).column = c /\ RefOf(x, c).to = y[1]
    BY <2>1, <2>2, LinkRef
  <2>4. CASE y = w
    BY <1>2, <2>1, <2>4 DEF Referring
  <2>5. CASE y # w
    <3>1. /\ y[1] \notin Roots \cup Ledger
          /\ y[1] = "risk_configurations" => db[y]["workspace"] = w
      BY <2>2, <2>5, GoesAlong
    <3>2. y[1] = "risk_configurations"
      BY <2>1, <2>3, <3>1, SchemaAroundWorkspaces DEF AroundWorkspaces, Ledger
    <3>3. x[1] = "risk_states" /\ c = "configuration"
      BY <2>3, <3>2, SchemaAroundWorkspaces DEF AroundWorkspaces
    <3>4. db[x]["workspace"] # w
      <4>. SUFFICES ASSUME db[x]["workspace"] = w PROVE x \in FirstRound(w)
        BY <1>1, <1>3
      <4>1. "workspace" \in DOMAIN db[x]
        BY <2>1, <3>3, KeepingColumns
      <4>2. RefOf(x, "workspace").on = "CASCADE"
        <5>1. /\ RefOf(x, "workspace") \in References
              /\ RefOf(x, "workspace").from = "risk_states"
              /\ RefOf(x, "workspace").to = "workspaces"
          BY <2>1, <3>3, <4>1, LinkRef
        <5>. QED BY <5>1, SchemaAroundWorkspaces DEF AroundWorkspaces
      <4>. QED BY <2>1, <4>1, <4>2 DEF FirstRound, Referring
    <3>. QED BY <2>1, <3>1, <3>2, <3>3, <3>4 DEF Keeping
  <2>. QED BY <2>4, <2>5
<1>4. CASE Restricted(w)
  BY <1>2, <1>3, <1>4 DEF Restricted
<1>5. CASE Raises(w)
  <2>1. \A y \in Deleted(w) : ~IsEvent(y)
    BY GoesAlong DEF IsEvent
  <2>2. PICK x \in Referring(Deleted(w), "SET NULL") : IsEvent(x)
    BY <1>5, <2>1 DEF Raises
  <2>3. PICK c \in DOMAIN db[x] : x \in DOMAIN db /\ db[x][c] \in Deleted(w)
    BY <2>2 DEF Referring
  <2>4. /\ RefOf(x, c) \in References /\ RefOf(x, c).from = "events"
        /\ RefOf(x, c).column = c /\ RefOf(x, c).to = db[x][c][1]
    BY <1>1, <2>2, <2>3, LinkRef DEF IsEvent
  <2>5. db[x][c][1] \in Roots
    BY <2>4, SchemaAroundWorkspaces DEF AroundWorkspaces
  <2>6. db[x][c] = w
    BY <2>3, <2>5, GoesAlong
  <2>7. c = "workspace"
    BY <2>4, <2>6, SchemaAroundWorkspaces DEF AroundWorkspaces
  <2>. QED BY <2>2, <2>3, <2>6, <2>7 DEF Keeping, IsEvent
<1>. QED BY <1>4, <1>5

\* A workspace can be deleted, with everything of its own, unless it has trading
\* records, an audit event names it, or another workspace's risk state uses its
\* risk configuration.
THEOREM WorkspacesAreDeletable == Spec => []WorkspaceDeletion
<1>1. TypeOK => WorkspaceDeletion
  BY KeptWorkspace, FreeWorkspace DEF WorkspaceDeletion
<1>. QED BY <1>1, ReferentialIntegrity, PTL
=============================================================================
