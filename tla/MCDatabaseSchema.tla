-------------------------- MODULE MCDatabaseSchema --------------------------
(* DatabaseSchema for TLC: two users, two workspaces, and a row of each    *)
(* table that hangs from them by a chain of different referential actions. *)
EXTENDS DatabaseSchema, TLC

CONSTANTS User, Workspace, One

Rows ==
    ({"users"} \X User) \cup ({"workspaces"} \X Workspace)
    \cup {"devices", "sessions", "websocket_tickets", "workspace_members",
          "events", "instruments", "risk_configurations", "risk_states",
          "orders"} \X {One}

\* Users are alike, and so are workspaces.
Symmetry == Permutations(User) \cup Permutations(Workspace)
=============================================================================
