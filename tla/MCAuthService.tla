--------------------------- MODULE MCAuthService ---------------------------
(* Finite instances of AuthService for TLC.                                *)
EXTENDS AuthService, TLC

\* Identifiers are drawn at random and requests are alike, so states that
\* differ by renaming them are alike.
Symmetry ==
    Permutations(ReqId) \cup Permutations(FlowId) \cup Permutations(SessionId)
    \cup Permutations(TicketId) \cup Permutations(UserId)
    \cup Permutations(Subject) \cup Permutations(Email)
    \cup Permutations(DeviceKey)
=============================================================================
