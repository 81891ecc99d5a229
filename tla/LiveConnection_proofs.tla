----------------------- MODULE LiveConnection_proofs -----------------------
(***************************************************************************)
(* The safety of ReconnectingSocket, for any number of slots and reconnects*)
(* and whatever tickets and sockets do; that LiveConnection, which joins it*)
(* with the backend, implements it; and what the backend adds.             *)
(***************************************************************************)
EXTENDS LiveConnection, FiniteSetTheorems, TLAPS

\* One attempt at a time: SingleChain without the cardinality.
OneBusy == \A c, d \in Conn : conn[c] # "free" /\ conn[d] # "free" => c = d

\* this.timer and this.socket name the slot that is armed, or is a socket.
FieldsNameSlots ==
    /\ \A c \in Conn : conn[c] = "armed" => timer = c
    /\ \A c \in Conn : conn[c] \in Sockets <=> socket = c

\* Before start() there is nothing; after stop() nothing that could connect.
Silent ==
    /\ ~started => stopped /\ \A c \in Conn : conn[c] = "free"
    /\ stopped => /\ state = "disconnected"
                  /\ \A c \in Conn : conn[c] \in {"free", "ticket", "closing"}

IInv == TypeOK /\ OneBusy /\ FieldsNameSlots /\ Silent /\ StateHonest

USE AttemptsAssumption DEF AttemptsAssumption

-----------------------------------------------------------------------------
\* What the operators that several handlers call do to the slots.
LEMMA ClosedSocketSlots ==
    ASSUME TypeOK, NEW slots \in [Conn -> {"free", "armed", "ticket"} \cup Sockets]
    PROVE  /\ ClosedSocket(slots) \in
                 [Conn -> {"free", "armed", "ticket"} \cup Sockets]
           /\ \A c \in Conn :
                 ClosedSocket(slots)[c] =
                    IF c = socket /\ slots[c] \in {"connecting", "open"}
                    THEN "closing" ELSE slots[c]
BY DEF ClosedSocket, TypeOK, Sockets

\* Clearing the timer changes the armed slot alone.
LEMMA TimerClearedSlots ==
    ASSUME TypeOK
    PROVE  /\ TimerCleared \in
                 [Conn -> {"free", "armed", "ticket"} \cup Sockets]
           /\ \A c \in Conn :
                 TimerCleared[c] = IF c = timer /\ conn[c] = "armed"
                                   THEN "free" ELSE conn[c]
BY DEF TimerCleared, TypeOK

\* An attempt that ended leaves its slot and arms at most one.
LEMMA EndedStep ==
    ASSUME IInv, NEW c \in Conn, conn[c] # "free", Ended(c),
           UNCHANGED <<started, stopped>>
    PROVE  /\ attempts' \in 0 .. MaxAttempts
           /\ timer' \in Conn \cup {None}
           /\ conn' \in [Conn -> {"free", "armed"}]
           /\ state' \in {"denied", "disconnected", "reconnecting"}
           /\ \A d \in Conn : conn'[d] = "armed" => timer' = d /\ ~stopped
           /\ stopped => state' = "disconnected"
<1>1. \A d \in Conn : d # c => conn[d] = "free"
  BY DEF IInv, OneBusy
<1>2. CASE stopped
  BY <1>1, <1>2 DEF Ended, ScheduleReconnect, IInv, TypeOK, Silent
<1>3. CASE ~stopped /\ ~ScheduleReconnect(c)
  BY <1>1, <1>3 DEF Ended, IInv, TypeOK
<1>4. CASE ~stopped /\ ScheduleReconnect(c)
  <2>1. CASE Exhausted
    BY <1>1, <1>4, <2>1 DEF ScheduleReconnect, IInv, TypeOK
  <2>2. CASE ~Exhausted
    <3>1. attempts' \in 0 .. MaxAttempts
      BY <1>4, <2>2 DEF ScheduleReconnect, Exhausted, NextAttempts, IInv, TypeOK
    <3>2. PICK d \in Conn :
             /\ conn' = [[conn EXCEPT ![c] = "free"] EXCEPT ![d] = "armed"]
             /\ timer' = d
      BY <1>4, <2>2 DEF ScheduleReconnect
    <3>3. state' = "reconnecting"
      BY <1>4, <2>2 DEF ScheduleReconnect
    <3>. QED BY <1>1, <1>4, <3>1, <3>2, <3>3 DEF IInv, TypeOK
  <2>. QED BY <2>1, <2>2
<1>. QED BY <1>2, <1>3, <1>4

-----------------------------------------------------------------------------
\* Before start() there is no attempt.
LEMMA InitInv == Init => IInv
<1>. SUFFICES ASSUME Init PROVE IInv
  OBVIOUS
<1>1. TypeOK
  <2>1. attempts \in 0 .. MaxAttempts
    BY DEF Init
  <2>2. conn \in [Conn -> {"free", "armed", "ticket"} \cup Sockets]
    BY DEF Init
  <2>3. subscribed \subseteq Conn /\ started \in BOOLEAN /\ stopped \in BOOLEAN
    BY DEF Init
  <2>. QED BY <2>1, <2>2, <2>3 DEF Init, TypeOK
<1>2. OneBusy /\ FieldsNameSlots
  BY DEF Init, OneBusy, FieldsNameSlots, Sockets
<1>3. Silent /\ StateHonest
  BY DEF Init, Silent, StateHonest
<1>. QED BY <1>1, <1>2, <1>3 DEF IInv

\* Every call, callback and socket event keeps the invariant.
LEMMA NextInv == IInv /\ [Next]_vars => IInv'
<1>. SUFFICES ASSUME IInv, [Next]_vars PROVE IInv'
  OBVIOUS
<1>. USE DEF IInv
<1>1. CASE Start
  <2>1. PICK c \in Conn : conn' = [conn EXCEPT ![c] = "ticket"]
    BY <1>1 DEF Start
  <2>2. \A d \in Conn : conn'[d] = IF d = c THEN "ticket" ELSE "free"
    BY <1>1, <2>1 DEF Start, Silent, TypeOK
  <2>3. TypeOK'
    <3>1. attempts' \in 0 .. MaxAttempts
      BY <1>1 DEF Start
    <3>2. conn' \in [Conn -> {"free", "armed", "ticket"} \cup Sockets]
      BY <2>1 DEF TypeOK
    <3>3. /\ started' \in BOOLEAN /\ stopped' \in BOOLEAN
          /\ state' = "connecting" /\ UNCHANGED <<timer, socket, subscribed>>
      BY <1>1 DEF Start
    <3>. QED BY <3>1, <3>2, <3>3 DEF TypeOK
  <2>4. OneBusy' /\ FieldsNameSlots'
    BY <1>1, <2>2 DEF Start, OneBusy, FieldsNameSlots, Sockets, Silent
  <2>5. Silent' /\ StateHonest'
    BY <1>1, <2>2 DEF Start, Silent, StateHonest
  <2>. QED BY <2>3, <2>4, <2>5
<1>2. CASE Stop
  <2>1. /\ conn' \in [Conn -> {"free", "armed", "ticket"} \cup Sockets]
        /\ \A c \in Conn :
              conn'[c] = IF c = timer /\ conn[c] = "armed" THEN "free"
                         ELSE IF c = socket /\ conn[c] \in {"connecting", "open"}
                         THEN "closing" ELSE conn[c]
    BY <1>2, ClosedSocketSlots, TimerClearedSlots DEF Stop
  <2>2. TypeOK'
    BY <1>2, <2>1 DEF Stop, TypeOK
  <2>3. OneBusy'
    BY <1>2, <2>1 DEF Stop, OneBusy
  <2>4. FieldsNameSlots'
    BY <1>2, <2>1 DEF Stop, FieldsNameSlots, Sockets
  <2>5. Silent'
    BY <1>2, <2>1 DEF Stop, Silent, FieldsNameSlots, Sockets, TypeOK
  <2>6. StateHonest'
    BY <1>2, <2>1, <2>5 DEF Stop, StateHonest, Silent
  <2>. QED BY <2>2, <2>3, <2>4, <2>5, <2>6
<1>3. ASSUME NEW c \in Conn, TimerFires(c) PROVE IInv'
  BY <1>3 DEF TimerFires, TypeOK, OneBusy, FieldsNameSlots, Silent, StateHonest,
              Sockets
<1>4. ASSUME NEW c \in Conn, Ticket(c) PROVE IInv'
  BY <1>4 DEF Ticket, StillLive, TypeOK, OneBusy, FieldsNameSlots, Silent,
              StateHonest, Sockets
<1>5. ASSUME NEW c \in Conn, TicketFails(c) \/ Close(c) PROVE IInv'
  <2>1. /\ Ended(c) /\ conn[c] # "free" /\ UNCHANGED <<started, stopped>>
        /\ socket' = None
        /\ subscribed' \subseteq Conn
    BY <1>5 DEF TicketFails, Close, Sockets, FieldsNameSlots, OneBusy, TypeOK
  <2>2. /\ attempts' \in 0 .. MaxAttempts
        /\ timer' \in Conn \cup {None}
        /\ conn' \in [Conn -> {"free", "armed"}]
        /\ state' \in {"denied", "disconnected", "reconnecting"}
        /\ \A d \in Conn : conn'[d] = "armed" => timer' = d /\ ~stopped
        /\ stopped => state' = "disconnected"
    BY <2>1, EndedStep
  <2>3. started
    BY <2>1 DEF Silent
  <2>. QED
    BY <2>1, <2>2, <2>3 DEF TypeOK, OneBusy, FieldsNameSlots, Silent,
                            StateHonest, Sockets
<1>6. ASSUME NEW c \in Conn, Open(c) PROVE IInv'
  BY <1>6 DEF Open, TypeOK, OneBusy, FieldsNameSlots, Silent, StateHonest,
              Sockets
<1>7. ASSUME NEW c \in Conn, InvalidMessage(c) PROVE IInv'
  BY <1>7 DEF InvalidMessage, TypeOK, OneBusy, FieldsNameSlots, Silent,
              StateHonest, Sockets
<1>8. ASSUME NEW c \in Conn, Error(c) PROVE IInv'
  <2>1. /\ conn' \in [Conn -> {"free", "armed", "ticket"} \cup Sockets]
        /\ \A d \in Conn :
              conn'[d] = IF d = socket /\ conn[d] \in {"connecting", "open"}
                         THEN "closing" ELSE conn[d]
    BY <1>8, ClosedSocketSlots DEF Error, TypeOK
  <2>. QED
    BY <1>8, <2>1 DEF Error, TypeOK, OneBusy, FieldsNameSlots, Silent,
                      StateHonest, Sockets
<1>9. CASE UNCHANGED vars
  BY <1>9 DEF vars, TypeOK, OneBusy, FieldsNameSlots, Silent, StateHonest
<1>. QED
  BY <1>1, <1>2, <1>3, <1>4, <1>5, <1>6, <1>7, <1>8, <1>9 DEF Next, Event

\* The invariant the properties follow from.
THEOREM SocketInvariant == Spec => []IInv
<1>. QED BY InitInv, NextInv, PTL DEF Spec

-----------------------------------------------------------------------------
\* One live attempt at most is what a single chain means.
LEMMA OneBusyIsSingle == IInv => SingleChain
<1>. SUFFICES ASSUME IInv PROVE SingleChain
  OBVIOUS
<1>. DEFINE busy == {c \in Conn : conn[c] # "free"}
<1>1. CASE busy = {}
  BY <1>1, FS_EmptySet DEF SingleChain
<1>2. CASE busy # {}
  <2>1. PICK c \in busy : TRUE
    BY <1>2
  <2>2. busy = {c}
    BY <2>1 DEF IInv, OneBusy
  <2>3. Cardinality(busy) = 1
    BY <2>2, FS_Singleton
  <2>. QED BY <2>3 DEF SingleChain
<1>. QED BY <1>1, <1>2

\* A single chain of attempts: timer, ticket request and socket exclude each
\* other in every slot, whatever start(), stop() and the events do.
THEOREM SingleChainTheorem == Spec => []SingleChain
<1>. QED BY SocketInvariant, OneBusyIsSingle, PTL

\* After stop() the instance reports nothing and opens nothing.
THEOREM StoppedTheorem == Spec => []StoppedIsSilent
<1>1. IInv => StoppedIsSilent
  BY DEF IInv, Silent, StoppedIsSilent
<1>. QED BY <1>1, SocketInvariant, PTL

\* The state shown is that of the socket.
THEOREM HonestTheorem == Spec => []StateHonest
<1>1. IInv => StateHonest
  BY DEF IInv
<1>. QED BY <1>1, SocketInvariant, PTL

-----------------------------------------------------------------------------
(***************************************************************************)
(* What there is to Settles without fairness: a client that is trying has  *)
(* something under way, and everything that happens uses up its budget.    *)
(***************************************************************************)
Trying == state \in {"connecting", "reconnecting"}

TryingIsBusy ==
    Trying => \E c \in Conn :
                 conn[c] \in {"armed", "ticket", "connecting", "closing"}

\* What an attempt still has ahead of it.
StageOf(phase) ==
    CASE phase = "armed" -> 5 [] phase = "ticket" -> 4
      [] phase = "connecting" -> 3 [] phase = "open" -> 2
      [] phase = "closing" -> 1 [] OTHER -> 0

\* The stage of the one attempt in these slots.
Stage(slots) ==
    IF \E c \in Conn : slots[c] # "free"
    THEN StageOf(slots[CHOOSE c \in Conn : slots[c] # "free"]) ELSE 0

\* The reconnects that are left, and what is left of the current attempt.
Budget == 6 * (MaxAttempts - attempts) + Stage(conn)

BudgetShrinks == [][Trying /\ Trying' => Budget' < Budget]_<<conn, attempts>>

OnlyBusy(slots, c) == \A d \in Conn : d # c => slots[d] = "free"

LEMMA StageOfOne ==
    ASSUME NEW slots, NEW c \in Conn, OnlyBusy(slots, c)
    PROVE  Stage(slots) = StageOf(slots[c])
BY DEF Stage, StageOf, OnlyBusy

\* What a step does to the attempt in slot c: it comes closer to its end in slot d,
\* is replaced by the timer of the next one, or opens its socket.
MovesOn(c, d) ==
    /\ attempts' = attempts
    /\ StageOf(conn'[d]) < StageOf(conn[c])
Repeats(c, d) ==
    /\ attempts < MaxAttempts
    /\ attempts' = attempts + 1
    /\ conn[c] \in {"ticket", "connecting", "open", "closing"}
    /\ conn'[d] = "armed"
Opens(c, d) == c = d /\ Open(c) /\ conn'[c] = "open"

LEMMA AttemptStep ==
    ASSUME IInv, Next, started, ~ UNCHANGED <<conn, attempts>>
    PROVE  \E c, d \in Conn :
              /\ OnlyBusy(conn, c) /\ OnlyBusy(conn', d)
              /\ MovesOn(c, d) \/ Repeats(c, d) \/ Opens(c, d)
<1>. USE DEF IInv
<1>1. \A c \in Conn : conn[c] # "free" => OnlyBusy(conn, c)
  BY DEF OneBusy, OnlyBusy
<1>2. \A c \in Conn :
         /\ conn[c] # "free" /\ conn'[c] = "free" => StageOf(conn'[c]) < StageOf(conn[c])
         /\ conn[c] = "armed" /\ conn'[c] = "ticket" => StageOf(conn'[c]) < StageOf(conn[c])
         /\ conn[c] = "ticket" /\ conn'[c] = "connecting" => StageOf(conn'[c]) < StageOf(conn[c])
         /\ conn[c] \in {"connecting", "open"} /\ conn'[c] = "closing"
               => StageOf(conn'[c]) < StageOf(conn[c])
  BY DEF StageOf, TypeOK, Sockets
<1>3. CASE Start
  BY <1>3 DEF Start
<1>4. CASE Stop
  <2>1. /\ conn' \in [Conn -> {"free", "armed", "ticket"} \cup Sockets]
        /\ \A c \in Conn :
              conn'[c] = IF c = timer /\ conn[c] = "armed" THEN "free"
                         ELSE IF c = socket /\ conn[c] \in {"connecting", "open"}
                         THEN "closing" ELSE conn[c]
    BY <1>4, ClosedSocketSlots, TimerClearedSlots DEF Stop
  <2>2. attempts' = attempts
    BY <1>4 DEF Stop
  <2>3. PICK c \in Conn : conn'[c] # conn[c]
    BY <2>1, <2>2 DEF TypeOK
  <2>4. /\ OnlyBusy(conn, c) /\ OnlyBusy(conn', c)
        /\ \/ conn[c] = "armed" /\ conn'[c] = "free"
           \/ conn[c] \in {"connecting", "open"} /\ conn'[c] = "closing"
    BY <1>1, <2>1, <2>3 DEF OnlyBusy
  <2>. QED BY <1>2, <2>2, <2>4 DEF MovesOn
<1>5. ASSUME NEW c \in Conn, Event(c)
      PROVE  \E d \in Conn :
                /\ OnlyBusy(conn, c) /\ OnlyBusy(conn', d)
                /\ MovesOn(c, d) \/ Repeats(c, d) \/ Opens(c, d)
  <2>1. conn[c] # "free" /\ OnlyBusy(conn, c)
    BY <1>1, <1>5 DEF Event, TimerFires, Ticket, TicketFails, Open,
                      InvalidMessage, Error, Close, Sockets
  <2>2. ASSUME NEW p, conn' = [conn EXCEPT ![c] = p]
        PROVE  OnlyBusy(conn', c) /\ conn'[c] = p
    BY <2>1, <2>2 DEF OnlyBusy, TypeOK
  <2>3. CASE TimerFires(c)
    <3>1. /\ conn[c] = "armed" /\ conn' = [conn EXCEPT ![c] = "ticket"]
          /\ attempts' = attempts
      BY <2>3 DEF TimerFires
    <3>2. OnlyBusy(conn', c) /\ conn'[c] = "ticket"
      BY <2>2, <3>1
    <3>. QED BY <1>2, <2>1, <3>1, <3>2 DEF MovesOn
  <2>4. CASE Ticket(c)
    <3>1. /\ attempts' = attempts /\ conn[c] = "ticket"
          /\ \/ conn' = [conn EXCEPT ![c] = "free"]
             \/ conn' = [conn EXCEPT ![c] = "connecting"]
      BY <2>4 DEF Ticket
    <3>2. OnlyBusy(conn', c) /\ conn'[c] \in {"free", "connecting"}
      BY <2>2, <3>1
    <3>. QED BY <1>2, <2>1, <3>1, <3>2 DEF MovesOn
  <2>5. CASE TicketFails(c) \/ Close(c)
    <3>1. /\ conn[c] \in {"ticket", "connecting", "open", "closing"}
          /\ Ended(c)
      BY <2>5 DEF TicketFails, Close, Sockets
    <3>2. CASE conn' = [conn EXCEPT ![c] = "free"] /\ attempts' = attempts
      <4>1. OnlyBusy(conn', c) /\ conn'[c] = "free"
        BY <2>2, <3>2
      <4>. QED BY <1>2, <2>1, <3>2, <4>1 DEF MovesOn
    <3>3. CASE ScheduleReconnect(c) /\ ~Exhausted
      <4>1. attempts' = attempts + 1 /\ attempts < MaxAttempts
        BY <3>3 DEF ScheduleReconnect, Exhausted, NextAttempts, TypeOK
      <4>2. PICK d \in Conn :
               conn' = [[conn EXCEPT ![c] = "free"] EXCEPT ![d] = "armed"]
        BY <3>3 DEF ScheduleReconnect
      <4>3. conn'[d] = "armed" /\ OnlyBusy(conn', d)
        BY <2>1, <4>2 DEF OnlyBusy, TypeOK
      <4>. QED BY <2>1, <3>1, <4>1, <4>3 DEF Repeats
    <3>. QED BY <3>1, <3>2, <3>3 DEF Ended, ScheduleReconnect
  <2>6. CASE Open(c)
    <3>1. conn' = [conn EXCEPT ![c] = "open"]
      BY <2>6 DEF Open
    <3>2. OnlyBusy(conn', c) /\ conn'[c] = "open"
      BY <2>2, <3>1
    <3>. QED BY <2>1, <2>6, <3>2 DEF Opens
  <2>7. CASE InvalidMessage(c)
    BY <2>7 DEF InvalidMessage
  <2>8. CASE Error(c)
    <3>1. /\ conn[c] \in {"connecting", "open"} /\ socket = c
          /\ attempts' = attempts
      BY <2>8 DEF Error, FieldsNameSlots, Sockets
    <3>2. conn'[c] = "closing" /\ OnlyBusy(conn', c)
      BY <2>1, <2>8, <3>1, ClosedSocketSlots DEF Error, OnlyBusy, TypeOK
    <3>. QED BY <1>2, <2>1, <3>1, <3>2 DEF MovesOn
  <2>. QED BY <1>5, <2>3, <2>4, <2>5, <2>6, <2>7, <2>8 DEF Event
<1>. QED BY <1>3, <1>4, <1>5 DEF Next

\* Both kinds of step that open nothing lower the budget.
LEMMA BudgetStep ==
    ASSUME IInv, NEW c \in Conn, NEW d \in Conn,
           OnlyBusy(conn, c), OnlyBusy(conn', d), MovesOn(c, d) \/ Repeats(c, d)
    PROVE  Budget' < Budget
<1>. DEFINE m == StageOf(conn[c])
            n == StageOf(conn'[d])
<1>1. /\ Budget = 6 * (MaxAttempts - attempts) + m
      /\ Budget' = 6 * (MaxAttempts - attempts') + n
  <2>1. Stage(conn) = m /\ Stage(conn') = n
    BY StageOfOne
  <2>2. Stage(conn)' = Stage(conn')
    BY DEF Stage
  <2>. QED BY <2>1, <2>2 DEF Budget
<1>2. m \in Nat /\ n \in Nat
  BY DEF StageOf
<1>3. \/ attempts' = attempts /\ n < m
      \/ attempts' = attempts + 1 /\ m >= 1 /\ n = 5
  BY DEF StageOf, MovesOn, Repeats
<1>4. attempts \in Nat /\ MaxAttempts \in Nat
  BY DEF IInv, TypeOK
<1>. HIDE DEF m, n
<1>. QED BY <1>1, <1>2, <1>3, <1>4

\* "connecting" and "reconnecting" are never shown with nothing under way: every
\* path that gives up says so.
THEOREM TryingTheorem == Spec => []TryingIsBusy
<1>1. Init => TryingIsBusy
  BY DEF Init, TryingIsBusy, Trying
<1>2. TryingIsBusy /\ IInv /\ [Next]_vars => TryingIsBusy'
  <2>. SUFFICES ASSUME TryingIsBusy, IInv, [Next]_vars, Trying'
                PROVE  \E c \in Conn : conn'[c] \in {"armed", "ticket",
                                                     "connecting", "closing"}
    BY DEF TryingIsBusy
  <2>1. CASE UNCHANGED vars
    BY <2>1 DEF vars, TryingIsBusy, Trying
  <2>2. CASE Start \/ Stop
    BY <2>2 DEF Start, Stop, Trying, IInv, TypeOK
  <2>3. ASSUME NEW c \in Conn, Event(c)
        PROVE  \E d \in Conn : conn'[d] \in {"armed", "ticket", "connecting",
                                             "closing"}
    <3>1. stopped => ~Trying
      BY DEF Trying, IInv, Silent
    <3>2. CASE TimerFires(c)
      BY <3>2 DEF TimerFires, IInv, TypeOK
    <3>3. CASE Ticket(c)
      BY <3>1, <3>3 DEF Ticket, StillLive, Trying, IInv, TypeOK
    <3>4. CASE TicketFails(c) \/ Close(c)
      <4>1. Ended(c) /\ state' \in {"connecting", "reconnecting"}
        BY <3>4 DEF TicketFails, Close, Trying
      <4>2. ScheduleReconnect(c) /\ ~Exhausted
        BY <3>1, <4>1 DEF Ended, ScheduleReconnect, Trying
      <4>. QED BY <4>2 DEF ScheduleReconnect, IInv, TypeOK
    <3>5. CASE Open(c) \/ InvalidMessage(c)
      BY <3>5 DEF Open, InvalidMessage, Trying
    <3>6. CASE Error(c)
      <4>1. conn[c] = "connecting" /\ socket = c
        BY <3>6 DEF Error, Trying, IInv, StateHonest, FieldsNameSlots, Sockets
      <4>. QED BY <3>6, <4>1, ClosedSocketSlots DEF Error, IInv, TypeOK
    <3>. QED BY <2>3, <3>2, <3>3, <3>4, <3>5, <3>6 DEF Event
  <2>. QED BY <2>1, <2>2, <2>3 DEF Next
<1>. QED BY <1>1, <1>2, SocketInvariant, PTL DEF Spec

\* The client cannot go on trying forever: whatever happens while it tries, other
\* than what settles it, comes closer to the end of its maxAttempts reconnects.
\* scheduleReconnect counts every attempt, onopen alone forgives them.
THEOREM BudgetTheorem == Spec => BudgetShrinks
<1>1. IInv /\ [Next]_vars
         => [Trying /\ Trying' => Budget' < Budget]_<<conn, attempts>>
  <2>. SUFFICES ASSUME IInv, [Next]_vars, Trying, Trying',
                       ~ UNCHANGED <<conn, attempts>>
                PROVE  Budget' < Budget
    OBVIOUS
  <2>1. Next /\ started
    BY DEF vars, IInv, Silent, Trying
  <2>2. PICK c, d \in Conn :
           /\ OnlyBusy(conn, c) /\ OnlyBusy(conn', d)
           /\ MovesOn(c, d) \/ Repeats(c, d)
    <3>1. \A c \in Conn : ~Open(c)
      BY DEF Open, Trying
    <3>. QED BY <2>1, <3>1, AttemptStep DEF Opens
  <2>. QED BY <2>2, BudgetStep
<1>. QED BY <1>1, SocketInvariant, PTL DEF Spec, BudgetShrinks

-----------------------------------------------------------------------------
(***************************************************************************)
(* The client against the backend.                                         *)
(***************************************************************************)
\* Every step of the composition is a callback, a call or a socket event of the
\* client, or none of its business.
LEMMA LiveStep == [LiveNext]_liveVars => [Next]_vars
<1>. SUFFICES ASSUME [LiveNext]_liveVars PROVE [Next]_vars
  OBVIOUS
<1>1. CASE EndSession \/ UNCHANGED liveVars
  BY <1>1 DEF EndSession, liveVars
<1>2. CASE ClientAlone
  BY <1>2 DEF ClientAlone, Next, Event
<1>3. ASSUME NEW c \in Conn,
             IssueTicket(c) \/ ConsumeTicket(c) \/ Accept(c) \/ HandlerEnds(c)
      PROVE  UNCHANGED vars
  BY <1>3 DEF IssueTicket, ConsumeTicket, Accept, HandlerEnds
<1>4. ASSUME NEW c \in Conn,
             TicketArrives(c) \/ NoTicket(c) \/ Opened(c) \/ Closed(c)
      PROVE  Event(c)
  BY <1>4 DEF TicketArrives, NoTicket, Opened, Closed, Event
<1>. QED BY <1>1, <1>2, <1>3, <1>4 DEF LiveNext, Next

\* What is proved of the client alone holds against this backend: waiting for
\* answers, losing them and being refused are behaviours ReconnectingSocket has.
THEOREM LiveImplementsSocket == LiveSpec => Spec
<1>1. LiveInit => Init
  BY DEF LiveInit
<1>. QED BY <1>1, LiveStep, PTL DEF LiveSpec, Spec

\* The backend refuses a ticket for an ended session only.
BackendInv ==
    /\ session \in {"open", "ended"}
    /\ reply \in [Conn -> {"none", "issued", "refused"}]
    /\ \A c \in Conn : reply[c] = "refused" => session = "ended"

\* What the two ends know of a slot is of the same attempt: an answer waits only
\* for a request, a handshake of an earlier attempt is forgotten before the slot
\* asks for a ticket, and a socket is open only if this handshake was accepted.
SlotsAgree ==
    /\ handler \in [Conn -> {"none", "handshake", "admitted", "refused",
                             "accepted"}]
    /\ ~started => \A c \in Conn : handler[c] = "none"
    /\ \A c \in Conn :
          /\ reply[c] # "none" => conn[c] = "ticket"
          /\ conn[c] \in {"armed", "ticket"} => handler[c] = "none"
          /\ conn[c] = "connecting" => handler[c] # "none"
          /\ conn[c] = "open" => handler[c] = "accepted"

\* Together with the client's invariant, for Closed must know that stop() left
\* "disconnected" behind, and InvalidMessage that the socket is in its field.
LiveIInv == IInv /\ BackendInv /\ SlotsAgree /\ DeniedIsTrue

LEMMA LiveInitInv == LiveInit => LiveIInv
<1>. SUFFICES ASSUME LiveInit PROVE LiveIInv
  OBVIOUS
<1>1. IInv
  BY InitInv DEF LiveInit
<1>2. BackendInv /\ SlotsAgree /\ DeniedIsTrue
  BY DEF LiveInit, Init, BackendInv, SlotsAgree, DeniedIsTrue
<1>. QED BY <1>1, <1>2 DEF LiveIInv

\* A session does not come back, and a ticket is refused by its end alone.
LEMMA BackendStep ==
    ASSUME BackendInv, [LiveNext]_liveVars
    PROVE  BackendInv' /\ (session = "ended" => session' = "ended")
<1>1. CASE EndSession
  BY <1>1 DEF EndSession, BackendInv
<1>2. CASE ClientAlone
  BY <1>2 DEF ClientAlone, backend, BackendInv
<1>3. ASSUME NEW c \in Conn, IssueTicket(c)
      PROVE  BackendInv' /\ session' = session
  BY <1>3 DEF IssueTicket, TicketAnswer, BackendInv
<1>4. ASSUME NEW c \in Conn, TicketArrives(c) \/ NoTicket(c)
      PROVE  BackendInv' /\ session' = session
  BY <1>4 DEF TicketArrives, NoTicket, BackendInv
<1>5. ASSUME NEW c \in Conn,
             \/ ConsumeTicket(c) \/ Accept(c) \/ HandlerEnds(c)
             \/ Opened(c) \/ Closed(c)
      PROVE  UNCHANGED <<session, reply>>
  BY <1>5 DEF ConsumeTicket, Accept, HandlerEnds, Opened, Closed, backend
<1>6. CASE UNCHANGED <<session, reply>>
  BY <1>6 DEF BackendInv
<1>7. UNCHANGED liveVars => UNCHANGED <<session, reply>>
  BY DEF liveVars, backend
<1>. QED BY <1>1, <1>2, <1>3, <1>4, <1>5, <1>6, <1>7 DEF LiveNext

\* After stop() no event of an older attempt is shown.
LEMMA StoppedEnds ==
    ASSUME IInv, NEW c \in Conn, conn[c] # "free", Ended(c), stopped,
           UNCHANGED <<started, stopped>>
    PROVE  state' # "denied"
BY EndedStep

\* Who makes the desktop say "denied", and when it stops saying so.
LEMMA DeniedStep ==
    ASSUME LiveIInv, [LiveNext]_liveVars
    PROVE  DeniedIsTrue'
<1>. USE DEF LiveIInv
<1>1. session = "ended" => session' = "ended"
  BY BackendStep
<1>2. state = "denied" => session' = "ended" \/ socket # None
  BY <1>1 DEF DeniedIsTrue
<1>3. CASE UNCHANGED <<state, socket>>
  BY <1>2, <1>3 DEF DeniedIsTrue
<1>4. CASE EndSession \/ UNCHANGED liveVars
  BY <1>3, <1>4 DEF EndSession, liveVars, vars
<1>5. CASE ClientAlone
  <2>1. CASE Start \/ Stop
    BY <2>1 DEF Start, Stop, DeniedIsTrue
  <2>2. ASSUME NEW c \in Conn, TimerFires(c)
        PROVE  DeniedIsTrue'
    BY <2>2 DEF TimerFires, DeniedIsTrue
  <2>3. ASSUME NEW c \in Conn, Error(c)
        PROVE  DeniedIsTrue'
    BY <1>3, <2>3 DEF Error
  <2>4. ASSUME NEW c \in Conn, InvalidMessage(c)
        PROVE  DeniedIsTrue'
    BY <2>4 DEF InvalidMessage, StateHonest, IInv, DeniedIsTrue
  <2>. QED BY <1>5, <2>1, <2>2, <2>3, <2>4 DEF ClientAlone
<1>6. ASSUME NEW c \in Conn,
             IssueTicket(c) \/ ConsumeTicket(c) \/ Accept(c) \/ HandlerEnds(c)
      PROVE  DeniedIsTrue'
  BY <1>3, <1>6 DEF IssueTicket, ConsumeTicket, Accept, HandlerEnds, vars
<1>7. ASSUME NEW c \in Conn, TicketArrives(c)
      PROVE  DeniedIsTrue'
  <2>1. state' = state /\ (socket' = socket \/ socket' = c)
    BY <1>7 DEF TicketArrives, Ticket
  <2>. QED BY <1>2, <2>1 DEF DeniedIsTrue
<1>8. ASSUME NEW c \in Conn, NoTicket(c)
      PROVE  DeniedIsTrue'
  <2>1. conn[c] # "free" /\ Ended(c) /\ UNCHANGED <<started, stopped>>
    BY <1>8 DEF NoTicket, TicketFails
  <2>2. CASE reply[c] = "refused"
    <3>1. session' = "ended"
      BY <1>1, <2>2 DEF BackendInv
    <3>. QED BY <3>1 DEF DeniedIsTrue
  <2>3. CASE reply[c] # "refused"
    <3>1. stopped \/ state' # "denied"
      BY <1>8, <2>3 DEF NoTicket, Retried
    <3>2. state' # "denied"
      BY <2>1, <3>1, StoppedEnds
    <3>. QED BY <3>2 DEF DeniedIsTrue
  <2>. QED BY <2>2, <2>3
<1>9. ASSUME NEW c \in Conn, Opened(c)
      PROVE  DeniedIsTrue'
  BY <1>9 DEF Opened, Open, DeniedIsTrue
<1>10. ASSUME NEW c \in Conn, Closed(c)
       PROVE  DeniedIsTrue'
  <2>1. conn[c] # "free" /\ Ended(c) /\ UNCHANGED <<started, stopped>>
    BY <1>10 DEF Closed, Close, Sockets
  <2>2. \A code \in CloseCodes : ~Denies(code)
    BY DEF CloseCodes, Denies
  <2>3. stopped \/ state' # "denied"
    BY <1>10, <2>2 DEF Closed, Retried
  <2>4. state' # "denied"
    BY <2>1, <2>3, StoppedEnds
  <2>. QED BY <2>4 DEF DeniedIsTrue
<1>. QED
  BY <1>4, <1>5, <1>6, <1>7, <1>8, <1>9, <1>10 DEF LiveNext

\* No step mixes up two attempts that used the same slot.
LEMMA SlotsStep ==
    ASSUME LiveIInv, [LiveNext]_liveVars
    PROVE  SlotsAgree'
<1>. USE DEF SlotsAgree
<1>1. SlotsAgree /\ BackendInv /\ TypeOK
  BY DEF LiveIInv, IInv
<1>2. CASE EndSession \/ UNCHANGED liveVars
  BY <1>1, <1>2 DEF EndSession, liveVars, vars, backend
<1>3. CASE ClientAlone
  <2>1. UNCHANGED <<session, reply, handler>>
    BY <1>3 DEF ClientAlone, backend
  <2>2. CASE Start
    <3>1. /\ \A c \in Conn : conn[c] = "free" /\ handler[c] = "none"
                             /\ reply[c] = "none"
          /\ started'
      BY <1>1, <2>2 DEF Start, LiveIInv, IInv, Silent
    <3>2. PICK c \in Conn : conn' = [conn EXCEPT ![c] = "ticket"]
      BY <2>2 DEF Start
    <3>. QED BY <1>1, <2>1, <3>1, <3>2 DEF TypeOK
  <2>3. CASE Stop
    <3>1. \A c \in Conn :
             conn'[c] = IF c = timer /\ conn[c] = "armed" THEN "free"
                        ELSE IF c = socket /\ conn[c] \in {"connecting", "open"}
                        THEN "closing" ELSE conn[c]
      BY <1>1, <2>3, ClosedSocketSlots, TimerClearedSlots DEF Stop
    <3>2. started' = started
      BY <2>3 DEF Stop
    <3>. QED BY <1>1, <2>1, <3>1, <3>2
  <2>4. ASSUME NEW c \in Conn, TimerFires(c)
        PROVE  SlotsAgree'
    BY <1>1, <2>1, <2>4 DEF TimerFires, TypeOK
  <2>5. ASSUME NEW c \in Conn, Error(c)
        PROVE  SlotsAgree'
    <3>1. \A d \in Conn :
             conn'[d] = IF d = socket /\ conn[d] \in {"connecting", "open"}
                        THEN "closing" ELSE conn[d]
      BY <1>1, <2>5, ClosedSocketSlots DEF Error, TypeOK
    <3>2. started' = started
      BY <2>5 DEF Error
    <3>. QED BY <1>1, <2>1, <3>1, <3>2
  <2>6. ASSUME NEW c \in Conn, InvalidMessage(c)
        PROVE  SlotsAgree'
    BY <1>1, <2>1, <2>6 DEF InvalidMessage
  <2>. QED BY <1>3, <2>2, <2>3, <2>4, <2>5, <2>6 DEF ClientAlone
<1>4. ASSUME NEW c \in Conn,
             IssueTicket(c) \/ ConsumeTicket(c) \/ Accept(c) \/ HandlerEnds(c)
      PROVE  SlotsAgree'
  <2>1. UNCHANGED vars
    BY <1>4 DEF IssueTicket, ConsumeTicket, Accept, HandlerEnds
  <2>2. started
    BY <1>1, <1>4 DEF IssueTicket, ConsumeTicket, Accept, HandlerEnds,
                      LiveIInv, IInv, Silent
  <2>3. CASE IssueTicket(c)
    BY <1>1, <2>1, <2>3 DEF IssueTicket, vars, BackendInv
  <2>4. CASE ConsumeTicket(c)
    BY <1>1, <2>1, <2>2, <2>4 DEF ConsumeTicket, vars
  <2>5. CASE Accept(c)
    BY <1>1, <2>1, <2>2, <2>5 DEF Accept, vars
  <2>6. CASE HandlerEnds(c)
    BY <1>1, <2>1, <2>6 DEF HandlerEnds, vars
  <2>. QED BY <1>4, <2>3, <2>4, <2>5, <2>6
<1>5. ASSUME NEW c \in Conn, TicketArrives(c)
      PROVE  SlotsAgree'
  <2>1. conn[c] = "ticket" /\ started /\ started' = started
    BY <1>5 DEF TicketArrives, Ticket, LiveIInv, IInv, Silent
  <2>2. /\ conn' = [conn EXCEPT ![c] = "free"]
           \/ conn' = [conn EXCEPT ![c] = "connecting"]
        /\ reply' = [reply EXCEPT ![c] = "none"]
        /\ handler' = IF conn'[c] = "connecting"
                      THEN [handler EXCEPT ![c] = "handshake"] ELSE handler
    BY <1>5 DEF TicketArrives, Ticket
  <2>. QED BY <1>1, <2>1, <2>2 DEF TypeOK, BackendInv
<1>6. ASSUME NEW c \in Conn, NoTicket(c) \/ Closed(c)
      PROVE  SlotsAgree'
  <2>1. /\ conn[c] # "free" /\ Ended(c) /\ UNCHANGED <<started, stopped>>
        /\ SlotsForgotten
        /\ \/ conn[c] = "ticket" /\ reply' = [reply EXCEPT ![c] = "none"]
              /\ handler' = handler
           \/ conn[c] \in Sockets /\ reply' = reply
              /\ handler' = [handler EXCEPT
                               ![c] = IF @ = "refused" THEN "none" ELSE @]
    BY <1>6 DEF NoTicket, Closed, TicketFails, Close, Sockets
  <2>2. \A d \in Conn : d # c => conn[d] = "free"
    BY <2>1 DEF LiveIInv, IInv, OneBusy
  <2>3. conn' \in [Conn -> {"free", "armed"}]
    BY <2>1, EndedStep DEF LiveIInv
  <2>4. \A d \in Conn : reply'[d] = "none"
    BY <1>1, <2>1, <2>2 DEF BackendInv, Sockets
  <2>5. \A d \in Conn : conn'[d] = "armed" => handler'[d] = "none"
    BY <1>1, <2>1, <2>2 DEF SlotsForgotten, Sockets
  <2>6. started'
    BY <2>1 DEF LiveIInv, IInv, Silent
  <2>7. handler' \in [Conn -> {"none", "handshake", "admitted", "refused",
                               "accepted"}]
    BY <1>1, <2>1
  <2>. QED BY <2>3, <2>4, <2>5, <2>6, <2>7
<1>7. ASSUME NEW c \in Conn, Opened(c)
      PROVE  SlotsAgree'
  BY <1>1, <1>7 DEF Opened, Open, backend, TypeOK
<1>. QED
  BY <1>2, <1>3, <1>4, <1>5, <1>6, <1>7 DEF LiveNext

LEMMA LiveNextInv == LiveIInv /\ [LiveNext]_liveVars => LiveIInv'
BY LiveStep, NextInv, BackendStep, SlotsStep, DeniedStep DEF LiveIInv

THEOREM LiveInvariant == LiveSpec => []LiveIInv
<1>. QED BY LiveInitInv, LiveNextInv, PTL DEF LiveSpec

\* The desktop shows "denied" without a socket only after the backend ended the
\* session: no lost request, lost connection or refused handshake leads there.
THEOREM DeniedTheorem == LiveSpec => []DeniedIsTrue
<1>1. LiveIInv => DeniedIsTrue
  BY DEF LiveIInv
<1>. QED BY <1>1, LiveInvariant, PTL

\* onopen is never reported for a handshake of an earlier attempt: a socket that
\* is open was accepted by the backend, with the ticket it asked for last.
THEOREM AcceptedTheorem ==
    LiveSpec => [](\A c \in Conn : conn[c] = "open" => handler[c] = "accepted")
<1>1. LiveIInv => \A c \in Conn : conn[c] = "open" => handler[c] = "accepted"
  BY DEF LiveIInv, SlotsAgree
<1>. QED BY <1>1, LiveInvariant, PTL

\* The client keeps to one chain of attempts, is silent after stop() and shows
\* the state of its socket against this backend too.
THEOREM LiveSocketTheorem ==
    LiveSpec => [](SingleChain /\ StoppedIsSilent /\ StateHonest)
<1>. QED BY LiveImplementsSocket, SingleChainTheorem, StoppedTheorem,
           HonestTheorem, PTL

-----------------------------------------------------------------------------
(***************************************************************************)
(* What there is to EventuallyQuiet without fairness: once the session has *)
(* ended, all that can still happen to the connection uses up a budget.    *)
(* One more socket may open, if its handshake was admitted before the end, *)
(* and forgive the reconnects counted so far.                              *)
(***************************************************************************)
MayOpen(slots, handshakes) ==
    \E c \in Conn : /\ slots[c] = "connecting"
                    /\ handshakes[c] \in {"admitted", "accepted"}

LateBudget ==
    Budget + (IF MayOpen(conn, handler) THEN 6 * MaxAttempts ELSE 0)

LateBudgetShrinks ==
    [][session = "ended" /\ started =>
          /\ session' = "ended" /\ started'
          /\ LateBudget' <= LateBudget
          /\ UNCHANGED <<conn, attempts>> \/ LateBudget' < LateBudget]_liveVars

\* After the end of the session no handshake is admitted: each event leaves those
\* that were, or fewer, and the last of them is gone when its socket opens.
LEMMA NothingAdmitted ==
    ASSUME LiveIInv, LiveNext, ~ UNCHANGED <<conn, attempts>>
    PROVE  /\ Next
           /\ MayOpen(conn', handler') => MayOpen(conn, handler)
           /\ \A c \in Conn : Open(c) => /\ MayOpen(conn, handler)
                                         /\ ~ MayOpen(conn', handler')
<1>1. /\ TypeOK /\ SlotsAgree
      /\ \A c, d \in Conn : conn[c] # "free" /\ d # c => conn[d] = "free"
  BY DEF LiveIInv, IInv, OneBusy
<1>2. Next
  BY LiveStep DEF vars
<1>3. CASE ClientAlone
  <2>1. handler' = handler
    BY <1>3 DEF ClientAlone, backend
  <2>2. \A c \in Conn : conn'[c] = "connecting" => conn[c] = "connecting"
    <3>1. CASE Start
      BY <1>1, <3>1 DEF Start, TypeOK
    <3>2. CASE Stop
      BY <1>1, <3>2, ClosedSocketSlots, TimerClearedSlots DEF Stop
    <3>3. ASSUME NEW c \in Conn, TimerFires(c) \/ Error(c) \/ InvalidMessage(c)
          PROVE  \A d \in Conn : conn'[d] = "connecting" => conn[d] = "connecting"
      BY <1>1, <3>3, ClosedSocketSlots
         DEF TimerFires, Error, InvalidMessage, TypeOK
    <3>. QED BY <1>3, <3>1, <3>2, <3>3 DEF ClientAlone
  <2>3. \A c \in Conn : ~ Open(c)
    <3>. SUFFICES ASSUME NEW c \in Conn, Open(c) PROVE FALSE
      OBVIOUS
    <3>1. conn[c] = "connecting" /\ conn'[c] = "open"
      BY <1>1 DEF Open, TypeOK
    <3>2. CASE Start
      BY <1>1, <3>1, <3>2 DEF Start, TypeOK
    <3>3. CASE Stop
      BY <1>1, <3>1, <3>3, ClosedSocketSlots, TimerClearedSlots DEF Stop
    <3>4. ASSUME NEW d \in Conn, TimerFires(d) \/ Error(d) \/ InvalidMessage(d)
          PROVE  FALSE
      BY <1>1, <3>1, <3>4, ClosedSocketSlots
         DEF TimerFires, Error, InvalidMessage, TypeOK
    <3>. QED BY <1>3, <3>2, <3>3, <3>4 DEF ClientAlone
  <2>. QED BY <1>2, <2>1, <2>2, <2>3 DEF MayOpen
<1>4. ASSUME NEW c \in Conn, TicketArrives(c)
      PROVE  ~ MayOpen(conn', handler') /\ \A d \in Conn : ~ Open(d)
  <2>1. /\ conn[c] = "ticket"
        /\ conn' = [conn EXCEPT ![c] = "free"]
           \/ conn' = [conn EXCEPT ![c] = "connecting"]
        /\ handler' = IF conn'[c] = "connecting"
                      THEN [handler EXCEPT ![c] = "handshake"] ELSE handler
    BY <1>4 DEF TicketArrives, Ticket
  <2>2. \A d \in Conn : d # c => conn[d] = "free" /\ conn'[d] = "free"
    BY <1>1, <2>1 DEF TypeOK
  <2>. QED BY <1>1, <2>1, <2>2 DEF MayOpen, SlotsAgree, Open, TypeOK
<1>5. ASSUME NEW c \in Conn, NoTicket(c) \/ Closed(c)
      PROVE  ~ MayOpen(conn', handler') /\ \A d \in Conn : ~ Open(d)
  <2>1. conn[c] # "free" /\ Ended(c) /\ UNCHANGED <<started, stopped>>
    BY <1>5 DEF NoTicket, Closed, TicketFails, Close, Sockets
  <2>2. conn' \in [Conn -> {"free", "armed"}]
    BY <2>1, EndedStep DEF LiveIInv
  <2>. QED BY <1>1, <2>2 DEF MayOpen, Open, TypeOK
<1>6. ASSUME NEW c \in Conn, Opened(c)
      PROVE  /\ MayOpen(conn, handler) /\ ~ MayOpen(conn', handler')
  <2>1. /\ conn[c] = "connecting" /\ handler[c] = "accepted"
        /\ conn' = [conn EXCEPT ![c] = "open"]
    BY <1>6 DEF Opened, Open
  <2>2. \A d \in Conn : conn'[d] # "connecting"
    BY <1>1, <2>1 DEF TypeOK
  <2>. QED BY <2>1, <2>2 DEF MayOpen
<1>7. /\ ~ EndSession
      /\ \A c \in Conn : ~ (IssueTicket(c) \/ ConsumeTicket(c) \/ Accept(c)
                            \/ HandlerEnds(c))
  BY DEF EndSession, IssueTicket, ConsumeTicket, Accept, HandlerEnds, vars
<1>. QED BY <1>2, <1>3, <1>4, <1>5, <1>6, <1>7 DEF LiveNext

\* The backend admits no handshake after the end either, and nothing opens the
\* session again.
LEMMA BackendStaysEnded ==
    ASSUME LiveIInv, LiveNext, session = "ended"
    PROVE  /\ session' = "ended"
           /\ \A c \in Conn : handler'[c] \in {"admitted", "accepted"}
                             => handler[c] \in {"admitted", "accepted"}
<1>1. handler \in [Conn -> {"none", "handshake", "admitted", "refused",
                           "accepted"}]
  BY DEF LiveIInv, SlotsAgree
<1>2. CASE EndSession \/ ClientAlone
  BY <1>2 DEF EndSession, ClientAlone, backend
<1>3. ASSUME NEW d \in Conn,
             IssueTicket(d) \/ ConsumeTicket(d) \/ Accept(d) \/ HandlerEnds(d)
      PROVE  /\ session' = "ended"
             /\ \A c \in Conn : handler'[c] \in {"admitted", "accepted"}
                               => handler[c] \in {"admitted", "accepted"}
  BY <1>1, <1>3 DEF IssueTicket, ConsumeTicket, Accept, HandlerEnds
<1>4. ASSUME NEW d \in Conn, TicketArrives(d)
      PROVE  /\ session' = "ended"
             /\ \A c \in Conn : handler'[c] \in {"admitted", "accepted"}
                               => handler[c] \in {"admitted", "accepted"}
  BY <1>1, <1>4 DEF TicketArrives
<1>5. ASSUME NEW d \in Conn, NoTicket(d) \/ Opened(d) \/ Closed(d)
      PROVE  /\ session' = "ended"
             /\ \A c \in Conn : handler'[c] \in {"admitted", "accepted"}
                               => handler[c] \in {"admitted", "accepted"}
  BY <1>1, <1>5 DEF NoTicket, Opened, Closed, backend
<1>. QED BY <1>2, <1>3, <1>4, <1>5 DEF LiveNext

LEMMA StaysStarted ==
    ASSUME Next, started
    PROVE  started'
BY DEF Next, Event, Start, Stop, TimerFires, Ticket, TicketFails, Open,
       InvalidMessage, Error, Close, Ended

\* A session that ended leaves nothing behind that can go on forever: whatever is
\* lost, delayed or refused, each event of the connection lowers a number.  That
\* a late ticket or an admitted handshake may still open a socket is in it.
THEOREM LateBudgetTheorem == LiveSpec => LateBudgetShrinks
<1>1. LiveIInv /\ LiveNext /\ started /\ ~ UNCHANGED <<conn, attempts>>
         => LateBudget' < LateBudget /\ LateBudget \in Int /\ LateBudget' \in Int
  <2>. SUFFICES ASSUME LiveIInv, LiveNext, started,
                       ~ UNCHANGED <<conn, attempts>>
                PROVE  /\ LateBudget' < LateBudget
                       /\ LateBudget \in Int /\ LateBudget' \in Int
    OBVIOUS
  <2>. DEFINE before == MayOpen(conn, handler)
              after  == MayOpen(conn', handler')
  <2>2. /\ Next /\ (after => before)
        /\ \A c \in Conn : Open(c) => before /\ ~after
    BY NothingAdmitted
  <2>3. PICK c, d \in Conn :
           /\ OnlyBusy(conn, c) /\ OnlyBusy(conn', d)
           /\ MovesOn(c, d) \/ Repeats(c, d) \/ Opens(c, d)
    BY <2>2, AttemptStep DEF LiveIInv
  <2>4. attempts \in 0 .. MaxAttempts /\ MaxAttempts \in Nat
        /\ attempts' \in 0 .. MaxAttempts
    BY <2>2, NextInv DEF LiveIInv, IInv, TypeOK
  <2>5. /\ Budget = 6 * (MaxAttempts - attempts) + StageOf(conn[c])
        /\ Budget' = 6 * (MaxAttempts - attempts') + StageOf(conn'[d])
    <3>1. Stage(conn) = StageOf(conn[c]) /\ Stage(conn') = StageOf(conn'[d])
      BY <2>3, StageOfOne
    <3>. QED BY <3>1 DEF Budget, Stage
  <2>6. LateBudget = Budget + (IF before THEN 6 * MaxAttempts ELSE 0)
        /\ LateBudget' = Budget' + (IF after THEN 6 * MaxAttempts ELSE 0)
    BY DEF LateBudget, MayOpen
  <2>7. Budget \in Int /\ Budget' \in Int
    BY <2>4, <2>5 DEF StageOf
  <2>8. ASSUME MovesOn(c, d) \/ Repeats(c, d)
        PROVE  LateBudget' < LateBudget
    <3>1. Budget' < Budget
      BY <2>3, <2>8, BudgetStep DEF LiveIInv
    <3>. DEFINE a == IF before THEN 6 * MaxAttempts ELSE 0
                b == IF after THEN 6 * MaxAttempts ELSE 0
    <3>2. a \in Int /\ b \in Int /\ b <= a
      <4>1. 6 * MaxAttempts \in Nat
        BY <2>4
      <4>2. after => before
        BY <2>2
      <4>. HIDE DEF before, after
      <4>3. CASE after
        BY <4>1, <4>2, <4>3
      <4>4. CASE ~after
        BY <4>1, <4>4
      <4>. QED BY <4>3, <4>4
    <3>3. LateBudget = Budget + a /\ LateBudget' = Budget' + b
      BY <2>6
    <3>4. \A m, n, p, q \in Int : m < n /\ p <= q => m + p < n + q
      OBVIOUS
    <3>5. Budget' + b < Budget + a
      <4>. HIDE DEF a, b
      <4>. QED BY <2>7, <3>1, <3>2, <3>4, Zenon
    <3>. QED BY <3>3, <3>5, Zenon
  <2>9. ASSUME Opens(c, d)
        PROVE  LateBudget' < LateBudget
    <3>1. /\ StageOf(conn[c]) = 3 /\ StageOf(conn'[d]) = 2 /\ attempts' = 0
          /\ before /\ ~after
      BY <2>2, <2>9 DEF Opens, Open, StageOf
    <3>. HIDE DEF before, after
    <3>. QED BY <2>4, <2>5, <2>6, <3>1
  <2>10. LateBudget \in Int /\ LateBudget' \in Int
    <3>1. 6 * MaxAttempts \in Int
      BY <2>4
    <3>. HIDE DEF before, after
    <3>. QED BY <2>6, <2>7, <3>1
  <2>11. LateBudget' < LateBudget
    BY <2>3, <2>8, <2>9, Zenon
  <2>. QED BY <2>10, <2>11
<1>2. LiveIInv /\ UNCHANGED <<conn, attempts>>
        /\ (\A c \in Conn : handler'[c] \in {"admitted", "accepted"}
                            => handler[c] \in {"admitted", "accepted"})
      => LateBudget' <= LateBudget
  <2>. SUFFICES ASSUME LiveIInv, UNCHANGED <<conn, attempts>>,
                       \A c \in Conn : handler'[c] \in {"admitted", "accepted"}
                                      => handler[c] \in {"admitted", "accepted"}
                PROVE  LateBudget' <= LateBudget
    OBVIOUS
  <2>. DEFINE a == IF MayOpen(conn, handler) THEN 6 * MaxAttempts ELSE 0
              b == IF MayOpen(conn', handler') THEN 6 * MaxAttempts ELSE 0
  <2>1. MayOpen(conn', handler') => MayOpen(conn, handler)
    BY DEF MayOpen
  <2>2. Budget \in Int /\ Budget' = Budget
    <3>1. attempts \in Int /\ MaxAttempts \in Nat
      BY DEF LiveIInv, IInv, TypeOK
    <3>2. Stage(conn) \in Int
      BY DEF Stage, StageOf
    <3>. QED BY <3>1, <3>2 DEF Budget, Stage
  <2>3. a \in Int /\ b \in Int /\ b <= a
    BY <2>1, AttemptsAssumption
  <2>4. LateBudget = Budget + a /\ LateBudget' = Budget + b
    BY <2>2 DEF LateBudget, MayOpen
  <2>. HIDE DEF a, b
  <2>. QED BY <2>2, <2>3, <2>4
<1>3. LiveIInv /\ [LiveNext]_liveVars
        => [session = "ended" /\ started =>
              /\ session' = "ended" /\ started'
              /\ LateBudget' <= LateBudget
              /\ UNCHANGED <<conn, attempts>> \/ LateBudget' < LateBudget]_liveVars
  <2>. SUFFICES ASSUME LiveIInv, LiveNext, session = "ended", started
                PROVE  /\ session' = "ended" /\ started'
                       /\ LateBudget' <= LateBudget
                       /\ UNCHANGED <<conn, attempts>> \/ LateBudget' < LateBudget
    OBVIOUS
  <2>1. started'
    BY LiveStep, StaysStarted DEF vars
  <2>2. session' = "ended"
    BY BackendStaysEnded
  <2>3. CASE UNCHANGED <<conn, attempts>>
    BY <1>2, <2>1, <2>2, <2>3, BackendStaysEnded
  <2>4. CASE ~ UNCHANGED <<conn, attempts>>
    <3>1. LateBudget' < LateBudget /\ LateBudget \in Int /\ LateBudget' \in Int
      BY <1>1, <2>4
    <3>. QED BY <2>1, <2>2, <3>1
  <2>. QED BY <2>3, <2>4
<1>. QED BY <1>3, LiveInvariant, PTL DEF LiveSpec, LateBudgetShrinks
=============================================================================
