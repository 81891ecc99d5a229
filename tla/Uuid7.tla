------------------------------- MODULE Uuid7 -------------------------------
(***************************************************************************)
(* uuid7(): identifiers of one process, drawn by concurrent threads while  *)
(* the wall clock advances, stands still or is set back.  The draw happens *)
(* under a lock; the value is put together and returned after it, so       *)
(* threads may return in another order than they drew.                     *)
(*                                                                         *)
(* The widths of the bit fields are constants: 2^48 milliseconds, and 74   *)
(* random bits split into HiMod = 2^12 times LoMod = 2^62.  A shift is a   *)
(* product and, since fields are disjoint, a bitwise or is a sum.          *)
(***************************************************************************)
EXTENDS Integers

CONSTANTS
    Caller,         \* threads
    TimeMod,        \* size of the millisecond field; also bounds the clock
    HiMod, LoMod    \* sizes of random_a and random_b

ASSUME FieldAssumption ==
    /\ TimeMod \in Nat \ {0}
    /\ HiMod \in Nat \ {0}
    /\ LoMod \in Nat \ {0}

VARIABLES
    wall,           \* time.time_ns() // 1_000_000
    lastMs,         \* _LAST_MILLISECOND
    lastRandom,     \* _LAST_RANDOM
    calls,          \* the calls in progress: pc and the locals
    issued          \* history: the values returned so far

vars == <<wall, lastMs, lastRandom, calls, issued>>

RandomSpace == HiMod * LoMod                   \* _RANDOM_MASK + 1
Ready       == [pc |-> "idle", ms |-> 0, random |-> 0, before |-> {}]

Init ==
    /\ wall \in 0 .. TimeMod - 1
    /\ lastMs = -1
    /\ lastRandom = 0
    /\ calls = [c \in Caller |-> Ready]
    /\ issued = {}

UnmaskedRandom == lastRandom + 1               \* mutant: & _RANDOM_MASK dropped
NextRandom == (lastRandom + 1) % RandomSpace

StuckMs == lastMs                              \* mutant: the wrap not carried
NextMs == IF NextRandom = 0 THEN lastMs + 1 ELSE lastMs

Version == 7
Variant == 2
Value(ms, random) ==
    ((((ms % TimeMod) * 16 + Version) * HiMod + (random \div LoMod))
        * 4 + Variant) * LoMod + (random % LoMod)

\* What a call returns must exceed all that was returned before the call.
Call(c) ==
    /\ calls[c].pc = "idle"
    /\ calls' = [calls EXCEPT ![c] = [Ready EXCEPT !.pc = "called",
                                                   !.before = issued]]
    /\ UNCHANGED <<wall, lastMs, lastRandom, issued>>

Take(c, ms, random) ==
    /\ ms < TimeMod                            \* bound: 48 bits of milliseconds
    /\ lastMs' = ms
    /\ lastRandom' = random
    /\ calls' = [calls EXCEPT ![c].pc = "drawn", ![c].ms = ms,
                              ![c].random = random]
    /\ UNCHANGED <<wall, issued>>

\* The critical section.
Draw(c) ==
    /\ calls[c].pc = "called"
    /\ \/ /\ wall > lastMs
          /\ \E random \in 0 .. RandomSpace - 1 : Take(c, wall, random)
       \/ /\ wall <= lastMs
          /\ Take(c, NextMs, NextRandom)

Return(c) ==
    /\ calls[c].pc = "drawn"
    /\ issued' = issued \cup {Value(calls[c].ms, calls[c].random)}
    /\ calls' = [calls EXCEPT ![c] = Ready]
    /\ UNCHANGED <<wall, lastMs, lastRandom>>

\* External: the system clock, which may be set back by any amount.
SetClock ==
    /\ wall' \in 0 .. TimeMod - 1
    /\ UNCHANGED <<lastMs, lastRandom, calls, issued>>

Next ==
    \/ \E c \in Caller : Call(c) \/ Draw(c) \/ Return(c)
    \/ SetClock

Spec == Init /\ [][Next]_vars

-----------------------------------------------------------------------------
CallType == [pc : {"idle", "called", "drawn"}, ms : 0 .. TimeMod - 1,
             random : 0 .. RandomSpace - 1, before : SUBSET Nat]

\* The generator's globals stay in the ranges of their bit fields.
TypeOK ==
    /\ wall \in 0 .. TimeMod - 1
    /\ lastMs \in -1 .. TimeMod - 1
    /\ lastRandom \in 0 .. RandomSpace - 1
    /\ calls \in [Caller -> CallType]
    /\ issued \in SUBSET Nat

Drawn(c)  == calls[c].pc = "drawn"
ValueOf(c) == Value(calls[c].ms, calls[c].random)

\* Values of one process increase: a call returns more than every call that
\* returned before it began, whatever the clock does, also when the random
\* field overflows within a millisecond and when threads overtake each other
\* between the lock and the return.
MonotonicCalls ==
    \A c \in Caller : Drawn(c) => \A v \in calls[c].before : v < ValueOf(c)

\* No value is drawn twice: not by two threads at once, and none that was
\* returned before.
NeverReissued ==
    \A c \in Caller : Drawn(c) =>
        /\ ValueOf(c) \notin issued
        /\ \A d \in Caller \ {c} : Drawn(d) => ValueOf(c) # ValueOf(d)

\* is_uuid7 accepts what uuid7 returns: the version and variant fields survive
\* the neighbouring random bits and the timestamp.
Canonical ==
    \A v \in issued :
        /\ (v \div LoMod) % 4 = Variant
        /\ (v \div (4 * RandomSpace)) % 16 = Version

\* The inductive invariant: what was drawn never exceeds what the globals
\* encode, and what a call must exceed had been drawn before the call began.
DrawnInv ==
    /\ lastMs = -1 => issued = {} /\ \A c \in Caller : ~Drawn(c)
    /\ \A v \in issued : v <= Value(lastMs, lastRandom)
    /\ \A c \in Caller :
          /\ Drawn(c) => ValueOf(c) <= Value(lastMs, lastRandom)
          /\ calls[c].before \subseteq issued
=============================================================================
