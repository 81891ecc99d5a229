---------------------------- MODULE Uuid7_proofs ----------------------------
(***************************************************************************)
(* uuid7 is monotonic for every width of its fields and number of threads. *)
(***************************************************************************)
EXTENDS Uuid7, TLAPS

-----------------------------------------------------------------------------
(***************************************************************************)
(* Arithmetic of bit fields.                                               *)
(***************************************************************************)
\* A larger high field outweighs any low field.
LEMMA HighField ==
    ASSUME NEW m \in Nat \ {0}, NEW a \in Nat, NEW b \in Nat, a < b,
           NEW x \in 0 .. m - 1, NEW y \in Nat
    PROVE  a * m + x < b * m + y
<1>1. PICK d \in Nat : b = a + 1 + d
  <2>1. b - a - 1 \in Nat /\ b = a + 1 + (b - a - 1)
    OBVIOUS
  <2> QED
    BY <2>1
<1>2. b * m = a * m + m + d * m /\ d * m >= 0
  BY <1>1
<1> QED
  BY <1>2

\* Quotient and remainder of a field split at m.
LEMMA Split ==
    ASSUME NEW m \in Nat \ {0}, NEW a \in Nat
    PROVE  /\ a \div m \in Nat
           /\ a % m \in 0 .. m - 1
           /\ a = (a \div m) * m + (a % m)
<1>1. a \div m \in Nat /\ a % m \in 0 .. m - 1
  OBVIOUS
<1>2. a = m * (a \div m) + (a % m)
  OBVIOUS
<1> QED
  BY <1>1, <1>2

\* Splitting a number keeps its order.
LEMMA SplitOrder ==
    ASSUME NEW m \in Nat \ {0}, NEW a \in Nat, NEW b \in Nat, a < b
    PROVE  \/ a \div m < b \div m
           \/ a \div m = b \div m /\ a % m < b % m
<1>1. /\ a \div m \in Nat /\ a % m \in 0 .. m - 1 /\ a = (a \div m) * m + (a % m)
      /\ b \div m \in Nat /\ b % m \in 0 .. m - 1 /\ b = (b \div m) * m + (b % m)
  BY Split
<1>2. CASE b \div m < a \div m
  <2>1. (b \div m) * m + (b % m) < (a \div m) * m + (a % m)
    BY <1>1, <1>2, HighField
  <2> QED
    BY <1>1, <2>1
<1>3. CASE a \div m = b \div m
  BY <1>1, <1>3
<1> QED
  BY <1>1, <1>2, <1>3

\* The fields of a value, from the timestamp down: three steps, each appending
\* a field below what is there.
High(ms)           == (ms % TimeMod) * 16 + Version
Middle(ms, random) == (High(ms) * HiMod + (random \div LoMod)) * 4 + Variant

\* For a millisecond and random bits in range, the fields fit where they are
\* packed, and packing reduces nothing.
LEMMA Fields ==
    ASSUME NEW ms \in 0 .. TimeMod - 1, NEW random \in 0 .. RandomSpace - 1
    PROVE  /\ High(ms) \in Nat /\ High(ms) = ms * 16 + Version
           /\ random \div LoMod \in 0 .. HiMod - 1
           /\ random % LoMod \in 0 .. LoMod - 1
           /\ Middle(ms, random) \in Nat
           /\ Value(ms, random) = Middle(ms, random) * LoMod + (random % LoMod)
           /\ Value(ms, random) \in Nat
<1> USE FieldAssumption
<1>1. High(ms) \in Nat /\ High(ms) = ms * 16 + Version
  <2>1. ms % TimeMod = ms
    OBVIOUS
  <2> QED
    BY <2>1 DEF High, Version
<1>2. RandomSpace \in Nat /\ random \in Nat
  BY DEF RandomSpace
<1>3. /\ random \div LoMod \in Nat
      /\ random % LoMod \in 0 .. LoMod - 1
      /\ random = (random \div LoMod) * LoMod + (random % LoMod)
  BY <1>2, Split
<1>4. random \div LoMod < HiMod
  <2>1. CASE HiMod < random \div LoMod
    <3>1. HiMod * LoMod + 0 < (random \div LoMod) * LoMod + (random % LoMod)
      BY <1>3, <2>1, HighField
    <3> QED
      BY <1>3, <3>1 DEF RandomSpace
  <2>2. CASE HiMod = random \div LoMod
    BY <1>3, <2>2 DEF RandomSpace
  <2> QED
    BY <1>3, <2>1, <2>2
<1>5. Middle(ms, random) \in Nat
  BY <1>1, <1>3 DEF Middle, Variant
<1>6. Value(ms, random) = Middle(ms, random) * LoMod + (random % LoMod)
  BY DEF Value, Middle, High
<1>7. Value(ms, random) \in Nat
  BY <1>3, <1>5, <1>6
<1> QED
  BY <1>1, <1>3, <1>4, <1>5, <1>6, <1>7

\* Values are ordered as (millisecond, random bits) are.
LEMMA ValueOrder ==
    ASSUME NEW m \in 0 .. TimeMod - 1, NEW x \in 0 .. RandomSpace - 1,
           NEW n \in 0 .. TimeMod - 1, NEW y \in 0 .. RandomSpace - 1,
           m < n \/ (m = n /\ x < y)
    PROVE  Value(m, x) < Value(n, y)
<1> USE FieldAssumption
<1>0. RandomSpace \in Nat /\ x \in Nat /\ y \in Nat
  BY DEF RandomSpace
<1>1. /\ High(m) \in Nat /\ High(n) \in Nat
      /\ x \div LoMod \in 0 .. HiMod - 1 /\ y \div LoMod \in 0 .. HiMod - 1
      /\ x % LoMod \in 0 .. LoMod - 1 /\ y % LoMod \in 0 .. LoMod - 1
      /\ Middle(m, x) \in Nat /\ Middle(n, y) \in Nat
      /\ Value(m, x) = Middle(m, x) * LoMod + (x % LoMod)
      /\ Value(n, y) = Middle(n, y) * LoMod + (y % LoMod)
  BY Fields
<1>2. ASSUME Middle(m, x) < Middle(n, y) PROVE Value(m, x) < Value(n, y)
  BY <1>1, <1>2, HighField
<1>3. ASSUME High(m) * HiMod + (x \div LoMod) < High(n) * HiMod + (y \div LoMod)
      PROVE  Value(m, x) < Value(n, y)
  <2> DEFINE a == High(m) * HiMod + (x \div LoMod)
             b == High(n) * HiMod + (y \div LoMod)
  <2>1. a \in Nat /\ b \in Nat /\ a < b
    BY <1>1, <1>3
  <2>2. Middle(m, x) = a * 4 + Variant /\ Middle(n, y) = b * 4 + Variant
    BY DEF Middle
  <2> HIDE DEF a, b
  <2>3. Middle(m, x) < Middle(n, y)
    BY <2>1, <2>2 DEF Variant
  <2> QED
    BY <1>2, <2>3
<1>4. CASE m < n
  <2>1. High(m) < High(n)
    BY <1>4, Fields DEF Version
  <2>2. High(m) * HiMod + (x \div LoMod) < High(n) * HiMod + (y \div LoMod)
    BY <1>1, <2>1, HighField
  <2> QED
    BY <1>3, <2>2
<1>5. CASE m = n /\ x < y
  <2>1. CASE x \div LoMod < y \div LoMod
    <3>1. High(m) * HiMod + (x \div LoMod) < High(n) * HiMod + (y \div LoMod)
      BY <1>1, <1>5, <2>1
    <3> QED
      BY <1>3, <3>1
  <2>2. CASE x \div LoMod = y \div LoMod /\ x % LoMod < y % LoMod
    <3>1. Middle(m, x) = Middle(n, y)
      BY <1>5, <2>2 DEF Middle
    <3> QED
      BY <1>1, <2>2, <3>1
  <2> QED
    BY <1>0, <1>5, <2>1, <2>2, SplitOrder
<1> QED
  BY <1>4, <1>5

\* Dividing by the weight of a field gives back what is above it.
LEMMA DivUnique ==
    ASSUME NEW m \in Nat \ {0}, NEW q \in Nat, NEW r \in 0 .. m - 1
    PROVE  (q * m + r) \div m = q
<1> DEFINE a == q * m + r
<1>0. a \in Nat /\ a = q * m + r
  OBVIOUS
<1> HIDE DEF a
<1>1. /\ a \div m \in Nat
      /\ a % m \in 0 .. m - 1
      /\ a = (a \div m) * m + (a % m)
  BY <1>0, Split
<1>2. ASSUME a \div m < q PROVE FALSE
  <2>1. (a \div m) * m + (a % m) < q * m + r
    BY <1>1, <1>2, HighField
  <2> QED
    BY <1>0, <1>1, <2>1
<1>3. ASSUME q < a \div m PROVE FALSE
  <2>1. q * m + r < (a \div m) * m + (a % m)
    BY <1>1, <1>3, HighField
  <2> QED
    BY <1>0, <1>1, <2>1
<1>4. a \div m = q
  <2> DEFINE k == a \div m
  <2>1. k \in Nat /\ ~(k < q) /\ ~(q < k)
    BY <1>1, <1>2, <1>3
  <2> HIDE DEF k
  <2>2. k = q
    BY <2>1
  <2> QED
    BY <2>2 DEF k
<1> QED
  BY <1>4 DEF a

\* The version and variant of a value are where is_uuid7 looks for them.
LEMMA VersionAndVariant ==
    ASSUME NEW ms \in 0 .. TimeMod - 1, NEW random \in 0 .. RandomSpace - 1
    PROVE  /\ (Value(ms, random) \div LoMod) % 4 = Variant
           /\ (Value(ms, random) \div (4 * RandomSpace)) % 16 = Version
<1> USE FieldAssumption
<1> DEFINE h == High(ms)
           a == random \div LoMod
           b == random % LoMod
<1>1. /\ h \in Nat /\ h = ms * 16 + Version
      /\ a \in 0 .. HiMod - 1 /\ b \in 0 .. LoMod - 1
      /\ Middle(ms, random) \in Nat
      /\ Middle(ms, random) = (h * HiMod + a) * 4 + Variant
      /\ Value(ms, random) = Middle(ms, random) * LoMod + b
  BY Fields DEF Middle
<1> HIDE DEF h, a, b
<1>2. (Value(ms, random) \div LoMod) % 4 = Variant
  <2>1. Value(ms, random) \div LoMod = Middle(ms, random)
    BY <1>1, DivUnique
  <2>2. h * HiMod + a \in Nat
    BY <1>1
  <2>3. ((h * HiMod + a) * 4 + 2) % 4 = 2
    BY <2>2
  <2> QED
    BY <1>1, <2>1, <2>3 DEF Variant
<1>3. (Value(ms, random) \div (4 * RandomSpace)) % 16 = Version
  <2> DEFINE w    == 4 * (HiMod * LoMod)
             rest == (a * 4 + 2) * LoMod + b
  <2>1. w \in Nat \ {0}
    BY SMT
  <2>2. rest \in 0 .. w - 1
    <3>1. a * 4 + 2 \in Nat /\ HiMod * 4 \in Nat /\ a * 4 + 2 < HiMod * 4
      BY <1>1
    <3>2. (a * 4 + 2) * LoMod + b < (HiMod * 4) * LoMod + 0
      BY <1>1, <3>1, HighField
    <3>3. (HiMod * 4) * LoMod = w
      OBVIOUS
    <3>4. rest \in Nat
      BY <1>1
    <3> QED
      BY <2>1, <3>2, <3>3, <3>4
  <2>3. Value(ms, random) = h * w + rest
    <3>1. Value(ms, random) = ((h * HiMod + a) * 4 + 2) * LoMod + b
      BY <1>1 DEF Variant
    <3>2. (h * HiMod + a) * 4 + 2 = (h * HiMod) * 4 + (a * 4 + 2)
      BY <1>1
    <3>3. ((h * HiMod) * 4 + (a * 4 + 2)) * LoMod
            = (h * HiMod) * 4 * LoMod + (a * 4 + 2) * LoMod
      BY <1>1
    <3>4. (h * HiMod) * 4 * LoMod = h * w
      BY <1>1
    <3> QED
      BY <1>1, <3>1, <3>2, <3>3, <3>4
  <2>4. 4 * RandomSpace = w
    BY DEF RandomSpace
  <2> HIDE DEF w, rest
  <2>5. Value(ms, random) \div w = h
    BY <1>1, <2>1, <2>2, <2>3, DivUnique
  <2>6. h % 16 = 7
    BY <1>1 DEF Version
  <2> QED
    BY <2>4, <2>5, <2>6 DEF Version
<1> QED
  BY <1>2, <1>3

-----------------------------------------------------------------------------
(***************************************************************************)
(* The critical section.                                                   *)
(***************************************************************************)
\* A draw follows the one before it: a later millisecond, or the same one with
\* larger random bits.
LEMMA DrawAdvances ==
    ASSUME TypeOK, NEW c \in Caller, Draw(c)
    PROVE  \E ms \in 0 .. TimeMod - 1, random \in 0 .. RandomSpace - 1 :
              /\ Take(c, ms, random)
              /\ lastMs < ms \/ (lastMs = ms /\ lastRandom < random)
<1> USE FieldAssumption
<1>0. /\ RandomSpace \in Nat \ {0}
      /\ lastRandom \in 0 .. RandomSpace - 1
      /\ wall \in 0 .. TimeMod - 1
      /\ lastMs \in -1 .. TimeMod - 1
  BY DEF RandomSpace, TypeOK
<1>1. CASE /\ wall > lastMs
           /\ \E random \in 0 .. RandomSpace - 1 : Take(c, wall, random)
  BY <1>0, <1>1
<1>2. CASE wall <= lastMs /\ Take(c, NextMs, NextRandom)
  <2>1. NextMs < TimeMod
    BY <1>2 DEF Take
  <2>2. CASE lastRandom + 1 = RandomSpace
    <3>1. NextRandom = 0
      BY <1>0, <2>2 DEF NextRandom
    <3>2. NextMs = lastMs + 1
      BY <3>1 DEF NextMs
    <3>3. NextMs \in 0 .. TimeMod - 1 /\ lastMs < NextMs
          /\ NextRandom \in 0 .. RandomSpace - 1
      BY <1>0, <2>1, <3>1, <3>2
    <3> QED
      BY <1>2, <3>3
  <2>3. CASE lastRandom + 1 < RandomSpace
    <3>1. NextRandom = lastRandom + 1
      BY <1>0, <2>3 DEF NextRandom
    <3>2. NextMs = lastMs
      BY <1>0, <3>1 DEF NextMs
    <3>3. NextMs \in 0 .. TimeMod - 1 /\ lastMs = NextMs
          /\ NextRandom \in 0 .. RandomSpace - 1 /\ lastRandom < NextRandom
      BY <1>0, <1>2, <2>3, <3>1, <3>2
    <3> QED
      BY <1>2, <3>3
  <2> QED
    BY <1>0, <2>2, <2>3
<1> QED
  BY <1>1, <1>2 DEF Draw

Inv == TypeOK /\ DrawnInv /\ MonotonicCalls /\ NeverReissued

\* A draw keeps the invariant: its value is larger than all drawn before.
LEMMA DrawStep ==
    ASSUME Inv, NEW c \in Caller, Draw(c)
    PROVE  Inv'
<1> USE DEF Inv
<1>1. PICK ms \in 0 .. TimeMod - 1, random \in 0 .. RandomSpace - 1 :
         /\ Take(c, ms, random)
         /\ lastMs < ms \/ (lastMs = ms /\ lastRandom < random)
  BY DrawAdvances
<1>2. /\ calls[c] \in CallType
      /\ lastMs \in -1 .. TimeMod - 1
      /\ lastRandom \in 0 .. RandomSpace - 1
  BY DEF TypeOK
<1>3. calls'[c] = [calls[c] EXCEPT !.pc = "drawn", !.ms = ms, !.random = random]
      /\ \A d \in Caller \ {c} : calls'[d] = calls[d]
  BY <1>1 DEF Take, TypeOK
<1>4. /\ calls'[c] \in CallType
      /\ calls'[c].pc = "drawn" /\ calls'[c].ms = ms /\ calls'[c].random = random
      /\ calls'[c].before = calls[c].before
  BY <1>2, <1>3 DEF CallType
<1>5. lastMs' = ms /\ lastRandom' = random /\ UNCHANGED <<wall, issued>>
  BY <1>1 DEF Take
<1>6. TypeOK'
  BY <1>1, <1>3, <1>4, <1>5 DEF TypeOK, Take
<1>7. lastMs # -1 => Value(lastMs, lastRandom) < Value(ms, random)
  BY <1>1, <1>2, ValueOrder
<1>8. Value(ms, random) \in Nat
  BY Fields
<1>9. lastMs # -1 => Value(lastMs, lastRandom) \in Nat
  BY <1>2, Fields
<1>10. \A d \in Caller : Drawn(d) => ValueOf(d) \in Nat
  <2> SUFFICES ASSUME NEW d \in Caller PROVE ValueOf(d) \in Nat
    OBVIOUS
  <2>1. calls[d].ms \in 0 .. TimeMod - 1 /\ calls[d].random \in 0 .. RandomSpace - 1
    BY DEF TypeOK, CallType
  <2> QED
    BY <2>1, Fields DEF ValueOf
<1>11. issued \subseteq Nat
  BY DEF TypeOK
<1>12. /\ \A v \in issued : v < Value(ms, random)
       /\ \A d \in Caller : Drawn(d) => ValueOf(d) < Value(ms, random)
  BY <1>7, <1>8, <1>9, <1>10, <1>11 DEF DrawnInv
<1>13. ValueOf(c)' = Value(ms, random) /\ Drawn(c)'
  BY <1>4 DEF ValueOf, Drawn
<1>15. Value(lastMs, lastRandom)' = Value(ms, random)
  BY <1>5
<1>16. /\ \A v \in issued : v <= Value(ms, random)
       /\ \A d \in Caller : Drawn(d) => ValueOf(d) <= Value(ms, random)
       /\ Value(ms, random) <= Value(ms, random)
  BY <1>8, <1>10, <1>11, <1>12
<1>17. lastMs' # -1
  BY <1>5
<1>18. DrawnInv'
  <2>1. \A v \in issued' : v <= Value(lastMs, lastRandom)'
    BY <1>5, <1>15, <1>16
  <2>2. ASSUME NEW d \in Caller, Drawn(d)'
        PROVE  ValueOf(d)' <= Value(lastMs, lastRandom)'
    <3>1. CASE d = c
      BY <1>13, <1>15, <1>16, <3>1
    <3>2. CASE d # c
      BY <1>3, <1>15, <1>16, <2>2, <3>2 DEF Drawn, ValueOf
    <3> QED
      BY <3>1, <3>2
  <2>3. \A d \in Caller : calls'[d].before \subseteq issued'
    BY <1>4, <1>5, <1>3 DEF DrawnInv, Drawn, ValueOf
  <2> QED
    BY <1>17, <2>1, <2>2, <2>3 DEF DrawnInv
<1>19. MonotonicCalls'
  <2> SUFFICES ASSUME NEW d \in Caller, Drawn(d)',
                      NEW v \in calls'[d].before
               PROVE  v < ValueOf(d)'
    BY DEF MonotonicCalls
  <2>1. CASE d = c
    <3>1. v \in issued
      BY <1>4, <2>1 DEF DrawnInv
    <3> QED
      BY <1>12, <1>13, <2>1, <3>1
  <2>2. CASE d # c
    BY <1>3, <2>2 DEF MonotonicCalls, Drawn, ValueOf
  <2> QED
    BY <2>1, <2>2
<1>20. NeverReissued'
  <2>1. ASSUME NEW d \in Caller, Drawn(d)' PROVE ValueOf(d)' \notin issued'
    <3>1. CASE d = c
      BY <1>5, <1>8, <1>11, <1>12, <1>13, <3>1
    <3>2. CASE d # c
      BY <1>5, <1>3, <2>1, <3>2 DEF NeverReissued, Drawn, ValueOf
    <3> QED
      BY <3>1, <3>2
  <2>2. ASSUME NEW d \in Caller, NEW e \in Caller \ {d}, Drawn(d)', Drawn(e)'
        PROVE  ValueOf(d)' # ValueOf(e)'
    <3>0. ASSUME NEW z \in Caller \ {c}, Drawn(z)'
          PROVE  ValueOf(z)' # Value(ms, random)
      <4>1. Drawn(z) /\ ValueOf(z)' = ValueOf(z)
        BY <1>3, <3>0 DEF Drawn, ValueOf
      <4>2. ValueOf(z) < Value(ms, random) /\ ValueOf(z) \in Nat
        BY <1>10, <1>12, <4>1
      <4> QED
        BY <1>8, <4>1, <4>2
    <3>1. CASE d = c
      BY <1>13, <2>2, <3>0, <3>1
    <3>2. CASE e = c
      BY <1>13, <2>2, <3>0, <3>2
    <3>3. CASE d # c /\ e # c
      BY <1>3, <2>2, <3>3 DEF NeverReissued, Drawn, ValueOf
    <3> QED
      BY <3>1, <3>2, <3>3
  <2> QED
    BY <2>1, <2>2 DEF NeverReissued
<1> QED
  BY <1>6, <1>18, <1>19, <1>20

-----------------------------------------------------------------------------
(***************************************************************************)
(* The other steps and the theorems.                                       *)
(***************************************************************************)
\* Entering uuid7 keeps the invariant.
LEMMA CallStep ==
    ASSUME Inv, NEW c \in Caller, Call(c)
    PROVE  Inv'
<1> USE DEF Inv
<1>0. Ready \in CallType
  BY FieldAssumption DEF Ready, CallType, RandomSpace
<1>1. /\ calls' = [calls EXCEPT ![c] = [Ready EXCEPT !.pc = "called",
                                                     !.before = issued]]
      /\ UNCHANGED <<wall, lastMs, lastRandom, issued>>
  BY DEF Call
<1>2. /\ calls'[c] \in CallType /\ calls'[c].pc = "called"
      /\ calls'[c].before = issued
      /\ \A d \in Caller \ {c} : calls'[d] = calls[d]
  BY <1>0, <1>1 DEF TypeOK, CallType
<1>3. TypeOK'
  BY <1>0, <1>1, <1>2 DEF TypeOK
<1>4. \A d \in Caller : Drawn(d)' => d # c /\ Drawn(d) /\ ValueOf(d)' = ValueOf(d)
                                    /\ calls'[d].before = calls[d].before
  BY <1>2 DEF Drawn, ValueOf
<1>5. DrawnInv' /\ MonotonicCalls' /\ NeverReissued'
  BY <1>1, <1>2, <1>4 DEF DrawnInv, MonotonicCalls, NeverReissued
<1> QED
  BY <1>3, <1>5

\* Returning keeps it: a returned value had been drawn.
LEMMA ReturnStep ==
    ASSUME Inv, NEW c \in Caller, Return(c)
    PROVE  Inv'
<1> USE DEF Inv
<1>0. Ready \in CallType
  BY FieldAssumption DEF Ready, CallType, RandomSpace
<1>1. /\ issued' = issued \cup {ValueOf(c)} /\ Drawn(c)
      /\ calls' = [calls EXCEPT ![c] = Ready]
      /\ UNCHANGED <<wall, lastMs, lastRandom>>
  BY DEF Return, ValueOf, Drawn
<1>2. /\ calls'[c] = Ready /\ calls'[c].pc = "idle" /\ calls'[c].before = {}
      /\ \A d \in Caller \ {c} : calls'[d] = calls[d]
  BY <1>1 DEF TypeOK, Ready
<1>3. calls[c].ms \in 0 .. TimeMod - 1 /\ calls[c].random \in 0 .. RandomSpace - 1
  BY DEF TypeOK, CallType
<1>4. ValueOf(c) \in Nat
  BY <1>3, Fields DEF ValueOf
<1>5. TypeOK'
  BY <1>0, <1>1, <1>4 DEF TypeOK
<1>6. \A d \in Caller : Drawn(d)' => d # c /\ Drawn(d) /\ ValueOf(d)' = ValueOf(d)
                                    /\ calls'[d].before = calls[d].before
  BY <1>2 DEF Drawn, ValueOf
<1>7. DrawnInv'
  BY <1>1, <1>2, <1>6 DEF DrawnInv
<1>8. MonotonicCalls' /\ NeverReissued'
  BY <1>1, <1>6 DEF MonotonicCalls, NeverReissued
<1> QED
  BY <1>5, <1>7, <1>8

\* The clock, and a stuttering step, keep it.
LEMMA OtherStep ==
    ASSUME Inv, SetClock \/ UNCHANGED vars
    PROVE  Inv'
<1>1. wall' \in 0 .. TimeMod - 1 /\ UNCHANGED <<lastMs, lastRandom, calls, issued>>
  BY DEF Inv, TypeOK, SetClock, vars
<1> QED
  BY <1>1 DEF Inv, TypeOK, DrawnInv, MonotonicCalls, NeverReissued, Drawn, ValueOf

\* The inductive invariant holds in every behaviour: the globals dominate all
\* that was drawn, which the two properties alone do not say.
THEOREM InvariantTheorem == Spec => []Inv
<1>1. Init => Inv
  <2> SUFFICES ASSUME Init PROVE Inv
    OBVIOUS
  <2>1. Ready \in CallType /\ Ready.pc = "idle" /\ Ready.before = {}
    BY FieldAssumption DEF Ready, CallType, RandomSpace
  <2>2. \A c \in Caller : ~Drawn(c) /\ calls[c].before = {}
    BY <2>1 DEF Init, Drawn
  <2>3. TypeOK
    BY <2>1, FieldAssumption DEF Init, TypeOK, RandomSpace
  <2> QED
    BY <2>2, <2>3 DEF Init, Inv, DrawnInv, MonotonicCalls, NeverReissued
<1>2. Inv /\ [Next]_vars => Inv'
  BY DrawStep, CallStep, ReturnStep, OtherStep DEF Next
<1> QED
  BY <1>1, <1>2, PTL DEF Spec

\* uuid7's docstring: values of one process increase, also within one
\* millisecond and after the clock was set back.
THEOREM MonotonicTheorem == Spec => []MonotonicCalls
<1>1. Inv => MonotonicCalls
  BY DEF Inv
<1> QED
  BY <1>1, InvariantTheorem, PTL

\* uuid7 never returns a value twice in one process.
THEOREM UniqueTheorem == Spec => []NeverReissued
<1>1. Inv => NeverReissued
  BY DEF Inv
<1> QED
  BY <1>1, InvariantTheorem, PTL

\* is_uuid7 accepts every value uuid7 returns.
THEOREM CanonicalTheorem == Spec => []Canonical
<1>1. Init => Canonical
  BY DEF Init, Canonical
<1>2. Inv /\ Canonical /\ [Next]_vars => Canonical'
  <2> SUFFICES ASSUME Inv, Canonical, [Next]_vars PROVE Canonical'
    OBVIOUS
  <2>1. ASSUME NEW c \in Caller, Return(c) PROVE Canonical'
    <3>1. /\ calls[c].ms \in 0 .. TimeMod - 1
          /\ calls[c].random \in 0 .. RandomSpace - 1
      BY DEF Inv, TypeOK, CallType
    <3>2. issued' = issued \cup {Value(calls[c].ms, calls[c].random)}
      BY <2>1 DEF Return
    <3> QED
      BY <3>1, <3>2, VersionAndVariant DEF Canonical
  <2>2. CASE UNCHANGED issued
    BY <2>2 DEF Canonical
  <2> QED
    BY <2>1, <2>2 DEF Next, Call, Draw, Take, SetClock, vars
<1> QED
  BY <1>1, <1>2, InvariantTheorem, PTL DEF Spec
=============================================================================
