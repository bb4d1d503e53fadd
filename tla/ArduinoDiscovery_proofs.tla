----------------------- MODULE ArduinoDiscovery_proofs -----------------------
(***************************************************************************)
(* Proofs about ArduinoDiscovery, for any intervals and any range of the   *)
(* clock that exceeds them: that a device which is left alone comes to     *)
(* know whether there is a receiver, and that telemetry keeps its pace.    *)
(*                                                                         *)
(* Both compare what the clock shows with the time that has really passed: *)
(* the clock never shows more (TelemetryAge), and while loop() runs in     *)
(* every tick it does not get round to the old stamp again (QueryDue).     *)
(***************************************************************************)
EXTENDS ArduinoDiscovery, WellFoundedInduction, TLAPS

USE DiscoveryAssumption DEF DiscoveryAssumption

\* The parts of TypeOK.
Flags ==
    /\ initialized \in BOOLEAN /\ listenerActive \in BOOLEAN
    /\ telemetry \in BOOLEAN /\ looped \in BOOLEAN /\ receiverUp \in BOOLEAN
    /\ forced \in BOOLEAN

Stamps ==
    /\ lastDiscovery \in Time /\ lastTelemetry \in Time /\ now \in Time
    /\ asked \in {None} \cup Time
    /\ interval \in {InitialInterval} \cup MinInterval .. MaxInterval

Ages ==
    /\ sinceQuery \in Age /\ sinceTelemetry \in Age
    /\ failures \in 0 .. AgeCap /\ steadyFor \in 0 .. AgeCap
    /\ faults \in 0 .. MaxFaults

Types == Flags /\ Stamps /\ Ages

\* A query is of this tick, or of the last one and no loop() ran since.
QueryAge == ~Free => asked = now \/ (~looped /\ Elapsed(now, asked) = 1)

\* While the clock has not moved on the query has just begun.
Blocking == ~Free /\ asked = now => sinceQuery = 0

\* By the clock the telemetry is no older than it really is, but for a tick.
TelemetryAge ==
    \/ sinceTelemetry = Never \/ sinceTelemetry = AgeCap
    \/ /\ Elapsed(now, lastTelemetry) <= sinceTelemetry + 1
       /\ ~Free => Elapsed(asked, lastTelemetry) <= sinceTelemetry + 1

\* Where loop() ran in this tick and in the last one, no query is due.
QueryDue ==
    initialized /\ Free /\ looped /\ steadyFor > 0
        => Elapsed(now, lastDiscovery) < MaxInterval

\* Who does not know of the receiver asked it before the calm began.
Knows ==
    initialized /\ Free =>
        listenerActive = receiverUp \/ steadyFor <= Elapsed(now, lastDiscovery) + 1

\* By the clock the last query is no older than it really is.
QueryClock ==
    \/ sinceQuery \in {Never, AgeCap} \/ forced
    \/ Elapsed(now, IF Free THEN lastDiscovery ELSE asked) <= sinceQuery

\* The interval has doubled as often as queries failed since the first one.
Doubling == failures > 0 => interval >= Least(Abstract!Doubled[failures - 1], MaxInterval)

IInv ==
    /\ Types /\ QueryAge /\ Blocking /\ TelemetryAge
    /\ QueryDue /\ Knows /\ QueryClock /\ Doubling

\* The parts make up the type invariant.
LEMMA TypeParts ==
  ASSUME Types
  PROVE  TypeOK
  BY DEF Types, TypeOK, Flags, Stamps, Ages

-----------------------------------------------------------------------------
(***************************************************************************)
(* The clock.                                                              *)
(***************************************************************************)

\* Unsigned subtraction of two times.
LEMMA ElapsedIs ==
  ASSUME NEW m \in Time, NEW n \in Time
  PROVE  Elapsed(m, n) = IF m >= n THEN m - n ELSE m - n + Wrap
  BY DEF Elapsed, Time

\* A tick makes the clock show one more, unless it comes round.
LEMMA TickElapsed ==
  ASSUME Stamps, Tick, NEW n \in Time
  PROVE  /\ now' \in Time
         /\ Elapsed(now, n) \in Nat /\ Elapsed(now', n) \in Nat
         /\ Elapsed(now', n) = IF Elapsed(now, n) = Wrap - 1 THEN 0 ELSE Elapsed(now, n) + 1
<1>1. now' = IF now + 1 < Wrap THEN now + 1 ELSE 0
  BY DEF Tick, Stamps, Time
<1>2. now' \in Time /\ now \in Time
  BY <1>1 DEF Stamps, Time
<1>3. Elapsed(now, n) = IF now >= n THEN now - n ELSE now - n + Wrap
  BY <1>2, ElapsedIs
<1>4. Elapsed(now', n) = IF now' >= n THEN now' - n ELSE now' - n + Wrap
  BY <1>2, ElapsedIs
<1>5. CASE now + 1 < Wrap
  BY <1>1, <1>2, <1>3, <1>4, <1>5 DEF Time
<1>6. CASE ~(now + 1 < Wrap)
  BY <1>1, <1>2, <1>3, <1>4, <1>6 DEF Time
<1> QED
  BY <1>5, <1>6

-----------------------------------------------------------------------------
(***************************************************************************)
(* The interval that doubles.  Nothing is known of a recursive function    *)
(* until there is one: it is pieced together from those that double up to  *)
(* some n, by induction.                                                   *)
(***************************************************************************)

\* The smaller of two numbers comes first.
Less == {p \in Nat \X Nat : p[1] < p[2]}

\* Induction over the numbers, for sets: what holds 0 and every next number holds all.
LEMMA Induction ==
  ASSUME NEW S, 0 \in S, \A n \in Nat : n \in S => n + 1 \in S
  PROVE  Nat \subseteq S
<1>1. IsWellFoundedOn(Less, Nat)
  BY NatLessThanWellFounded, Zenon DEF OpToRel, Less
<1> SUFFICES ASSUME Nat \ S # {} PROVE FALSE
  OBVIOUS
<1>2. PICK n \in Nat \ S : \A m \in Nat \ S : <<m, n>> \notin Less
  BY <1>1, WFMin
<1>3. n - 1 \in Nat /\ n - 1 \notin S
  OBVIOUS
<1>4. <<n - 1, n>> \in Less
  BY <1>3 DEF Less
<1> QED
  BY <1>2, <1>3, <1>4

\* g doubles the interval n times.
Doubles(g, n) == g[0] = MinInterval /\ \A i \in 1 .. n : g[i] = 2 * g[i - 1]

\* There is one way to do so ...
LEMMA DoublesOnce ==
  ASSUME NEW n \in Nat, NEW g, NEW h, Doubles(g, n), Doubles(h, n)
  PROVE  g[n] = h[n]
<1> DEFINE S == {k \in Nat : k <= n => g[k] = h[k]}
<1>1. 0 \in S
  BY DEF Doubles
<1>2. ASSUME NEW k \in Nat, k \in S PROVE k + 1 \in S
  <2> SUFFICES ASSUME k + 1 <= n PROVE g[k + 1] = h[k + 1]
    OBVIOUS
  <2>1. k + 1 \in 1 .. n /\ (k + 1) - 1 = k /\ g[k] = h[k]
    BY <1>2
  <2>2. g[k + 1] = 2 * g[k] /\ h[k + 1] = 2 * h[k]
    BY <2>1 DEF Doubles
  <2> QED
    BY <2>1, <2>2
<1> HIDE DEF S
<1>3. Nat \subseteq S
  BY <1>1, <1>2, Induction
<1> QED
  BY <1>3 DEF S

\* ... and it can be done.
LEMMA CanDouble ==
  ASSUME NEW n \in Nat
  PROVE  \E g : Doubles(g, n)
<1> DEFINE S == {k \in Nat : \E g : Doubles(g, k)}
<1>1. 0 \in S
  <2>1. Doubles([i \in {0} |-> MinInterval], 0)
    BY DEF Doubles
  <2> QED
    BY <2>1
<1>2. ASSUME NEW k \in Nat, k \in S PROVE k + 1 \in S
  <2>1. PICK g : Doubles(g, k)
    BY <1>2
  <2> DEFINE h == [i \in 0 .. k + 1 |-> IF i = k + 1 THEN 2 * g[k] ELSE g[i]]
  <2>2. h[0] = MinInterval
    BY <2>1 DEF Doubles
  <2>3. ASSUME NEW i \in 1 .. k + 1 PROVE h[i] = 2 * h[i - 1]
    <3>1. i \in 0 .. k + 1 /\ i - 1 \in 0 .. k + 1 /\ i - 1 # k + 1
      OBVIOUS
    <3>2. h[i - 1] = g[i - 1]
      BY <3>1
    <3>3. CASE i = k + 1
      BY <3>1, <3>2, <3>3
    <3>4. CASE i # k + 1
      <4>1. i \in 1 .. k /\ h[i] = g[i]
        BY <3>1, <3>4
      <4> QED
        BY <2>1, <3>2, <4>1 DEF Doubles
    <3> QED
      BY <3>3, <3>4
  <2> HIDE DEF h
  <2>4. Doubles(h, k + 1)
    BY <2>2, <2>3 DEF Doubles
  <2> QED
    BY <2>4
<1> HIDE DEF S
<1>3. Nat \subseteq S
  BY <1>1, <1>2, Induction
<1> QED
  BY <1>3 DEF S

\* So the recursion of Doubled defines it,
LEMMA DoubledIs ==
  Abstract!Doubled = [n \in Nat |-> IF n = 0 THEN MinInterval ELSE 2 * Abstract!Doubled[n - 1]]
<1> DEFINE G(n) == CHOOSE g : Doubles(g, n)
           f == [n \in Nat |-> G(n)[n]]
<1>1. ASSUME NEW n \in Nat PROVE Doubles(G(n), n)
  BY CanDouble
<1> HIDE DEF G
<1>2. ASSUME NEW n \in Nat PROVE f[n] = IF n = 0 THEN MinInterval ELSE 2 * f[n - 1]
  <2>1. CASE n = 0
    BY <1>1, <2>1 DEF Doubles
  <2>2. CASE n # 0
    <3>1. n - 1 \in Nat /\ n \in 1 .. n /\ 1 .. n - 1 \subseteq 1 .. n
      BY <2>2
    <3>2. Doubles(G(n), n - 1) /\ Doubles(G(n - 1), n - 1)
      BY <1>1, <3>1 DEF Doubles
    <3>3. G(n)[n - 1] = G(n - 1)[n - 1]
      BY <3>1, <3>2, DoublesOnce
    <3>4. G(n)[n] = 2 * G(n)[n - 1]
      BY <1>1, <3>1 DEF Doubles
    <3> QED
      BY <2>2, <3>1, <3>3, <3>4
  <2> QED
    BY <2>1, <2>2
<1>3. f = [n \in Nat |-> IF n = 0 THEN MinInterval ELSE 2 * f[n - 1]]
  <2>1. f = [n \in Nat |-> f[n]]
    OBVIOUS
  <2> HIDE DEF f
  <2> QED
    BY <1>2, <2>1, Zenon
<1> HIDE DEF f
<1>4. \E g : g = [n \in Nat |-> IF n = 0 THEN MinInterval ELSE 2 * g[n - 1]]
  BY <1>3
<1> QED
  BY <1>4, Zenon DEF Abstract!Doubled

\* and these are its values.
LEMMA DoubledFacts ==
  /\ Abstract!Doubled[0] = MinInterval
  /\ \A n \in Nat :
         Abstract!Doubled[n] \in Nat /\ Abstract!Doubled[n + 1] = 2 * Abstract!Doubled[n]
<1>1. Abstract!Doubled[0] = MinInterval
  BY DoubledIs
<1>2. ASSUME NEW n \in Nat PROVE Abstract!Doubled[n + 1] = 2 * Abstract!Doubled[n]
  <2>1. n + 1 \in Nat /\ n + 1 # 0 /\ (n + 1) - 1 = n
    OBVIOUS
  <2> QED
    BY <2>1, DoubledIs
<1> DEFINE S == {n \in Nat : Abstract!Doubled[n] \in Nat}
<1>3. 0 \in S /\ \A n \in Nat : n \in S => n + 1 \in S
  BY <1>1, <1>2
<1> HIDE DEF S
<1>4. Nat \subseteq S
  BY <1>3, Induction
<1> QED
  BY <1>1, <1>2, <1>4 DEF S
-----------------------------------------------------------------------------
(***************************************************************************)
(* Kinds of steps.                                                         *)
(***************************************************************************)

\* The steps of the sketch but for loop(), and the turns of the receiver.
Around ==
    \/ Begin \/ EndLog \/ ForceDiscovery \/ Turn
    \/ \E on \in BOOLEAN : EnableSystemTelemetry(on)

\* The query returns.
Returns == \E found \in BOOLEAN : ~Free /\ Discovered(found)

\* Every step is of one of these kinds.
LEMMA Kinds ==
  ASSUME Flags, [Next]_vars
  PROVE  Around \/ LoopQuiet \/ LoopQuery \/ Answered \/ AnswerLost \/ Tick \/ UNCHANGED vars
  BY DEF Next, Sketch, Around

\* What the steps around loop() leave alone.
LEMMA AroundFacts ==
  ASSUME Around
  PROVE  /\ UNCHANGED <<asked, now, looped, lastTelemetry, sinceQuery, sinceTelemetry>>
         /\ ~UNCHANGED <<lastDiscovery, interval>> =>
                lastDiscovery' = 0 /\ interval' = InitialInterval /\ steadyFor' = 0
         /\ listenerActive' = listenerActive \/ ~initialized'
         /\ receiverUp' = receiverUp \/ steadyFor' = 0
         /\ initialized' = initialized \/ ~initialized' \/ steadyFor' = 0
         /\ steadyFor' = steadyFor \/ steadyFor' = 0
  BY DEF Around, Begin, EndLog, ForceDiscovery, Turn, EnableSystemTelemetry, world, members,
         history, Fault

\* What a step of the device leaves alone that the other parts are about.
LEMMA LoopFacts ==
  ASSUME LoopQuiet \/ LoopQuery \/ Returns
  PROVE  UNCHANGED <<now, initialized, telemetry, receiverUp>>
  BY DEF LoopQuiet, LoopQuery, Returns, Discovered, members

\* A query that returns does so with an answer, or lost one.
LEMMA ReturnFacts ==
  ASSUME Flags, Answered \/ AnswerLost
  PROVE  /\ Returns
         /\ (listenerActive' = receiverUp /\ UNCHANGED <<faults, steadyFor>>)
            \/ (Fault /\ steadyFor' = 0)
  BY DEF Answered, AnswerLost, Returns, Discovered, Flags, Fault

\* The telemetry a loop() sends.
LEMMA TelemetryFacts ==
  ASSUME NEW active, NEW at, SendTelemetry(active, at)
  PROVE  \/ UNCHANGED <<lastTelemetry, sinceTelemetry>>
         \/ /\ Elapsed(at, lastTelemetry) >= TelemetryInterval
            /\ lastTelemetry' = at /\ sinceTelemetry' = 0
  BY DEF SendTelemetry

-----------------------------------------------------------------------------
(***************************************************************************)
(* The parts of the invariant.                                             *)
(***************************************************************************)

LEMMA FlagsStep ==
  ASSUME Flags, [Next]_vars
  PROVE  Flags'
<1> USE DEF Flags
<1>1. ASSUME Around PROVE Flags'
  BY <1>1 DEF Around, Begin, EndLog, ForceDiscovery, Turn, EnableSystemTelemetry, world,
              members, history
<1>2. ASSUME LoopQuiet \/ LoopQuery PROVE Flags'
  BY <1>2 DEF LoopQuiet, LoopQuery, members
<1>3. ASSUME Answered \/ AnswerLost PROVE Flags'
  BY <1>3, ReturnFacts DEF Returns, Discovered
<1>4. ASSUME Tick \/ UNCHANGED vars PROVE Flags'
  BY <1>4 DEF Tick, vars, members, world, history
<1> QED
  BY <1>1, <1>2, <1>3, <1>4, Kinds

\* The interval a query leaves is within its bounds.
LEMMA NextIntervalIs ==
  ASSUME Stamps, NEW found \in BOOLEAN
  PROVE  NextInterval(found) \in MinInterval .. MaxInterval
<1>1. interval \in Nat
  BY DEF Stamps, InitialInterval
<1> QED
  BY <1>1 DEF NextInterval, Least

LEMMA StampsStep ==
  ASSUME Flags, Stamps, [Next]_vars
  PROVE  Stamps'
<1> USE DEF Time
<1>1. ASSUME Around PROVE Stamps'
  BY <1>1, AroundFacts DEF Stamps
<1>2. ASSUME LoopQuiet PROVE Stamps'
  BY <1>2, TelemetryFacts DEF LoopQuiet, Stamps
<1>3. ASSUME LoopQuery PROVE Stamps'
  BY <1>3 DEF LoopQuery, members, Stamps
<1>4. ASSUME Answered \/ AnswerLost PROVE Stamps'
  <2>1. PICK found \in BOOLEAN : ~Free /\ Discovered(found)
    BY <1>4, ReturnFacts DEF Returns
  <2>2. interval' \in MinInterval .. MaxInterval
    BY <2>1, NextIntervalIs DEF Discovered
  <2>3. asked \in Time /\ SendTelemetry(found, asked)
    BY <2>1 DEF Free, Discovered, Stamps
  <2> QED
    BY <2>1, <2>2, <2>3, TelemetryFacts DEF Discovered, Stamps
<1>5. ASSUME Tick PROVE Stamps'
  <2>1. now' \in Time
    BY <1>5, TickElapsed DEF Stamps
  <2> QED
    BY <1>5, <2>1 DEF Tick, members, Stamps
<1>6. ASSUME UNCHANGED vars PROVE Stamps'
  BY <1>6 DEF vars, members, world, Stamps
<1> QED
  BY <1>1, <1>2, <1>3, <1>4, <1>5, <1>6, Kinds

\* An age stays one when it grows.
LEMMA OlderIs ==
  ASSUME NEW age \in Age
  PROVE  /\ Older(age) \in Age
         /\ age = Never => Older(age) = Never
         /\ age # Never => age \in Nat /\ (Older(age) = age + 1 \/ Older(age) = AgeCap)
  BY DEF Older, Age, Never, Least

LEMMA AgesStep ==
  ASSUME Flags, Ages, [Next]_vars
  PROVE  Ages'
<1>1. faults' \in 0 .. MaxFaults
  <2>1. faults' = faults \/ Fault
    BY DEF Next, Sketch, Begin, EndLog, ForceDiscovery, EnableSystemTelemetry, LoopQuiet,
           LoopQuery, Answered, AnswerLost, Turn, Tick, vars, world
  <2> QED
    BY <2>1 DEF Fault, Ages
<1>2. failures' \in 0 .. AgeCap
  <2>1. failures' = failures \/ failures' = 0 \/ failures' = Least(failures + 1, AgeCap)
    BY DEF Next, Sketch, Begin, EndLog, ForceDiscovery, EnableSystemTelemetry, LoopQuiet,
           LoopQuery, Answered, AnswerLost, Turn, Tick, Discovered, vars, history
  <2> QED
    BY <2>1 DEF Least, Ages
<1>3. steadyFor' \in 0 .. AgeCap
  <2>1. steadyFor' = steadyFor \/ steadyFor' = 0 \/ steadyFor' = Older(steadyFor)
    BY DEF Next, Sketch, Begin, EndLog, ForceDiscovery, EnableSystemTelemetry, LoopQuiet,
           LoopQuery, Answered, AnswerLost, Turn, Fault, Tick, vars, history
  <2> QED
    BY <2>1 DEF Older, Never, Least, Ages
<1>4. sinceQuery' \in Age
  <2>1. sinceQuery' = sinceQuery \/ sinceQuery' = 0 \/ sinceQuery' = Older(sinceQuery)
    BY DEF Next, Sketch, Begin, EndLog, ForceDiscovery, EnableSystemTelemetry, LoopQuiet,
           LoopQuery, Answered, AnswerLost, Turn, Tick, Discovered, vars, history
  <2> QED
    BY <2>1, OlderIs DEF Ages, Age
<1>5. sinceTelemetry' \in Age
  <2>1. sinceTelemetry' = sinceTelemetry \/ sinceTelemetry' = 0
        \/ sinceTelemetry' = Older(sinceTelemetry)
    BY DEF Next, Sketch, Begin, EndLog, ForceDiscovery, EnableSystemTelemetry, LoopQuiet,
           LoopQuery, Answered, AnswerLost, Turn, Tick, Discovered, SendTelemetry, vars,
           history
  <2> QED
    BY <2>1, OlderIs DEF Ages, Age
<1> QED
  BY <1>1, <1>2, <1>3, <1>4, <1>5 DEF Ages

\* The clock moves on once at most while a query runs.
LEMMA QueryAgeStep ==
  ASSUME Flags, Stamps, QueryAge, [Next]_vars
  PROVE  QueryAge'
<1> USE DEF QueryAge, Free
<1>1. ASSUME Around PROVE QueryAge'
  BY <1>1, AroundFacts DEF Elapsed
<1>2. ASSUME LoopQuiet \/ LoopQuery PROVE QueryAge'
  BY <1>2 DEF LoopQuiet, LoopQuery
<1>3. ASSUME Answered \/ AnswerLost PROVE QueryAge'
  BY <1>3, ReturnFacts DEF Returns, Discovered
<1>4. ASSUME Tick PROVE QueryAge'
  <2> SUFFICES ASSUME ~Free PROVE QueryAge'
    BY <1>4 DEF Tick
  <2>1. asked = now /\ asked' = asked /\ ~looped'
    BY <1>4 DEF Tick
  <2>2. now \in Time /\ Elapsed(now, now) = 0
    BY ElapsedIs DEF Stamps, Time
  <2>3. Elapsed(now', now) = 1
    BY <1>4, <2>2, TickElapsed DEF Time
  <2> QED
    BY <2>1, <2>3 DEF Elapsed
<1>5. ASSUME UNCHANGED vars PROVE QueryAge'
  BY <1>5 DEF vars, world, Elapsed
<1> QED
  BY <1>1, <1>2, <1>3, <1>4, <1>5, Kinds

\* The clock that moves on does not come back to where it was.
LEMMA BlockingStep ==
  ASSUME Types, Blocking, [Next]_vars
  PROVE  Blocking'
<1>1. ASSUME Around PROVE Blocking'
  BY <1>1, AroundFacts DEF Blocking, Free
<1>2. ASSUME LoopQuiet PROVE Blocking'
  BY <1>2 DEF LoopQuiet, Blocking, Free
<1>3. ASSUME LoopQuery PROVE Blocking'
  BY <1>3 DEF LoopQuery, Blocking
<1>4. ASSUME Answered \/ AnswerLost PROVE Blocking'
  BY <1>4, ReturnFacts DEF Returns, Discovered, Blocking, Free, Types
<1>5. ASSUME Tick, ~Free PROVE Blocking'
  <2>1. asked = now /\ asked' = asked /\ now \in Time
    BY <1>5 DEF Tick, Types, Stamps
  <2>2. Elapsed(now, now) = 0 /\ Wrap - 1 # 0
    BY <2>1, ElapsedIs DEF Time
  <2>3. Elapsed(now', now) = 1
    BY <1>5, <2>1, <2>2, TickElapsed DEF Types
  <2>4. now' # asked'
    BY <2>1, <2>2, <2>3
  <2> QED
    BY <2>4 DEF Blocking
<1>6. ASSUME Tick \/ UNCHANGED vars, Free PROVE Blocking'
  BY <1>6 DEF Tick, vars, world, Free, Blocking
<1>7. ASSUME UNCHANGED vars PROVE Blocking'
  BY <1>7 DEF vars, world, history, Free, Blocking
<1> QED
  BY <1>1, <1>2, <1>3, <1>4, <1>5, <1>6, <1>7, Kinds DEF Types

\* Telemetry and clock grow older together.
LEMMA TelemetryAgeStep ==
  ASSUME Types, QueryAge, TelemetryAge, [Next]_vars
  PROVE  TelemetryAge'
<1>0. /\ now \in Time /\ lastTelemetry \in Time /\ sinceTelemetry \in Age
      /\ Elapsed(now, now) = 0
  BY ElapsedIs DEF Types, Stamps, Ages, Time
<1>1. ASSUME Around PROVE TelemetryAge'
  BY <1>1, AroundFacts DEF TelemetryAge, Free, Elapsed
<1>2. ASSUME LoopQuiet PROVE TelemetryAge'
  <2>1. SendTelemetry(listenerActive, now) /\ UNCHANGED <<asked, now>> /\ Free
    BY <1>2 DEF LoopQuiet
  <2>2. CASE UNCHANGED <<lastTelemetry, sinceTelemetry>>
    BY <2>1, <2>2 DEF TelemetryAge, Free, Elapsed
  <2>3. CASE lastTelemetry' = now /\ sinceTelemetry' = 0
    <3>1. Elapsed(now', lastTelemetry') = 0
      BY <1>0, <2>1, <2>3
    <3> QED
      BY <2>1, <2>3, <3>1 DEF TelemetryAge, Free
  <2> QED
    BY <2>1, <2>2, <2>3, TelemetryFacts
<1>3. ASSUME LoopQuery PROVE TelemetryAge'
  BY <1>3 DEF LoopQuery, members, TelemetryAge, Free, Elapsed
<1>4. ASSUME Answered \/ AnswerLost PROVE TelemetryAge'
  <2>1. PICK found \in BOOLEAN : ~Free /\ Discovered(found)
    BY <1>4, ReturnFacts DEF Returns, Types
  <2>2. SendTelemetry(found, asked) /\ now' = now /\ Free'
    BY <2>1 DEF Discovered, Free
  <2>3. CASE UNCHANGED <<lastTelemetry, sinceTelemetry>>
    BY <2>2, <2>3 DEF TelemetryAge, Elapsed
  <2>4. CASE lastTelemetry' = asked /\ sinceTelemetry' = 0
    <3>1. Elapsed(now, asked) \in {0, 1}
      BY <1>0, <2>1 DEF QueryAge
    <3>2. Elapsed(now', lastTelemetry') \in {0, 1}
      BY <2>2, <2>4, <3>1
    <3> QED
      BY <2>2, <2>4, <3>2 DEF TelemetryAge
  <2> QED
    BY <2>2, <2>3, <2>4, TelemetryFacts
<1>5. ASSUME Tick PROVE TelemetryAge'
  <2>1. sinceTelemetry' = Older(sinceTelemetry) /\ UNCHANGED <<asked, lastTelemetry>>
    BY <1>5 DEF Tick, members
  <2> SUFFICES ASSUME sinceTelemetry' # Never, sinceTelemetry' # AgeCap PROVE TelemetryAge'
    BY DEF TelemetryAge
  <2>2. sinceTelemetry \in Nat /\ sinceTelemetry' = sinceTelemetry + 1
    BY <1>0, <2>1, OlderIs
  <2>3. sinceTelemetry # AgeCap
    BY <2>1, <2>2 DEF Older, Least, Never
  <2>4. /\ Elapsed(now, lastTelemetry) <= sinceTelemetry + 1
        /\ ~Free => Elapsed(asked, lastTelemetry) <= sinceTelemetry + 1
    BY <2>2, <2>3 DEF TelemetryAge, Never
  <2>5. Elapsed(now', lastTelemetry) <= sinceTelemetry' + 1
    <3>1. /\ Elapsed(now, lastTelemetry) \in Nat /\ Elapsed(now', lastTelemetry) \in Nat
          /\ Elapsed(now', lastTelemetry) <= Elapsed(now, lastTelemetry) + 1
      BY <1>0, <1>5, TickElapsed DEF Types
    <3> QED
      BY <2>2, <2>4, <3>1
  <2>6. ~Free => Elapsed(asked, lastTelemetry) <= sinceTelemetry' + 1
    <3>1. ~Free => Elapsed(asked, lastTelemetry) \in Nat
      <4>1. ~Free => asked \in Time
        BY DEF Types, Stamps, Free
      <4>2. asked \in Time => Elapsed(asked, lastTelemetry) \in Nat
        BY <1>0, ElapsedIs DEF Time
      <4> QED
        BY <4>1, <4>2
    <3> QED
      BY <2>2, <2>4, <3>1
  <2> QED
    BY <2>1, <2>5, <2>6 DEF TelemetryAge, Free
<1>6. ASSUME UNCHANGED vars PROVE TelemetryAge'
  BY <1>6 DEF vars, world, members, history, TelemetryAge, Free, Elapsed
<1> QED
  BY <1>1, <1>2, <1>3, <1>4, <1>5, <1>6, Kinds DEF Types

\* A loop() that does not query finds the last query younger than the interval.
LEMMA QueryDueStep ==
  ASSUME Types, QueryAge, QueryDue, [Next]_vars
  PROVE  QueryDue'
<1> USE DEF QueryDue, Types
<1>1. ASSUME Around PROVE QueryDue'
  <2> SUFFICES ASSUME initialized', Free', looped', steadyFor' > 0
               PROVE  (Elapsed(now, lastDiscovery) < MaxInterval)'
    OBVIOUS
  <2>0. steadyFor' # 0
    OBVIOUS
  <2>1. steadyFor' = steadyFor /\ initialized /\ Free /\ looped
    BY <1>1, <2>0, AroundFacts DEF Flags, Free
  <2>2. now' = now /\ lastDiscovery' = lastDiscovery
    BY <1>1, AroundFacts
  <2> QED
    BY <2>1, <2>2 DEF Elapsed
<1>2. ASSUME LoopQuiet PROVE QueryDue'
  <2>1. Elapsed(now', lastDiscovery') = Elapsed(now, lastDiscovery)
    BY <1>2 DEF LoopQuiet
  <2>2. EffectiveInterval <= MaxInterval /\ EffectiveInterval \in Nat
    BY DEF EffectiveInterval, Stamps, InitialInterval
  <2>3. Elapsed(now, lastDiscovery) \in Nat
    BY ElapsedIs DEF Stamps, Time
  <2> QED
    BY <1>2, <2>1, <2>2, <2>3 DEF LoopQuiet, Due
<1>3. ASSUME LoopQuery PROVE QueryDue'
  BY <1>3 DEF LoopQuery, Free, Stamps, Time, None
<1>4. ASSUME Answered \/ AnswerLost PROVE QueryDue'
  <2>1. ~Free /\ lastDiscovery' = asked /\ now' = now /\ looped' = looped
    BY <1>4, ReturnFacts DEF Returns, Discovered
  <2>2. now \in Time /\ Elapsed(now, now) = 0
    BY ElapsedIs DEF Stamps, Time
  <2>3. looped' => Elapsed(now', lastDiscovery') = 0
    BY <2>1, <2>2 DEF QueryAge, Flags
  <2> QED
    BY <2>3
<1>5. ASSUME Tick PROVE QueryDue'
  BY <1>5 DEF Tick
<1>6. ASSUME UNCHANGED vars PROVE QueryDue'
  BY <1>6 DEF vars, world, members, history, Free, Elapsed
<1> QED
  BY <1>1, <1>2, <1>3, <1>4, <1>5, <1>6, Kinds

\* In the calm the age of the last query grows with it.
LEMMA KnowsStep ==
  ASSUME Types, QueryDue, Knows, [Next]_vars
  PROVE  Knows'
<1> USE DEF Types
<1>0. /\ now \in Time /\ lastDiscovery \in Time
      /\ Elapsed(now, lastDiscovery) \in Nat
  BY ElapsedIs DEF Stamps, Time
<1>1. Stamps'
  BY StampsStep
<1>2. ASSUME steadyFor' = 0 PROVE Knows'
  <2>1. Elapsed(now', lastDiscovery') \in Nat
    BY <1>1, ElapsedIs DEF Stamps, Time
  <2> QED
    BY <1>2, <2>1 DEF Knows
<1>3. ASSUME Around, steadyFor' # 0, initialized', Free' PROVE Knows'
  <2>1. /\ UNCHANGED <<asked, now, lastDiscovery, listenerActive, receiverUp, steadyFor>>
        /\ initialized
    BY <1>3, AroundFacts DEF Flags
  <2> QED
    BY <2>1 DEF Knows, Free, Elapsed
<1>4. ASSUME LoopQuiet PROVE Knows'
  BY <1>4 DEF LoopQuiet, Knows, Free, Elapsed
<1>5. ASSUME LoopQuery PROVE Knows'
  BY <1>5 DEF LoopQuery, Knows, Free, Stamps, Time, None
<1>6. ASSUME Answered \/ AnswerLost PROVE Knows'
  BY <1>2, <1>6, ReturnFacts, LoopFacts DEF Knows
<1>7. ASSUME Tick, steadyFor' # 0 PROVE Knows'
  <2> SUFFICES ASSUME Free, listenerActive # receiverUp
               PROVE  steadyFor' <= Elapsed(now', lastDiscovery') + 1
    BY <1>7 DEF Tick, members, Knows, Free
  <2>1. initialized /\ looped /\ UNCHANGED lastDiscovery
    BY <1>7 DEF Tick, members
  <2>2. steadyFor \in Nat /\ (steadyFor' = steadyFor + 1 \/ steadyFor' = AgeCap)
        /\ steadyFor' <= steadyFor + 1
    BY <1>7, <2>1 DEF Tick, Ages, Older, Least, Never
  <2>3. Elapsed(now', lastDiscovery) \in Nat
    BY <1>0, <1>7, TickElapsed
  <2>4. CASE steadyFor = 0
    BY <2>1, <2>2, <2>3, <2>4
  <2>5. CASE steadyFor > 0
    <3>1. Elapsed(now, lastDiscovery) < MaxInterval
          /\ steadyFor <= Elapsed(now, lastDiscovery) + 1
      BY <2>1, <2>5 DEF QueryDue, Knows
    <3>2. Elapsed(now', lastDiscovery) = Elapsed(now, lastDiscovery) + 1
      BY <1>0, <1>7, <3>1, TickElapsed
    <3> QED
      BY <1>0, <2>1, <2>2, <3>1, <3>2 DEF Ages
  <2> QED
    BY <2>2, <2>4, <2>5
<1>8. ASSUME UNCHANGED vars PROVE Knows'
  BY <1>8 DEF vars, world, members, history, Knows, Free, Elapsed
<1> QED
  BY <1>2, <1>3, <1>4, <1>5, <1>6, <1>7, <1>8, Kinds DEF Knows

\* The clock runs no faster than time.
LEMMA QueryClockStep ==
  ASSUME Types, QueryClock, [Next]_vars
  PROVE  QueryClock'
<1>0. /\ now \in Time /\ lastDiscovery \in Time /\ sinceQuery \in Age
      /\ ~Free => asked \in Time
      /\ Elapsed(now, now) = 0
  BY ElapsedIs DEF Types, Stamps, Ages, Time, Free
<1>1. ASSUME Around, ~ForceDiscovery PROVE QueryClock'
  <2>1. UNCHANGED <<asked, now, lastDiscovery, sinceQuery, forced>>
    BY <1>1 DEF Around, Begin, EndLog, Turn, EnableSystemTelemetry, members, world,
                history
  <2> QED
    BY <2>1 DEF QueryClock, Free, Elapsed
<1>2. ASSUME ForceDiscovery PROVE QueryClock'
  BY <1>2 DEF ForceDiscovery, QueryClock
<1>3. ASSUME LoopQuiet PROVE QueryClock'
  BY <1>3 DEF LoopQuiet, QueryClock, Free, Elapsed
<1>4. ASSUME LoopQuery PROVE QueryClock'
  <2>1. asked' = now /\ now' = now /\ sinceQuery' = 0 /\ ~Free'
    BY <1>0, <1>4 DEF LoopQuery, Free, None, Time
  <2>2. Elapsed(now', asked') = 0
    BY <1>0, <2>1
  <2> QED
    BY <2>1, <2>2 DEF QueryClock
<1>5. ASSUME Answered \/ AnswerLost PROVE QueryClock'
  <2>1. PICK found \in BOOLEAN : ~Free /\ Discovered(found)
    BY <1>5, ReturnFacts DEF Returns, Types
  <2>2. /\ Free' /\ lastDiscovery' = asked
        /\ UNCHANGED <<now, sinceQuery, forced>>
    BY <2>1 DEF Discovered, Free
  <2> QED
    BY <2>1, <2>2 DEF QueryClock, Elapsed
<1>6. ASSUME Tick PROVE QueryClock'
  <2>1. sinceQuery' = Older(sinceQuery) /\ UNCHANGED <<asked, lastDiscovery, forced>>
    BY <1>6 DEF Tick, members
  <2> SUFFICES ASSUME sinceQuery' # Never, sinceQuery' # AgeCap, ~forced PROVE QueryClock'
    BY <2>1 DEF QueryClock
  <2> DEFINE stamp == IF Free THEN lastDiscovery ELSE asked
  <2>2. stamp \in Time /\ stamp' = stamp
    BY <1>0, <2>1 DEF Free
  <2>3. sinceQuery \in Nat /\ sinceQuery' = sinceQuery + 1 /\ sinceQuery # AgeCap
    <3>1. sinceQuery \in Nat /\ sinceQuery' = sinceQuery + 1
      BY <1>0, <2>1, OlderIs
    <3> QED
      BY <2>1, <3>1 DEF Older, Least, Never
  <2>4. Elapsed(now, stamp) <= sinceQuery
    BY <2>3 DEF QueryClock, Never
  <2> HIDE DEF stamp
  <2>5. /\ Elapsed(now, stamp) \in Nat /\ Elapsed(now', stamp) \in Nat
        /\ Elapsed(now', stamp) <= Elapsed(now, stamp) + 1
    BY <1>6, <2>2, TickElapsed DEF Types
  <2>6. Elapsed(now', stamp') <= sinceQuery'
    BY <2>2, <2>3, <2>4, <2>5
  <2> QED
    BY <2>6 DEF QueryClock, stamp
<1>7. ASSUME UNCHANGED vars PROVE QueryClock'
  BY <1>7 DEF vars, members, world, history, QueryClock, Free, Elapsed
<1> QED
  BY <1>1, <1>2, <1>3, <1>4, <1>5, <1>6, <1>7, Kinds DEF Types

\* What has a lower bound keeps it when it is doubled, and has twice that bound.
LEMMA LeastDoubles ==
  ASSUME NEW low \in Nat, NEW i \in Nat, i >= Least(low, MaxInterval),
         NEW j \in Nat, j >= Least(2 * i, MaxInterval)
  PROVE  j >= Least(low, MaxInterval) /\ j >= Least(2 * low, MaxInterval)
  BY DEF Least

\* A query that fails doubles the interval, up to its bound.
LEMMA DoublingStep ==
  ASSUME Types, Doubling, [Next]_vars
  PROVE  Doubling'
<1>1. ASSUME UNCHANGED <<interval, failures>> PROVE Doubling'
  BY <1>1 DEF Doubling
<1>2. ASSUME failures' = 0 PROVE Doubling'
  BY <1>2 DEF Doubling
<1>3. ASSUME NEW found \in BOOLEAN, Discovered(found), ~found PROVE Doubling'
  <2>1. /\ interval' \in MinInterval .. MaxInterval
        /\ failures' = Least(failures + 1, AgeCap)
    BY <1>3, NextIntervalIs DEF Discovered, Types
  <2>2. interval \in Nat /\ failures \in 0 .. AgeCap /\ interval <= MaxInterval
    BY DEF Types, Stamps, Ages, InitialInterval
  <2>3. interval' >= Least(2 * interval, MaxInterval)
    <3>1. interval' = NextInterval(found) /\ 2 * interval \in Nat
      BY <1>3 DEF Discovered, Types, Stamps, InitialInterval
    <3>2. interval' = IF Least(2 * interval, MaxInterval) < MinInterval THEN MinInterval
                      ELSE Least(2 * interval, MaxInterval)
      BY <1>3, <3>1 DEF NextInterval
    <3> QED
      BY <3>1, <3>2 DEF Least
  <2>4. CASE failures = 0
    <3>1. failures' - 1 = 0
      BY <2>1, <2>4 DEF Least
    <3>2. interval' >= Least(Abstract!Doubled[0], MaxInterval)
      <4>1. Least(Abstract!Doubled[0], MaxInterval) = MinInterval
        BY DoubledFacts DEF Least
      <4> QED
        BY <2>1, <4>1
    <3> QED
      BY <3>1, <3>2 DEF Doubling
  <2>5. CASE failures > 0
    <3>1. failures - 1 \in Nat /\ (failures - 1) + 1 = failures
      BY <2>2, <2>5
    <3>2. /\ Abstract!Doubled[failures - 1] \in Nat
          /\ Abstract!Doubled[failures] = 2 * Abstract!Doubled[failures - 1]
      BY <3>1, DoubledFacts
    <3>3. interval >= Least(Abstract!Doubled[failures - 1], MaxInterval)
      BY <2>5 DEF Doubling
    <3>4. /\ interval' >= Least(Abstract!Doubled[failures - 1], MaxInterval)
          /\ interval' >= Least(Abstract!Doubled[failures], MaxInterval)
      BY <2>1, <2>2, <2>3, <3>2, <3>3, LeastDoubles
    <3>5. failures' - 1 \in {failures - 1, failures}
      BY <2>1, <2>2 DEF Least
    <3> QED
      BY <3>4, <3>5 DEF Doubling
  <2> QED
    BY <2>2, <2>4, <2>5
<1> QED
  BY <1>1, <1>2, <1>3, ReturnFacts, Kinds
  DEF Types, Around, Begin, EndLog, ForceDiscovery, Turn, EnableSystemTelemetry, LoopQuiet,
      LoopQuery, Returns, Discovered, Tick, vars, members, history

-----------------------------------------------------------------------------
(***************************************************************************)
(* The theorems.                                                           *)
(***************************************************************************)

\* The invariant holds before begin().
LEMMA InitInv == Init => IInv
<1> SUFFICES ASSUME Init PROVE IInv
  OBVIOUS
<1>1. Flags
  BY DEF Init, Flags
<1>2. Stamps
  BY DEF Init, Stamps, Time, None
<1>3. Ages
  BY DEF Init, Ages, Age, Never
<1>4. QueryAge /\ Blocking /\ TelemetryAge /\ QueryDue /\ Knows /\ QueryClock /\ Doubling
  BY DEF Init, QueryAge, Blocking, TelemetryAge, QueryDue, Knows, QueryClock, Doubling, Free,
         Never, None
<1> QED
  BY <1>1, <1>2, <1>3, <1>4 DEF IInv, Types

\* Every step preserves it, part by part.
LEMMA StepInv == IInv /\ [Next]_vars => IInv'
  BY FlagsStep, StampsStep, AgesStep, QueryAgeStep, BlockingStep, TelemetryAgeStep,
     QueryDueStep, KnowsStep, QueryClockStep, DoublingStep
  DEF IInv, Types

\* The invariant of Arduino discovery.
THEOREM Invariance == Spec => []IInv
  BY InitInv, StepInv, PTL DEF Spec

\* The variables keep their types; in particular the interval stays within its
\* bounds, and the stamps are times.
THEOREM TypeCorrect == Spec => []TypeOK
<1>1. IInv => TypeOK
  BY TypeParts DEF IInv
<1> QED
  BY <1>1, Invariance, PTL

\* A device that runs loop() in every tick for the longest interval, with nothing
\* lost or changed meanwhile, knows whether there is a receiver, wherever the
\* clock wrapped and whatever was before (ESPIoTLog.cpp, loop()).
THEOREM CalmDevicesKnow == Spec => []BeliefAgrees
<1>1. IInv => BeliefAgrees
  <2> SUFFICES ASSUME IInv, initialized, Free, looped, steadyFor > MaxInterval
               PROVE  listenerActive = receiverUp
    BY DEF BeliefAgrees
  <2>1. steadyFor \in Nat /\ Elapsed(now, lastDiscovery) \in Nat
    BY ElapsedIs DEF IInv, Types, Ages, Stamps, Time
  <2>2. Elapsed(now, lastDiscovery) < MaxInterval
    BY <2>1 DEF IInv, QueryDue
  <2> QED
    BY <2>1, <2>2 DEF IInv, Knows
<1> QED
  BY <1>1, Invariance, PTL

\* loop() never sends telemetry twice within its interval, less the tick that may
\* pass in a query, wherever the clock wrapped.
THEOREM TelemetryKeepsPace == Spec => TelemetryPaced
<1>1. IInv /\ [Next]_vars =>
        (sinceTelemetry' = 0 /\ sinceTelemetry # 0 =>
            sinceTelemetry = Never \/ sinceTelemetry >= TelemetryInterval - 1)
  <2> SUFFICES ASSUME IInv, [Next]_vars, sinceTelemetry' = 0, sinceTelemetry # 0,
                      sinceTelemetry # Never
               PROVE  sinceTelemetry >= TelemetryInterval - 1
    OBVIOUS
  <2> USE DEF IInv, Types
  <2>0. sinceTelemetry \in Nat
    BY DEF Ages, Age
  <2>1. ~Around /\ ~LoopQuery /\ ~UNCHANGED vars
    BY AroundFacts DEF LoopQuery, vars, history
  <2>2. ~Tick
    BY <2>0, OlderIs DEF Tick, Ages
  <2>3. CASE LoopQuiet
    <3>1. Elapsed(now, lastTelemetry) >= TelemetryInterval
      BY <2>3, TelemetryFacts DEF LoopQuiet
    <3>2. Elapsed(now, lastTelemetry) \in Nat
      BY ElapsedIs DEF Stamps, Time
    <3> QED
      BY <2>0, <3>1, <3>2 DEF TelemetryAge
  <2>4. CASE Answered \/ AnswerLost
    <3>1. PICK found \in BOOLEAN : ~Free /\ Discovered(found)
      BY <2>4, ReturnFacts DEF Returns
    <3>2. Elapsed(asked, lastTelemetry) >= TelemetryInterval
      BY <3>1, TelemetryFacts DEF Discovered
    <3>3. Elapsed(asked, lastTelemetry) \in Nat
      BY <3>1, ElapsedIs DEF Stamps, Free, Time
    <3> QED
      BY <2>0, <3>1, <3>2, <3>3 DEF TelemetryAge
  <2> QED
    BY <2>1, <2>2, <2>3, <2>4, Kinds
<1> QED
  BY <1>1, Invariance, PTL DEF Spec, TelemetryPaced

\* A query that was not forced waits for the abstract interval.
LEMMA AsksInTime ==
  ASSUME IInv, LoopQuery, sinceQuery # Never, ~forced
  PROVE  sinceQuery >= Abstract!Spacing
<1> USE DEF IInv, Types
<1>1. Free /\ Elapsed(now, lastDiscovery) >= EffectiveInterval
  BY DEF LoopQuery, Due
<1>2. /\ Elapsed(now, lastDiscovery) \in Nat /\ sinceQuery \in Nat /\ interval \in Nat
      /\ failures \in Nat
  BY ElapsedIs DEF Stamps, Ages, Time, Age, InitialInterval
<1>3. sinceQuery >= EffectiveInterval \/ sinceQuery = AgeCap
  BY <1>1, <1>2 DEF QueryClock, EffectiveInterval
<1>4. Abstract!Spacing \in Nat /\ Abstract!Spacing <= MaxInterval
  <2>1. failures > 0 => failures - 1 \in Nat
    BY <1>2
  <2> QED
    BY <1>2, <2>1, DoubledFacts DEF Abstract!Spacing, Abstract!Least
<1>5. Abstract!Spacing <= EffectiveInterval
  BY <1>2, <1>4 DEF Abstract!Spacing, Abstract!Least, Least, EffectiveInterval, Doubling
<1> QED
  BY <1>2, <1>3, <1>4, <1>5 DEF EffectiveInterval

\* Every step of the library is one of the abstract discovery, or none.
LEMMA AbstractStep ==
  ASSUME IInv, [Next]_vars
  PROVE  Abstract!Next \/ UNCHANGED Abstract!vars
<1> USE DEF Abstract!vars, Abstract!Next
<1>1. CASE LoopQuery
  <2>1. Free /\ ~Free'
    BY <1>1 DEF LoopQuery, Free, IInv, Types, Stamps, Time, None
  <2>2. sinceQuery = Never \/ forced \/ sinceQuery >= Abstract!Spacing
    BY <1>1, AsksInTime
  <2>3. Abstract!Ask
    BY <1>1, <2>1, <2>2 DEF LoopQuery, members, Abstract!Ask, Abstract!Never, Never
  <2> QED
    BY <2>3
<1>2. CASE Answered \/ AnswerLost
  <2>1. PICK found \in BOOLEAN : ~Free /\ Discovered(found) /\ (found => receiverUp)
    BY <1>2 DEF Answered, AnswerLost, IInv, Types, Flags
  <2>2. Abstract!Answer(found)
    BY <2>1 DEF Discovered, Free, Abstract!Answer, Abstract!Least, Least
  <2> QED
    BY <2>2
<1>3. CASE ForceDiscovery
  <2>1. failures' \in 0 .. failures
    BY <1>3 DEF ForceDiscovery, IInv, Types, Ages
  <2>2. Abstract!Excuse
    BY <1>3, <2>1 DEF ForceDiscovery, world, Free, Abstract!Excuse
  <2> QED
    BY <2>2
<1>4. CASE EndLog
  <2>1. Abstract!Drop
    BY <1>4 DEF EndLog, world, history, Free, Abstract!Drop
  <2> QED
    BY <2>1
<1>5. CASE Turn
  <2>1. Abstract!Turn
    BY <1>5 DEF Turn, members, Free, Abstract!Turn
  <2> QED
    BY <2>1
<1>6. CASE Tick
  <2>1. ~Free => sinceQuery = 0
    BY <1>6 DEF Tick, IInv, Blocking
  <2>2. Abstract!Tick
    BY <1>6, <2>1 DEF Tick, members, Free, Older, Least, Never, Abstract!Tick,
       Abstract!Older, Abstract!Least, Abstract!Never
  <2> QED
    BY <2>2
<1>7. CASE LoopQuiet \/ Begin \/ UNCHANGED vars
  BY <1>7 DEF LoopQuiet, Begin, members, world, history, vars, Free
<1>8. ASSUME NEW on \in BOOLEAN, EnableSystemTelemetry(on)
      PROVE  UNCHANGED Abstract!vars
  BY <1>8 DEF EnableSystemTelemetry, world, history, Free
<1> QED
  BY <1>1, <1>2, <1>3, <1>4, <1>5, <1>6, <1>7, <1>8 DEF Next, Sketch

\* "Exponential backoff": whatever was lost, ended or begun again, and wherever the
\* clock wrapped, loop() implements the abstract discovery: a query that was not forced
\* comes no sooner after the last than the minimum interval doubled with every failure
\* but the first, or the maximum, and the device believes what it was told
\* (ESPIoTLog.cpp, loop()).
THEOREM ImplementsDiscovery == Spec => DiscoverySpec
<1>1. Init => Abstract!Init
  BY DEF Init, Free, None, Never, Abstract!Init, Abstract!Never
<1>2. IInv /\ [Next]_vars => [Abstract!Next]_(Abstract!vars)
  BY AbstractStep
<1> QED
  BY <1>1, <1>2, Invariance, PTL DEF Spec, DiscoverySpec, Abstract!Spec
=============================================================================
