-------------------------- MODULE ArduinoLogf_proofs --------------------------
(***************************************************************************)
(* Proofs about ArduinoLogf, for any number of tasks, any limit and any    *)
(* range of the clock: what the rate limiter lets through and what it      *)
(* drops, and what is exact as long as two calls do not overlap.           *)
(*                                                                         *)
(* The limiter compares the numbers of two seconds, which also agree when  *)
(* millis() has wrapped around in between.  Stale says how old the window  *)
(* is when its count is not one of this second.                            *)
(***************************************************************************)
EXTENDS ArduinoLogf, TLAPS

USE LogfAssumption DEF LogfAssumption

\* The first tick of the second of a time.
StartOf(ms) == Second * SecondOf(ms)

\* The parts of TypeOK.
Flags ==
    /\ initialized \in BOOLEAN /\ listenerActive \in BOOLEAN
    /\ overlap \in BOOLEAN /\ wrong \in BOOLEAN

Clock == now \in 0 .. Wrap - 1 /\ windowStart \in 0 .. Wrap - 1 /\ age \in 0 .. Wrap

Numbers ==
    /\ count \in 0 .. Limit /\ inWindow \in Nat
    /\ calls \in 0 .. MaxCalls /\ faults \in 0 .. MaxFaults
    /\ burst \in [1 .. Second -> Nat]

Tallies ==
    /\ logCount \in Nat /\ droppedCount \in Nat /\ reg \in [Tasks -> Nat]
    /\ packets \in Nat /\ drops \in Nat

Texts ==
    /\ buffer \in SUBSET Tasks
    /\ pc \in [Tasks -> Places] /\ carry \in [Tasks -> SUBSET Tasks]
    /\ gain \in [Tasks -> {"sent", "dropped"}]

Packet == udp \in Seq(SUBSET Tasks)

Types == Flags /\ Clock /\ Numbers /\ Tallies /\ Texts /\ Packet

\* What was counted in a second that is not this one was counted so long ago that
\* the clock can have come back to that second only after almost a whole turn.
\* (A reset puts the window at 0 and its count, too, or is about to.)
Stale ==
    \/ windowStart = 0 /\ (count = 0 \/ Resetting)
    \/ windowStart <= now /\ age + Second > now - StartOf(windowStart)
    \/ now < windowStart /\ age + Second > now + Wrap - StartOf(windowStart)

\* In the limiter's own second it counts no more than it let through.
Justified == SameWindow => count <= inWindow \/ age > Wrap - Second \/ Resetting

\* ... and no less.
Bounded == Resetting \/ inWindow = 0 \/ (SameWindow /\ inWindow <= count)

\* The last second before millis() is 0 again begins here; it is a short one.
LastSecond == StartOf(Wrap - 1)

\* What the last i ticks let through is of this second if it has i ticks already, or
\* also of the one before it, or of the two before it, if the nearer is the short one.
Spread ==
    Resetting \/ \A i \in 1 .. Second :
        IF i <= now - StartOf(now) + 1 THEN burst[i] <= inWindow
        ELSE IF i <= now + 1 \/ i <= Wrap - LastSecond + now + 1
             THEN burst[i] <= inWindow + Limit
             ELSE burst[i] <= inWindow + 2 * Limit

\* One call at a time is behind the critical section.
Single == ~overlap => \A t, u \in Tasks : pc[t] \in Behind /\ pc[u] \in Behind => t = u

\* Its text is in the buffer, in its payload and in the packet.
OwnText ==
    ~overlap => \A t \in Tasks :
        /\ pc[t] \in {"format", "copy"} => buffer = {t}
        /\ pc[t] \in {"copy", "send", "write"} => carry[t] = {t}
        /\ At(t, "write") => udp = <<>>
        /\ At(t, "end") => udp = <<{t}>>

\* What it is about to increment is as it read it.
OwnCount ==
    ~overlap => \A t \in Tasks : At(t, "store") =>
        reg[t] = IF gain[t] = "sent" THEN logCount ELSE droppedCount

IInv ==
    /\ Types
    /\ Stale /\ Justified /\ Bounded /\ Spread
    /\ Single /\ OwnText /\ OwnCount /\ AloneIsExact

\* The parts make up the type invariant.
LEMMA TypeParts ==
  ASSUME Types
  PROVE  TypeOK
  BY DEF Types, TypeOK, Flags, Clock, Numbers, Tallies, Texts, Packet

-----------------------------------------------------------------------------
(***************************************************************************)
(* The numbers of the seconds.                                             *)
(***************************************************************************)

\* A time is less than a second after the start of its second.
LEMMA StartIsNear ==
  ASSUME NEW m \in Nat
  PROVE  StartOf(m) \in Nat /\ StartOf(m) <= m /\ m < StartOf(m) + Second
  BY DEF StartOf, SecondOf

\* Two times are in the same second if and only if the second has one start.
LEMMA SameSecond ==
  ASSUME NEW m \in Nat, NEW n \in Nat
  PROVE  (SecondOf(m) = SecondOf(n)) <=> (StartOf(n) <= m /\ m < StartOf(n) + Second)
  BY DEF StartOf, SecondOf

-----------------------------------------------------------------------------
(***************************************************************************)
(* Kinds of steps.                                                         *)
(***************************************************************************)

\* The steps of a call behind the critical section.
Inner(t) ==
    \/ Format(t) \/ Copy(t) \/ Send(t) \/ Write(t)
    \/ EndPacketOk(t) \/ EndPacketFails(t) \/ Store(t)

\* The steps of a task that do not concern the others.
Private(t) == Logf(t) \/ Unheard(t)

\* The steps of the listener and of the object.
Object == Discover \/ EndLog \/ BeginLog \/ UNCHANGED vars

Resets(t) == ResetRateLimit(t) \/ ResetCount(t)

\* Every step is of one of these kinds.
LEMMA Kinds ==
  ASSUME [Next]_vars
  PROVE  \/ \E t \in Tasks : \/ Inner(t) \/ Private(t) \/ LogMetric(t)
                             \/ Refuse(t) \/ Admit(t) \/ Resets(t)
         \/ Object \/ Tick
  BY DEF Next, Task, Inner, Private, Object, Resets

\* The steps that have to do neither with the limiter nor with the clock.
Quiet == Object \/ \E t \in Tasks : Inner(t) \/ Private(t) \/ LogMetric(t)

\* They leave both alone, and a reset under way.
LEMMA QuietFacts ==
  ASSUME Texts, Quiet
  PROVE  UNCHANGED <<now, windowStart, count, burst, inWindow, age>>
         /\ Resetting' = Resetting
<1> DEFINE Untouched == UNCHANGED <<now, windowStart, count, burst, inWindow, age>>
                       /\ Resetting' = Resetting
<1> USE DEF Quiet, Resetting, At, Goto, Texts
<1>1. ASSUME Object PROVE Untouched
  BY <1>1 DEF Object, Discover, EndLog, BeginLog, vars, limiter, limits
<1>2. ASSUME NEW t \in Tasks, Inner(t) PROVE Untouched
  BY <1>2 DEF Inner, Format, Copy, Send, Write, EndPacketOk, EndPacketFails, Store,
              limiter, limits
<1>3. ASSUME NEW t \in Tasks, Private(t) \/ LogMetric(t) PROVE Untouched
  BY <1>3 DEF Private, Logf, Unheard, LogMetric, limiter, limits
<1> QED
  BY <1>1, <1>2, <1>3

\* A message that goes through the limiter leaves a reset under way.
LEMMA LimiterKeepsReset ==
  ASSUME Texts, NEW t \in Tasks, Refuse(t) \/ Admit(t)
  PROVE  Resetting' = Resetting /\ now' = now
  BY DEF Texts, Refuse, Admit, Resetting, At, Goto

\* The clock goes on by one, or starts again.
LEMMA TickFacts ==
  ASSUME Clock, Tick
  PROVE  /\ UNCHANGED <<windowStart, count, pc>>
         /\ \/ now + 1 < Wrap /\ now' = now + 1
            \/ now = Wrap - 1 /\ now' = 0
         /\ age' = Wrap \/ age' = age + 1
         /\ age' >= age /\ age' \in 0 .. Wrap
<1>1. (now + 1) % Wrap = IF now + 1 < Wrap THEN now + 1 ELSE 0
  BY DEF Clock
<1> QED
  BY <1>1 DEF Clock, Tick, limiter

-----------------------------------------------------------------------------
(***************************************************************************)
(* The limiter's window.                                                   *)
(***************************************************************************)

\* Stale: a new window begins now; time and age go on together.
LEMMA StaleStep ==
  ASSUME Clock, Numbers, Texts, Stale, [Next]_vars
  PROVE  Stale'
<1>0. StartOf(windowStart) \in Nat /\ StartOf(windowStart) <= windowStart
      /\ windowStart < StartOf(windowStart) + Second
  BY StartIsNear DEF Clock
<1>1. ASSUME Quiet PROVE Stale'
  BY <1>1, QuietFacts DEF Stale, StartOf, SecondOf
<1>2. ASSUME NEW t \in Tasks, Refuse(t) \/ Admit(t) PROVE Stale'
  <2>1. UNCHANGED <<now, Resetting>>
    BY <1>2, LimiterKeepsReset
  <2>2. CASE SameWindow
    <3>1. windowStart' = windowStart /\ age' = age
      BY <1>2, <2>2 DEF Refuse, Admit, WindowFrom, AgeFrom
    <3>2. StartOf(windowStart)' = StartOf(windowStart)
      BY <3>1 DEF StartOf, SecondOf
    <3>3. now < StartOf(windowStart) + Second
      BY <2>2, SameSecond DEF SameWindow, Clock
    <3>4. CASE windowStart = 0
      BY <1>0, <2>1, <3>1, <3>2, <3>3, <3>4 DEF Stale, Clock
    <3>5. CASE windowStart # 0
      BY <1>0, <2>1, <3>1, <3>2, <3>3, <3>5 DEF Stale, Clock
    <3> QED
      BY <3>4, <3>5
  <2>3. CASE ~SameWindow
    <3>1. windowStart' = now /\ age' = 0
      BY <1>2, <2>3 DEF Refuse, Admit, WindowFrom, AgeFrom
    <3>2. StartOf(windowStart)' = StartOf(now)
      BY <3>1 DEF StartOf, SecondOf
    <3>3. StartOf(now) \in Nat /\ now < StartOf(now) + Second
      BY StartIsNear DEF Clock
    <3> QED
      BY <2>1, <3>1, <3>2, <3>3 DEF Stale, Clock
  <2> QED
    BY <2>2, <2>3
<1>3. ASSUME NEW t \in Tasks, ResetRateLimit(t) PROVE Stale'
  BY <1>3 DEF ResetRateLimit, Stale, Resetting, Goto, At, Texts
<1>4. ASSUME NEW t \in Tasks, ResetCount(t) PROVE Stale'
  BY <1>4 DEF ResetCount, Stale, StartOf, SecondOf
<1>5. ASSUME Tick PROVE Stale'
  <2>1. /\ UNCHANGED <<windowStart, count, Resetting>>
        /\ StartOf(windowStart)' = StartOf(windowStart)
    BY <1>5, TickFacts DEF Resetting, At, StartOf, SecondOf
  <2>2. CASE windowStart <= now
    BY <1>0, <1>5, <2>1, <2>2, TickFacts DEF Stale, Clock
  <2>3. CASE now < windowStart
    BY <1>0, <1>5, <2>1, <2>3, TickFacts DEF Stale, Clock
  <2> QED
    BY <2>2, <2>3 DEF Clock
<1> QED
  BY <1>1, <1>2, <1>3, <1>4, <1>5, Kinds DEF Quiet, Resets

\* Within its second the limiter counts what it lets through; when the clock
\* comes back to that second the window is old.
LEMMA JustifiedStep ==
  ASSUME Clock, Numbers, Texts, Stale, Justified, [Next]_vars
  PROVE  Justified'
<1>1. ASSUME Quiet PROVE Justified'
  BY <1>1, QuietFacts DEF Justified, SameWindow, SecondOf
<1>2. ASSUME NEW t \in Tasks, Refuse(t) \/ Admit(t) PROVE Justified'
  <2>1. UNCHANGED <<now, Resetting>>
    BY <1>2, LimiterKeepsReset
  <2>2. CASE SameWindow
    <3>1. windowStart' = windowStart /\ age' = age /\ inWindow' >= inWindow
          /\ (count' - inWindow' <= count - inWindow)
      BY <1>2, <2>2 DEF Refuse, Admit, WindowFrom, AgeFrom, Counted, Numbers, limits
    <3> QED
      BY <1>2, <2>1, <2>2, <3>1 DEF Justified, Numbers, Clock, Refuse, Admit, Counted
  <2>3. CASE ~SameWindow
    BY <1>2, <2>3 DEF Refuse, Admit, Counted, Justified, Numbers, Exhausted
  <2> QED
    BY <2>2, <2>3
<1>3. ASSUME NEW t \in Tasks, ResetRateLimit(t) PROVE Justified'
  BY <1>3 DEF ResetRateLimit, Justified, Resetting, Goto, At, Texts
<1>4. ASSUME NEW t \in Tasks, ResetCount(t) PROVE Justified'
  BY <1>4 DEF ResetCount, Justified
<1>5. ASSUME Tick PROVE Justified'
  <2> SUFFICES ASSUME SameWindow' PROVE (count <= inWindow \/ age > Wrap - Second \/ Resetting)'
    BY DEF Justified
  <2>1. UNCHANGED <<windowStart, count, Resetting>>
    BY <1>5, TickFacts DEF Resetting, At
  <2>2. CASE SameWindow
    <3>1. SecondOf(now') = SecondOf(now)
      BY <2>1, <2>2 DEF SameWindow, SecondOf
    <3>2. inWindow' = inWindow
      BY <1>5, <3>1 DEF Tick
    <3> QED
      BY <1>5, <2>1, <2>2, <3>2, TickFacts DEF Justified, Clock
  <2>3. CASE ~SameWindow
    <3>1. SecondOf(now') = SecondOf(windowStart)
      BY <2>1 DEF SameWindow, SecondOf
    <3>2. now \in Nat /\ now' \in Nat /\ windowStart \in Nat
      BY <1>5, TickFacts DEF Clock
    <3>3. StartOf(windowStart) \in Nat /\ StartOf(windowStart) <= windowStart
          /\ windowStart < StartOf(windowStart) + Second
      BY <3>2, StartIsNear
    <3>4. StartOf(windowStart) <= now' /\ now' < StartOf(windowStart) + Second
      BY <3>1, <3>2, SameSecond
    <3>5. ~(StartOf(windowStart) <= now /\ now < StartOf(windowStart) + Second)
      BY <2>3, <3>2, SameSecond DEF SameWindow
    <3>6. now' = StartOf(windowStart)
      BY <1>5, <3>2, <3>3, <3>4, <3>5, TickFacts
    <3>7. CASE now + 1 < Wrap /\ now' = now + 1
      BY <1>5, <2>1, <3>3, <3>6, <3>7, TickFacts DEF Stale, Clock, Numbers
    <3>8. CASE now = Wrap - 1 /\ now' = 0
      <4>1. windowStart < now /\ now - StartOf(windowStart) = Wrap - 1
        BY <3>2, <3>3, <3>6, <3>8
      <4>2. CASE windowStart = 0 /\ (count = 0 \/ Resetting)
        <5>1. inWindow' \in Nat
          BY <1>5 DEF Tick, Numbers
        <5> QED
          BY <2>1, <4>2, <5>1 DEF Numbers
      <4>3. CASE age + Second > Wrap - 1
        BY <1>5, <4>3, TickFacts DEF Clock
      <4> QED
        BY <3>2, <3>3, <4>1, <4>2, <4>3 DEF Stale, Clock
    <3> QED
      BY <1>5, <3>7, <3>8, TickFacts
  <2> QED
    BY <2>2, <2>3
<1> QED
  BY <1>1, <1>2, <1>3, <1>4, <1>5, Kinds DEF Quiet, Resets

\* What was let through in this second is in the limiter's count.
LEMMA BoundedStep ==
  ASSUME Clock, Numbers, Texts, Bounded, [Next]_vars
  PROVE  Bounded'
<1>1. ASSUME Quiet PROVE Bounded'
  BY <1>1, QuietFacts DEF Bounded, SameWindow, SecondOf
<1>2. ASSUME NEW t \in Tasks, Refuse(t) PROVE Bounded'
  <2>1. Resetting' = Resetting /\ inWindow' = inWindow /\ now' = now
    BY <1>2, LimiterKeepsReset DEF Refuse
  <2> QED
    BY <1>2, <2>1 DEF Refuse, Bounded, WindowFrom, Counted, SameWindow, SecondOf
<1>3. ASSUME NEW t \in Tasks, Admit(t) PROVE Bounded'
  <2>1. Resetting' = Resetting /\ inWindow' = inWindow + 1 /\ now' = now
    BY <1>3, LimiterKeepsReset DEF Admit
  <2>2. SameWindow'
    BY <1>3, <2>1 DEF Admit, WindowFrom, SameWindow, SecondOf
  <2>3. Resetting \/ inWindow <= Counted
    BY DEF Bounded, Counted, Numbers
  <2>4. Counted \in Nat
    BY DEF Counted, Numbers
  <2> QED
    BY <1>3, <2>1, <2>2, <2>3, <2>4 DEF Admit, Bounded, Numbers
<1>4. ASSUME NEW t \in Tasks, ResetRateLimit(t) PROVE Bounded'
  BY <1>4 DEF ResetRateLimit, Bounded, Resetting, Goto, At, Texts
<1>5. ASSUME NEW t \in Tasks, ResetCount(t) PROVE Bounded'
  BY <1>5 DEF ResetCount, Bounded
<1>6. ASSUME Tick PROVE Bounded'
  <2>1. UNCHANGED <<windowStart, count, Resetting>>
    BY <1>6, TickFacts DEF Resetting, At
  <2>2. CASE SecondOf(now') = SecondOf(now)
    BY <1>6, <2>1, <2>2 DEF Tick, Bounded, SameWindow, SecondOf
  <2>3. CASE SecondOf(now') # SecondOf(now)
    BY <1>6, <2>3 DEF Tick, Bounded
  <2> QED
    BY <2>2, <2>3
<1> QED
  BY <1>1, <1>2, <1>3, <1>4, <1>5, <1>6, Kinds DEF Quiet, Resets

\* What was let through in the last i ticks: the clock passes from one second to the
\* next, and the limit bounds what is left behind in the one that ends.
LEMMA SpreadStep ==
  ASSUME Clock, Numbers, Texts, Bounded, Spread, [Next]_vars
  PROVE  Spread'
<1>0. StartOf(now) \in Nat /\ StartOf(now) <= now /\ now < StartOf(now) + Second
      /\ LastSecond \in Nat /\ LastSecond <= Wrap - 1
  BY StartIsNear DEF Clock, LastSecond
<1>1. ASSUME Quiet PROVE Spread'
  BY <1>1, QuietFacts DEF Spread, StartOf, SecondOf, LastSecond
<1>2. ASSUME NEW t \in Tasks, Refuse(t) PROVE Spread'
  <2>1. UNCHANGED <<now, Resetting, burst, inWindow>>
    BY <1>2, LimiterKeepsReset DEF Refuse
  <2> QED
    BY <2>1 DEF Spread, StartOf, SecondOf, LastSecond
<1>3. ASSUME NEW t \in Tasks, Admit(t) PROVE Spread'
  <2>1. UNCHANGED <<now, Resetting>>
    BY <1>3, LimiterKeepsReset
  <2>2. StartOf(now)' = StartOf(now) /\ LastSecond' = LastSecond
    BY <2>1 DEF StartOf, SecondOf, LastSecond
  <2>3. inWindow' = inWindow + 1 /\ \A i \in 1 .. Second : burst'[i] = burst[i] + 1
    BY <1>3 DEF Admit
  <2> SUFFICES ASSUME ~Resetting, NEW i \in 1 .. Second
               PROVE  IF i <= now - StartOf(now) + 1 THEN burst'[i] <= inWindow'
                      ELSE IF i <= now + 1 \/ i <= Wrap - LastSecond + now + 1
                           THEN burst'[i] <= inWindow' + Limit
                           ELSE burst'[i] <= inWindow' + 2 * Limit
    BY <2>1, <2>2 DEF Spread
  <2>4. burst[i] \in Nat
    BY DEF Numbers
  <2> QED
    BY <2>3, <2>4 DEF Spread, Numbers
<1>4. ASSUME NEW t \in Tasks, ResetRateLimit(t) PROVE Spread'
  BY <1>4 DEF ResetRateLimit, Spread, Resetting, Goto, At, Texts
<1>5. ASSUME NEW t \in Tasks, ResetCount(t) PROVE Spread'
  BY <1>5 DEF ResetCount, Spread
<1>6. ASSUME Tick PROVE Spread'
  <2>1. Resetting' = Resetting /\ LastSecond' = LastSecond
    BY <1>6, TickFacts DEF Resetting, At, StartOf, SecondOf, LastSecond
  <2>3. StartOf(now)' = StartOf(now')
    BY DEF StartOf, SecondOf
  <2> SUFFICES ASSUME ~Resetting, NEW i \in 1 .. Second
               PROVE  IF i <= now' - StartOf(now') + 1 THEN burst'[i] <= inWindow'
                      ELSE IF i <= now' + 1 \/ i <= Wrap - LastSecond + now' + 1
                           THEN burst'[i] <= inWindow' + Limit
                           ELSE burst'[i] <= inWindow' + 2 * Limit
    BY <2>1, <2>3 DEF Spread
  <2>2. now' \in 0 .. Wrap - 1 /\ inWindow' \in Nat
    BY <1>6, TickFacts DEF Clock, Tick, Numbers
  <2>4. StartOf(now') \in Nat /\ StartOf(now') <= now' /\ now' < StartOf(now') + Second
    BY <2>2, StartIsNear
  <2>5. inWindow <= Limit
    BY DEF Bounded, Numbers
  <2>6. CASE i = 1
    BY <1>6, <2>2, <2>4, <2>6 DEF Tick
  <2>7. CASE i > 1
    <3>1. burst'[i] = burst[i - 1]
      BY <1>6, <2>7 DEF Tick
    <3>2. IF i - 1 <= now - StartOf(now) + 1 THEN burst[i - 1] <= inWindow
          ELSE IF i - 1 <= now + 1 \/ i - 1 <= Wrap - LastSecond + now + 1
               THEN burst[i - 1] <= inWindow + Limit
               ELSE burst[i - 1] <= inWindow + 2 * Limit
      BY <2>7 DEF Spread
    <3>3. burst[i - 1] \in Nat
      BY <2>7 DEF Numbers
    <3>4. CASE SecondOf(now') = SecondOf(now)
      <4>1. inWindow' = inWindow /\ StartOf(now') = StartOf(now)
        BY <1>6, <3>4 DEF Tick, StartOf
      <4>2. now' = now + 1
        <5>1. ~(now = Wrap - 1 /\ now' = 0)
          <6>1. StartOf(now') <= now /\ now < StartOf(now') + Second
            BY <1>0, <4>1
          <6> QED
            BY <2>4, <6>1
        <5> QED
          BY <1>6, <5>1, TickFacts
      <4> QED
        BY <1>0, <2>7, <3>1, <3>2, <3>3, <4>1, <4>2 DEF Clock, Numbers
    <3>5. CASE SecondOf(now') # SecondOf(now)
      <4>1. inWindow' = 0
        BY <1>6, <3>5 DEF Tick
      <4>2. ~(StartOf(now) <= now' /\ now' < StartOf(now) + Second)
        BY <2>2, <3>5, SameSecond DEF Clock
      <4>3. CASE now + 1 < Wrap /\ now' = now + 1
        <5>1. i - 1 <= now - StartOf(now) + 1
          BY <1>0, <2>7, <4>2, <4>3 DEF Clock
        <5>2. burst'[i] <= Limit
          BY <2>5, <3>1, <3>2, <3>3, <5>1 DEF Numbers
        <5>3. i <= now' + 1
          BY <1>0, <4>3, <5>1 DEF Clock
        <5>4. ~(StartOf(now') <= now /\ now < StartOf(now') + Second)
          BY <2>2, <3>5, SameSecond DEF Clock
        <5>5. StartOf(now') = now'
          BY <1>0, <2>4, <4>3, <5>4 DEF Clock
        <5>6. ~(i <= now' - StartOf(now') + 1)
          <6>1. \A n, k \in Nat : k > 1 => ~(k <= n - n + 1)
            OBVIOUS
          <6>2. now' - StartOf(now') + 1 = now' - now' + 1
            BY <5>5
          <6>3. now' \in Nat /\ i \in Nat
            BY <2>2
          <6> QED
            BY <2>7, <6>1, <6>2, <6>3
        <5>7. burst'[i] <= inWindow' + Limit
          BY <3>1, <3>3, <4>1, <5>2
        <5> QED
          BY <5>3, <5>6, <5>7
      <4>4. CASE now = Wrap - 1 /\ now' = 0
        <5>1. LastSecond = StartOf(now)
          BY <4>4 DEF LastSecond
        <5>2. StartOf(now') = 0
          BY <2>4, <4>4
        <5>3. i - 1 <= now + 1
          BY <4>4
        <5>4. IF i - 1 <= Wrap - LastSecond THEN burst'[i] <= Limit
              ELSE burst'[i] <= 2 * Limit
          <6>1. now - StartOf(now) + 1 = Wrap - LastSecond
            BY <1>0, <4>4, <5>1
          <6>2. IF i - 1 <= Wrap - LastSecond THEN burst[i - 1] <= inWindow
                ELSE burst[i - 1] <= inWindow + Limit
            BY <3>2, <5>3, <6>1
          <6> QED
            BY <2>5, <3>1, <3>3, <6>2 DEF Numbers
        <5> QED
          BY <1>0, <2>7, <3>1, <3>3, <4>1, <4>4, <5>2, <5>4
      <4> QED
        BY <1>6, <4>3, <4>4, TickFacts
    <3> QED
      BY <3>4, <3>5
  <2> QED
    BY <2>6, <2>7
<1> QED
  BY <1>1, <1>2, <1>3, <1>4, <1>5, <1>6, Kinds DEF Quiet, Resets

-----------------------------------------------------------------------------
(***************************************************************************)
(* Calls that do not overlap.                                              *)
(***************************************************************************)

\* What a step that is not behind the critical section leaves alone.
Apart == Object \/ Tick \/ \E t \in Tasks : Private(t) \/ Resets(t)

LEMMA ApartFacts ==
  ASSUME Texts, Apart
  PROVE  /\ UNCHANGED <<counters, buffer, carry, gain, reg, packets, drops, overlap, wrong>>
         /\ \A t \in Tasks : /\ pc'[t] \in Behind <=> pc[t] \in Behind
                             /\ pc[t] \in Behind => pc'[t] = pc[t]
         /\ udp' = udp \/ \A t \in Tasks : pc'[t] \notin {"write", "end"}
<1> DEFINE Kept == /\ UNCHANGED <<counters, buffer, carry, gain, reg, packets, drops,
                                  overlap, wrong>>
                   /\ \A t \in Tasks : /\ pc'[t] \in Behind <=> pc[t] \in Behind
                                       /\ pc[t] \in Behind => pc'[t] = pc[t]
                   /\ udp' = udp \/ \A t \in Tasks : pc'[t] \notin {"write", "end"}
<1>1. ASSUME Object PROVE Kept
  BY <1>1 DEF Object, Discover, EndLog, BeginLog, vars, counters, sending, tally
<1>2. ASSUME Tick PROVE Kept
  BY <1>2 DEF Tick, counters, sending, tally
<1>3. ASSUME NEW t \in Tasks, Private(t) \/ Resets(t) PROVE Kept
  BY <1>3 DEF Private, Resets, Logf, Unheard, ResetRateLimit, ResetCount, Texts, At, Goto,
              Behind, counters, sending, tally
<1> HIDE DEF Kept
<1>4. Kept
  BY <1>1, <1>2, <1>3 DEF Apart
<1> QED
  BY <1>4 DEF Kept

\* A message that the limiter drops moves no payload.
LEMMA RefuseFacts ==
  ASSUME Texts, NEW t \in Tasks, Refuse(t)
  PROVE  /\ UNCHANGED <<logCount, sending, packets, wrong>>
         /\ droppedCount' = droppedCount + 1 /\ drops' = drops + 1
         /\ pc[t] = "enter" /\ pc' = [pc EXCEPT ![t] = "idle"]
         /\ ~overlap' => ~overlap /\ \A u \in Tasks : pc'[u] \notin Behind
  BY DEF Refuse, At, Goto, Overlaps, Texts, Behind

\* Who goes behind the critical section alone is alone there.
LEMMA ArriveFacts ==
  ASSUME Texts, NEW t \in Tasks, Admit(t) \/ LogMetric(t)
  PROVE  /\ UNCHANGED <<counters, udp, gain, reg, packets, drops, wrong>>
         /\ pc[t] \notin Behind /\ pc'[t] \in {"format", "send"}
         /\ \A u \in Tasks \ {t} : pc'[u] = pc[u]
         /\ ~overlap' => ~overlap /\ \A u \in Tasks \ {t} : pc[u] \notin Behind
         /\ pc'[t] = "format" => buffer' = {t} /\ carry' = carry
         /\ pc'[t] = "send" => buffer' = buffer /\ carry' = [carry EXCEPT ![t] = {t}]
<1>1. CASE Admit(t)
  BY <1>1 DEF Admit, At, Goto, Overlaps, Texts, Behind
<1>2. CASE LogMetric(t)
  BY <1>2 DEF LogMetric, At, Goto, Overlaps, Texts, Behind, counters
<1> QED
  BY <1>1, <1>2

\* A call that is behind it moves alone.
LEMMA InnerFacts ==
  ASSUME Texts, Tallies, NEW t \in Tasks, Inner(t)
  PROVE  /\ pc[t] \in Behind
         /\ \A u \in Tasks \ {t} : pc'[u] = pc[u] /\ carry'[u] = carry[u]
                                   /\ gain'[u] = gain[u] /\ reg'[u] = reg[u]
         /\ buffer' = buffer /\ overlap' = overlap
<1> USE DEF At, Goto, Texts, Tallies, Behind, tally
<1>1. CASE Format(t) \/ Copy(t)
  BY <1>1 DEF Format, Copy
<1>2. CASE Send(t)
  BY <1>2 DEF Send, Dropped, Begin
<1>3. CASE Write(t) \/ EndPacketOk(t) \/ EndPacketFails(t)
  BY <1>3 DEF Write, EndPacketOk, EndPacketFails, Dropped, Begin
<1>4. CASE Store(t)
  BY <1>4 DEF Store, sending
<1> QED
  BY <1>1, <1>2, <1>3, <1>4 DEF Inner

LEMMA SingleStep ==
  ASSUME Texts, Tallies, Single, [Next]_vars
  PROVE  Single'
<1>1. ASSUME Apart PROVE Single'
  BY <1>1, ApartFacts DEF Single
<1>2. ASSUME NEW t \in Tasks, Refuse(t) PROVE Single'
  BY <1>2, RefuseFacts DEF Single
<1>3. ASSUME NEW t \in Tasks, Admit(t) \/ LogMetric(t) PROVE Single'
  BY <1>3, ArriveFacts DEF Single
<1>4. ASSUME NEW t \in Tasks, Inner(t) PROVE Single'
  BY <1>4, InnerFacts DEF Single
<1> QED
  BY <1>1, <1>2, <1>3, <1>4, Kinds DEF Apart

\* Without an overlap no other call is behind the critical section with this one.
LEMMA InnerAlone ==
  ASSUME Texts, Tallies, Single, ~overlap, NEW t \in Tasks, Inner(t)
  PROVE  \A u \in Tasks \ {t} : pc'[u] = pc[u] /\ pc[u] \notin Behind
  BY InnerFacts DEF Single

\* The buffer, the payload and the packet are those of the one call.
LEMMA OwnTextStep ==
  ASSUME Texts, Tallies, Single, OwnText, [Next]_vars
  PROVE  OwnText'
<1>1. ASSUME Apart PROVE OwnText'
  BY <1>1, ApartFacts DEF OwnText, Behind, At
<1>2. ASSUME NEW t \in Tasks, Refuse(t) PROVE OwnText'
  BY <1>2, RefuseFacts DEF OwnText, Behind, At
<1>3. ASSUME NEW t \in Tasks, Admit(t) \/ LogMetric(t) PROVE OwnText'
  BY <1>3, ArriveFacts DEF OwnText, Behind, At, Texts
<1>4. ASSUME NEW t \in Tasks, Inner(t) PROVE OwnText'
  <2> SUFFICES ASSUME ~overlap PROVE OwnText'
    BY <1>4, InnerFacts DEF OwnText
  <2>1. \A u \in Tasks \ {t} : pc'[u] \notin Behind
    BY <1>4, InnerAlone
  <2>2. SUFFICES /\ pc'[t] \in {"format", "copy"} => buffer' = {t}
                 /\ pc'[t] \in {"copy", "send", "write"} => carry'[t] = {t}
                 /\ pc'[t] = "write" => udp' = <<>>
                 /\ pc'[t] = "end" => udp' = <<{t}>>
    BY <2>1 DEF OwnText, Behind, At
  <2>3. CASE Format(t)
    BY <2>3 DEF Format, OwnText, At, Goto, Texts
  <2>4. CASE Copy(t)
    BY <2>4 DEF Copy, OwnText, At, Goto, Texts
  <2>5. CASE Send(t)
    BY <2>5 DEF Send, OwnText, At, Goto, Texts
  <2>6. CASE Write(t)
    <3>1. udp = <<>> /\ carry[t] = {t}
      BY <2>6 DEF Write, OwnText, At
    <3>2. udp' = <<{t}>>
      BY <2>6, <3>1 DEF Write
    <3> QED
      BY <2>6, <3>2 DEF Write, Goto, Texts
  <2>7. CASE EndPacketOk(t) \/ EndPacketFails(t)
    BY <2>7 DEF EndPacketOk, EndPacketFails, Goto, Texts
  <2>8. CASE Store(t)
    BY <2>8 DEF Store, Goto, Texts
  <2> QED
    BY <1>4, <2>3, <2>4, <2>5, <2>6, <2>7, <2>8 DEF Inner
<1> QED
  BY <1>1, <1>2, <1>3, <1>4, Kinds DEF Apart

\* What the one call has read of a counter is still there when it stores.
LEMMA OwnCountStep ==
  ASSUME Texts, Tallies, Single, OwnCount, [Next]_vars
  PROVE  OwnCount'
<1>1. ASSUME Apart PROVE OwnCount'
  BY <1>1, ApartFacts DEF OwnCount, Behind, At, counters
<1>2. ASSUME NEW t \in Tasks, Refuse(t) PROVE OwnCount'
  BY <1>2, RefuseFacts DEF OwnCount, Behind, At
<1>3. ASSUME NEW t \in Tasks, Admit(t) \/ LogMetric(t) PROVE OwnCount'
  BY <1>3, ArriveFacts DEF OwnCount, Behind, At, counters
<1>4. ASSUME NEW t \in Tasks, Inner(t) PROVE OwnCount'
  <2> SUFFICES ASSUME ~overlap PROVE OwnCount'
    BY <1>4, InnerFacts DEF OwnCount
  <2>1. \A u \in Tasks \ {t} : pc'[u] \notin Behind
    BY <1>4, InnerAlone
  <2>2. SUFFICES pc'[t] = "store" =>
                   reg'[t] = IF gain'[t] = "sent" THEN logCount' ELSE droppedCount'
    BY <2>1 DEF OwnCount, Behind, At
  <2>3. CASE Format(t) \/ Copy(t) \/ Write(t) \/ Store(t)
    BY <2>3 DEF Format, Copy, Write, Store, Goto, Texts
  <2>4. CASE Send(t) \/ EndPacketOk(t) \/ EndPacketFails(t)
    BY <2>4 DEF Send, EndPacketOk, EndPacketFails, Dropped, Begin, Goto, Texts, Tallies,
                counters
  <2> QED
    BY <1>4, <2>3, <2>4 DEF Inner
<1> QED
  BY <1>1, <1>2, <1>3, <1>4, Kinds DEF Apart

\* A counter's increment is under way.
Pending(counter) == \E t \in Tasks : At(t, "store") /\ gain[t] = counter

\* The counters of calls that do not overlap are right, and so are their packets.
LEMMA AloneStep ==
  ASSUME Texts, Tallies, Single, OwnText, OwnCount, AloneIsExact, [Next]_vars
  PROVE  AloneIsExact'
<1> SUFFICES ASSUME ~overlap' PROVE AloneIsExact'
  BY DEF AloneIsExact
<1>0. ASSUME ~overlap
      PROVE  /\ ~wrong
             /\ logCount + (IF Pending("sent") THEN 1 ELSE 0) = packets
             /\ droppedCount + (IF Pending("dropped") THEN 1 ELSE 0) = drops
  BY <1>0 DEF AloneIsExact, Pending
<1> DEFINE Goal == /\ ~wrong'
                   /\ logCount' + (IF Pending("sent")' THEN 1 ELSE 0) = packets'
                   /\ droppedCount' + (IF Pending("dropped")' THEN 1 ELSE 0) = drops'
<1> SUFFICES Goal
  BY DEF AloneIsExact, Pending
<1>1. ASSUME Apart PROVE Goal
  <2>1. Pending("sent")' = Pending("sent") /\ Pending("dropped")' = Pending("dropped")
    BY <1>1, ApartFacts DEF Pending, At, Behind
  <2> QED
    BY <1>0, <1>1, <2>1, ApartFacts DEF counters
<1>2. ASSUME NEW t \in Tasks, Refuse(t) PROVE Goal
  <2>1. ~Pending("sent")' /\ ~Pending("dropped")'
    BY <1>2, RefuseFacts DEF Pending, At, Behind
  <2>2. ~Pending("sent") /\ ~Pending("dropped")
    BY <1>2, RefuseFacts DEF Pending, At, Behind, Texts
  <2> QED
    BY <1>0, <1>2, <2>1, <2>2, RefuseFacts DEF Tallies
<1>3. ASSUME NEW t \in Tasks, Admit(t) \/ LogMetric(t) PROVE Goal
  <2>1. /\ ~Pending("sent")' /\ ~Pending("dropped")'
        /\ ~Pending("sent") /\ ~Pending("dropped")
    BY <1>3, ArriveFacts DEF Pending, At, Behind
  <2> QED
    BY <1>0, <1>3, <2>1, ArriveFacts DEF Tallies, counters
<1>4. ASSUME NEW t \in Tasks, Inner(t) PROVE Goal
  <2>0. ~overlap
    BY <1>4, InnerFacts
  <2>1. \A u \in Tasks \ {t} : pc'[u] \notin Behind /\ pc[u] \notin Behind
    BY <1>4, <2>0, InnerAlone
  <2>2. /\ Pending("sent")    <=> pc[t] = "store" /\ gain[t] = "sent"
        /\ Pending("dropped") <=> pc[t] = "store" /\ gain[t] = "dropped"
    BY <2>1 DEF Pending, At, Behind
  <2>3. /\ Pending("sent")'    <=> pc'[t] = "store" /\ gain'[t] = "sent"
        /\ Pending("dropped")' <=> pc'[t] = "store" /\ gain'[t] = "dropped"
    BY <2>1 DEF Pending, At, Behind
  <2>4. CASE Format(t) \/ Copy(t) \/ Write(t)
    <3>1. pc[t] # "store" /\ pc'[t] # "store"
      BY <2>4 DEF Format, Copy, Write, At, Goto, Texts
    <3> QED
      BY <1>0, <2>0, <2>2, <2>3, <2>4, <3>1 DEF Format, Copy, Write, counters, tally
  <2>5. CASE Send(t)
    <3>1. pc[t] # "store" /\ UNCHANGED <<logCount, droppedCount, packets, wrong>>
      BY <2>5 DEF Send, At, counters
    <3>2. CASE initialized /\ listenerActive
      <4>1. pc'[t] # "store" /\ drops' = drops
        BY <2>5, <3>2 DEF Send, Goto, Texts
      <4> QED
        BY <1>0, <2>0, <2>2, <2>3, <3>1, <4>1
    <3>3. CASE ~(initialized /\ listenerActive)
      <4>1. pc'[t] = "store" /\ gain'[t] = "dropped" /\ drops' = drops + 1
        BY <2>5, <3>3 DEF Send, Goto, Dropped, Begin, Texts
      <4> QED
        BY <1>0, <2>0, <2>2, <2>3, <3>1, <4>1 DEF Tallies
    <3> QED
      BY <3>2, <3>3
  <2>6. CASE EndPacketOk(t)
    <3>1. /\ pc[t] = "end" /\ pc'[t] = "store" /\ gain'[t] = "sent"
          /\ packets' = packets + 1 /\ UNCHANGED <<logCount, droppedCount, drops>>
      BY <2>6 DEF EndPacketOk, Goto, At, Begin, counters, Texts
    <3>2. udp = <<{t}>>
      BY <2>0, <3>1 DEF OwnText, At
    <3>3. ~wrong'
      BY <1>0, <2>0, <2>6, <3>2 DEF EndPacketOk
    <3> QED
      BY <1>0, <2>0, <2>2, <2>3, <3>1, <3>3 DEF Tallies
  <2>7. CASE EndPacketFails(t)
    <3>1. /\ pc[t] = "end" /\ pc'[t] = "store" /\ gain'[t] = "dropped"
          /\ drops' = drops + 1 /\ UNCHANGED <<logCount, droppedCount, packets, wrong>>
      BY <2>7 DEF EndPacketFails, Goto, At, Dropped, Begin, counters, Texts
    <3> QED
      BY <1>0, <2>0, <2>2, <2>3, <3>1 DEF Tallies
  <2>8. CASE Store(t)
    <3>1. /\ pc[t] = "store" /\ pc'[t] = "idle" /\ UNCHANGED <<packets, drops, wrong>>
      BY <2>8 DEF Store, Goto, At, tally, Texts
    <3>2. CASE gain[t] = "sent"
      <4>1. logCount' = logCount + 1 /\ droppedCount' = droppedCount
        BY <2>0, <2>8, <3>1, <3>2 DEF Store, OwnCount, At
      <4> QED
        BY <1>0, <2>0, <2>2, <2>3, <3>1, <3>2, <4>1 DEF Tallies
    <3>3. CASE gain[t] = "dropped"
      <4>1. droppedCount' = droppedCount + 1 /\ logCount' = logCount
        BY <2>0, <2>8, <3>1, <3>3 DEF Store, OwnCount, At
      <4> QED
        BY <1>0, <2>0, <2>2, <2>3, <3>1, <3>3, <4>1 DEF Tallies
    <3> QED
      BY <3>2, <3>3 DEF Texts
  <2> QED
    BY <1>4, <2>4, <2>5, <2>6, <2>7, <2>8 DEF Inner
<1> QED
  BY <1>1, <1>2, <1>3, <1>4, Kinds DEF Apart

-----------------------------------------------------------------------------
(***************************************************************************)
(* The invariant.                                                          *)
(***************************************************************************)

\* It holds before the log is started.
LEMMA InitInv == Init => IInv
<1> SUFFICES ASSUME Init PROVE IInv
  OBVIOUS
<1>0. Flags
  BY DEF Init, Flags
<1>1. Clock
  BY DEF Init, Clock
<1>2. Numbers /\ Tallies
  BY DEF Init, Numbers, Tallies
<1>3. Texts /\ Packet
  BY DEF Init, Texts, Packet, Places, Behind
<1>4. \A t \in Tasks : pc[t] = "idle"
  BY DEF Init
<1>5. Stale /\ Justified /\ Bounded /\ Spread
  BY DEF Init, Stale, Justified, Bounded, Spread, StartOf, SecondOf, LastSecond
<1>6. Single /\ OwnText /\ OwnCount
  BY <1>4 DEF Single, OwnText, OwnCount, Behind, At
<1>7. AloneIsExact
  BY <1>4 DEF Init, AloneIsExact, At
<1> QED
  BY <1>0, <1>1, <1>2, <1>3, <1>5, <1>6, <1>7 DEF IInv, Types

\* Types: what the tasks do with the texts ...
LEMMA TextsStep ==
  ASSUME Texts, [Next]_vars
  PROVE  Texts'
<1> USE DEF Texts, Places, Behind, At, Goto
<1>1. ASSUME Object PROVE Texts'
  BY <1>1 DEF Object, Discover, EndLog, BeginLog, vars, sending
<1>2. ASSUME Tick PROVE Texts'
  BY <1>2 DEF Tick, sending
<1>3. ASSUME NEW t \in Tasks, Private(t) \/ Resets(t) \/ Refuse(t) PROVE Texts'
  BY <1>3 DEF Private, Resets, Logf, Unheard, ResetRateLimit, ResetCount, Refuse, sending
<1>4. ASSUME NEW t \in Tasks, Admit(t) \/ LogMetric(t) PROVE Texts'
  BY <1>4 DEF Admit, LogMetric
<1>5. ASSUME NEW t \in Tasks, Inner(t) PROVE Texts'
  <2>1. CASE Format(t) \/ Copy(t)
    BY <2>1 DEF Format, Copy
  <2>2. CASE Send(t)
    BY <2>2 DEF Send, Dropped, Begin
  <2>3. CASE Write(t) \/ EndPacketOk(t) \/ EndPacketFails(t)
    BY <2>3 DEF Write, EndPacketOk, EndPacketFails, Dropped, Begin
  <2>4. CASE Store(t)
    BY <2>4 DEF Store, sending
  <2> QED
    BY <1>5, <2>1, <2>2, <2>3, <2>4 DEF Inner
<1> QED
  BY <1>1, <1>2, <1>3, <1>4, <1>5, Kinds

\* ... and with the packet ...
LEMMA PacketStep ==
  ASSUME Packet, Texts, [Next]_vars
  PROVE  Packet'
<1>1. udp' = udp \/ udp' = <<>> \/ \E t \in Tasks : udp' = Append(udp, carry[t])
  BY DEF Next, Task, Logf, Unheard, Refuse, Admit, Format, Copy, LogMetric, Send, Write,
         EndPacketOk, EndPacketFails, Store, ResetRateLimit, ResetCount, Discover, EndLog,
         BeginLog, Tick, vars, sending
<1>2. ASSUME NEW t \in Tasks, udp' = Append(udp, carry[t]) PROVE Packet'
  <2>1. carry[t] \in SUBSET Tasks
    BY DEF Texts
  <2> QED
    BY <1>2, <2>1 DEF Packet
<1>3. <<>> \in Seq(SUBSET Tasks)
  OBVIOUS
<1>4. ASSUME udp' = udp PROVE Packet'
  BY <1>4 DEF Packet
<1>5. ASSUME udp' = <<>> PROVE Packet'
  BY <1>3, <1>5 DEF Packet
<1> QED
  BY <1>1, <1>2, <1>4, <1>5

\* ... with the clock and the limiter ...
LEMMA ClockStep ==
  ASSUME Clock, Texts, [Next]_vars
  PROVE  Clock'
<1>1. ASSUME Quiet PROVE Clock'
  BY <1>1, QuietFacts DEF Clock
<1>2. ASSUME Tick PROVE Clock'
  BY <1>2, TickFacts DEF Clock
<1>3. ASSUME NEW t \in Tasks, Refuse(t) \/ Admit(t) PROVE Clock'
  BY <1>3, LimiterKeepsReset DEF Refuse, Admit, WindowFrom, AgeFrom, Clock
<1>4. ASSUME NEW t \in Tasks, Resets(t) PROVE Clock'
  BY <1>4 DEF Resets, ResetRateLimit, ResetCount, limits, Clock
<1> QED
  BY <1>1, <1>2, <1>3, <1>4, Kinds DEF Quiet

LEMMA NumbersStep ==
  ASSUME Numbers, Texts, [Next]_vars
  PROVE  Numbers'
<1>0. calls' \in 0 .. MaxCalls /\ faults' \in 0 .. MaxFaults
  <2>1. \/ UNCHANGED <<calls, faults>> \/ Call \/ Fault
    BY DEF Next, Task, Logf, Unheard, Refuse, Admit, Format, Copy, LogMetric, Send, Write,
           EndPacketOk, EndPacketFails, Store, ResetRateLimit, ResetCount, Discover, EndLog,
           BeginLog, Tick, vars, bounds
  <2> QED
    BY <2>1 DEF Numbers, Call, Fault
<1> DEFINE Rest == count' \in 0 .. Limit /\ inWindow' \in Nat /\ burst' \in [1 .. Second -> Nat]
<1>1. ASSUME Quiet PROVE Rest
  BY <1>1, QuietFacts DEF Numbers
<1>2. ASSUME Tick PROVE Rest
  <2>1. burst' \in [1 .. Second -> Nat]
    BY <1>2 DEF Tick, Numbers
  <2> QED
    BY <1>2, <2>1 DEF Tick, Numbers, limiter
<1>3. ASSUME NEW t \in Tasks, Refuse(t) PROVE Rest
  BY <1>3 DEF Refuse, Counted, Numbers
<1>4. ASSUME NEW t \in Tasks, Admit(t) PROVE Rest
  BY <1>4 DEF Admit, Counted, Exhausted, Numbers
<1>5. ASSUME NEW t \in Tasks, Resets(t) PROVE Rest
  BY <1>5 DEF Resets, ResetRateLimit, ResetCount, limits, Numbers
<1> QED
  BY <1>0, <1>1, <1>2, <1>3, <1>4, <1>5, Kinds DEF Quiet, Numbers

\* ... with the counters ...
LEMMA TalliesStep ==
  ASSUME Tallies, Texts, [Next]_vars
  PROVE  Tallies'
<1>1. ASSUME Apart PROVE Tallies'
  BY <1>1, ApartFacts DEF Tallies, counters
<1>2. ASSUME NEW t \in Tasks, Refuse(t) PROVE Tallies'
  BY <1>2, RefuseFacts DEF Tallies, sending
<1>3. ASSUME NEW t \in Tasks, Admit(t) \/ LogMetric(t) PROVE Tallies'
  BY <1>3, ArriveFacts DEF Tallies, counters
<1>4. ASSUME NEW t \in Tasks, Inner(t) PROVE Tallies'
  BY <1>4 DEF Inner, Format, Copy, Send, Write, EndPacketOk, EndPacketFails, Store, Dropped,
              Begin, counters, sending, tally, Tallies
<1> QED
  BY <1>1, <1>2, <1>3, <1>4, Kinds DEF Apart

\* ... and with the flags.
LEMMA FlagsStep ==
  ASSUME Flags, Texts, [Next]_vars
  PROVE  Flags'
<1>1. ASSUME Object PROVE Flags'
  BY <1>1 DEF Object, Discover, EndLog, BeginLog, vars, tally, Flags
<1>2. ASSUME Tick PROVE Flags'
  BY <1>2 DEF Tick, tally, Flags
<1>3. ASSUME NEW t \in Tasks, Private(t) \/ Resets(t) PROVE Flags'
  BY <1>3 DEF Private, Resets, Logf, Unheard, ResetRateLimit, ResetCount, tally, Flags
<1>4. ASSUME NEW t \in Tasks, Refuse(t) \/ Admit(t) \/ LogMetric(t) PROVE Flags'
  BY <1>4 DEF Refuse, Admit, LogMetric, Overlaps, Flags
<1>5. ASSUME NEW t \in Tasks, Inner(t) PROVE Flags'
  BY <1>5 DEF Inner, Format, Copy, Send, Write, EndPacketOk, EndPacketFails, Store, tally,
              Flags
<1> QED
  BY <1>1, <1>2, <1>3, <1>4, <1>5, Kinds

\* Every step preserves the invariant, part by part.
LEMMA StepInv == IInv /\ [Next]_vars => IInv'
<1> SUFFICES ASSUME IInv, [Next]_vars PROVE IInv'
  OBVIOUS
<1>1. Types'
  BY TextsStep, PacketStep, ClockStep, NumbersStep, TalliesStep, FlagsStep DEF IInv, Types
<1>2. Stale' /\ Justified' /\ Bounded' /\ Spread'
  BY StaleStep, JustifiedStep, BoundedStep, SpreadStep DEF IInv, Types
<1>3. Single' /\ OwnText' /\ OwnCount' /\ AloneIsExact'
  BY SingleStep, OwnTextStep, OwnCountStep, AloneStep DEF IInv, Types
<1> QED
  BY <1>1, <1>2, <1>3 DEF IInv

\* The invariant of the Arduino logging calls.
THEOREM Invariance == Spec => []IInv
  BY InitInv, StepInv, PTL DEF Spec

\* Every variable keeps its type; in particular the limiter never counts above
\* the limit (ESPIoTLog.cpp:345).
THEOREM TypeCorrect == Spec => []TypeOK
<1>1. IInv => TypeOK
  BY TypeParts DEF IInv
<1> QED
  BY <1>1, Invariance, PTL

\* Between two resets no more than Limit messages are let through in a second of the
\* clock, no more than twice as many in any stretch as long as a second, and three
\* times as many where millis() starts again (ESPIoTLog.cpp:335-357).
THEOREM RateIsLimited == Spec => []RateLimited
<1>1. ASSUME IInv PROVE RateLimited
  <2> USE <1>1 DEF IInv, Types
  <2>1. Resetting \/ inWindow <= Limit
    BY DEF Numbers, Bounded
  <2>2. StartOf(now) \in Nat /\ StartOf(now) <= now /\ now < StartOf(now) + Second
    BY StartIsNear DEF Clock
  <2>3. Resetting \/ IF Second <= now - StartOf(now) + 1 THEN burst[Second] <= inWindow
        ELSE IF Second <= now + 1 THEN burst[Second] <= inWindow + Limit
        ELSE \/ burst[Second] <= inWindow + Limit \/ burst[Second] <= inWindow + 2 * Limit
    BY DEF Spread
  <2>4. burst[Second] \in Nat
    BY DEF Numbers
  <2> QED
    BY <2>1, <2>2, <2>3, <2>4 DEF RateLimited, Clock, Numbers
<1> QED
  BY <1>1, Invariance, PTL

\* The limiter drops a message only when the limit is used up in this second, or
\* its window is older than almost the whole range of millis(), or a reset is
\* under way (ESPIoTLog.cpp:345-355).
THEOREM OnlyExcessIsDropped == Spec => DropsJustified
<1> DEFINE Drop == \A t \in Tasks : At(t, "enter") /\ pc'[t] = "idle" /\ drops' > drops
                        => inWindow >= Limit \/ age > Wrap - Second \/ Resetting
<1>1. IInv /\ [Next]_vars => Drop
  <2> SUFFICES ASSUME IInv, [Next]_vars,
                      NEW t \in Tasks, pc[t] = "enter", pc'[t] = "idle", drops' > drops
               PROVE  inWindow >= Limit \/ age > Wrap - Second \/ Resetting
    BY DEF At
  <2> USE DEF IInv, Types
  <2>1. drops \in Nat
    BY DEF Tallies
  <2>2. ~Apart
    BY <2>1, ApartFacts
  <2>3. ASSUME NEW u \in Tasks, Admit(u) \/ LogMetric(u) PROVE FALSE
    BY <2>1, <2>3, ArriveFacts
  <2>4. ASSUME NEW u \in Tasks, Inner(u) PROVE FALSE
    BY <2>4, InnerFacts DEF Behind
  <2>5. \E u \in Tasks : Refuse(u)
    BY <2>2, <2>3, <2>4, Kinds DEF Apart
  <2>6. Exhausted
    BY <2>5 DEF Refuse
  <2>7. SameWindow /\ count >= Limit
    BY <2>6 DEF Exhausted, Counted
  <2> QED
    BY <2>7 DEF Justified, Numbers
<1>2. Spec => [][Drop]_vars
  BY <1>1, Invariance, PTL DEF Spec
<1> QED
  BY <1>2 DEF DropsJustified

\* As long as no two calls overlap each packet is its sender's message alone and
\* the counters are exact (ESPIoTLog.cpp:359-367, 495-565).
THEOREM ExactWhenAlone == Spec => []AloneIsExact
<1>1. IInv => AloneIsExact
  BY DEF IInv
<1> QED
  BY <1>1, Invariance, PTL
=============================================================================
