------------------------- MODULE EspIdfIotLog_proofs -------------------------
(***************************************************************************)
(* Proofs about EspIdfIotLog, for any intervals and however init, deinit,  *)
(* polls and messages come between each other: what the device comes to    *)
(* believe, that it implements the abstract discovery, that a forced       *)
(* discovery is the next one, and, for one task that logs, the books of    *)
(* its messages.                                                           *)
(*                                                                         *)
(* A device that is wrong about the receiver has been undisturbed no       *)
(* longer than its last query is old (Knows), and where polls follow each  *)
(* other closely no query gets old (QueryDue).                             *)
(***************************************************************************)
EXTENDS EspIdfIotLog, WellFoundedInduction, TLAPS

USE EspIdfAssumption DEF EspIdfAssumption

\* The parts of TypeOK.
Flags ==
    /\ initialised \in BOOLEAN /\ listenerActive \in BOOLEAN
    /\ disableMdns \in BOOLEAN /\ unicastActive \in BOOLEAN
    /\ found \in BOOLEAN /\ polled \in BOOLEAN /\ receiverUp \in BOOLEAN
    /\ forced \in BOOLEAN /\ reset \in BOOLEAN /\ mixed \in BOOLEAN

Places ==
    /\ sock \in {"none", "open", "closed"}
    /\ poll \in {"idle", "query", "stamp", "backoff"}
    /\ send \in [Senders -> {"idle", "gate", "unicast", "multicast", "load", "store"}]
    /\ ok \in [Senders -> BOOLEAN]

Ages ==
    /\ sinceDiscovery \in Age /\ sinceQuery \in Age
    /\ failures \in 0 .. AgeCap /\ steadyFor \in 0 .. AgeCap

Interval == interval \in ConfigIntervals \cup {0} \cup MinInterval .. MaxInterval

Numbers ==
    /\ sent \in Nat /\ dropped \in Nat /\ seen \in [Senders -> Nat]
    /\ faults \in 0 .. MaxFaults /\ attempts \in 0 .. MaxMessages

Types == Flags /\ Places /\ Ages /\ Interval /\ Numbers

\* Once a query is stamped the interval is one that Backoff left; what the
\* application configured holds for the first query only.
Backed == sinceDiscovery = Never \/ poll = "backoff" \/ interval \in 0 .. MaxInterval

\* A forced discovery is still to come.
Forced == forced => poll = "idle" /\ sinceDiscovery = Never

\* The log is in use, and discovers.
Discovers == initialised /\ ~disableMdns

\* Where there was a poll in this tick and in the last one no query is due.
QueryDue ==
    Discovers /\ poll \in {"idle", "backoff"} /\ polled /\ steadyFor > 0
        => sinceDiscovery # Never /\ sinceDiscovery < MaxInterval

\* The calm has only begun.
Fresh == steadyFor = 0 \/ (steadyFor = 1 /\ ~polled)

\* Who does not know of the receiver has asked before the calm began.
Knows ==
    Discovers /\ poll # "query" =>
        \/ listenerActive = receiverUp \/ Fresh
        \/ poll # "stamp" /\ sinceDiscovery # Never /\ steadyFor <= sinceDiscovery + 1

\* The stamp is no older than the query it was made for, and where there is none
\* discovery was reset, or a query is about to be stamped.
QueryAge ==
    /\ poll # "idle" => sinceQuery # Never
    /\ sinceDiscovery = Never =>
           sinceQuery = Never \/ reset \/ poll \in {"query", "stamp"}
    /\ sinceDiscovery # Never /\ poll \in {"idle", "backoff"} =>
           sinceQuery # Never /\ sinceDiscovery <= sinceQuery

\* The interval has doubled as often as queries failed since the first one.
Doubling == failures > 0 => interval >= Least(Abstract!Doubled[failures - 1], MaxInterval)

IInv == Types /\ Backed /\ Forced /\ QueryDue /\ Knows /\ QueryAge /\ Doubling

\* The parts make up the type invariant.
LEMMA TypeParts ==
  ASSUME Types
  PROVE  TypeOK
  BY DEF Types, TypeOK, Flags, Places, Ages, Interval, Numbers

-----------------------------------------------------------------------------
(***************************************************************************)
(* The interval that doubles.  Nothing is known of a recursive function    *)
(* until there is one: it is pieced together from those that double up to  *)
(* some n, by induction.                                                   *)
(***************************************************************************)

\* The smaller of two numbers comes first.
Less == {p \in Nat \X Nat : p[1] < p[2]}

\* Induction over the numbers, for sets: what holds 0 and every next number holds all.
LEMMA Induction ==
  ASSUME NEW S, 0 \in S, \A n \in Nat : n \in S => n + 1 \in S
  PROVE  Nat \subseteq S
<1>1. IsWellFoundedOn(Less, Nat)
  BY NatLessThanWellFounded, Zenon DEF OpToRel, Less
<1> SUFFICES ASSUME Nat \ S # {} PROVE FALSE
  OBVIOUS
<1>2. PICK n \in Nat \ S : \A m \in Nat \ S : <<m, n>> \notin Less
  BY <1>1, WFMin
<1>3. n - 1 \in Nat /\ n - 1 \notin S
  OBVIOUS
<1>4. <<n - 1, n>> \in Less
  BY <1>3 DEF Less
<1> QED
  BY <1>2, <1>3, <1>4

\* g doubles the interval n times.
Doubles(g, n) == g[0] = MinInterval /\ \A i \in 1 .. n : g[i] = 2 * g[i - 1]

\* There is one way to do so ...
LEMMA DoublesOnce ==
  ASSUME NEW n \in Nat, NEW g, NEW h, Doubles(g, n), Doubles(h, n)
  PROVE  g[n] = h[n]
<1> DEFINE S == {k \in Nat : k <= n => g[k] = h[k]}
<1>1. 0 \in S
  BY DEF Doubles
<1>2. ASSUME NEW k \in Nat, k \in S PROVE k + 1 \in S
  <2> SUFFICES ASSUME k + 1 <= n PROVE g[k + 1] = h[k + 1]
    OBVIOUS
  <2>1. k + 1 \in 1 .. n /\ (k + 1) - 1 = k /\ g[k] = h[k]
    BY <1>2
  <2>2. g[k + 1] = 2 * g[k] /\ h[k + 1] = 2 * h[k]
    BY <2>1 DEF Doubles
  <2> QED
    BY <2>1, <2>2
<1> HIDE DEF S
<1>3. Nat \subseteq S
  BY <1>1, <1>2, Induction
<1> QED
  BY <1>3 DEF S

\* ... and it can be done.
LEMMA CanDouble ==
  ASSUME NEW n \in Nat
  PROVE  \E g : Doubles(g, n)
<1> DEFINE S == {k \in Nat : \E g : Doubles(g, k)}
<1>1. 0 \in S
  <2>1. Doubles([i \in {0} |-> MinInterval], 0)
    BY DEF Doubles
  <2> QED
    BY <2>1
<1>2. ASSUME NEW k \in Nat, k \in S PROVE k + 1 \in S
  <2>1. PICK g : Doubles(g, k)
    BY <1>2
  <2> DEFINE h == [i \in 0 .. k + 1 |-> IF i = k + 1 THEN 2 * g[k] ELSE g[i]]
  <2>2. h[0] = MinInterval
    BY <2>1 DEF Doubles
  <2>3. ASSUME NEW i \in 1 .. k + 1 PROVE h[i] = 2 * h[i - 1]
    <3>1. i \in 0 .. k + 1 /\ i - 1 \in 0 .. k + 1 /\ i - 1 # k + 1
      OBVIOUS
    <3>2. h[i - 1] = g[i - 1]
      BY <3>1
    <3>3. CASE i = k + 1
      BY <3>1, <3>2, <3>3
    <3>4. CASE i # k + 1
      <4>1. i \in 1 .. k /\ h[i] = g[i]
        BY <3>1, <3>4
      <4> QED
        BY <2>1, <3>2, <4>1 DEF Doubles
    <3> QED
      BY <3>3, <3>4
  <2> HIDE DEF h
  <2>4. Doubles(h, k + 1)
    BY <2>2, <2>3 DEF Doubles
  <2> QED
    BY <2>4
<1> HIDE DEF S
<1>3. Nat \subseteq S
  BY <1>1, <1>2, Induction
<1> QED
  BY <1>3 DEF S

\* So the recursion of Doubled defines it,
LEMMA DoubledIs ==
  Abstract!Doubled = [n \in Nat |-> IF n = 0 THEN MinInterval ELSE 2 * Abstract!Doubled[n - 1]]
<1> DEFINE G(n) == CHOOSE g : Doubles(g, n)
           f == [n \in Nat |-> G(n)[n]]
<1>1. ASSUME NEW n \in Nat PROVE Doubles(G(n), n)
  BY CanDouble
<1> HIDE DEF G
<1>2. ASSUME NEW n \in Nat PROVE f[n] = IF n = 0 THEN MinInterval ELSE 2 * f[n - 1]
  <2>1. CASE n = 0
    BY <1>1, <2>1 DEF Doubles
  <2>2. CASE n # 0
    <3>1. n - 1 \in Nat /\ n \in 1 .. n /\ 1 .. n - 1 \subseteq 1 .. n
      BY <2>2
    <3>2. Doubles(G(n), n - 1) /\ Doubles(G(n - 1), n - 1)
      BY <1>1, <3>1 DEF Doubles
    <3>3. G(n)[n - 1] = G(n - 1)[n - 1]
      BY <3>1, <3>2, DoublesOnce
    <3>4. G(n)[n] = 2 * G(n)[n - 1]
      BY <1>1, <3>1 DEF Doubles
    <3> QED
      BY <2>2, <3>1, <3>3, <3>4
  <2> QED
    BY <2>1, <2>2
<1>3. f = [n \in Nat |-> IF n = 0 THEN MinInterval ELSE 2 * f[n - 1]]
  <2>1. f = [n \in Nat |-> f[n]]
    OBVIOUS
  <2> HIDE DEF f
  <2> QED
    BY <1>2, <2>1, Zenon
<1> HIDE DEF f
<1>4. \E g : g = [n \in Nat |-> IF n = 0 THEN MinInterval ELSE 2 * g[n - 1]]
  BY <1>3
<1> QED
  BY <1>4, Zenon DEF Abstract!Doubled

\* and these are its values.
LEMMA DoubledFacts ==
  /\ Abstract!Doubled[0] = MinInterval
  /\ \A n \in Nat :
         Abstract!Doubled[n] \in Nat /\ Abstract!Doubled[n + 1] = 2 * Abstract!Doubled[n]
<1>1. Abstract!Doubled[0] = MinInterval
  BY DoubledIs
<1>2. ASSUME NEW n \in Nat PROVE Abstract!Doubled[n + 1] = 2 * Abstract!Doubled[n]
  <2>1. n + 1 \in Nat /\ n + 1 # 0 /\ (n + 1) - 1 = n
    OBVIOUS
  <2> QED
    BY <2>1, DoubledIs
<1> DEFINE S == {n \in Nat : Abstract!Doubled[n] \in Nat}
<1>3. 0 \in S /\ \A n \in Nat : n \in S => n + 1 \in S
  BY <1>1, <1>2
<1> HIDE DEF S
<1>4. Nat \subseteq S
  BY <1>3, Induction
<1> QED
  BY <1>1, <1>2, <1>4 DEF S
-----------------------------------------------------------------------------
(***************************************************************************)
(* Kinds of steps.                                                         *)
(***************************************************************************)

\* The steps that begin the log's state anew.
Opens == IotLogInit \/ IotLogInitFails

\* Every step is of one of these kinds.
LEMMA Kinds ==
  ASSUME [Next]_vars
  PROVE  \/ Opens \/ CloseSocket \/ IotLogDeinit \/ ForceDiscovery
         \/ PollQuiet \/ PollQuery \/ Answered \/ AnswerLost \/ Stamp \/ Backoff
         \/ Turn \/ Tick \/ UNCHANGED vars
         \/ \E s \in Senders : Sender(s)
  BY DEF Next, Application, Poller, Opens

\* A sender leaves discovery alone.
LEMMA SenderFacts ==
  ASSUME NEW s \in Senders, Sender(s)
  PROVE  /\ UNCHANGED <<initialised, listenerActive, disableMdns, unicastActive, sock>>
         /\ UNCHANGED <<sinceDiscovery, interval, poll, found, polled>>
         /\ UNCHANGED <<receiverUp, faults, sinceQuery, failures, forced, reset, steadyFor>>
         /\ UNCHANGED mixed
  BY DEF Sender, Log, Gate, SendUnicast, SendMulticast, Load, Store, config, discovery,
         polling, network, pace, account

\* The other tasks leave the senders alone, and but for opening the log the books.
LEMMA OtherFacts ==
  ASSUME \/ CloseSocket \/ IotLogDeinit \/ ForceDiscovery
         \/ PollQuiet \/ PollQuery \/ Answered \/ AnswerLost \/ Stamp \/ Backoff
         \/ Turn \/ Tick \/ UNCHANGED vars
  PROVE  /\ UNCHANGED <<sent, dropped, attempts, mixed, send, ok, seen>>
         /\ UNCHANGED <<disableMdns, unicastActive>>
  BY DEF CloseSocket, IotLogDeinit, ForceDiscovery, PollQuiet, PollQuery, Answered, AnswerLost,
         Learn, Stamp, Backoff, Turn, Tick, vars, counts, account, sending, config

\* Opening the log.
LEMMA OpensFacts ==
  ASSUME Opens
  PROVE  /\ listenerActive' = FALSE /\ sinceDiscovery' = Never /\ steadyFor' = 0 /\ failures' = 0
         /\ forced' = FALSE /\ reset' = TRUE
         /\ disableMdns' \in BOOLEAN /\ unicastActive' \in BOOLEAN
         /\ interval' \in ConfigIntervals \cup {MinInterval}
         /\ sent' = 0 /\ dropped' = 0 /\ attempts' = 0
         /\ mixed' = (\E s \in Senders : send[s] # "idle")
         /\ UNCHANGED <<poll, found, polled, send, ok, seen, receiverUp, sinceQuery>>
  BY DEF Opens, IotLogInit, IotLogInitFails, Configure, polling, sending

-----------------------------------------------------------------------------
(***************************************************************************)
(* Types.                                                                  *)
(***************************************************************************)

LEMMA FlagsStep ==
  ASSUME Flags, [Next]_vars
  PROVE  Flags'
<1> USE DEF Flags
<1>1. ASSUME Opens PROVE Flags'
  <2>1. initialised' \in BOOLEAN
    BY <1>1 DEF Opens, IotLogInit, IotLogInitFails
  <2>2. mixed' \in BOOLEAN
    BY <1>1, OpensFacts
  <2> QED
    BY <1>1, <2>1, <2>2, OpensFacts
<1>2. ASSUME CloseSocket \/ IotLogDeinit PROVE Flags'
  BY <1>2 DEF CloseSocket, IotLogDeinit, config, polling, network, pace, account
<1>3. ASSUME ForceDiscovery PROVE Flags'
  BY <1>3 DEF ForceDiscovery, config, polling, account
<1>4. ASSUME PollQuiet \/ PollQuery PROVE Flags'
  BY <1>4 DEF PollQuiet, PollQuery, config, network, pace, account
<1>5. ASSUME Stamp \/ Backoff PROVE Flags'
  <2>1. CASE Stamp
    BY <2>1 DEF Stamp, config, network, pace, account
  <2>2. CASE Backoff
    BY <2>2 DEF Backoff, config, network, account
  <2> QED
    BY <1>5, <2>1, <2>2
<1>6. ASSUME Answered \/ AnswerLost PROVE Flags'
  BY <1>6 DEF Answered, AnswerLost, Learn, config, account
<1>7. ASSUME Turn \/ UNCHANGED vars PROVE Flags'
  <2>1. CASE Turn
    BY <2>1 DEF Turn, config, polling, account
  <2>2. CASE UNCHANGED vars
    BY <2>2 DEF vars, config, polling, network, pace, account
  <2> QED
    BY <1>7, <2>1, <2>2
<1>8. ASSUME Tick PROVE Flags'
  BY <1>8 DEF Tick, config, network, account
<1>9. ASSUME NEW s \in Senders, Sender(s) PROVE Flags'
  BY <1>9, SenderFacts
<1> QED
  BY <1>1, <1>2, <1>3, <1>4, <1>5, <1>6, <1>7, <1>8, <1>9, Kinds

LEMMA PlacesStep ==
  ASSUME Flags, Places, [Next]_vars
  PROVE  Places'
<1> USE DEF Places
<1>1. sock' \in {"none", "open", "closed"} /\ poll' \in {"idle", "query", "stamp", "backoff"}
  <2>1. ASSUME NEW s \in Senders, Sender(s)
        PROVE  UNCHANGED <<sock, poll>>
    BY <2>1, SenderFacts
  <2> QED
    BY <2>1, Kinds DEF Opens, IotLogInit, IotLogInitFails, Configure, CloseSocket,
       IotLogDeinit, ForceDiscovery, PollQuiet, PollQuery, Answered, AnswerLost, Learn, Stamp,
       Backoff, Turn, Tick, vars, polling
<1> DEFINE Sending ==
       /\ send' \in [Senders -> {"idle", "gate", "unicast", "multicast", "load", "store"}]
       /\ ok' \in [Senders -> BOOLEAN]
<1>2. ASSUME NEW s \in Senders, Sender(s) PROVE Sending
  <2> USE DEF Flags, SendTo
  <2>1. CASE Log(s) \/ Gate(s) \/ Load(s)
    BY <2>1 DEF Log, Gate, Load
  <2>2. CASE SendUnicast(s) \/ SendMulticast(s)
    BY <2>2 DEF SendUnicast, SendMulticast, Sendto
  <2>3. CASE Store(s)
    BY <2>3 DEF Store, Return
  <2> QED
    BY <1>2, <2>1, <2>2, <2>3 DEF Sender
<1>3. ASSUME ~(\E s \in Senders : Sender(s)) PROVE Sending
  <2>1. UNCHANGED <<send, ok>>
    BY <1>3, Kinds, OpensFacts, OtherFacts
  <2> QED
    BY <2>1
<1> QED
  BY <1>1, <1>2, <1>3

\* An age stays one when it grows.
LEMMA OlderIs ==
  ASSUME NEW age \in Age
  PROVE  /\ Older(age) \in Age
         /\ age = Never => Older(age) = Never
         /\ age # Never => /\ age \in 0 .. AgeCap /\ Older(age) # Never
                           /\ (age < AgeCap /\ Older(age) = age + 1)
                              \/ (age = AgeCap /\ Older(age) = AgeCap)
  BY DEF Older, Age, Never, Least

LEMMA AgesStep ==
  ASSUME Ages, [Next]_vars
  PROVE  Ages'
<1>1. sinceDiscovery' \in Age /\ sinceQuery' \in Age
  <2>1. /\ \/ sinceDiscovery' = sinceDiscovery \/ sinceDiscovery' = 0
           \/ sinceDiscovery' = Never \/ sinceDiscovery' = Older(sinceDiscovery)
        /\ \/ sinceQuery' = sinceQuery \/ sinceQuery' = 0 \/ sinceQuery' = Older(sinceQuery)
    BY Kinds, OpensFacts, SenderFacts
       DEF CloseSocket, IotLogDeinit, ForceDiscovery, PollQuiet, PollQuery, Answered,
           AnswerLost, Learn, Stamp, Backoff, Turn, Tick, vars, discovery, pace
  <2> QED
    BY <2>1, OlderIs DEF Ages, Age
<1>2. failures' \in 0 .. AgeCap
  <2>1. failures' = failures \/ failures' = 0 \/ failures' = Least(failures + 1, AgeCap)
    BY Kinds, OpensFacts, SenderFacts
       DEF CloseSocket, IotLogDeinit, ForceDiscovery, PollQuiet, PollQuery, Answered,
           AnswerLost, Learn, Stamp, Backoff, Turn, Tick, vars, pace
  <2> QED
    BY <2>1 DEF Least, Ages
<1>3. steadyFor' \in 0 .. AgeCap
  <2>1. steadyFor' = steadyFor \/ steadyFor' = 0 \/ steadyFor' = Older(steadyFor)
    BY Kinds, OpensFacts, SenderFacts
       DEF CloseSocket, IotLogDeinit, ForceDiscovery, PollQuiet, PollQuery, Answered,
           AnswerLost, Learn, Stamp, Backoff, Turn, Tick, vars, pace
  <2> QED
    BY <2>1 DEF Older, Least, Never, Ages
<1> QED
  BY <1>1, <1>2, <1>3 DEF Ages

\* What Backoff leaves is within the bounds.
LEMMA NextIntervalIs ==
  ASSUME Interval
  PROVE  NextInterval \in MinInterval .. MaxInterval
<1>1. interval \in Nat
  BY DEF Interval
<1> QED
  BY <1>1 DEF NextInterval, Greatest, Least

LEMMA IntervalStep ==
  ASSUME Interval, [Next]_vars
  PROVE  Interval'
<1>1. \/ interval' = interval \/ interval' = MinInterval \/ interval' = NextInterval
      \/ interval' \in ConfigIntervals
  BY Kinds, OpensFacts, SenderFacts
     DEF CloseSocket, IotLogDeinit, ForceDiscovery, PollQuiet, PollQuery, Answered,
         AnswerLost, Learn, Stamp, Backoff, Turn, Tick, vars, discovery
<1> QED
  BY <1>1, NextIntervalIs DEF Interval

LEMMA NumbersStep ==
  ASSUME Numbers, Places, [Next]_vars
  PROVE  Numbers'
<1>1. faults' \in 0 .. MaxFaults
  <2>1. faults' = faults \/ Fault
    BY Kinds, SenderFacts
       DEF Opens, IotLogInit, IotLogInitFails, CloseSocket, IotLogDeinit, ForceDiscovery,
           PollQuiet, PollQuery, Answered, AnswerLost, Learn, Stamp, Backoff, Turn, Tick,
           vars, network
  <2> QED
    BY <2>1 DEF Fault, Numbers
<1> DEFINE Books == /\ sent' \in Nat /\ dropped' \in Nat /\ seen' \in [Senders -> Nat]
                    /\ attempts' \in 0 .. MaxMessages
<1>2. ASSUME NEW s \in Senders, Sender(s) PROVE Books
  <2> USE DEF Numbers, Places
  <2>1. CASE Log(s)
    BY <2>1 DEF Log, counts
  <2>2. CASE Gate(s) \/ SendUnicast(s) \/ SendMulticast(s)
    BY <2>2 DEF Gate, SendUnicast, SendMulticast, counts, account
  <2>3. CASE Load(s)
    BY <2>3 DEF Load, counts, account
  <2>4. CASE Store(s)
    BY <2>4 DEF Store, Return, account
  <2> QED
    BY <1>2, <2>1, <2>2, <2>3, <2>4 DEF Sender
<1>3. ASSUME ~(\E s \in Senders : Sender(s)) PROVE Books
  <2>1. CASE Opens
    <3>1. sent' = 0 /\ dropped' = 0 /\ attempts' = 0 /\ seen' = seen
      BY <2>1, OpensFacts
    <3> QED
      BY <3>1 DEF Numbers
  <2>2. CASE ~Opens
    <3>1. UNCHANGED <<sent, dropped, seen, attempts>>
      BY <1>3, <2>2, Kinds, OtherFacts
    <3> QED
      BY <3>1 DEF Numbers
  <2> QED
    BY <2>1, <2>2
<1> QED
  BY <1>1, <1>2, <1>3 DEF Numbers

-----------------------------------------------------------------------------
(***************************************************************************)
(* Discovery.                                                              *)
(***************************************************************************)

LEMMA BackedStep ==
  ASSUME Ages, Interval, Backed, [Next]_vars
  PROVE  Backed'
<1> USE DEF Backed
<1>1. ASSUME Opens \/ ForceDiscovery PROVE Backed'
  BY <1>1, OpensFacts DEF ForceDiscovery
<1>2. ASSUME Stamp PROVE Backed'
  BY <1>2 DEF Stamp
<1>3. ASSUME Backoff PROVE Backed'
  BY <1>3, NextIntervalIs DEF Backoff
<1>4. ASSUME CloseSocket \/ IotLogDeinit \/ PollQuiet \/ PollQuery PROVE Backed'
  BY <1>4 DEF CloseSocket, IotLogDeinit, PollQuiet, PollQuery, discovery, polling
<1>5. ASSUME Answered \/ AnswerLost \/ Turn \/ UNCHANGED vars PROVE Backed'
  BY <1>5 DEF Answered, AnswerLost, Learn, Turn, vars, discovery, polling
<1>6. ASSUME Tick PROVE Backed'
  BY <1>6, OlderIs DEF Tick, Ages
<1>7. ASSUME NEW s \in Senders, Sender(s) PROVE Backed'
  BY <1>7, SenderFacts
<1> QED
  BY <1>1, <1>2, <1>3, <1>4, <1>5, <1>6, <1>7, Kinds

LEMMA ForcedStep ==
  ASSUME Ages, Forced, [Next]_vars
  PROVE  Forced'
<1> USE DEF Forced
<1>1. ASSUME Opens \/ ForceDiscovery PROVE Forced'
  BY <1>1, OpensFacts DEF ForceDiscovery, polling
<1>2. ASSUME Stamp \/ Backoff PROVE Forced'
  BY <1>2 DEF Stamp, Backoff, pace
<1>3. ASSUME CloseSocket \/ IotLogDeinit \/ PollQuiet \/ PollQuery PROVE Forced'
  BY <1>3 DEF CloseSocket, IotLogDeinit, PollQuiet, PollQuery, discovery, polling, pace
<1>4. ASSUME Answered \/ AnswerLost \/ Turn \/ UNCHANGED vars PROVE Forced'
  BY <1>4 DEF Answered, AnswerLost, Learn, Turn, vars, discovery, polling, pace
<1>5. ASSUME Tick PROVE Forced'
  BY <1>5, OlderIs DEF Tick, Ages
<1>6. ASSUME NEW s \in Senders, Sender(s) PROVE Forced'
  BY <1>6, SenderFacts
<1> QED
  BY <1>1, <1>2, <1>3, <1>4, <1>5, <1>6, Kinds

\* Opening, closing or forcing the log, or a turn of the receiver, ends the calm.
LEMMA CalmEnds ==
  ASSUME Opens \/ IotLogDeinit \/ ForceDiscovery \/ AnswerLost \/ Turn
  PROVE  steadyFor' = 0
  BY OpensFacts DEF IotLogDeinit, ForceDiscovery, AnswerLost, Turn

\* A poll that is quiet although it could discover finds no query due.
LEMMA QuietIsYoung ==
  ASSUME Ages, Interval, Backed, Discovers, PollQuiet
  PROVE  sinceDiscovery # Never /\ sinceDiscovery < MaxInterval
<1>1. poll = "idle" /\ ~Due
  BY DEF PollQuiet, Discovers
<1>2. sinceDiscovery # Never /\ sinceDiscovery \in Nat
  BY <1>1 DEF Due, Ages, Age, Never
<1>3. EffectiveInterval \in 0 .. MaxInterval
  BY <1>1, <1>2 DEF Backed, EffectiveInterval
<1> QED
  BY <1>1, <1>2, <1>3 DEF Due

LEMMA QueryDueStep ==
  ASSUME Types, Backed, QueryDue, [Next]_vars
  PROVE  QueryDue'
<1> USE DEF Types
<1>1. ASSUME steadyFor' = 0 PROVE QueryDue'
  BY <1>1 DEF QueryDue
<1>2. ASSUME PollQuiet PROVE QueryDue'
  <2>1. UNCHANGED <<initialised, disableMdns, sinceDiscovery>>
    BY <1>2 DEF PollQuiet, config, discovery
  <2> QED
    BY <1>2, <2>1, QuietIsYoung DEF QueryDue, Discovers
<1>3. ASSUME PollQuery \/ Answered PROVE QueryDue'
  BY <1>3 DEF PollQuery, Answered, Learn, QueryDue
<1>4. ASSUME Stamp PROVE QueryDue'
  BY <1>4 DEF Stamp, QueryDue, Never
<1>5. ASSUME Backoff PROVE QueryDue'
  BY <1>5 DEF Backoff, QueryDue, Discovers, config
<1>6. ASSUME CloseSocket PROVE QueryDue'
  BY <1>6 DEF CloseSocket, QueryDue, Discovers, config, discovery, polling, pace
<1>7. ASSUME Tick PROVE QueryDue'
  BY <1>7 DEF Tick, QueryDue
<1>8. ASSUME UNCHANGED vars PROVE QueryDue'
  BY <1>8 DEF vars, QueryDue, Discovers, config, discovery, polling, pace
<1>9. ASSUME NEW s \in Senders, Sender(s) PROVE QueryDue'
  BY <1>9, SenderFacts DEF QueryDue, Discovers
<1> QED
  BY <1>1, <1>2, <1>3, <1>4, <1>5, <1>6, <1>7, <1>8, <1>9, Kinds, CalmEnds

\* In the calm the age of the last query grows with it.
LEMMA KnowsStep ==
  ASSUME Types, Backed, QueryDue, Knows, [Next]_vars
  PROVE  Knows'
<1> USE DEF Types
<1>1. ASSUME steadyFor' = 0 PROVE Knows'
  BY <1>1 DEF Knows, Fresh
<1>2. ASSUME PollQuiet PROVE Knows'
  <2>1. /\ UNCHANGED <<initialised, disableMdns, sinceDiscovery, listenerActive, receiverUp>>
        /\ UNCHANGED <<poll, steadyFor>> /\ polled'
    BY <1>2 DEF PollQuiet, config, discovery, network, pace
  <2> SUFFICES ASSUME Discovers, listenerActive # receiverUp
               PROVE  Knows'
    BY <2>1 DEF Knows, Discovers
  <2>2. sinceDiscovery # Never /\ sinceDiscovery \in Nat /\ poll = "idle"
    BY <1>2, QuietIsYoung DEF Ages, Age, PollQuiet
  <2>3. steadyFor <= sinceDiscovery + 1
    BY <2>2 DEF Knows, Fresh, Ages
  <2> QED
    BY <2>1, <2>2, <2>3 DEF Knows
<1>3. ASSUME PollQuery \/ Answered PROVE Knows'
  BY <1>3 DEF PollQuery, Answered, Learn, Knows
<1>4. ASSUME Stamp PROVE Knows'
  <2>1. /\ UNCHANGED <<initialised, disableMdns, listenerActive, receiverUp, steadyFor, polled>>
        /\ poll = "stamp" /\ poll' = "backoff" /\ sinceDiscovery' = 0
    BY <1>4 DEF Stamp, config, network, pace
  <2> QED
    BY <2>1 DEF Knows, Discovers, Fresh
<1>5. ASSUME Backoff PROVE Knows'
  <2>1. /\ UNCHANGED <<initialised, disableMdns, listenerActive, receiverUp, steadyFor, polled>>
        /\ poll = "backoff" /\ poll' = "idle" /\ sinceDiscovery' = sinceDiscovery
    BY <1>5 DEF Backoff, config, network
  <2> QED
    BY <2>1 DEF Knows, Discovers, Fresh
<1>6. ASSUME CloseSocket \/ UNCHANGED vars PROVE Knows'
  <2>1. /\ UNCHANGED <<initialised, disableMdns, listenerActive, receiverUp, steadyFor, polled>>
        /\ UNCHANGED <<poll, sinceDiscovery>>
    BY <1>6 DEF CloseSocket, vars, config, discovery, polling, network, pace
  <2> QED
    BY <2>1 DEF Knows, Discovers, Fresh
<1>7. ASSUME Tick, steadyFor' # 0 PROVE Knows'
  <2>1. /\ UNCHANGED <<initialised, disableMdns, listenerActive, receiverUp, poll>>
        /\ ~polled' /\ polled
        /\ sinceDiscovery' = Older(sinceDiscovery) /\ steadyFor' = Older(steadyFor)
    BY <1>7 DEF Tick, config, network
  <2> SUFFICES ASSUME Discovers, poll # "query", listenerActive # receiverUp, steadyFor # 0
               PROVE  Knows'
    <3>1. steadyFor = 0 => steadyFor' = 1
      BY <2>1 DEF Older, Least, Never
    <3> QED
      BY <2>1, <3>1 DEF Knows, Discovers, Fresh
  <2>2. ~Fresh
    BY <2>1 DEF Fresh
  <2>3. poll # "stamp" /\ sinceDiscovery # Never /\ steadyFor <= sinceDiscovery + 1
    BY <2>2 DEF Knows
  <2>4. sinceDiscovery' # Never /\ steadyFor' <= sinceDiscovery' + 1
    BY <2>1, <2>3, OlderIs DEF Ages, Age, Never, Older, Least
  <2> QED
    BY <2>1, <2>3, <2>4 DEF Knows
<1>8. ASSUME NEW s \in Senders, Sender(s) PROVE Knows'
  BY <1>8, SenderFacts DEF Knows, Discovers, Fresh
<1> QED
  BY <1>1, <1>2, <1>3, <1>4, <1>5, <1>6, <1>7, <1>8, Kinds, CalmEnds

\* Stamp and query grow older together.
LEMMA QueryAgeStep ==
  ASSUME Ages, QueryAge, [Next]_vars
  PROVE  QueryAge'
<1> USE DEF QueryAge
<1>1. ASSUME Opens \/ ForceDiscovery PROVE QueryAge'
  BY <1>1, OpensFacts DEF ForceDiscovery, polling
<1>2. ASSUME PollQuery PROVE QueryAge'
  BY <1>2 DEF PollQuery, discovery, Never
<1>3. ASSUME Stamp PROVE QueryAge'
  <2>1. sinceDiscovery' = 0 /\ poll' = "backoff" /\ sinceQuery' = sinceQuery
        /\ sinceQuery # Never
    BY <1>3 DEF Stamp, pace
  <2> QED
    BY <2>1 DEF Ages, Age, Never
<1>4. ASSUME Backoff PROVE QueryAge'
  BY <1>4 DEF Backoff
<1>5. ASSUME CloseSocket \/ IotLogDeinit \/ PollQuiet PROVE QueryAge'
  BY <1>5 DEF CloseSocket, IotLogDeinit, PollQuiet, discovery, polling, pace
<1>6. ASSUME Answered \/ AnswerLost \/ Turn \/ UNCHANGED vars PROVE QueryAge'
  BY <1>6 DEF Answered, AnswerLost, Learn, Turn, vars, discovery, polling, pace
<1>7. ASSUME Tick PROVE QueryAge'
  <2>1. /\ sinceDiscovery' = Older(sinceDiscovery) /\ sinceQuery' = Older(sinceQuery)
        /\ UNCHANGED <<poll, reset>>
    BY <1>7 DEF Tick
  <2>2. /\ (sinceDiscovery' = Never) = (sinceDiscovery = Never)
        /\ (sinceQuery' = Never) = (sinceQuery = Never)
    BY <2>1, OlderIs DEF Ages
  <2>3. sinceDiscovery # Never /\ sinceQuery # Never /\ sinceDiscovery <= sinceQuery
            => sinceDiscovery' <= sinceQuery'
    BY <2>1, OlderIs DEF Ages
  <2> QED
    BY <2>1, <2>2, <2>3
<1>8. ASSUME NEW s \in Senders, Sender(s) PROVE QueryAge'
  BY <1>8, SenderFacts
<1> QED
  BY <1>1, <1>2, <1>3, <1>4, <1>5, <1>6, <1>7, <1>8, Kinds

\* What has a lower bound keeps it when it is doubled, and has twice that bound.
LEMMA LeastDoubles ==
  ASSUME NEW low \in Nat, NEW i \in Nat, i >= Least(low, MaxInterval),
         NEW j \in Nat, j >= Least(2 * i, MaxInterval)
  PROVE  j >= Least(low, MaxInterval) /\ j >= Least(2 * low, MaxInterval)
  BY DEF Least

\* A query that fails doubles the interval, up to its bound.
LEMMA DoublingStep ==
  ASSUME Ages, Interval, Doubling, [Next]_vars
  PROVE  Doubling'
<1>1. ASSUME UNCHANGED <<interval, failures>> PROVE Doubling'
  BY <1>1 DEF Doubling
<1>2. ASSUME failures' = 0 PROVE Doubling'
  BY <1>2 DEF Doubling
<1>3. ASSUME Backoff, ~found PROVE Doubling'
  <2>1. /\ interval' \in MinInterval .. MaxInterval
        /\ failures' = Least(failures + 1, AgeCap)
    BY <1>3, NextIntervalIs DEF Backoff
  <2>2. interval \in Nat /\ failures \in 0 .. AgeCap
    BY DEF Interval, Ages
  <2>3. interval' >= Least(2 * interval, MaxInterval)
    <3>1. interval' = Greatest(MinInterval, Least(2 * interval, MaxInterval))
      BY <1>3 DEF Backoff, NextInterval
    <3> QED
      BY <2>2, <3>1 DEF Greatest, Least
  <2>4. CASE failures = 0
    <3>1. failures' - 1 = 0
      BY <2>1, <2>4 DEF Least
    <3>2. interval' >= Least(Abstract!Doubled[0], MaxInterval)
      <4>1. Least(Abstract!Doubled[0], MaxInterval) = MinInterval
        BY DoubledFacts DEF Least
      <4> QED
        BY <2>1, <4>1
    <3> QED
      BY <3>1, <3>2 DEF Doubling
  <2>5. CASE failures > 0
    <3>1. failures - 1 \in Nat /\ (failures - 1) + 1 = failures
      BY <2>2, <2>5
    <3>2. /\ Abstract!Doubled[failures - 1] \in Nat
          /\ Abstract!Doubled[failures] = 2 * Abstract!Doubled[failures - 1]
      BY <3>1, DoubledFacts
    <3>3. interval >= Least(Abstract!Doubled[failures - 1], MaxInterval)
      BY <2>5 DEF Doubling
    <3>4. /\ interval' >= Least(Abstract!Doubled[failures - 1], MaxInterval)
          /\ interval' >= Least(Abstract!Doubled[failures], MaxInterval)
      BY <2>1, <2>2, <2>3, <3>2, <3>3, LeastDoubles
    <3>5. failures' - 1 \in {failures - 1, failures}
      BY <2>1, <2>2 DEF Least
    <3> QED
      BY <3>4, <3>5 DEF Doubling
  <2> QED
    BY <2>2, <2>4, <2>5
<1>4. ASSUME Backoff, found PROVE Doubling'
  BY <1>2, <1>4 DEF Backoff
<1>5. ASSUME ~Backoff PROVE failures' = 0 \/ UNCHANGED <<interval, failures>>
  BY <1>5, Kinds, OpensFacts, SenderFacts
     DEF CloseSocket, IotLogDeinit, ForceDiscovery, PollQuiet, PollQuery, Answered,
         AnswerLost, Learn, Stamp, Turn, Tick, vars, discovery, pace
<1> QED
  BY <1>1, <1>2, <1>3, <1>4, <1>5

-----------------------------------------------------------------------------
(***************************************************************************)
(* The theorems about discovery.                                           *)
(***************************************************************************)

\* The invariant holds before the log is opened.
LEMMA InitInv == Init => IInv
<1> SUFFICES ASSUME Init PROVE IInv
  OBVIOUS
<1>1. Flags
  BY DEF Init, Flags
<1>2. Places
  BY DEF Init, Places
<1>3. Ages
  BY DEF Init, Ages, Age
<1>4. Interval
  BY DEF Init, Interval
<1>5. Numbers
  BY DEF Init, Numbers
<1>6. Backed /\ Forced /\ QueryDue /\ Knows /\ QueryAge /\ Doubling
  BY DEF Init, Backed, Forced, QueryDue, Knows, Fresh, QueryAge, Doubling
<1> QED
  BY <1>1, <1>2, <1>3, <1>4, <1>5, <1>6 DEF IInv, Types

\* Every step preserves it, part by part.
LEMMA StepInv == IInv /\ [Next]_vars => IInv'
<1> SUFFICES ASSUME IInv, [Next]_vars PROVE IInv'
  OBVIOUS
<1>1. Types'
  BY FlagsStep, PlacesStep, AgesStep, IntervalStep, NumbersStep DEF IInv, Types
<1>2. Backed' /\ Forced' /\ QueryDue' /\ Knows'
  BY BackedStep, ForcedStep, QueryDueStep, KnowsStep DEF IInv, Types
<1>3. QueryAge' /\ Doubling'
  BY QueryAgeStep, DoublingStep DEF IInv, Types
<1> QED
  BY <1>1, <1>2, <1>3 DEF IInv

\* The invariant of the ESP-IDF component.
THEOREM Invariance == Spec => []IInv
  BY InitInv, StepInv, PTL DEF Spec

\* The variables keep their types, whatever the tasks do at a time: the interval is
\* one that was configured or one within the bounds (esp_iot_log.c:288-318).
THEOREM TypeCorrect == Spec => []TypeOK
<1>1. IInv => TypeOK
  BY TypeParts DEF IInv
<1> QED
  BY <1>1, Invariance, PTL

\* A device that polls in every tick, with nothing disturbing it for longer than
\* the longest interval, knows whether there is a receiver, also after a deinit
\* and an init in the middle of a query.
THEOREM CalmDevicesKnow == Spec => []BeliefAgrees
<1>1. IInv => BeliefAgrees
  <2> SUFFICES ASSUME IInv, Discovers, poll = "idle", polled, steadyFor > MaxInterval
               PROVE  listenerActive = receiverUp
    BY DEF BeliefAgrees, Discovers
  <2>1. steadyFor \in Nat /\ sinceDiscovery \in Age
    BY DEF IInv, Types, Ages
  <2>2. sinceDiscovery # Never /\ sinceDiscovery < MaxInterval
    BY <2>1 DEF IInv, QueryDue
  <2>3. ~Fresh
    BY <2>1 DEF Fresh
  <2>4. listenerActive = receiverUp \/ steadyFor <= sinceDiscovery + 1
    BY <2>3 DEF IInv, Knows
  <2>5. ~(steadyFor <= sinceDiscovery + 1)
    BY <2>1, <2>2 DEF Age
  <2> QED
    BY <2>4, <2>5
<1> QED
  BY <1>1, Invariance, PTL

\* "Force an immediate mDNS discovery" (esp_iot_log.h:157): unless a query was
\* running when it was asked for, the next poll queries.
THEOREM ForcedComesNext == Spec => ForcedIsNext
<1>1. IInv /\ [Next]_vars =>
        (initialised /\ ~disableMdns /\ forced /\ ~polled /\ polled' => poll' = "query")
  <2> SUFFICES ASSUME IInv, [Next]_vars, ~disableMdns, forced, ~polled, polled'
               PROVE  poll' = "query"
    OBVIOUS
  <2>1. Due
    BY DEF IInv, Forced, Due
  <2>2. ~PollQuiet
    BY <2>1 DEF PollQuiet
  <2>3. PollQuery
    BY <2>2, Kinds, OpensFacts, SenderFacts
       DEF CloseSocket, IotLogDeinit, ForceDiscovery, Answered, AnswerLost, Learn, Stamp,
           Backoff, Turn, Tick, vars, polling
  <2> QED
    BY <2>3 DEF PollQuery
<1> QED
  BY <1>1, Invariance, PTL DEF Spec, ForcedIsNext

\* A query that was not forced waits for the abstract interval.
LEMMA AsksInTime ==
  ASSUME IInv, PollQuery, sinceQuery # Never, ~reset
  PROVE  sinceQuery >= Abstract!Spacing
<1> USE DEF IInv, Types
<1>1. sinceDiscovery # Never /\ sinceDiscovery <= sinceQuery /\ Failures = failures
  BY DEF PollQuery, QueryAge, Failures
<1>2. sinceDiscovery >= EffectiveInterval
  BY <1>1 DEF PollQuery, Due
<1>3. /\ sinceDiscovery \in Nat /\ sinceQuery \in Nat /\ interval \in Nat
      /\ failures \in Nat
  BY <1>1 DEF Ages, Age, Interval
<1>4. Abstract!Spacing \in Nat /\ Abstract!Spacing <= MaxInterval
  <2>1. failures > 0 => failures - 1 \in Nat
    BY <1>3
  <2> QED
    BY <1>1, <1>3, <2>1, DoubledFacts DEF Abstract!Spacing, Abstract!Least
<1>5. Abstract!Spacing <= EffectiveInterval
  BY <1>1, <1>3, <1>4
  DEF Abstract!Spacing, Abstract!Least, Least, EffectiveInterval, Doubling
<1> QED
  BY <1>1, <1>2, <1>3, <1>4, <1>5 DEF EffectiveInterval

\* What discovery does not see of the sockets, the senders and its own bookkeeping.
LEMMA Hidden ==
  ASSUME Places,
         \/ CloseSocket \/ PollQuiet \/ Stamp \/ Backoff \/ UNCHANGED vars
         \/ \E s \in Senders : Sender(s)
  PROVE  UNCHANGED Abstract!vars
<1> USE DEF Abstract!vars
<1>1. CASE Stamp
  BY <1>1 DEF Stamp, polling, network, pace, Failures
<1>2. CASE Backoff
  BY <1>2 DEF Backoff, network, Failures
<1>3. CASE CloseSocket \/ PollQuiet \/ UNCHANGED vars
  BY <1>3 DEF CloseSocket, PollQuiet, polling, network, pace, vars, Failures
<1>4. ASSUME NEW s \in Senders, Sender(s) PROVE UNCHANGED Abstract!vars
  BY <1>4, SenderFacts DEF Failures
<1> QED
  BY <1>1, <1>2, <1>3, <1>4

\* Opening the log and forcing a discovery, also while a query runs or is not yet entered.
LEMMA Excuses ==
  ASSUME Types, Opens \/ ForceDiscovery
  PROVE  Abstract!Excuse
<1>1. /\ UNCHANGED <<poll, found, sinceQuery, receiverUp>>
      /\ reset' = TRUE /\ failures' = 0
      /\ listenerActive' = listenerActive \/ listenerActive' = FALSE
  BY OpensFacts DEF ForceDiscovery, polling
<1>2. failures \in 0 .. AgeCap /\ AgeCap \in Nat /\ AgeCap > 1
  BY DEF Types, Ages
<1>3. Failures' \in 0 .. Failures
  <2>1. CASE poll \in {"stamp", "backoff"} /\ ~found
    <3>1. Failures = Least(failures + 1, AgeCap) /\ Failures' = Least(0 + 1, AgeCap)
      BY <1>1, <2>1 DEF Failures
    <3> QED
      BY <1>2, <3>1 DEF Least
  <2>2. CASE ~(poll \in {"stamp", "backoff"} /\ ~found)
    <3>1. Failures \in {0, failures} /\ Failures' = 0
      BY <1>1, <2>2 DEF Failures
    <3> QED
      BY <1>2, <3>1
  <2> QED
    BY <2>1, <2>2
<1> QED
  BY <1>1, <1>3 DEF Abstract!Excuse

\* Every step of the component is one of the abstract discovery, or none.
LEMMA AbstractStep ==
  ASSUME IInv, [Next]_vars
  PROVE  Abstract!Next \/ UNCHANGED Abstract!vars
<1> USE DEF Abstract!Next
<1>1. CASE PollQuery
  <2>1. sinceQuery = Never \/ reset \/ sinceQuery >= Abstract!Spacing
    BY <1>1, AsksInTime
  <2>2. Abstract!Ask
    BY <1>1, <2>1
    DEF PollQuery, network, Failures, Abstract!Ask, Abstract!Never, Never
  <2> QED
    BY <2>2
<1>2. CASE Answered \/ AnswerLost
  <2>1. PICK answer \in BOOLEAN : Learn(answer) /\ (answer => receiverUp)
    BY <1>2 DEF Answered, AnswerLost, IInv, Types, Flags
  <2>2. Abstract!Answer(answer)
    BY <2>1 DEF Learn, Failures, Abstract!Answer, Abstract!Least, Least
  <2> QED
    BY <2>2
<1>3. CASE Opens \/ ForceDiscovery
  BY <1>3, Excuses DEF IInv
<1>4. CASE IotLogDeinit
  <2>1. Abstract!Drop
    BY <1>4 DEF IotLogDeinit, polling, network, Failures, Abstract!Drop
  <2> QED
    BY <2>1
<1>5. CASE Turn
  <2>1. Abstract!Turn
    BY <1>5 DEF Turn, polling, Failures, Abstract!Turn
  <2> QED
    BY <2>1
<1>6. CASE Tick
  <2>1. poll = "query" => sinceQuery = 0
    BY <1>6 DEF Tick
  <2>2. Abstract!Tick
    BY <1>6, <2>1 DEF Tick, network, Failures, Older, Least, Never, Abstract!Tick,
       Abstract!Older, Abstract!Least, Abstract!Never
  <2> QED
    BY <2>2
<1>7. ASSUME \/ CloseSocket \/ PollQuiet \/ Stamp \/ Backoff \/ UNCHANGED vars
             \/ \E s \in Senders : Sender(s)
      PROVE  UNCHANGED Abstract!vars
  BY <1>7, Hidden DEF IInv, Types
<1> QED
  BY <1>1, <1>2, <1>3, <1>4, <1>5, <1>6, <1>7, Kinds

\* Queries back off "to match the Arduino library" (esp_iot_log.c:28): the component
\* implements the same abstract discovery.  Unless it was forced or the log is new, no
\* query comes sooner after the last one than the minimum interval doubled with every
\* failure but the first, or the maximum; also where a deinit, an init or a forced
\* discovery came in the middle of a query.
THEOREM ImplementsDiscovery == Spec => DiscoverySpec
<1>1. Init => Abstract!Init
  BY DEF Init, Failures, Never, Abstract!Init, Abstract!Never
<1>2. IInv /\ [Next]_vars => [Abstract!Next]_(Abstract!vars)
  BY AbstractStep
<1> QED
  BY <1>1, <1>2, Invariance, PTL DEF Spec, DiscoverySpec, Abstract!Spec

-----------------------------------------------------------------------------
(***************************************************************************)
(* The books of the messages, when one task logs.                          *)
(***************************************************************************)

OneSender == \A s, t \in Senders : s = t

\* The sender's message is not yet in the books, and what it has read of them is
\* still true.
Booked ==
    ~mixed =>
        /\ (\A s \in Senders : send[s] = "idle") => sent + dropped = attempts
        /\ \A s \in Senders :
             /\ send[s] # "idle" => sent + dropped + 1 = attempts
             /\ send[s] = "store" => seen[s] = IF ok[s] THEN sent ELSE dropped

LEMMA BookedStep ==
  ASSUME OneSender, Numbers, Places, Booked, [Next]_vars
  PROVE  Booked'
<1>1. ASSUME Opens PROVE Booked'
  BY <1>1, OpensFacts DEF Booked
<1>2. ASSUME ~Opens, ~(\E s \in Senders : Sender(s)) PROVE Booked'
  BY <1>2, Kinds, OtherFacts DEF Booked
<1>3. ASSUME NEW s \in Senders, Sender(s) PROVE Booked'
  <2> SUFFICES ASSUME ~mixed PROVE Booked'
    BY <1>3, SenderFacts DEF Booked
  <2>1. \A t \in Senders : t = s
    BY DEF OneSender
  <2>2. /\ send[s] = "idle" => sent + dropped = attempts
        /\ send[s] # "idle" => sent + dropped + 1 = attempts
        /\ send[s] = "store" => seen[s] = IF ok[s] THEN sent ELSE dropped
    BY <2>1 DEF Booked
  <2>3. SUFFICES /\ send'[s] = "idle" => sent' + dropped' = attempts'
                 /\ send'[s] # "idle" => sent' + dropped' + 1 = attempts'
                 /\ send'[s] = "store" => seen'[s] = IF ok'[s] THEN sent' ELSE dropped'
    BY <2>1 DEF Booked
  <2> USE DEF SendTo, Places, Numbers
  <2>4. CASE Log(s)
    BY <2>2, <2>4 DEF Log, counts
  <2>5. CASE Gate(s)
    BY <2>2, <2>5 DEF Gate, counts, account
  <2>6. CASE SendUnicast(s) \/ SendMulticast(s)
    BY <2>2, <2>6 DEF SendUnicast, SendMulticast, counts, account
  <2>7. CASE Load(s)
    <3>1. /\ send[s] = "load" /\ send'[s] = "store"
          /\ UNCHANGED <<sent, dropped, attempts, ok>>
      BY <2>7 DEF Load, counts, account
    <3>2. seen'[s] = IF ok[s] THEN sent ELSE dropped
      BY <2>7 DEF Load
    <3> QED
      BY <2>2, <3>1, <3>2
  <2>8. CASE Store(s)
    <3>1. /\ send[s] = "store" /\ send'[s] = "idle" /\ attempts' = attempts
      BY <2>8 DEF Store, Return, account
    <3>2. CASE ok[s]
      BY <2>2, <2>8, <3>1, <3>2 DEF Store
    <3>3. CASE ~ok[s]
      BY <2>2, <2>8, <3>1, <3>3 DEF Store
    <3> QED
      BY <3>2, <3>3
  <2> QED
    BY <1>3, <2>4, <2>5, <2>6, <2>7, <2>8 DEF Sender
<1> QED
  BY <1>1, <1>2, <1>3

\* With one task that logs, sent_count and dropped_count together count each message
\* once, also when a gate closed on it half way or the socket was closed under it
\* (esp_iot_log.c:74-151).  With two tasks the increments may lose a count.
THEOREM OneSenderIsAccounted ==
  ASSUME OneSender
  PROVE  Spec => []Accounted
<1>1. Init => Booked
  BY DEF Init, Booked
<1>2. IInv /\ Booked /\ [Next]_vars => Booked'
  BY BookedStep DEF IInv, Types
<1>3. Booked => Accounted
  BY DEF Booked, Accounted
<1> QED
  BY <1>1, <1>2, <1>3, Invariance, PTL DEF Spec
=============================================================================
