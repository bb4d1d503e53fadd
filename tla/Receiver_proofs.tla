--------------------------- MODULE Receiver_proofs ---------------------------
(***************************************************************************)
(* Proofs about Receiver, for any intervals, any time the registration of  *)
(* the service takes and any number of failures and settings of the clock: *)
(* the periodic duties are done on schedule, the device keeps hearing the  *)
(* receiver, and no service is left behind.                                *)
(*                                                                         *)
(* The schedule follows from two facts about each duty: how the age of its *)
(* stamp relates to the time since it was done (WallClock), and how late   *)
(* it may be at each place of the loop (Reported, Beaconed, Announced).    *)
(***************************************************************************)
EXTENDS Receiver, TLAPS

USE ReceiverAssumption DEF ReceiverAssumption

\* The rounds that failed attempts add.
Delay(n) == n * Lap

\* The intervals and rounds that pass when the group cannot be joined again.
Wait(n) == n * (IgmpInterval + Lap)

\* How much longer than a beacon's stamp a device may have waited if it was lost.
Slack(n) == BeaconInterval - 1 + Lap + Delay(n)

Places == {"start", "udp4", "udp6", "select", "igmp", "beacon", "mdns", "register",
           "stop", "ended"}

\* The parts of TypeOK.
Flags ==
    /\ again \in BOOLEAN /\ zeroconf \in BOOLEAN /\ advertised \in BOOLEAN
    /\ lost \in BOOLEAN /\ cut \in BOOLEAN /\ joined \in BOOLEAN

Sockets ==
    /\ pc \in Places
    /\ sock \in {"none", "open", "closed"} /\ sock6 \in {"none", "bare", "ready", "closed"}
    /\ Looping \/ pc = "udp6" => sock = "open"

Ages ==
    /\ igmpAge \in Int /\ igmpAge <= Long
    /\ beaconAge \in Int /\ beaconAge <= Long
    /\ mdnsAge \in Int /\ mdnsAge <= Long

Looks == shown \in [sent : Messages, as : {"int", "string", "text", "nothing", "ignored"}]

Times ==
    /\ heard \in 0 .. Long /\ sinceReport \in 0 .. Long /\ sinceAnnounced \in 0 .. Long
    /\ back \in Nat /\ failures \in 0 .. faults /\ faults \in 0 .. MaxFaults
    /\ misses \in 0 .. faults

\* The IPv4 socket is a member of the group once it is set up, but for a join
\* that failed; none but an open socket is.
Member ==
    /\ joined => sock = "open"
    /\ Looping \/ pc = "udp6" => joined \/ misses > 0

\* Before the loop nothing has been sent and no time has gone by.
Unstarted ==
    pc \in {"start", "udp4", "udp6"} =>
        heard = 0 /\ sinceReport = 0 /\ sinceAnnounced = 0 /\ ~lost

\* Who answers for the service can withdraw it.
Owned ==
    /\ pc = "start" => ~advertised
    /\ advertised \/ pc = "register" => zeroconf
    /\ NotLeftBehind

\* A stamp is no younger than what it stands for, but for the clock that was
\* set back; a lost beacon had its own stamp, and so had a failed join.
WallClock ==
    /\ sinceReport <= igmpAge + back + Wait(misses)
    /\ sinceAnnounced <= mdnsAge + back
    /\ ~lost => heard <= beaconAge + back
    /\ lost => heard <= beaconAge + back + Slack(failures)

Reported ==
    LET limit == IgmpInterval + back + Wait(misses)
    IN  /\ pc \in {"beacon", "mdns", "register"} => sinceReport <= limit
        /\ pc = "select" => sinceReport <= limit + RegisterTime
        /\ pc = "igmp" => sinceReport <= limit + Lap

\* How long the device may have been waiting, w of it for the beacon before.
Late(w) ==
    LET limit == BeaconInterval - 1 + back + Delay(failures) + w
    IN  /\ pc \in {"mdns", "register"} => heard <= limit
        /\ pc = "select" => heard <= limit + RegisterTime
        /\ pc \in {"igmp", "beacon"} => heard <= limit + Lap

Beaconed ==
    sock6 = "ready" =>
        /\ ~lost => Late(0)
        /\ lost => Late(BeaconInterval - 1 + Lap)

Announced ==
    zeroconf /\ sock6 # "bare" =>
        LET limit == MdnsInterval + back + Delay(failures)
        IN  /\ pc = "select" => sinceAnnounced <= limit
            /\ pc \in {"igmp", "beacon", "mdns", "register"} => sinceAnnounced <= limit + 1

Types == Flags /\ Sockets /\ Ages /\ Looks /\ Times

IInv ==
    /\ Types /\ Member /\ Unstarted /\ Owned
    /\ WallClock /\ Reported /\ Beaconed /\ Announced

\* The parts make up the type invariant.
LEMMA TypeParts ==
  ASSUME Types, Member
  PROVE  TypeOK
<1>1. \A age \in {igmpAge, beaconAge, mdnsAge} : age \in Int /\ age <= Long
  BY DEF Types, Ages
<1>2. /\ back \in Nat /\ failures \in 0 .. faults /\ faults \in 0 .. MaxFaults
      /\ misses \in 0 .. faults
  BY DEF Types, Times
<1> QED
  BY <1>1, <1>2 DEF TypeOK, Types, Flags, Sockets, Places, Looks, Times, Member

\* Between packets nothing is displayed.
LEMMA NothingShown ==
  Nothing \in [sent : Messages, as : {"int", "string", "text", "nothing", "ignored"}]
<1>1. Nothing.sent \in Messages
  BY DEF Nothing, Messages
<1> QED
  BY <1>1 DEF Nothing

\* The strengthened invariant holds when start() is called.
LEMMA InitInv == Init => IInv
<1> SUFFICES ASSUME Init PROVE IInv
  OBVIOUS
<1>1. Flags /\ Sockets
  BY DEF Init, Flags, Sockets, Places, Looping
<1>2. Ages /\ Times /\ Unstarted
  BY DEF Init, Ages, Times, Unstarted
<1>3. Looks
  BY NothingShown DEF Init, Looks
<1>4. Owned /\ Member
  BY DEF Init, Owned, NotLeftBehind, Member, Looping
<1>5. WallClock
  BY DEF Init, WallClock, Wait, Lap
<1>6. Reported /\ Beaconed /\ Announced
  BY DEF Init, Reported, Beaconed, Announced
<1> QED
  BY <1>1, <1>2, <1>3, <1>4, <1>5, <1>6 DEF IInv, Types

-----------------------------------------------------------------------------
(***************************************************************************)
(* Time.                                                                   *)
(***************************************************************************)

\* What grows older stays an age, and no slower than what it is compared with.
LEMMA OlderFacts ==
  ASSUME NEW age \in Int, age <= Long, NEW d \in Nat
  PROVE  /\ Older(age, d) \in Int
         /\ Older(age, d) <= Long /\ Older(age, d) <= age + d /\ age <= Older(age, d)
         /\ age + d <= Older(age, d) \/ Older(age, d) = Long
  BY DEF Older

\* A clock that is set is nowhere behind what it was, but for what it was set back.
LEMMA SetFacts ==
  ASSUME NEW age \in Int, age <= Long, NEW d \in Int
  PROVE  /\ Set(age, d) \in Int /\ Set(age, d) <= Long
         /\ d < 0 => age + d <= Set(age, d)
         /\ d >= 0 => age <= Set(age, d)
  BY DEF Set, Older

\* A failed attempt adds a round, and nothing else adds any.
LEMMA DelayStep ==
  ASSUME Times, failures' \in {failures, failures + 1}
  PROVE  /\ Delay(failures) \in Nat /\ Delay(failures') \in Nat
         /\ Delay(failures) <= Delay(failures')
         /\ failures' = failures => Delay(failures') = Delay(failures)
         /\ failures' = failures + 1 => Delay(failures') = Delay(failures) + Lap
<1>1. failures \in Nat /\ Lap \in Nat
  BY DEF Times, Lap
<1>2. Delay(failures) \in Nat
  BY <1>1 DEF Delay
<1>3. (failures + 1) * Lap = failures * Lap + Lap
  BY <1>1
<1>4. failures' = failures + 1 => Delay(failures') = Delay(failures) + Lap
  BY <1>3 DEF Delay
<1> QED
  BY <1>1, <1>2, <1>4

\* The wait for the next attempt to join is a time, and each failure adds one.
LEMMA WaitStep ==
  ASSUME Times
  PROVE  /\ Wait(misses) \in Nat /\ Wait(0) = 0
         /\ Wait(misses + 1) = Wait(misses) + IgmpInterval + Lap
<1>1. misses \in Nat /\ IgmpInterval + Lap \in Nat
  BY DEF Times, Lap
<1>2. \A n \in Nat : n * (IgmpInterval + Lap) \in Nat
  BY <1>1
<1>3. (misses + 1) * (IgmpInterval + Lap) = misses * (IgmpInterval + Lap) + (IgmpInterval + Lap)
  BY <1>1
<1>4. Wait(misses) \in Nat /\ Wait(0) = 0
  BY <1>1, <1>2 DEF Wait
<1>5. Wait(misses + 1) = Wait(misses) + (IgmpInterval + Lap)
  BY <1>3 DEF Wait
<1>6. IgmpInterval \in Nat /\ Lap \in Nat
  BY DEF Lap
<1> QED
  BY <1>4, <1>5, <1>6

\* And so may the slack grow.
LEMMA SlackStep ==
  ASSUME Times, failures' \in {failures, failures + 1}
  PROVE  /\ Slack(failures) \in Nat /\ Slack(failures') \in Nat
         /\ Slack(failures) <= Slack(failures')
<1>1. Lap \in Nat /\ BeaconInterval - 1 \in Nat
  BY DEF Lap
<1> QED
  BY <1>1, DelayStep DEF Slack

\* What sets the stage for the loop: time does not go by, nothing is sent.
Before ==
    \/ StartMdns \/ StartMdnsFails \/ StartUdp \/ StartUdpFails \/ StartUdp6
    \/ Interrupt \/ InterruptRegister \/ InterruptStop \/ Stop \/ StopFails

\* The steps of the loop that leave stamps and times alone.
Quiet ==
    \/ \E m \in Messages : HandleMessage(m)
    \/ NoBeacon \/ SendBeaconFails \/ SendBeaconHalfMade
    \/ NoMdns \/ Unregister \/ UnregisterFails

\* In a quiet step, or before or after the loop, a stamp only changes by being
\* set to 0, and with a time stamp of 0 nothing is known of the past.
LEMMA QuietFacts ==
  ASSUME Quiet
  PROVE  /\ UNCHANGED <<stamps, elapsed, back, misses, lost, sockets, sock6, zeroconf>>
         /\ failures' \in {failures, failures + 1}
  BY DEF Quiet, HandleMessage, NoBeacon, SendBeaconFails, SendBeaconHalfMade, NoMdns,
         Unregister, UnregisterFails, trouble, sockets

\* What a step before or after the loop leaves alone, and where it leads.
LEMMA BeforeFacts ==
  ASSUME Before
  PROVE  /\ UNCHANGED <<elapsed, back, misses, lost, failures, faults>>
         /\ igmpAge' \in {igmpAge, 0} /\ mdnsAge' \in {mdnsAge, 0} /\ beaconAge' = beaconAge
         /\ UNCHANGED <<igmpAge, mdnsAge>> \/ pc \in {"start", "udp4"}
         /\ \/ pc' \in {"udp4", "udp6", "stop", "ended"}
            \/ pc = "udp6" /\ pc' = "select"
         /\ pc' \in {"udp4", "udp6"} => pc \in {"start", "udp4"}
  BY DEF Before, StartMdns, StartMdnsFails, StartUdp, StartUdpFails, StartUdp6, Interrupt,
         InterruptRegister, InterruptStop, Stop, StopFails, AfterStop, trouble, stamps

\* What a tick or a registration does to ages and times.
LEMMA PassFacts ==
  ASSUME Ages, Times, WallClock, NEW d \in Nat, Pass(d), UNCHANGED <<back, misses, lost>>,
         failures' \in {failures, failures + 1}
  PROVE  /\ igmpAge' \in Int /\ igmpAge' <= Long /\ beaconAge' \in Int /\ beaconAge' <= Long
         /\ sinceReport' \in 0 .. Long /\ heard' \in 0 .. Long
         /\ sinceReport' <= sinceReport + d /\ heard' <= heard + d
         /\ sinceReport' <= igmpAge' + back + Wait(misses)
         /\ ~lost => heard' <= beaconAge' + back
         /\ lost => heard' <= beaconAge' + back + Slack(failures')
<1>1. /\ back \in Nat /\ Slack(failures) \in Nat /\ Slack(failures') \in Nat
      /\ Slack(failures) <= Slack(failures')
  BY SlackStep DEF Times
<1>2. heard \in 0 .. Long /\ sinceReport \in 0 .. Long
  BY DEF Times
<1>3. /\ igmpAge' = Older(igmpAge, d) /\ beaconAge' = Older(beaconAge, d)
      /\ sinceReport' = Older(sinceReport, d) /\ heard' = Older(heard, d)
  BY DEF Pass
<1>4. igmpAge \in Int /\ igmpAge <= Long /\ beaconAge \in Int /\ beaconAge <= Long
  BY DEF Ages
<1>5. \A s \in Nat : heard <= beaconAge + back + s => heard' <= beaconAge' + back + s
  BY <1>1, <1>2, <1>3, <1>4 DEF Older
<1>6. sinceReport' <= igmpAge' + back + Wait(misses)
  <2>1. PICK w \in Nat : w = Wait(misses)
    BY WaitStep
  <2>2. sinceReport <= igmpAge + back + w
    BY <2>1 DEF WallClock
  <2>3. sinceReport' <= igmpAge' + back + w
    BY <1>1, <1>2, <1>3, <1>4, <2>1, <2>2 DEF Older
  <2> QED
    BY <2>1, <2>3
<1>7. ASSUME lost
      PROVE  heard' <= beaconAge' + back + Slack(failures')
  <2>1. heard <= beaconAge + back + Slack(failures)
    BY <1>7 DEF WallClock
  <2>2. heard <= beaconAge + back + Slack(failures')
    BY <1>1, <1>2, <1>4, <2>1
  <2> QED
    BY <1>1, <1>5, <2>2
<1>8. ASSUME ~lost
      PROVE  heard' <= beaconAge' + back
  <2>1. heard <= beaconAge + back + 0
    BY <1>1, <1>2, <1>4, <1>8 DEF WallClock
  <2>2. heard' <= beaconAge' + back + 0
    BY <1>5, <2>1
  <2> QED
    BY <1>1, <1>3, <1>4, <2>2 DEF Older
<1>9. /\ igmpAge' \in Int /\ igmpAge' <= Long /\ beaconAge' \in Int /\ beaconAge' <= Long
      /\ sinceReport' \in 0 .. Long /\ heard' \in 0 .. Long
      /\ sinceReport' <= sinceReport + d /\ heard' <= heard + d
  BY <1>2, <1>3, <1>4 DEF Older
<1> QED
  BY <1>6, <1>7, <1>8, <1>9

-----------------------------------------------------------------------------
(***************************************************************************)
(* Steps preserve each part.                                               *)
(***************************************************************************)

\* Flags are only ever given truth values.
LEMMA FlagsStep ==
  ASSUME Flags, [Next]_vars
  PROVE  Flags'
<1>1. CASE Before
  BY <1>1 DEF Flags, Before, StartMdns, StartMdnsFails, StartUdp, StartUdpFails, StartUdp6,
         Interrupt, InterruptRegister, InterruptStop, Stop, StopFails, AfterStop, trouble,
         sockets
<1>2. CASE Quiet
  BY <1>2 DEF Flags, Quiet, HandleMessage, NoBeacon, SendBeaconFails, SendBeaconHalfMade,
         NoMdns, Unregister, UnregisterFails, trouble, sockets
<1>3. CASE SelectTimeout \/ RefreshIgmp \/ RefreshIgmpFails \/ SendBeacon
  BY <1>3 DEF Flags, SelectTimeout, RefreshIgmp, RefreshIgmpFails, SendBeacon, trouble, sockets
<1>4. ASSUME NEW d \in 0 .. RegisterTime, Register(d) \/ RegisterFails(d)
      PROVE  Flags'
  BY <1>4 DEF Flags, Register, RegisterFails, trouble, sockets
<1>5. ASSUME NEW d \in {-ClockStep, ClockStep}, SetClock(d)
      PROVE  Flags'
  BY <1>5 DEF Flags, SetClock, sockets
<1>6. CASE UNCHANGED vars
  BY <1>6 DEF Flags, vars, trouble, sockets
<1> QED
  BY <1>1, <1>2, <1>3, <1>4, <1>5, <1>6 DEF Next, Start, Loop, End, Before, Quiet

\* The loop runs on an open socket.
LEMMA SocketsStep ==
  ASSUME Sockets, [Next]_vars
  PROVE  Sockets'
<1> USE DEF Sockets, Places, Looping
<1>1. CASE Before
  BY <1>1 DEF Before, StartMdns, StartMdnsFails, StartUdp, StartUdpFails, StartUdp6,
         Interrupt, InterruptRegister, InterruptStop, Stop, StopFails, AfterStop, Closed,
         sockets
<1>2. CASE Quiet
  BY <1>2 DEF Quiet, HandleMessage, NoBeacon, SendBeaconFails, SendBeaconHalfMade,
         NoMdns, Unregister, UnregisterFails, sockets
<1>3. CASE SelectTimeout \/ RefreshIgmp \/ RefreshIgmpFails \/ SendBeacon
  BY <1>3 DEF SelectTimeout, RefreshIgmp, RefreshIgmpFails, SendBeacon, sockets
<1>4. ASSUME NEW d \in 0 .. RegisterTime, Register(d) \/ RegisterFails(d)
      PROVE  Sockets'
  BY <1>4 DEF Register, RegisterFails, sockets
<1>5. ASSUME NEW d \in {-ClockStep, ClockStep}, SetClock(d)
      PROVE  Sockets'
  BY <1>5 DEF SetClock, sockets
<1>6. CASE UNCHANGED vars
  BY <1>6 DEF vars, sockets
<1> QED
  BY <1>1, <1>2, <1>3, <1>4, <1>5, <1>6 DEF Next, Start, Loop, End, Before, Quiet

\* Whatever arrives is displayed as something, or not at all.
LEMMA LooksStep ==
  ASSUME Looks, [Next]_vars
  PROVE  Looks'
<1>1. ASSUME NEW m \in Messages, HandleMessage(m)
      PROVE  Looks'
  <2>1. Displayed(m) \in {"int", "string", "text", "nothing", "ignored"}
    BY DEF Displayed, Parsed
  <2> QED
    BY <1>1, <2>1 DEF HandleMessage, Looks
<1>2. CASE RefreshIgmp \/ RefreshIgmpFails
  BY <1>2, NothingShown DEF RefreshIgmp, RefreshIgmpFails, Looks
<1>3. CASE UNCHANGED shown
  BY <1>3 DEF Looks
<1>4. \/ \E m \in Messages : HandleMessage(m)
      \/ RefreshIgmp \/ RefreshIgmpFails
      \/ UNCHANGED shown
  BY DEF Next, vars, Start, Loop, End, StartMdns, StartMdnsFails, StartUdp, StartUdpFails,
         StartUdp6, Interrupt, InterruptRegister, InterruptStop, Stop, StopFails,
         SelectTimeout, NoBeacon, SendBeacon, SendBeaconFails, SendBeaconHalfMade, NoMdns,
         Unregister, UnregisterFails, Register, RegisterFails, SetClock
<1> QED
  BY <1>1, <1>2, <1>3, <1>4

\* What setting the clock does to ages and bounds.
LEMMA ClockFacts ==
  ASSUME Ages, Times, NEW d \in {-ClockStep, ClockStep}, SetClock(d)
  PROVE  /\ Ages' /\ back' \in Nat /\ back <= back'
         /\ igmpAge + back <= igmpAge' + back' /\ mdnsAge + back <= mdnsAge' + back'
         /\ beaconAge + back <= beaconAge' + back'
         /\ UNCHANGED <<pc, sockets, zeroconf, lost, elapsed, misses, failures>>
<1>1. d \in Int /\ back \in Nat
  BY DEF Times
<1>2. /\ igmpAge' = Set(igmpAge, d) /\ beaconAge' = Set(beaconAge, d)
      /\ mdnsAge' = Set(mdnsAge, d)
      /\ d < 0 => back' = back - d
      /\ d >= 0 => back' = back
  BY <1>1 DEF SetClock
<1>3. /\ igmpAge \in Int /\ igmpAge <= Long /\ beaconAge \in Int /\ beaconAge <= Long
      /\ mdnsAge \in Int /\ mdnsAge <= Long
  BY DEF Ages
<1>4. Ages'
  BY <1>1, <1>2, <1>3, SetFacts DEF Ages
<1>5. back' \in Nat /\ back <= back'
  BY <1>1, <1>2
<1>6. UNCHANGED <<pc, sockets, zeroconf, lost, elapsed, misses, failures>>
  BY DEF SetClock
<1>7. /\ igmpAge + back <= igmpAge' + back' /\ mdnsAge + back <= mdnsAge' + back'
      /\ beaconAge + back <= beaconAge' + back'
  <2>1. ASSUME d < 0
        PROVE  /\ igmpAge + d <= igmpAge' /\ mdnsAge + d <= mdnsAge'
               /\ beaconAge + d <= beaconAge' /\ back' = back - d
    BY <1>1, <1>2, <1>3, <2>1, SetFacts
  <2>2. ASSUME d >= 0
        PROVE  /\ igmpAge <= igmpAge' /\ mdnsAge <= mdnsAge' /\ beaconAge <= beaconAge'
               /\ back' = back
    BY <1>1, <1>2, <1>3, <2>2, SetFacts
  <2>3. igmpAge' \in Int /\ mdnsAge' \in Int /\ beaconAge' \in Int
    BY <1>4 DEF Ages
  <2> QED
    BY <1>1, <1>3, <2>1, <2>2, <2>3
<1> QED
  BY <1>4, <1>5, <1>6, <1>7

\* The steps of the loop that take time: a tick, a registration, one that fails.
Tick(d) ==
    \/ d = 1 /\ SelectTimeout
    \/ d \in 0 .. RegisterTime /\ (Register(d) \/ RegisterFails(d))

\* What they have in common, and what becomes of the service.
LEMMA TickFacts ==
  ASSUME Ages, Times, WallClock, NEW d, Tick(d)
  PROVE  /\ d \in Nat /\ Pass(d)
         /\ UNCHANGED <<sockets, zeroconf, lost, back, misses>>
         /\ failures' \in {failures, failures + 1}
         /\ mdnsAge' \in Int /\ mdnsAge' <= Long
         /\ sinceAnnounced' \in 0 .. Long /\ sinceAnnounced' <= sinceAnnounced + d
         /\ sinceAnnounced' <= mdnsAge' + back
<1>1. d \in Nat /\ Pass(d) /\ failures' \in {failures, failures + 1}
  BY DEF Tick, SelectTimeout, Register, RegisterFails, trouble
<1>2. UNCHANGED <<sockets, zeroconf, lost, back, misses>>
  BY DEF Tick, SelectTimeout, Register, RegisterFails, trouble
<1>3. /\ mdnsAge \in Int /\ mdnsAge <= Long /\ sinceAnnounced \in 0 .. Long
      /\ back \in Nat /\ sinceAnnounced <= mdnsAge + back
  BY DEF Ages, Times, WallClock
<1>4. \/ mdnsAge' = Older(mdnsAge, d) /\ sinceAnnounced' = Older(sinceAnnounced, d)
      \/ mdnsAge' = 0 /\ sinceAnnounced' = 0
  BY DEF Tick, SelectTimeout, Register, RegisterFails
<1> QED
  BY <1>1, <1>2, <1>3, <1>4 DEF Older

\* Every step is of one of these kinds.
LEMMA Kinds ==
  ASSUME [Next]_vars
  PROVE  \/ Before \/ Quiet \/ RefreshIgmp \/ RefreshIgmpFails \/ SendBeacon \/ UNCHANGED vars
         \/ \E d \in Nat : Tick(d)
         \/ \E d \in {-ClockStep, ClockStep} : SetClock(d)
<1>1. CASE Start \/ End
  BY <1>1 DEF Start, End, Before
<1>2. CASE Loop
  <2>1. CASE SelectTimeout
    <3>1. Tick(1)
      BY <2>1 DEF Tick
    <3> QED
      BY <3>1
  <2>2. ASSUME NEW d \in 0 .. RegisterTime, Register(d) \/ RegisterFails(d)
        PROVE  \E n \in Nat : Tick(n)
    <3>1. d \in Nat /\ Tick(d)
      BY <2>2 DEF Tick
    <3> QED
      BY <3>1
  <2> QED
    BY <1>2, <2>1, <2>2 DEF Loop, Quiet
<1> QED
  BY <1>1, <1>2 DEF Next

\* Ages stay ages.
LEMMA AgesStep ==
  ASSUME Ages, Times, WallClock, [Next]_vars
  PROVE  Ages'
<1>1. CASE Before
  BY <1>1, BeforeFacts DEF Ages
<1>2. CASE Quiet
  BY <1>2, QuietFacts DEF Ages, stamps
<1>3. CASE RefreshIgmp \/ RefreshIgmpFails
  <2>1. igmpAge' \in {igmpAge, 0} /\ UNCHANGED <<beaconAge, mdnsAge>>
    BY <1>3 DEF RefreshIgmp, RefreshIgmpFails
  <2> QED
    BY <2>1 DEF Ages
<1>4. CASE SendBeacon
  <2>1. beaconAge' = 0 /\ UNCHANGED <<igmpAge, mdnsAge>>
    BY <1>4 DEF SendBeacon
  <2> QED
    BY <2>1 DEF Ages
<1>5. ASSUME NEW d \in Nat, Tick(d)
      PROVE  Ages'
  BY <1>5, TickFacts, PassFacts DEF Ages
<1>6. ASSUME NEW d \in {-ClockStep, ClockStep}, SetClock(d)
      PROVE  Ages'
  BY <1>6, ClockFacts
<1>7. CASE UNCHANGED vars
  BY <1>7 DEF vars, stamps, Ages
<1> QED
  BY <1>1, <1>2, <1>3, <1>4, <1>5, <1>6, <1>7, Kinds

\* Times are within their bounds, and so are the counts.
LEMMA TimesStep ==
  ASSUME Ages, Times, WallClock, [Next]_vars
  PROVE  Times'
<1>1. /\ failures' \in 0 .. faults' /\ misses' \in 0 .. faults'
      /\ faults' \in 0 .. MaxFaults
  <2>1. \/ faults' = faults /\ failures' = failures /\ (misses' = misses \/ misses' = 0)
        \/ /\ Fault
           /\ failures' = failures \/ failures' = failures + 1
           /\ misses' = misses \/ misses' = misses + 1
    BY DEF Next, Start, Loop, End, vars, trouble, StartMdns, StartMdnsFails, StartUdp,
       StartUdpFails, StartUdp6, Interrupt, InterruptRegister, InterruptStop, Stop,
       StopFails, AfterStop, SelectTimeout, HandleMessage, RefreshIgmp, RefreshIgmpFails,
       NoBeacon, SendBeacon,
       SendBeaconFails, SendBeaconHalfMade, NoMdns, Unregister, UnregisterFails, Register,
       RegisterFails, SetClock
  <2> QED
    BY <2>1 DEF Times, Fault
<1> DEFINE Elapsed ==
        /\ heard \in 0 .. Long /\ sinceReport \in 0 .. Long /\ sinceAnnounced \in 0 .. Long
        /\ back \in Nat
<1>2. Elapsed
  BY DEF Times
<1>3. ASSUME Before PROVE Elapsed'
  BY <1>2, <1>3, BeforeFacts DEF elapsed
<1>4. ASSUME Quiet PROVE Elapsed'
  BY <1>2, <1>4, QuietFacts DEF elapsed
<1>5. ASSUME RefreshIgmp \/ RefreshIgmpFails PROVE Elapsed'
  <2>1. sinceReport' \in {sinceReport, 0} /\ UNCHANGED <<heard, sinceAnnounced, back>>
    BY <1>5 DEF RefreshIgmp, RefreshIgmpFails, elapsed
  <2> QED
    BY <1>2, <2>1
<1>6. ASSUME SendBeacon PROVE Elapsed'
  <2>1. heard' \in {heard, 0} /\ UNCHANGED <<sinceReport, sinceAnnounced, back>>
    BY <1>6 DEF SendBeacon, trouble
  <2> QED
    BY <1>2, <2>1
<1>7. ASSUME NEW d \in Nat, Tick(d)
      PROVE  Elapsed'
  BY <1>2, <1>7, TickFacts, PassFacts
<1>8. ASSUME NEW d \in {-ClockStep, ClockStep}, SetClock(d)
      PROVE  Elapsed'
  BY <1>2, <1>8, ClockFacts DEF elapsed
<1>9. ASSUME UNCHANGED vars PROVE Elapsed'
  BY <1>2, <1>9 DEF vars, elapsed, trouble
<1>10. Elapsed'
  <2> HIDE DEF Elapsed
  <2> QED
    BY <1>3, <1>4, <1>5, <1>6, <1>7, <1>8, <1>9, Kinds
<1> QED
  BY <1>1, <1>10 DEF Times

\* Only a join that fails leaves an open socket out of the group.
LEMMA MemberStep ==
  ASSUME Member, Sockets, Times, [Next]_vars
  PROVE  Member'
<1> USE DEF Member, Sockets, Looping
<1>1. misses \in Nat
  BY DEF Times
<1>2. CASE Before
  <2>1. CASE StartMdns \/ StartMdnsFails \/ Interrupt \/ InterruptRegister \/ InterruptStop
    BY <2>1 DEF StartMdns, StartMdnsFails, Interrupt, InterruptRegister, InterruptStop,
         sockets
  <2>2. CASE StartUdp \/ StartUdpFails
    BY <2>2 DEF StartUdp, StartUdpFails
  <2>3. CASE StartUdp6
    BY <2>3 DEF StartUdp6, trouble
  <2>4. CASE Stop \/ StopFails
    <3>1. ~joined' /\ pc' \in {"stop", "ended"}
      BY <2>4 DEF Stop, StopFails, AfterStop
    <3> QED
      BY <3>1
  <2> QED
    BY <1>2, <2>1, <2>2, <2>3, <2>4 DEF Before
<1>3. CASE Quiet
  <2>1. UNCHANGED <<sock, joined, misses>>
    BY <1>3, QuietFacts DEF sockets
  <2>2. Looping
    BY <1>3 DEF Quiet, HandleMessage, NoBeacon, SendBeaconFails, SendBeaconHalfMade, NoMdns,
         Unregister, UnregisterFails
  <2> QED
    BY <2>1, <2>2
<1>4. CASE RefreshIgmp
  BY <1>4 DEF RefreshIgmp
<1>5. CASE RefreshIgmpFails
  BY <1>1, <1>5 DEF RefreshIgmpFails
<1>6. CASE SendBeacon
  BY <1>6 DEF SendBeacon, sockets, trouble
<1>7. ASSUME NEW d \in Nat, Tick(d)
      PROVE  Member'
  BY <1>7 DEF Tick, SelectTimeout, Register, RegisterFails, sockets, trouble
<1>8. ASSUME NEW d \in {-ClockStep, ClockStep}, SetClock(d)
      PROVE  Member'
  BY <1>8 DEF SetClock, sockets
<1>9. CASE UNCHANGED vars
  BY <1>9 DEF vars, sockets, trouble
<1> QED
  BY <1>2, <1>3, <1>4, <1>5, <1>6, <1>7, <1>8, <1>9, Kinds

\* Only the loop sends and waits.
LEMMA UnstartedStep ==
  ASSUME Unstarted, [Next]_vars
  PROVE  Unstarted'
<1>1. CASE Before
  <2>1. UNCHANGED <<heard, sinceReport, sinceAnnounced, lost>>
    BY <1>1, BeforeFacts DEF elapsed
  <2>2. pc' \in {"start", "udp4", "udp6"} => pc \in {"start", "udp4", "udp6"}
    BY <1>1, BeforeFacts
  <2> QED
    BY <2>1, <2>2 DEF Unstarted
<1>2. CASE Quiet \/ RefreshIgmp \/ RefreshIgmpFails \/ SendBeacon
  <2>1. pc' \in {"select", "igmp", "beacon", "mdns", "register"}
    BY <1>2 DEF Quiet, RefreshIgmp, RefreshIgmpFails, SendBeacon, HandleMessage, NoBeacon,
         SendBeaconFails, SendBeaconHalfMade, NoMdns, Unregister, UnregisterFails
  <2> QED
    BY <2>1 DEF Unstarted
<1>3. ASSUME NEW d \in Nat, Tick(d)
      PROVE  Unstarted'
  BY <1>3 DEF Tick, SelectTimeout, Register, RegisterFails, Unstarted
<1>4. ASSUME NEW d \in {-ClockStep, ClockStep}, SetClock(d)
      PROVE  Unstarted'
  BY <1>4 DEF SetClock, Unstarted
<1>5. CASE UNCHANGED vars
  BY <1>5 DEF vars, elapsed, Unstarted
<1> QED
  BY <1>1, <1>2, <1>3, <1>4, <1>5, Kinds

\* stop() withdraws what was advertised unless it is cut short.
LEMMA OwnedStep ==
  ASSUME Owned, Sockets, [Next]_vars
  PROVE  Owned'
<1> USE DEF Owned, NotLeftBehind
<1>1. CASE StartMdns \/ StartMdnsFails \/ StartUdp \/ StartUdpFails \/ StartUdp6
  <2>1. pc' # "ended"
    BY <1>1 DEF StartMdns, StartMdnsFails, StartUdp, StartUdpFails, StartUdp6
  <2>2. (advertised' => zeroconf') /\ pc' \notin {"start", "register"}
    <3>1. CASE StartMdns
      BY <3>1 DEF StartMdns
    <3>2. CASE StartMdnsFails
      BY <3>2 DEF StartMdnsFails
    <3>3. CASE StartUdp \/ StartUdpFails \/ StartUdp6
      BY <3>3 DEF StartUdp, StartUdpFails, StartUdp6
    <3> QED
      BY <1>1, <3>1, <3>2, <3>3
  <2> QED
    BY <2>1, <2>2
<1>2. CASE Interrupt \/ InterruptRegister
  BY <1>2 DEF Interrupt, InterruptRegister
<1>3. CASE InterruptStop
  BY <1>3 DEF InterruptStop
<1>4. CASE Stop
  BY <1>4 DEF Stop, AfterStop
<1>5. CASE StopFails
  BY <1>5 DEF StopFails, AfterStop
<1>6. CASE Quiet \/ RefreshIgmp \/ RefreshIgmpFails \/ SendBeacon
  <2>1. /\ pc' \in {"select", "igmp", "beacon", "mdns"} \/ Unregister
        /\ advertised' \in {advertised, FALSE} /\ UNCHANGED zeroconf
    BY <1>6 DEF Quiet, RefreshIgmp, RefreshIgmpFails, SendBeacon, HandleMessage, NoBeacon,
         SendBeaconFails, SendBeaconHalfMade, NoMdns, Unregister, UnregisterFails
  <2>2. CASE pc' \in {"select", "igmp", "beacon", "mdns"}
    <3>1. pc' \notin {"start", "register", "ended"}
      BY <2>2
    <3>2. advertised' => zeroconf'
      BY <2>1
    <3> QED
      BY <3>1, <3>2
  <2>3. CASE Unregister
    BY <2>3 DEF Unregister, MdnsDue
  <2> QED
    BY <2>1, <2>2, <2>3
<1>7. ASSUME NEW d \in Nat, Tick(d)
      PROVE  Owned'
  BY <1>7 DEF Tick, SelectTimeout, Register, RegisterFails
<1>8. ASSUME NEW d \in {-ClockStep, ClockStep}, SetClock(d)
      PROVE  Owned'
  BY <1>8 DEF SetClock
<1>9. CASE UNCHANGED vars
  BY <1>9 DEF vars, trouble
<1> QED
  BY <1>1, <1>2, <1>3, <1>4, <1>5, <1>6, <1>7, <1>8, <1>9, Kinds DEF Before

\* Steps keep the stamps in step with what they stand for.
LEMMA WallClockStep ==
  ASSUME Ages, Times, Unstarted, WallClock, Reported, Beaconed, [Next]_vars
  PROVE  WallClock'
<1>1. /\ heard \in 0 .. Long /\ sinceReport \in 0 .. Long /\ sinceAnnounced \in 0 .. Long
      /\ back \in Nat /\ igmpAge \in Int /\ beaconAge \in Int /\ mdnsAge \in Int
      /\ Wait(misses) \in Nat
  BY WaitStep DEF Ages, Times
<1>2. CASE Before
  <2>1. /\ UNCHANGED <<heard, sinceReport, sinceAnnounced, back, misses, lost, failures>>
        /\ UNCHANGED beaconAge
    BY <1>2, BeforeFacts DEF elapsed
  <2>2. sinceReport' <= igmpAge' + back' + Wait(misses')
    <3>1. CASE igmpAge' = igmpAge
      BY <2>1, <3>1 DEF WallClock
    <3>2. CASE igmpAge' = 0 /\ pc \in {"start", "udp4"}
      BY <1>1, <2>1, <3>2 DEF Unstarted
    <3> QED
      BY <1>2, <3>1, <3>2, BeforeFacts
  <2>3. sinceAnnounced' <= mdnsAge' + back'
    <3>1. CASE mdnsAge' = mdnsAge
      BY <2>1, <3>1 DEF WallClock
    <3>2. CASE mdnsAge' = 0 /\ pc \in {"start", "udp4"}
      BY <1>1, <2>1, <3>2 DEF Unstarted
    <3> QED
      BY <1>2, <3>1, <3>2, BeforeFacts
  <2> QED
    BY <2>1, <2>2, <2>3 DEF WallClock
<1>3. CASE Quiet
  <2>1. /\ UNCHANGED <<heard, sinceReport, sinceAnnounced, back, misses, lost>>
        /\ UNCHANGED <<igmpAge, beaconAge, mdnsAge>>
        /\ failures' \in {failures, failures + 1}
    BY <1>3, QuietFacts DEF elapsed, stamps
  <2>2. lost' => heard' <= beaconAge' + back' + Slack(failures')
    <3>1. lost => heard <= beaconAge + back + Slack(failures)
      BY DEF WallClock
    <3>2. heard <= beaconAge + back + Slack(failures)
              => heard <= beaconAge + back + Slack(failures')
      BY <1>1, <2>1, SlackStep
    <3> QED
      BY <2>1, <3>1, <3>2
  <2> QED
    BY <2>1, <2>2 DEF WallClock
<1>4. CASE RefreshIgmp \/ RefreshIgmpFails
  <2>1. UNCHANGED <<heard, sinceAnnounced, back, lost, failures, beaconAge, mdnsAge>>
    BY <1>4 DEF RefreshIgmp, RefreshIgmpFails, elapsed
  <2>2. sinceReport' <= igmpAge' + back' + Wait(misses')
    <3>1. CASE UNCHANGED <<igmpAge, sinceReport, misses>>
      BY <2>1, <3>1 DEF WallClock
    <3>2. CASE RefreshIgmp /\ igmpAge' = 0 /\ sinceReport' = 0 /\ misses' = 0
      BY <1>1, <2>1, <3>2, WaitStep
    <3>3. CASE RefreshIgmpFails
      <4>1. sinceReport' = sinceReport /\ igmpAge' = 0 /\ misses' = misses + 1 /\ pc = "igmp"
        BY <3>3 DEF RefreshIgmpFails, elapsed
      <4>2. sinceReport <= IgmpInterval + back + Wait(misses) + Lap
        BY <4>1 DEF Reported
      <4>3. IgmpInterval \in Nat /\ Lap \in Nat
        BY DEF Lap
      <4>4. PICK n \in Nat : n = Wait(misses')
        BY <1>1, <4>1, <4>3, WaitStep
      <4>5. n = Wait(misses) + IgmpInterval + Lap
        BY <4>1, <4>4, WaitStep
      <4>6. sinceReport <= 0 + back + n
        BY <1>1, <4>2, <4>3, <4>5
      <4> QED
        BY <2>1, <4>1, <4>4, <4>6
    <3> QED
      BY <1>4, <3>1, <3>2, <3>3 DEF RefreshIgmp
  <2> QED
    BY <2>1, <2>2 DEF WallClock
<1>5. CASE SendBeacon
  <2>1. /\ UNCHANGED <<sinceReport, sinceAnnounced, back, misses, failures, igmpAge, mdnsAge>>
        /\ beaconAge' = 0 /\ sock6 = "ready" /\ beaconAge >= BeaconInterval
    BY <1>5 DEF SendBeacon, BeaconDue, trouble
  <2>2. (~lost' /\ heard' = 0) \/ (~lost /\ lost' /\ heard' = heard)
    BY <1>5 DEF SendBeacon
  <2>3. /\ sinceReport' <= igmpAge' + back' + Wait(misses')
        /\ sinceAnnounced' <= mdnsAge' + back'
    BY <2>1 DEF WallClock
  <2>4. CASE ~lost' /\ heard' = 0
    BY <1>1, <2>1, <2>3, <2>4 DEF WallClock
  <2>5. CASE ~lost /\ lost' /\ heard' = heard
    <3>1. Late(0) /\ pc = "beacon"
      BY <1>5, <2>1, <2>5 DEF Beaconed, SendBeacon
    <3>2. heard <= BeaconInterval - 1 + back + Delay(failures) + 0 + Lap
      BY <3>1 DEF Late
    <3>3. heard <= 0 + back + Slack(failures)
      <4>1. Delay(failures) \in Nat /\ Lap \in Nat
        BY DelayStep, <2>1 DEF Lap
      <4> QED
        BY <1>1, <3>2, <4>1 DEF Slack
    <3>4. heard' <= beaconAge' + back' + Slack(failures')
      BY <2>1, <2>5, <3>3
    <3> QED
      BY <2>3, <2>5, <3>4 DEF WallClock
  <2> QED
    BY <2>2, <2>4, <2>5
<1>6. ASSUME NEW d \in Nat, Tick(d)
      PROVE  WallClock'
  BY <1>6, TickFacts, PassFacts DEF WallClock
<1>7. ASSUME NEW d \in {-ClockStep, ClockStep}, SetClock(d)
      PROVE  WallClock'
  <2>1. PICK b \in Nat, i \in Int, m \in Int, a \in Int :
          /\ back' = b /\ igmpAge' = i /\ mdnsAge' = m /\ beaconAge' = a
          /\ back <= b
          /\ igmpAge + back <= i + b /\ mdnsAge + back <= m + b /\ beaconAge + back <= a + b
    BY <1>7, ClockFacts DEF Ages
  <2>2. heard' = heard /\ sinceReport' = sinceReport /\ sinceAnnounced' = sinceAnnounced
    BY <1>7, ClockFacts DEF elapsed
  <2>3. UNCHANGED <<lost, misses, failures>> /\ Slack(failures) \in Nat
    BY <1>7, ClockFacts, SlackStep
  <2>4. sinceReport <= i + b + Wait(misses) /\ sinceAnnounced <= m + b
    <3>1. sinceReport <= igmpAge + back + Wait(misses) /\ sinceAnnounced <= mdnsAge + back
      BY DEF WallClock
    <3>2. PICK w \in Nat : w = Wait(misses)
      BY <1>1
    <3> QED
      BY <1>1, <2>1, <3>1, <3>2
  <2>5. heard <= beaconAge + back => heard <= a + b
    BY <1>1, <2>1
  <2>6. heard <= beaconAge + back + Slack(failures) => heard <= a + b + Slack(failures)
    <3>1. Slack(failures) \in Nat
      BY <2>3
    <3> QED
      BY <1>1, <2>1, <3>1
  <2>7. ~lost' => heard' <= beaconAge' + back'
    <3>1. ~lost' => heard <= a + b
      BY <2>3, <2>5 DEF WallClock
    <3> QED
      BY <2>1, <2>2, <3>1
  <2>8. lost' => heard' <= beaconAge' + back' + Slack(failures')
    <3>1. lost' => heard <= a + b + Slack(failures')
      BY <2>3, <2>6 DEF WallClock
    <3> QED
      BY <2>1, <2>2, <3>1
  <2>9. /\ sinceReport' <= igmpAge' + back' + Wait(misses')
        /\ sinceAnnounced' <= mdnsAge' + back'
    BY <2>1, <2>2, <2>3, <2>4
  <2> QED
    BY <2>7, <2>8, <2>9 DEF WallClock
<1>8. CASE UNCHANGED vars
  BY <1>8 DEF vars, stamps, elapsed, trouble, WallClock
<1> QED
  BY <1>2, <1>3, <1>4, <1>5, <1>6, <1>7, <1>8, Kinds

\* The membership is renewed within a round of its being due.
LEMMA ReportedStep ==
  ASSUME Ages, Times, WallClock, Unstarted, Reported, [Next]_vars
  PROVE  Reported'
<1>1. /\ sinceReport \in 0 .. Long /\ back \in Nat /\ igmpAge \in Int
      /\ Lap = 1 + RegisterTime /\ Wait(misses) \in Nat
  BY WaitStep DEF Ages, Times, Lap
<1>2. CASE Before
  <2>1. sinceReport' = sinceReport /\ back' = back /\ misses' = misses
    BY <1>2, BeforeFacts DEF elapsed
  <2>2. CASE pc' \in {"udp4", "udp6", "stop", "ended"}
    BY <2>2 DEF Reported
  <2>3. CASE pc = "udp6" /\ pc' = "select"
    BY <1>1, <2>1, <2>3 DEF Unstarted, Reported
  <2> QED
    BY <1>2, <2>2, <2>3, BeforeFacts
<1>3. CASE Quiet
  <2>1. sinceReport' = sinceReport /\ back' = back /\ misses' = misses
    BY <1>3, QuietFacts DEF elapsed
  <2>2. \/ pc = "select" /\ pc' = "igmp"
        \/ pc \in {"beacon", "mdns"} /\ pc' \in {"mdns", "register", "select"}
    BY <1>3 DEF Quiet, HandleMessage, NoBeacon, SendBeaconFails, SendBeaconHalfMade, NoMdns,
         Unregister, UnregisterFails
  <2> QED
    BY <1>1, <2>1, <2>2 DEF Reported
<1>4. CASE RefreshIgmp \/ RefreshIgmpFails
  <2>1. back' = back /\ pc = "igmp" /\ pc' = "beacon"
    BY <1>4 DEF RefreshIgmp, RefreshIgmpFails
  <2>2. CASE sinceReport' = 0 /\ misses' = 0
    BY <1>1, <2>1, <2>2, WaitStep DEF Reported
  <2>3. CASE UNCHANGED <<sinceReport, misses>> /\ ~(igmpAge > IgmpInterval)
    <3>1. sinceReport <= igmpAge + back + Wait(misses)
      BY DEF WallClock
    <3>2. sinceReport <= IgmpInterval + back + Wait(misses)
      BY <1>1, <2>3, <3>1
    <3> QED
      BY <2>1, <2>3, <3>2 DEF Reported
  <2>4. CASE RefreshIgmpFails
    <3>1. sinceReport' = sinceReport /\ misses' = misses + 1
      BY <2>4 DEF RefreshIgmpFails, elapsed
    <3>2. sinceReport <= IgmpInterval + back + Wait(misses) + Lap
      BY <2>1 DEF Reported
    <3>3. PICK n \in Nat : n = Wait(misses') /\ n = Wait(misses) + IgmpInterval + Lap
      BY <1>1, <3>1, WaitStep
    <3>4. sinceReport <= IgmpInterval + back + n
      BY <1>1, <3>2, <3>3
    <3> QED
      BY <2>1, <3>1, <3>3, <3>4 DEF Reported
  <2> QED
    BY <1>4, <2>2, <2>3, <2>4 DEF RefreshIgmp, IgmpDue
<1>5. CASE SendBeacon
  <2>1. /\ sinceReport' = sinceReport /\ back' = back /\ misses' = misses
        /\ pc = "beacon" /\ pc' = "mdns"
    BY <1>5 DEF SendBeacon, trouble
  <2> QED
    BY <2>1 DEF Reported
<1>6. ASSUME NEW d \in Nat, Tick(d)
      PROVE  Reported'
  <2>1. /\ sinceReport' <= sinceReport + d /\ sinceReport' \in 0 .. Long
        /\ back' = back /\ misses' = misses
    BY <1>6, TickFacts, PassFacts
  <2>2. \/ d = 1 /\ pc = "select" /\ pc' = "igmp"
        \/ d <= RegisterTime /\ pc = "register" /\ pc' = "select"
    BY <1>6 DEF Tick, SelectTimeout, Register, RegisterFails
  <2> QED
    BY <1>1, <2>1, <2>2 DEF Reported
<1>7. ASSUME NEW d \in {-ClockStep, ClockStep}, SetClock(d)
      PROVE  Reported'
  <2>1. PICK b \in Nat : back' = b /\ back <= b
    BY <1>7, ClockFacts
  <2>2. sinceReport' = sinceReport /\ misses' = misses /\ pc' = "select" /\ pc = "select"
    BY <1>7, ClockFacts DEF elapsed, SetClock
  <2>3. sinceReport <= IgmpInterval + b + Wait(misses) + RegisterTime
    BY <1>1, <2>1, <2>2 DEF Reported
  <2> QED
    BY <2>1, <2>2, <2>3 DEF Reported
<1>8. CASE UNCHANGED vars
  BY <1>8 DEF vars, elapsed, trouble, Reported
<1> QED
  BY <1>2, <1>3, <1>4, <1>5, <1>6, <1>7, <1>8, Kinds

\* Of the beacons: what each step does to a device that waits, w of it for the
\* beacon before, unless one is sent.
LEMMA LateStep ==
  ASSUME Ages, Times, WallClock, [Next]_vars, ~SendBeacon, ~Before, sock6 = "ready",
         NEW w \in Nat, Late(w), heard <= beaconAge + back + w + Delay(failures)
  PROVE  Late(w)'
<1>1. /\ heard \in 0 .. Long /\ back \in Nat /\ beaconAge \in Int
      /\ Lap = 1 + RegisterTime /\ BeaconInterval - 1 \in Nat
  BY DEF Ages, Times, Lap
<1>2. Delay(failures) \in Nat
  BY DelayStep, <1>1 DEF Times, Delay
<1>3. CASE Quiet
  <2>1. heard' = heard /\ back' = back /\ failures' \in {failures, failures + 1}
    BY <1>3, QuietFacts DEF elapsed
  <2>2. PICK f \in Nat :
          /\ Delay(failures') = f /\ Delay(failures) <= f
          /\ failures' = failures + 1 => f = Delay(failures) + Lap
    BY <2>1, DelayStep
  <2>3. \/ pc = "select" /\ pc' = "igmp"
        \/ pc = "beacon" /\ pc' = "mdns" /\ ~(beaconAge >= BeaconInterval)
        \/ pc = "beacon" /\ pc' = "mdns" /\ failures' = failures + 1
        \/ pc = "mdns" /\ pc' \in {"register", "select"}
    BY <1>3 DEF Quiet, HandleMessage, NoBeacon, BeaconDue, SendBeaconFails,
         SendBeaconHalfMade, NoMdns, Unregister, UnregisterFails
  <2> DEFINE limit == BeaconInterval - 1 + back + f + w
  <2>4. /\ pc' \in {"mdns", "register"} => heard <= limit
        /\ pc' = "select" => heard <= limit + RegisterTime
        /\ pc' \in {"igmp", "beacon"} => heard <= limit + Lap
    BY <1>1, <1>2, <2>2, <2>3 DEF Late
  <2> QED
    BY <2>1, <2>2, <2>4 DEF Late
<1>4. CASE RefreshIgmp \/ RefreshIgmpFails
  <2>1. UNCHANGED <<heard, back, failures>> /\ pc = "igmp" /\ pc' = "beacon"
    BY <1>4 DEF RefreshIgmp, RefreshIgmpFails, elapsed
  <2> QED
    BY <2>1 DEF Late
<1>5. ASSUME NEW d \in Nat, Tick(d)
      PROVE  Late(w)'
  <2>1. heard' <= heard + d /\ heard' \in 0 .. Long /\ back' = back
    BY <1>5, TickFacts, PassFacts
  <2>2. \/ d = 1 /\ pc = "select" /\ pc' = "igmp"
        \/ d <= RegisterTime /\ pc = "register" /\ pc' = "select"
    BY <1>5 DEF Tick, SelectTimeout, Register, RegisterFails
  <2>3. PICK f \in Nat : Delay(failures') = f /\ Delay(failures) <= f
    BY <1>5, TickFacts, DelayStep
  <2>4. PICK h \in 0 .. Long : heard' = h /\ h <= heard + d
    BY <2>1
  <2> DEFINE limit == BeaconInterval - 1 + back + f + w
  <2>5. /\ pc' \in {"mdns", "register"} => h <= limit
        /\ pc' = "select" => h <= limit + RegisterTime
        /\ pc' \in {"igmp", "beacon"} => h <= limit + Lap
    BY <1>1, <1>2, <2>2, <2>3, <2>4 DEF Late
  <2> QED
    BY <2>1, <2>3, <2>4, <2>5 DEF Late
<1>6. ASSUME NEW d \in {-ClockStep, ClockStep}, SetClock(d)
      PROVE  Late(w)'
  <2>1. PICK b \in Nat : back' = b /\ back <= b
    BY <1>6, ClockFacts
  <2>2. heard' = heard /\ failures' = failures /\ pc' = "select" /\ pc = "select"
    BY <1>6, ClockFacts DEF elapsed, SetClock
  <2>3. heard <= BeaconInterval - 1 + b + Delay(failures) + w + RegisterTime
    BY <1>1, <1>2, <2>1, <2>2 DEF Late
  <2> QED
    BY <2>1, <2>2, <2>3 DEF Late
<1>7. CASE UNCHANGED vars
  BY <1>7 DEF vars, elapsed, trouble, Late
<1> QED
  BY <1>3, <1>4, <1>5, <1>6, <1>7, Kinds

\* A device that hears every other beacon waits no longer than Beaconed says.
LEMMA BeaconedStep ==
  ASSUME Ages, Times, Unstarted, WallClock, Beaconed, [Next]_vars
  PROVE  Beaconed'
<1> DEFINE W == BeaconInterval - 1 + Lap
<1>1. /\ heard \in 0 .. Long /\ back \in Nat /\ beaconAge \in Int
      /\ Lap \in Nat /\ BeaconInterval - 1 \in Nat
      /\ failures \in Nat /\ W \in Nat
  BY DEF Ages, Times, Lap
<1>2. Delay(failures) \in Nat
  BY <1>1 DEF Delay, Lap
<1>3. CASE Before
  <2>1. heard' = heard /\ back' = back /\ failures' = failures
    BY <1>3, BeforeFacts DEF elapsed
  <2>2. CASE pc' \in {"udp4", "udp6", "stop", "ended"}
    BY <2>2 DEF Beaconed, Late
  <2>3. CASE pc = "udp6" /\ pc' = "select"
    <3>1. heard = 0
      BY <2>3 DEF Unstarted
    <3>2. Late(0)'
      BY <1>1, <1>2, <2>1, <2>3, <3>1 DEF Late
    <3>3. ~lost'
      BY <1>3, <2>3, BeforeFacts DEF Unstarted
    <3> QED
      BY <3>2, <3>3 DEF Beaconed
  <2> QED
    BY <1>3, <2>2, <2>3, BeforeFacts
<1>4. CASE SendBeacon
  <2>1. /\ sock6 = "ready" /\ back' = back /\ failures' = failures
        /\ pc = "beacon" /\ pc' = "mdns"
    BY <1>4 DEF SendBeacon, BeaconDue, sockets, trouble
  <2>2. (~lost' /\ heard' = 0) \/ (~lost /\ lost' /\ heard' = heard)
    BY <1>4 DEF SendBeacon
  <2>3. CASE ~lost' /\ heard' = 0
    <3>1. Late(0)'
      BY <1>1, <1>2, <2>1, <2>3 DEF Late
    <3> QED
      BY <2>3, <3>1 DEF Beaconed
  <2>4. CASE ~lost /\ lost' /\ heard' = heard
    <3>1. Late(0)
      BY <2>1, <2>4 DEF Beaconed
    <3>2. heard <= BeaconInterval - 1 + back + Delay(failures) + W
      BY <1>1, <1>2, <2>1, <3>1 DEF Late
    <3>3. Late(W)'
      BY <2>1, <2>4, <3>2 DEF Late
    <3> QED
      BY <2>4, <3>3 DEF Beaconed
  <2> QED
    BY <2>2, <2>3, <2>4
<1>5. ASSUME ~SendBeacon, ~Before
      PROVE  Beaconed'
  <2>1. UNCHANGED <<lost, sock6>>
    <3>1. CASE Quiet
      BY <3>1, QuietFacts DEF sockets
    <3>2. CASE RefreshIgmp \/ RefreshIgmpFails
      BY <3>2 DEF RefreshIgmp, RefreshIgmpFails
    <3>3. ASSUME NEW d \in Nat, Tick(d)
          PROVE  UNCHANGED <<lost, sock6>>
      BY <3>3, TickFacts DEF sockets
    <3>4. ASSUME NEW d \in {-ClockStep, ClockStep}, SetClock(d)
          PROVE  UNCHANGED <<lost, sock6>>
      BY <3>4, ClockFacts DEF sockets
    <3>5. CASE UNCHANGED vars
      BY <3>5 DEF vars, sockets
    <3> QED
      BY <1>5, <3>1, <3>2, <3>3, <3>4, <3>5, Kinds
  <2>2. SUFFICES ASSUME sock6 = "ready"
                 PROVE  (~lost => Late(0)') /\ (lost => Late(W)')
    BY <2>1 DEF Beaconed
  <2>3. ASSUME ~lost
        PROVE  Late(0)'
    <3>1. Late(0)
      BY <2>2, <2>3 DEF Beaconed
    <3>2. heard <= beaconAge + back
      BY <2>3 DEF WallClock
    <3>3. heard <= beaconAge + back + 0 + Delay(failures)
      BY <1>1, <1>2, <3>2
    <3> QED
      BY <1>5, <2>2, <3>1, <3>3, LateStep
  <2>4. ASSUME lost
        PROVE  Late(W)'
    <3>1. Late(W)
      BY <2>2, <2>4 DEF Beaconed
    <3>2. heard <= beaconAge + back + Slack(failures)
      BY <2>4 DEF WallClock
    <3>3. heard <= beaconAge + back + W + Delay(failures)
      BY <1>1, <1>2, <3>2 DEF Slack
    <3>4. W \in Nat
      BY <1>1
    <3> HIDE DEF W
    <3> QED
      BY <1>5, <2>2, <3>1, <3>3, <3>4, LateStep
  <2> QED
    BY <2>3, <2>4
<1> QED
  BY <1>3, <1>4, <1>5

\* The service is registered anew within a tick of its being due, but for failures.
LEMMA AnnouncedStep ==
  ASSUME Ages, Times, WallClock, Unstarted, Announced, [Next]_vars
  PROVE  Announced'
<1>1. /\ sinceAnnounced \in 0 .. Long /\ back \in Nat /\ mdnsAge \in Int
      /\ Lap = 1 + RegisterTime
  BY DEF Ages, Times, Lap
<1>2. Delay(failures) \in Nat
  BY <1>1 DEF Times, Delay
<1>3. sinceAnnounced <= mdnsAge + back
  BY DEF WallClock
<1>4. CASE Before
  <2>1. sinceAnnounced' = sinceAnnounced /\ back' = back /\ failures' = failures
    BY <1>4, BeforeFacts DEF elapsed
  <2>2. CASE pc' \in {"udp4", "udp6", "stop", "ended"}
    BY <2>2 DEF Announced
  <2>3. CASE pc = "udp6" /\ pc' = "select"
    <3>1. sinceAnnounced = 0
      BY <2>3 DEF Unstarted
    <3> QED
      BY <1>1, <1>2, <2>1, <2>3, <3>1 DEF Announced
  <2> QED
    BY <1>4, <2>2, <2>3, BeforeFacts
<1>5. CASE Quiet
  <2>1. sinceAnnounced' = sinceAnnounced /\ back' = back /\ failures' \in {failures, failures + 1}
    BY <1>5, QuietFacts DEF elapsed
  <2>2. UNCHANGED <<zeroconf, sock6>>
    BY <1>5, QuietFacts
  <2>3. PICK f \in Nat :
          /\ Delay(failures') = f /\ Delay(failures) <= f
          /\ failures' = failures + 1 => f = Delay(failures) + Lap
    BY <2>1, DelayStep
  <2>4. SUFFICES ASSUME zeroconf, sock6 # "bare"
                 PROVE  /\ pc' = "select" => sinceAnnounced <= MdnsInterval + back + f
                        /\ pc' \in {"igmp", "beacon", "mdns", "register"}
                               => sinceAnnounced <= MdnsInterval + back + f + 1
    BY <2>1, <2>2, <2>3 DEF Announced
  <2>5. /\ pc = "select" => sinceAnnounced <= MdnsInterval + back + Delay(failures)
        /\ pc \in {"igmp", "beacon", "mdns", "register"}
               => sinceAnnounced <= MdnsInterval + back + Delay(failures) + 1
    BY <2>4 DEF Announced
  <2>6. \/ pc = "select" /\ pc' = "igmp"
        \/ pc = "beacon" /\ pc' = "mdns"
        \/ pc = "mdns" /\ pc' = "select" /\ ~(mdnsAge > MdnsInterval)
        \/ pc = "mdns" /\ pc' = "select" /\ failures' = failures + 1
        \/ pc = "mdns" /\ pc' = "register"
    BY <1>5, <2>4 DEF Quiet, HandleMessage, NoBeacon, SendBeaconFails,
         SendBeaconHalfMade, NoMdns, MdnsDue, Unregister, UnregisterFails
  <2> QED
    BY <1>1, <1>2, <1>3, <2>3, <2>5, <2>6
<1>6. CASE RefreshIgmp \/ RefreshIgmpFails \/ SendBeacon
  <2>1. /\ sinceAnnounced' = sinceAnnounced /\ back' = back /\ failures' = failures
        /\ pc \in {"igmp", "beacon"} /\ pc' \in {"beacon", "mdns"}
    BY <1>6 DEF RefreshIgmp, RefreshIgmpFails, SendBeacon, trouble, elapsed
  <2>2. UNCHANGED <<zeroconf, sock6>>
    BY <1>6 DEF RefreshIgmp, RefreshIgmpFails, SendBeacon, sockets
  <2> QED
    BY <2>1, <2>2 DEF Announced
<1>7. ASSUME NEW d \in Nat, Tick(d)
      PROVE  Announced'
  <2>1. UNCHANGED <<zeroconf, sock6>> /\ failures' \in {failures, failures + 1}
    BY <1>7, TickFacts DEF sockets
  <2>2. SUFFICES ASSUME zeroconf, sock6 # "bare"
                 PROVE  Announced'
    BY <2>1 DEF Announced
  <2>3. /\ pc = "select" => sinceAnnounced <= MdnsInterval + back + Delay(failures)
        /\ pc \in {"igmp", "beacon", "mdns", "register"}
               => sinceAnnounced <= MdnsInterval + back + Delay(failures) + 1
    BY <2>2 DEF Announced
  <2>4. PICK f \in Nat :
          /\ Delay(failures') = f /\ Delay(failures) <= f
          /\ failures' = failures + 1 => f = Delay(failures) + Lap
    BY <2>1, DelayStep
  <2>5. PICK a \in 0 .. Long : sinceAnnounced' = a /\ a <= sinceAnnounced + d
    BY <1>7, TickFacts
  <2>6. back' = back
    BY <1>7, TickFacts
  <2>7. \/ d = 1 /\ pc = "select" /\ pc' = "igmp"
        \/ a = 0 /\ pc' = "select"
        \/ d <= RegisterTime /\ pc = "register" /\ pc' = "select" /\ failures' = failures + 1
    BY <1>7, <2>5 DEF Tick, SelectTimeout, Register, RegisterFails
  <2>8. /\ pc' = "select" => a <= MdnsInterval + back + f
        /\ pc' \in {"igmp", "beacon", "mdns", "register"} => a <= MdnsInterval + back + f + 1
    BY <1>1, <1>2, <2>3, <2>4, <2>5, <2>7
  <2> QED
    BY <2>4, <2>5, <2>6, <2>8 DEF Announced
<1>8. ASSUME NEW d \in {-ClockStep, ClockStep}, SetClock(d)
      PROVE  Announced'
  <2>1. PICK b \in Nat : back' = b /\ back <= b
    BY <1>8, ClockFacts
  <2>2. sinceAnnounced' = sinceAnnounced /\ failures' = failures /\ pc' = "select" /\ pc = "select"
    BY <1>8, ClockFacts DEF elapsed, SetClock
  <2>3. UNCHANGED <<zeroconf, sock6>>
    BY <1>8, ClockFacts DEF sockets
  <2>4. zeroconf /\ sock6 # "bare"
            => sinceAnnounced <= MdnsInterval + back + Delay(failures)
    BY <2>2 DEF Announced
  <2>5. sinceAnnounced <= MdnsInterval + back + Delay(failures)
            => sinceAnnounced <= MdnsInterval + b + Delay(failures)
    BY <1>1, <1>2, <2>1
  <2> QED
    BY <2>1, <2>2, <2>3, <2>4, <2>5 DEF Announced
<1>9. CASE UNCHANGED vars
  BY <1>9 DEF vars, elapsed, trouble, sockets, Announced
<1> QED
  BY <1>4, <1>5, <1>6, <1>7, <1>8, <1>9, Kinds

-----------------------------------------------------------------------------
(***************************************************************************)
(* The theorems.                                                           *)
(***************************************************************************)

\* The strengthened invariant holds throughout.
THEOREM Invariance == Spec => []IInv
<1>1. Init => IInv
  BY InitInv
<1>2. IInv /\ [Next]_vars => IInv'
  <2> SUFFICES ASSUME IInv, [Next]_vars PROVE IInv'
    OBVIOUS
  <2>1. Flags /\ Sockets /\ Ages /\ Looks /\ Times
    BY DEF IInv, Types
  <2>2. /\ Member /\ Unstarted /\ Owned
        /\ WallClock /\ Reported /\ Beaconed /\ Announced
    BY DEF IInv
  <2>3. Flags' /\ Sockets' /\ Ages' /\ Looks' /\ Times'
    BY <2>1, <2>2, FlagsStep, SocketsStep, AgesStep, LooksStep, TimesStep
  <2>4. Member' /\ Unstarted' /\ Owned'
    BY <2>1, <2>2, MemberStep, UnstartedStep, OwnedStep
  <2>5. WallClock' /\ Reported' /\ Beaconed' /\ Announced'
    BY <2>1, <2>2, WallClockStep, ReportedStep, BeaconedStep, AnnouncedStep
  <2> QED
    BY <2>3, <2>4, <2>5 DEF IInv, Types
<1> QED
  BY <1>1, <1>2, PTL DEF Spec

\* Every variable keeps its type, and the loop only runs on an open socket.
THEOREM TypeCorrect == Spec => []TypeOK
<1>1. IInv => TypeOK
  BY TypeParts DEF IInv
<1> QED
  BY <1>1, Invariance, PTL

\* A service is left behind only where the second Ctrl+C, or the library, ended stop().
THEOREM NoServiceLeftBehind == Spec => []NotLeftBehind
<1>1. IInv => NotLeftBehind
  BY DEF IInv, Owned
<1> QED
  BY <1>1, Invariance, PTL

\* The membership is renewed and the service registered anew on schedule, failed
\* attempts allowed for, whatever the intervals and however long a registration
\* takes.
THEOREM DutiesOnSchedule == Spec => []OnSchedule
<1>1. ASSUME IInv
      PROVE  OnSchedule
  <2> SUFFICES ASSUME Looping PROVE OnSchedule
    BY DEF OnSchedule
  <2>1. /\ sinceReport \in 0 .. Long /\ sinceAnnounced \in 0 .. Long /\ back \in Nat
        /\ failures \in Nat /\ misses \in Nat /\ Lap = 1 + RegisterTime
    BY <1>1 DEF IInv, Types, Times, Lap
  <2>2. sinceReport <= (1 + misses) * (IgmpInterval + Lap) + back
    <3>1. Wait(misses) \in Nat
      BY <1>1, WaitStep DEF IInv, Types
    <3>2. sinceReport <= IgmpInterval + Lap + back + Wait(misses)
      BY <1>1, <2>1, <3>1 DEF IInv, Reported, Looping
    <3>3. (1 + misses) * (IgmpInterval + Lap) = (IgmpInterval + Lap) + Wait(misses)
      BY <2>1 DEF Wait
    <3>4. (1 + misses) * (IgmpInterval + Lap) \in Nat
      BY <2>1, <3>1, <3>3
    <3> QED
      BY <2>1, <3>1, <3>2, <3>3, <3>4
  <2>3. ASSUME zeroconf, sock6 # "bare"
        PROVE  sinceAnnounced <= MdnsInterval + back + (1 + failures) * Lap
    <3>1. Delay(failures) \in Nat
      BY <2>1 DEF Delay
    <3>2. sinceAnnounced <= MdnsInterval + back + Delay(failures) + 1
      <4>1. /\ pc = "select" => sinceAnnounced <= MdnsInterval + back + Delay(failures)
            /\ pc \in {"igmp", "beacon", "mdns", "register"}
                   => sinceAnnounced <= MdnsInterval + back + Delay(failures) + 1
        BY <1>1, <2>3 DEF IInv, Announced
      <4> QED
        BY <2>1, <3>1, <4>1 DEF Looping
    <3>3. (1 + failures) * Lap = Lap + Delay(failures)
      BY <2>1 DEF Delay
    <3>4. (1 + failures) * Lap \in Nat
      BY <2>1, <3>1, <3>3
    <3> QED
      BY <2>1, <3>1, <3>2, <3>3, <3>4
  <2>4. joined \/ misses > 0
    BY <1>1 DEF IInv, Member
  <2> QED
    BY <2>2, <2>3, <2>4 DEF OnSchedule
<1> QED
  BY <1>1, Invariance, PTL

\* The device does not give up a receiver of which it hears every other beacon,
\* if the timeout is at least twice the interval and two rounds of the loop less
\* two ticks.
THEOREM DeviceStaysConnected ==
  ASSUME 2 * (BeaconInterval - 1 + Lap) <= BeaconTimeout
  PROVE  Spec => []StaysHeard
<1>1. ASSUME IInv
      PROVE  StaysHeard
  <2> SUFFICES ASSUME Looping, sock6 = "ready"
               PROVE  heard <= BeaconTimeout + back + failures * Lap
    BY DEF StaysHeard
  <2>1. /\ heard \in 0 .. Long /\ back \in Nat /\ failures \in Nat
        /\ Lap = 1 + RegisterTime
    BY <1>1 DEF IInv, Types, Times, Lap
  <2>2. Delay(failures) \in Nat /\ Delay(failures) = failures * Lap
    BY <2>1 DEF Delay
  <2>3. PICK w \in Nat : w <= BeaconInterval - 1 + Lap /\ Late(w)
    <3>1. BeaconInterval - 1 + Lap \in Nat
      BY <2>1
    <3>2. CASE lost
      BY <1>1, <3>1, <3>2 DEF IInv, Beaconed
    <3>3. CASE ~lost
      BY <1>1, <3>1, <3>3 DEF IInv, Beaconed
    <3> QED
      BY <3>2, <3>3
  <2>4. heard <= BeaconInterval - 1 + back + Delay(failures) + w + Lap
    BY <2>1, <2>2, <2>3 DEF Late, Looping
  <2>5. heard <= BeaconTimeout + back + Delay(failures)
    BY <2>1, <2>2, <2>3, <2>4
  <2> QED
    BY <2>2, <2>5
<1> QED
  BY <1>1, Invariance, PTL
=============================================================================
