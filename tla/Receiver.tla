------------------------------- MODULE Receiver -------------------------------
(***************************************************************************)
(* The Python receiver, python/esp_iot_log_receiver.py: start(), the       *)
(* listening loop with its three periodic duties (the IGMP membership, the *)
(* IPv6 beacon, the mDNS service), stop(), and what it makes of a packet.  *)
(* On the other side of the network there is a Thread device that hears    *)
(* the beacons, some of which are lost.                                    *)
(*                                                                         *)
(* A tick is the timeout of select().  Time passes there and while the     *)
(* zeroconf library registers the service.  A time stamp is modelled by    *)
(* its age on the wall clock, which somebody may set; a stamp that is 0 is *)
(* Long ago.  The output, its file and the statistics are left out.        *)
(***************************************************************************)
EXTENDS Integers

CONSTANTS
    BeaconInterval,     \* BEACON_INTERVAL
    IgmpInterval,       \* IGMP_REFRESH_INTERVAL
    MdnsInterval,       \* _mdns_re_registration_interval
    BeaconTimeout,      \* the device's IOT_LOG_BEACON_TIMEOUT_S
    RegisterTime,       \* how long register_service may take
    ClockStep,          \* by how much the clock is set at a time
    Long,               \* bound: ages are not told apart beyond this one
    MaxText,            \* bound: the length of a string metric
    MaxFaults           \* bound: failures after the start, settings of the clock

ASSUME ReceiverAssumption ==
    /\ BeaconInterval \in Nat \ {0} /\ IgmpInterval \in Nat /\ MdnsInterval \in Nat
    /\ BeaconTimeout \in Nat /\ RegisterTime \in Nat /\ ClockStep \in Nat
    /\ Long \in Nat /\ MaxText \in Nat /\ MaxFaults \in Nat

VARIABLES
    pc,             \* where the main thread is
    again,          \* stop() was called by start(); __exit__ will call it again
    sock, sock6,    \* the sockets
    joined,         \* the IPv4 socket is a member of the multicast group
    zeroconf,       \* there is a Zeroconf object and a service_info
    igmpAge, beaconAge, mdnsAge,    \* the ages of _last_igmp_join, _last_beacon6,
                                    \* _last_mdns_registration
    shown,          \* the packet at hand, and what was displayed for it
    \* the network and the device
    advertised,     \* a query for the service is answered
    lost,           \* the last beacon was lost
    \* history
    heard,          \* time since the device last received a beacon
    sinceReport,    \* since the last IGMP report
    sinceAnnounced, \* since the service was last registered
    misses,         \* how often the group could not be joined again since that report
    back,           \* by how much the clock was set back
    failures,       \* how often the library or sendto() raised an exception
    cut,            \* the last stop() was left by an exception
    faults

stamps  == <<igmpAge, beaconAge, mdnsAge>>
sockets == <<sock, joined, sock6>>
elapsed == <<heard, sinceReport, sinceAnnounced>>
trouble == <<misses, back, failures, cut, faults>>
vars == <<pc, again, sockets, zeroconf, stamps, shown, advertised, lost, elapsed, trouble>>

Looping == pc \in {"select", "igmp", "beacon", "mdns", "register"}

Fault == faults < MaxFaults /\ faults' = faults + 1

Older(age, d) == IF age + d >= Long THEN Long ELSE age + d

\* d ticks go by.
Pass(d) ==
    /\ igmpAge' = Older(igmpAge, d) /\ beaconAge' = Older(beaconAge, d)
    /\ sinceReport' = Older(sinceReport, d) /\ heard' = Older(heard, d)

(***************************************************************************)
(* start().                                                                *)
(***************************************************************************)

\* mDNS is available and the service registered.
StartMdns ==
    /\ pc = "start"
    /\ zeroconf' = TRUE /\ advertised' = TRUE /\ mdnsAge' = 0
    /\ pc' = "udp4"
    /\ UNCHANGED <<again, sockets, igmpAge, beaconAge, shown, lost, elapsed, trouble>>

\* It is not, or register_service raises an exception: then there is an object.
StartMdnsFails ==
    /\ pc = "start"
    /\ zeroconf' \in BOOLEAN
    /\ pc' = "udp4"
    /\ UNCHANGED <<again, sockets, stamps, shown, advertised, lost, elapsed, trouble>>

StartUdp ==
    /\ pc = "udp4"
    /\ sock' = "open" /\ joined' = TRUE /\ igmpAge' = 0
    /\ pc' = "udp6"
    /\ UNCHANGED <<again, sock6, zeroconf, beaconAge, mdnsAge, shown, advertised, lost,
                   elapsed, trouble>>

\* Variant: goes on, as after a failure of the IPv6 listener.
StartUdpFailsGoesOn ==
    /\ pc = "udp4"
    /\ sock' \in {"none", "open"} /\ joined' \in BOOLEAN /\ (joined' => sock' = "open")
    /\ pc' = "udp6"
    /\ UNCHANGED <<again, sock6, zeroconf, stamps, shown, advertised, lost, elapsed, trouble>>

\* start() calls stop() and returns False, and then the with statement ends.
StartUdpFails ==
    /\ pc = "udp4"
    /\ sock' \in {"none", "open"} /\ joined' \in BOOLEAN /\ (joined' => sock' = "open")
    /\ again' = TRUE /\ pc' = "stop"
    /\ UNCHANGED <<sock6, zeroconf, stamps, shown, advertised, lost, elapsed, trouble>>

\* With IPv6, without it, or with a socket that could not be set up to the end.
StartUdp6 ==
    /\ pc = "udp6"
    /\ sock6' \in {"none", "bare", "ready"}
    /\ pc' = "select"
    /\ UNCHANGED <<again, sock, joined, zeroconf, stamps, shown, advertised, lost, elapsed,
                   trouble>>

(***************************************************************************)
(* A packet.                                                               *)
(***************************************************************************)

\* What a device logs: an integer metric, a string metric of some length, any
\* other message; and what else arrives at the port.
Messages ==
    [type : {"int", "text"}, len : {0}] \cup [type : {"string"}, len : 0 .. MaxText]
        \cup [type : {"beacon", "foreign"}, len : {0}]

\* The bytes of a metric's payload after its name: an integer's four, or a
\* length byte and the string.
Rest(m) == IF m.type = "int" THEN 4 ELSE 1 + m.len

IsInteger(m) == Rest(m) = 4

Parsed(m) ==
    CASE Rest(m) < 4  -> "nothing"
      [] IsInteger(m) -> "int"
      [] OTHER        -> "string"

Displayed(m) ==
    CASE m.type \in {"beacon", "foreign"} -> "ignored"
      [] m.type = "text"                  -> "text"
      [] OTHER                            -> Parsed(m)

\* No packet is being looked at.
Nothing == [sent |-> [type |-> "foreign", len |-> 0], as |-> "ignored"]

(***************************************************************************)
(* listen().                                                               *)
(***************************************************************************)
SelectTimeout ==
    /\ pc = "select"
    /\ Pass(1)
    /\ mdnsAge' = Older(mdnsAge, 1) /\ sinceAnnounced' = Older(sinceAnnounced, 1)
    /\ pc' = "igmp"
    /\ UNCHANGED <<again, sockets, zeroconf, shown, advertised, lost, trouble>>

HandleMessage(m) ==
    /\ pc = "select"
    /\ shown' = [sent |-> m, as |-> Displayed(m)]
    /\ pc' = "igmp"
    /\ UNCHANGED <<again, sockets, zeroconf, stamps, advertised, lost, elapsed, trouble>>

IgmpDue == igmpAge > IgmpInterval

\* Not yet time, or _refresh_igmp: the socket leaves the group and joins it again,
\* or only joins it, and the host sends a report.
RefreshIgmp ==
    /\ pc = "igmp"
    /\ IF IgmpDue
       THEN igmpAge' = 0 /\ joined' = TRUE /\ sinceReport' = 0 /\ misses' = 0
       ELSE UNCHANGED <<igmpAge, joined, sinceReport, misses>>
    /\ shown' = Nothing
    /\ pc' = "beacon"
    /\ UNCHANGED <<again, sock, sock6, zeroconf, beaconAge, mdnsAge, advertised, lost, heard,
                   sinceAnnounced, back, failures, cut, faults>>

\* It cannot be joined, left or not; the stamp is set already.
RefreshIgmpFails ==
    /\ pc = "igmp" /\ IgmpDue /\ Fault
    /\ igmpAge' = 0 /\ joined' \in {joined, FALSE} /\ misses' = misses + 1
    /\ shown' = Nothing
    /\ pc' = "beacon"
    /\ UNCHANGED <<again, sock, sock6, zeroconf, beaconAge, mdnsAge, advertised, lost, elapsed,
                   back, failures, cut>>

BeaconDue == sock6 = "ready" /\ beaconAge >= BeaconInterval

\* No IPv6, or not yet time.
NoBeacon ==
    /\ pc = "beacon" /\ sock6 # "bare" /\ ~BeaconDue
    /\ pc' = "mdns"
    /\ UNCHANGED <<again, sockets, zeroconf, stamps, shown, advertised, lost, elapsed,
                   trouble>>

\* The beacon is received, or it is lost and the one before it was not.
SendBeacon ==
    /\ pc = "beacon" /\ BeaconDue
    /\ beaconAge' = 0
    /\ \/ lost' = FALSE /\ heard' = 0
       \/ ~lost /\ lost' = TRUE /\ UNCHANGED heard
    /\ pc' = "mdns"
    /\ UNCHANGED <<again, sockets, zeroconf, igmpAge, mdnsAge, shown, advertised,
                   sinceReport, sinceAnnounced, trouble>>

\* Variant: the stamp is set before the attempt, as in _refresh_igmp.
SendBeaconFailsStamped ==
    /\ pc = "beacon" /\ BeaconDue /\ Fault
    /\ beaconAge' = 0
    /\ failures' = failures + 1
    /\ pc' = "mdns"
    /\ UNCHANGED <<again, sockets, zeroconf, igmpAge, mdnsAge, shown, advertised, lost,
                   elapsed, misses, back, cut>>

\* sendto raises an exception.
SendBeaconFails ==
    /\ pc = "beacon" /\ BeaconDue /\ Fault
    /\ failures' = failures + 1
    /\ pc' = "mdns"
    /\ UNCHANGED <<again, sockets, zeroconf, stamps, shown, advertised, lost, elapsed,
                   misses, back, cut>>

\* The socket is there and _last_beacon6 is not: the AttributeError ends this
\* round of the loop, before the service has its turn.
SendBeaconHalfMade ==
    /\ pc = "beacon" /\ sock6 = "bare"
    /\ pc' = "select"
    /\ UNCHANGED <<again, sockets, zeroconf, stamps, shown, advertised, lost, elapsed,
                   trouble>>

MdnsDue == zeroconf /\ mdnsAge > MdnsInterval

NoMdns ==
    /\ pc = "mdns" /\ ~MdnsDue
    /\ pc' = "select"
    /\ UNCHANGED <<again, sockets, zeroconf, stamps, shown, advertised, lost, elapsed,
                   trouble>>

Unregister ==
    /\ pc = "mdns" /\ MdnsDue
    /\ advertised' = FALSE
    /\ pc' = "register"
    /\ UNCHANGED <<again, sockets, zeroconf, stamps, shown, lost, elapsed, trouble>>

\* unregister_service raises an exception, before or after it has done its work.
UnregisterFails ==
    /\ pc = "mdns" /\ MdnsDue /\ Fault
    /\ failures' = failures + 1
    /\ advertised' \in {advertised, FALSE}
    /\ pc' = "select"
    /\ UNCHANGED <<again, sockets, zeroconf, stamps, shown, lost, elapsed, misses, back, cut>>

Register(d) ==
    /\ pc = "register"
    /\ Pass(d)
    /\ mdnsAge' = 0 /\ advertised' = TRUE /\ sinceAnnounced' = 0
    /\ pc' = "select"
    /\ UNCHANGED <<again, sockets, zeroconf, shown, lost, trouble>>

\* Variant: the stamp is set in any case.
RegisterFailsStamped(d) ==
    /\ pc = "register" /\ Fault
    /\ Pass(d)
    /\ mdnsAge' = 0 /\ sinceAnnounced' = Older(sinceAnnounced, d)
    /\ failures' = failures + 1
    /\ pc' = "select"
    /\ UNCHANGED <<again, sockets, zeroconf, shown, advertised, lost, misses, back, cut>>

\* register_service raises one: the service stays withdrawn for this round.
RegisterFails(d) ==
    /\ pc = "register" /\ Fault
    /\ Pass(d)
    /\ mdnsAge' = Older(mdnsAge, d) /\ sinceAnnounced' = Older(sinceAnnounced, d)
    /\ failures' = failures + 1
    /\ pc' = "select"
    /\ UNCHANGED <<again, sockets, zeroconf, shown, advertised, lost, misses, back, cut>>

(***************************************************************************)
(* stop(), and the end.                                                    *)
(***************************************************************************)

\* Ctrl+C: SystemExit, which no handler of the loop catches.  In start() and
\* listen() it ends the with statement, and so it does in start()'s own stop().
Interrupt ==
    /\ pc \in {"start", "udp4", "udp6"} \/ Looping \/ (pc = "stop" /\ again)
    /\ again' = FALSE /\ pc' = "stop"
    /\ UNCHANGED <<sockets, zeroconf, stamps, shown, advertised, lost, elapsed, trouble>>

\* Within the registration: the library may yet finish it.
InterruptRegister ==
    /\ pc \in {"start", "register"}
    /\ zeroconf' = TRUE /\ advertised' \in BOOLEAN
    /\ again' = FALSE /\ pc' = "stop"
    /\ UNCHANGED <<sockets, stamps, shown, lost, elapsed, trouble>>

\* In the last stop() it ends the program.
InterruptStop ==
    /\ pc = "stop" /\ ~again
    /\ cut' = TRUE
    /\ pc' = "ended"
    /\ UNCHANGED <<again, sockets, zeroconf, stamps, shown, advertised, lost, elapsed, misses,
                   back, failures, faults>>

Closed(s) == IF s = "none" THEN "none" ELSE "closed"

\* stop() returns, or unregister_service has raised an exception.
AfterStop ==
    /\ sock' = Closed(sock) /\ joined' = FALSE /\ sock6' = Closed(sock6)
    /\ again' = FALSE /\ pc' = IF again THEN "stop" ELSE "ended"

\* Variant: the service is withdrawn where the socket is closed.
StopWithSocket ==
    /\ pc = "stop"
    /\ AfterStop
    /\ advertised' = (advertised /\ sock = "none")
    /\ UNCHANGED <<zeroconf, stamps, shown, lost, elapsed, trouble>>

Stop ==
    /\ pc = "stop"
    /\ AfterStop
    /\ advertised' = (advertised /\ ~zeroconf)
    /\ UNCHANGED <<zeroconf, stamps, shown, lost, elapsed, trouble>>

\* The library raises, as it may when the service is not registered any more or
\* the object is closed: zeroconf is not closed.
StopFails ==
    /\ pc = "stop" /\ zeroconf
    /\ AfterStop
    /\ advertised' \in {advertised, FALSE}
    /\ cut' = (cut \/ (advertised' /\ ~again))
    /\ UNCHANGED <<zeroconf, stamps, shown, lost, elapsed, misses, back, failures, faults>>

(***************************************************************************)
(* The clock.                                                              *)
(***************************************************************************)
Set(age, d) == IF age = Long THEN Long ELSE Older(age, d)

SetClock(d) ==
    /\ pc = "select" /\ Fault
    /\ igmpAge' = Set(igmpAge, d) /\ beaconAge' = Set(beaconAge, d)
    /\ mdnsAge' = Set(mdnsAge, d)
    /\ back' = IF d < 0 THEN back - d ELSE back
    /\ UNCHANGED <<pc, again, sockets, zeroconf, shown, advertised, lost, elapsed, misses,
                   failures, cut>>

Init ==
    /\ pc = "start" /\ again = FALSE /\ sock = "none" /\ sock6 = "none" /\ joined = FALSE
    /\ zeroconf = FALSE
    /\ igmpAge = Long /\ beaconAge = Long /\ mdnsAge = Long
    /\ shown = Nothing /\ advertised = FALSE /\ lost = FALSE
    /\ heard = 0 /\ sinceReport = 0 /\ sinceAnnounced = 0
    /\ misses = 0 /\ back = 0 /\ failures = 0 /\ cut = FALSE /\ faults = 0

Start == StartMdns \/ StartMdnsFails \/ StartUdp \/ StartUdpFails \/ StartUdp6

Loop ==
    \/ SelectTimeout \/ (\E m \in Messages : HandleMessage(m))
    \/ RefreshIgmp \/ RefreshIgmpFails
    \/ NoBeacon \/ SendBeacon \/ SendBeaconFails \/ SendBeaconHalfMade
    \/ NoMdns \/ Unregister \/ UnregisterFails
    \/ \E d \in 0 .. RegisterTime : Register(d) \/ RegisterFails(d)

End == Interrupt \/ InterruptRegister \/ InterruptStop \/ Stop \/ StopFails

Next == Start \/ Loop \/ End \/ \E d \in {-ClockStep, ClockStep} : SetClock(d)

Spec == Init /\ [][Next]_vars

(***************************************************************************)
(* Properties.                                                             *)
(***************************************************************************)
TypeOK ==
    /\ pc \in {"start", "udp4", "udp6", "select", "igmp", "beacon", "mdns", "register",
               "stop", "ended"}
    /\ again \in BOOLEAN
    /\ sock \in {"none", "open", "closed"} /\ sock6 \in {"none", "bare", "ready", "closed"}
    /\ Looping => sock = "open"
    /\ joined \in BOOLEAN /\ (joined => sock = "open")
    /\ zeroconf \in BOOLEAN
    /\ \A age \in {igmpAge, beaconAge, mdnsAge} : age \in Int /\ age <= Long
    /\ shown \in [sent : Messages, as : {"int", "string", "text", "nothing", "ignored"}]
    /\ advertised \in BOOLEAN /\ lost \in BOOLEAN
    /\ heard \in 0 .. Long /\ sinceReport \in 0 .. Long /\ sinceAnnounced \in 0 .. Long
    /\ misses \in 0 .. faults /\ failures \in 0 .. faults /\ back \in Nat /\ cut \in BOOLEAN
    /\ faults \in 0 .. MaxFaults

\* The longest that a round of the loop may take.
Lap == 1 + RegisterTime

\* A group membership is renewed and the service registered anew on time, late
\* by no more than a round of the loop, what the clock was set back, another
\* interval and round for each time the group could not be joined again, and
\* another round for each failed attempt to register (listen(), lines 712-738).
\* Until it is joined again the host may be out of the group.  The service is
\* not registered while there is a half-made IPv6 socket, although the message
\* at its failure says only that Thread devices won't be received.
OnSchedule ==
    Looping =>
        /\ sinceReport <= (1 + misses) * (IgmpInterval + Lap) + back
        /\ joined \/ misses > 0
        /\ zeroconf /\ sock6 # "bare"
               => sinceAnnounced <= MdnsInterval + back + (1 + failures) * Lap

\* A device that hears at least every other beacon does not take the receiver
\* for dead, as long as nobody sets the clock back and the beacons can be sent
\* (_send_beacon6, and iot_log_zephyr.h:38 "3x beacon interval").
StaysHeard ==
    Looping /\ sock6 = "ready" => heard <= BeaconTimeout + back + failures * Lap

\* When the program has ended its service is withdrawn, wherever start() failed
\* or Ctrl+C struck, unless a second Ctrl+C or the library ended stop() first.
NotLeftBehind == pc = "ended" /\ advertised => cut

\* What a device logged is displayed as what it is, a string metric as a string
\* (_parse_payload, lines 269-282, and README.md:230-232).
ShownAsSent ==
    shown.as = IF shown.sent.type \in {"beacon", "foreign"} THEN "ignored"
               ELSE shown.sent.type
=============================================================================
