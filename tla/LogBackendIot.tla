---------------------------- MODULE LogBackendIot ----------------------------
(***************************************************************************)
(* The Zephyr log backend, zephyr/log_backend_iot.c: process(), called by  *)
(* the logging thread for every log record, filters and formats the record *)
(* and appends it to a byte ring as a 3 byte header and the text;          *)
(* iot_log_backend_drain(), called by every poller, takes the entries out  *)
(* again and passes them to iot_log_send_raw().                            *)
(*                                                                         *)
(* The ring is read and written in pieces - header and text are put by two *)
(* calls, an entry is peeked, measured and taken by several - and no lock  *)
(* is held over them.  Each of those calls is one step here, so whatever   *)
(* the threads can see between two of them is visible.  A byte of the ring *)
(* is modelled by where it comes from: byte number idx of the entry of     *)
(* message msg, whose text is len bytes long (idx 0..2 is the header).     *)
(***************************************************************************)
EXTENDS Integers, Sequences, FiniteSets

CONSTANTS
    Drainers,      \* the threads that run iot_log_poll() and so drain the ring
    RingSize,      \* IOT_LOG_RING_SIZE
    BufSize,       \* sizeof(msg_buf), and of the buffer that drain reads into
    FormattedLens, \* how many bytes the text formatter may emit for a record
    GarbageLens,   \* what three bytes that are no header may decode to
    MaxApp,        \* bound: records of the application while calls < MaxApp
    MaxCalls       \* bound: calls of process()

ASSUME RingAssumption ==
    /\ RingSize \in Nat
    /\ BufSize \in Nat \ {0}
    /\ FormattedLens \subseteq Nat
    /\ GarbageLens \subseteq Nat
    /\ MaxApp \in Nat
    /\ MaxCalls \in Nat

VARIABLES
    ring,          \* the byte ring, oldest byte first
    active,        \* what iot_log_is_active() answers
    textFormatter, \* log_format_func_t_get(LOG_OUTPUT_TEXT) is not NULL
    complaints,    \* records the transport logged while sending, not processed yet
    logger,        \* where the logging thread is in process()
    cur,           \* msg_pos: the length of the text it is about to queue
    stats,         \* the s_process_* counters
    pc,            \* where each drainer is in iot_log_backend_drain()
    hdr,           \* its local len, decoded from the header it peeked
    got,           \* the message its local buf holds
    handed         \* history: the last message given to iot_log_send_raw()

loggerVars == <<logger, cur, stats>>
drainVars  == <<pc, hdr, got, handed>>
vars == <<ring, active, textFormatter, complaints, logger, cur, stats,
          pc, hdr, got, handed>>

HeaderSize == 3

(***************************************************************************)
(* Zephyr's ring_buf.                                                      *)
(***************************************************************************)
Least(a, b) == IF a < b THEN a ELSE b

\* Bytes from..to of the entry of message m with an n byte text.
Bytes(m, n, from, to) ==
    [k \in 1 .. to - from + 1 |-> [msg |-> m, idx |-> from + k - 1, len |-> n]]

\* ring_buf_space_get, ring_buf_put and ring_buf_get: a put stores what fits
\* and a get takes what is there.
Space == RingSize - Len(ring)

Put(bytes) == ring' = ring \o SubSeq(bytes, 1, Least(Len(bytes), Space))

Get(n) == ring' = SubSeq(ring, Least(n, Len(ring)) + 1, Len(ring))

(***************************************************************************)
(* process(), in the logging thread.  A record is of one of three kinds:   *)
(* "transport" if its source is in k_transport_sources, "region" if its    *)
(* text starts with one of k_drop_regions, "app" otherwise.                *)
(***************************************************************************)
Kinds == {"app", "transport", "region"}

Counters == {"calls", "bail_inactive", "bail_self", "bail_no_fmt",
             "bail_zero_len", "queued", "ring_full"}

\* Variant: a char_out that does not look at the size of msg_buf.
MsgPosUnchecked(f) == f

\* char_out stops one byte short of the end of msg_buf.
MsgPos(f) == Least(f, BufSize - 1)

\* The logging thread calls process() for a record of this kind: one of the
\* application (or of traffic of its own), or one that sending gave rise to.
Record(kind) ==
    /\ logger = "idle"
    /\ \/ stats["calls"] < MaxApp /\ UNCHANGED complaints
       \/ /\ kind # "app"
          /\ complaints > 0 /\ stats["calls"] < MaxCalls
          /\ complaints' = complaints - 1

Bail(counter) ==
    /\ stats' = [c \in Counters |->
                    IF c \in {"calls", counter} THEN stats[c] + 1 ELSE stats[c]]
    /\ UNCHANGED <<ring, active, textFormatter, logger, cur, drainVars>>

BailInactive(kind) == Record(kind) /\ ~active /\ Bail("bail_inactive")

\* Variant: without the region filter of lines 135-157.
FromTransportSource(kind, f) == kind = "transport"

\* Dropped for its source before it is formatted, or for its region after.
FromTransport(kind, f) ==
    \/ kind = "transport"
    \/ kind = "region" /\ textFormatter /\ MsgPos(f) > 0

BailSelf(kind, f) ==
    Record(kind) /\ active /\ FromTransport(kind, f) /\ Bail("bail_self")

BailNoFmt(kind) ==
    /\ Record(kind) /\ active
    /\ kind # "transport" /\ ~textFormatter
    /\ Bail("bail_no_fmt")

BailZeroLen(kind, f) ==
    /\ Record(kind) /\ active
    /\ kind # "transport" /\ textFormatter /\ MsgPos(f) = 0
    /\ Bail("bail_zero_len")

\* The record passed every filter; its text is in msg_buf.
Format(kind, f) ==
    /\ Record(kind) /\ active
    /\ textFormatter /\ MsgPos(f) > 0 /\ ~FromTransport(kind, f)
    /\ logger' = "formatted"
    /\ cur' = MsgPos(f)
    /\ stats' = [stats EXCEPT !["calls"] = @ + 1]
    /\ UNCHANGED <<ring, active, textFormatter, drainVars>>

\* Variant: the check forgets the header.
NeededText == cur

Needed == HeaderSize + cur

\* There is space for the whole entry: put its header.
PutHeader ==
    /\ logger = "formatted" /\ Space >= Needed
    /\ Put(Bytes(stats["queued"] + 1, cur, 0, 2))
    /\ logger' = "header"
    /\ UNCHANGED <<active, textFormatter, complaints, cur, stats, drainVars>>

\* ... and, by a second call, its text.
PutPayload ==
    /\ logger = "header"
    /\ Put(Bytes(stats["queued"] + 1, cur, 3, cur + 2))
    /\ stats' = [stats EXCEPT !["queued"] = @ + 1]
    /\ logger' = "idle"
    /\ UNCHANGED <<active, textFormatter, complaints, cur, drainVars>>

RingFull ==
    /\ logger = "formatted" /\ ~(Space >= Needed)
    /\ stats' = [stats EXCEPT !["ring_full"] = @ + 1]
    /\ logger' = "idle"
    /\ UNCHANGED <<ring, active, textFormatter, complaints, cur, drainVars>>

FinishEntry == PutHeader \/ PutPayload \/ RingFull

Logger ==
    \/ \E kind \in Kinds : BailInactive(kind) \/ BailNoFmt(kind)
    \/ \E kind \in Kinds, f \in FormattedLens :
          BailSelf(kind, f) \/ BailZeroLen(kind, f) \/ Format(kind, f)
    \/ FinishEntry

(***************************************************************************)
(* iot_log_backend_drain(), in drainer d.                                  *)
(***************************************************************************)
None == -1   \* no whole message

\* The three bytes at the front of the ring are the header of one entry.
HeaderInFront == \A k \in 1 .. 3 : ring[k] = [ring[1] EXCEPT !.idx = k - 1]

\* What header[1] and header[2] may decode to after a peek.
DecodedLens == IF HeaderInFront THEN {ring[1].len} ELSE GarbageLens

At(d, place) == pc[d] = place
Goto(d, place) == pc' = [pc EXCEPT ![d] = place]

\* The buffer holds the whole text of an entry, and nothing else.
TextOf(bytes, n) ==
    IF /\ n > 0 /\ n <= BufSize /\ Len(bytes) = n
       /\ bytes = Bytes(bytes[1].msg, n, 3, n + 2)
    THEN bytes[1].msg
    ELSE None

Enter(d) ==
    /\ At(d, "out") /\ Goto(d, "top")
    /\ UNCHANGED <<ring, active, textFormatter, complaints, loggerVars, hdr, got, handed>>

\* Variant: the loop trusts the header and does not measure the entry.
PeekUnmeasured(d) ==
    /\ At(d, "top") /\ Len(ring) >= HeaderSize
    /\ \E n \in DecodedLens : hdr' = [hdr EXCEPT ![d] = n]
    /\ Goto(d, "peeked")
    /\ UNCHANGED <<ring, active, textFormatter, complaints, loggerVars, got, handed>>

\* Variant: the comparison of line 220 is off by one.
PeekLonger(d) ==
    /\ At(d, "top") /\ Len(ring) >= HeaderSize
    /\ \E n \in DecodedLens :
          /\ Len(ring) > HeaderSize + n
          /\ hdr' = [hdr EXCEPT ![d] = n]
    /\ Goto(d, "peeked")
    /\ UNCHANGED <<ring, active, textFormatter, complaints, loggerVars, got, handed>>

\* Peek the header and see that the entry is there to its last byte.
Peek(d) ==
    /\ At(d, "top") /\ Len(ring) >= HeaderSize
    /\ \E n \in DecodedLens :
          /\ Len(ring) >= HeaderSize + n
          /\ hdr' = [hdr EXCEPT ![d] = n]
    /\ Goto(d, "peeked")
    /\ UNCHANGED <<ring, active, textFormatter, complaints, loggerVars, got, handed>>

\* "Incomplete entry": the loop is left and the entry stays for the next poll.
Incomplete ==
    /\ Len(ring) >= HeaderSize
    /\ \E n \in DecodedLens : Len(ring) < HeaderSize + n

\* Variant: the header is taken out, not peeked at, before the entry is measured.
LeaveHeaderTaken(d) ==
    /\ At(d, "top") /\ (Len(ring) < HeaderSize \/ Incomplete)
    /\ IF Incomplete THEN Get(HeaderSize) ELSE UNCHANGED ring
    /\ Goto(d, "out")
    /\ UNCHANGED <<active, textFormatter, complaints, loggerVars, hdr, got, handed>>

Leave(d) ==
    /\ At(d, "top") /\ (Len(ring) < HeaderSize \/ Incomplete)
    /\ Goto(d, "out")
    /\ UNCHANGED <<ring, active, textFormatter, complaints, loggerVars, hdr, got, handed>>

GetHeader(d) ==
    /\ At(d, "peeked") /\ Get(HeaderSize)
    /\ Goto(d, "payload")
    /\ UNCHANGED <<active, textFormatter, complaints, loggerVars, hdr, got, handed>>

\* Read to_read bytes into buf and discard the rest of the len.
GetPayload(d) ==
    /\ At(d, "payload") /\ Get(hdr[d])
    /\ got' = [got EXCEPT ![d] =
                  TextOf(SubSeq(ring, 1, Least(hdr[d], Len(ring))), hdr[d])]
    /\ Goto(d, "send")
    /\ UNCHANGED <<active, textFormatter, complaints, loggerVars, hdr, handed>>

\* Give buf to iot_log_send_raw().  The transport may complain in the log.
SendRaw(d) ==
    /\ At(d, "send") /\ Goto(d, "top")
    /\ handed' = got[d]
    /\ complaints' \in {complaints, complaints + 1}
    /\ UNCHANGED <<ring, active, textFormatter, loggerVars, hdr, got>>

Drain(d) == Peek(d) \/ Leave(d) \/ GetHeader(d) \/ GetPayload(d) \/ SendRaw(d)

\* iot_log_is_active() changes its answer: decided elsewhere.
SetActive ==
    /\ active' = ~active
    /\ UNCHANGED <<ring, textFormatter, complaints, loggerVars, drainVars>>

Init ==
    /\ ring = <<>>
    /\ active \in BOOLEAN /\ textFormatter \in BOOLEAN
    /\ complaints = 0
    /\ logger = "idle" /\ cur = 0
    /\ stats = [c \in Counters |-> 0]
    /\ pc = [d \in Drainers |-> "out"]
    /\ hdr = [d \in Drainers |-> 0]
    /\ got = [d \in Drainers |-> None]
    /\ handed = 0

Next == Logger \/ SetActive \/ \E d \in Drainers : Enter(d) \/ Drain(d)

Spec == Init /\ [][Next]_vars

(***************************************************************************)
(* The logging thread finishes the record it is processing and goes on to  *)
(* those the transport left it; each poller polls every second and runs    *)
(* its loop to the end.  Nothing says that anybody logs anything.          *)
(***************************************************************************)
ProcessComplaint ==
    complaints > 0 /\ \E kind \in Kinds, f \in FormattedLens :
        \/ BailInactive(kind) \/ BailNoFmt(kind)
        \/ BailSelf(kind, f) \/ BailZeroLen(kind, f) \/ Format(kind, f)

Fairness ==
    /\ WF_vars(FinishEntry)
    /\ WF_vars(ProcessComplaint)
    /\ \A d \in Drainers : WF_vars(Enter(d)) /\ WF_vars(Drain(d))

FairSpec == Spec /\ Fairness

(***************************************************************************)
(* Properties.                                                             *)
(***************************************************************************)
TypeOK ==
    /\ ring \in Seq([msg : Nat, idx : Nat, len : Nat]) /\ Len(ring) <= RingSize
    /\ active \in BOOLEAN /\ textFormatter \in BOOLEAN
    /\ complaints \in Nat
    /\ logger \in {"idle", "formatted", "header"}
    /\ cur \in 0 .. BufSize - 1
    /\ stats \in [Counters -> Nat]
    /\ pc \in [Drainers -> {"out", "top", "peeked", "payload", "send"}]
    /\ hdr \in [Drainers -> Nat]
    /\ got \in [Drainers -> Nat \cup {None}]
    /\ handed \in Nat \cup {None}

\* process() checks the space once, for the whole entry, before it puts the
\* header: whatever the drainers do before the text is put, it still fits.
RoomForText == logger = "header" => Space >= cur

\* A drainer never gives iot_log_send_raw() anything but one whole text: not
\* an entry still being written, not the bytes between two entries, not a
\* text cut to the size of the buffer.
WholeEntries == \A d \in Drainers : At(d, "send") => got[d] # None

\* The ring is a pipe: what process() queued is sent in order, once each, and
\* nothing queued is skipped, although no lock covers an entry.
Pipe == INSTANCE LogPipe WITH accepted <- stats["queued"], delivered <- handed

PipeSpec == Pipe!Spec

\* A queued message is eventually sent, also when the drainer met it half
\* written and left: the next poll finds it.
QueuedIsSent ==
    \A k \in 1 .. MaxApp : stats["queued"] >= k ~> handed >= k

\* Sending makes the transport log, and its records go through process() too.
\* Once the application falls silent so does the device: the records that
\* sending causes are never queued to be sent themselves.
StormDies == <>[](complaints = 0 /\ ring = <<>>)
=============================================================================
