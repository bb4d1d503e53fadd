------------------------- MODULE ZephyrIotLog_proofs -------------------------
(***************************************************************************)
(* Proofs about ZephyrIotLog, for any number of application threads, any   *)
(* sizes of the queues and any interleaving: what s_log_mutex protects,    *)
(* that warnings about failed sends come to an end, that the only circular *)
(* wait is the one through a callback, and that a poll does not lose the   *)
(* backlog of its own listener.                                            *)
(*                                                                         *)
(* All of it rests on who is where: a thread between lock and unlock holds *)
(* the mutex (Exclusive), and what it has read of a counter is still true  *)
(* (Counting).                                                             *)
(***************************************************************************)
EXTENDS ZephyrIotLog, TLAPS

USE ZephyrIotLogAssumption DEF ZephyrIotLogAssumption

\* The parts of TypeOK.
Flags ==
    /\ initialised \in BOOLEAN /\ alwaysOn \in BOOLEAN /\ listenerActive \in BOOLEAN
    /\ attached \in BOOLEAN /\ callbackLogs \in BOOLEAN
    /\ raced \in BOOLEAN /\ upAtStart \in BOOLEAN

Numbers ==
    /\ sent \in Count /\ dropped \in Count /\ wasSent \in Count /\ wasDropped \in Count
    /\ logq \in 0 .. LogqSize /\ ring \in 0 .. RingSize
    /\ calls \in 0 .. MaxCalls /\ faults \in 0 .. MaxFaults
    /\ warned \in 0 .. WarnLimit + 1

Holders ==
    /\ mutex \in Senders \cup {None} /\ otLock \in {None, Ot}
    /\ packet \in Senders \cup {None}

SendPlaces == {"lock"} \cup Sending

Places ==
    /\ pc \in [Threads -> {"idle", "lock", "active", "put"} \cup Sending \cup Polling]
    /\ back \in {"idle", "drain", "lower", "end"}
    /\ \A t \in Callers \cup {Ot} : pc[t] \in {"idle"} \cup SendPlaces
    /\ pc[Poller] \in {"idle"} \cup SendPlaces \cup Polling

Registers ==
    /\ gain \in [Senders -> {"none", "sent", "dropped"}]
    /\ reg \in [Senders -> Count]

Types == Flags /\ Numbers /\ Holders /\ Places /\ Registers

\* Who is between lock and unlock holds the mutex.
Exclusive == \A t \in Senders : pc[t] \in Sending => mutex = t

\* What a thread is about to increment has not changed since it read it.
Counting ==
    \A t \in Senders : At(t, "store") =>
        \/ gain[t] = "sent" /\ (~raced => reg[t] = sent)
        \/ gain[t] = "dropped" /\ (~raced => reg[t] = dropped)

\* A warning was made for a send that is counted, or is about to be.
Warned ==
    ~raced =>
        /\ warned <= WarnLimit /\ warned <= dropped + 1
        /\ warned <= dropped \/ \E t \in Senders : At(t, "store") /\ gain[t] = "dropped"

\* Only an application that logs from its callbacks sends with OpenThread's lock.
Callbacks == ~At(Ot, "idle") => callbackLogs

\* A drain that began under a listener goes on under one.
Draining ==
    upAtStart =>
        /\ Believes
        /\ pc[Poller] \in {"drain"} \cup SendPlaces /\ back = "drain"

IInv ==
    /\ Types
    /\ Exclusive /\ PacketIsMine /\ CountsExact /\ Counting /\ Warned
    /\ Callbacks /\ Draining

\* The parts make up the type invariant.
LEMMA TypeParts ==
  ASSUME Types
  PROVE  TypeOK
  BY DEF Types, TypeOK, Flags, Numbers, Holders, Places, Registers

\* The strengthened invariant holds before the log is opened.
LEMMA InitInv == Init => IInv
<1> SUFFICES ASSUME Init PROVE IInv
  OBVIOUS
<1>1. \A t \in Threads : pc[t] = "idle"
  BY DEF Init
<1>2. Flags /\ Holders
  BY DEF Init, Flags, Holders
<1>3. Numbers
  BY DEF Init, Numbers, Count
<1>4. Places
  BY DEF Init, Places, Threads, Senders, SendPlaces
<1>5. Registers
  BY DEF Init, Registers, Count
<1>6. Exclusive /\ PacketIsMine /\ Counting
  BY <1>1 DEF Threads, Exclusive, PacketIsMine, Counting, At, Sending
<1>7. CountsExact /\ Draining
  BY DEF Init, CountsExact, Draining
<1>8. Warned
  BY DEF Init, Warned
<1>9. Callbacks
  BY <1>1 DEF Callbacks, At, Threads, Senders
<1> QED
  BY <1>2, <1>3, <1>4, <1>5, <1>6, <1>7, <1>8, <1>9 DEF IInv, Types

-----------------------------------------------------------------------------
(***************************************************************************)
(* Kinds of steps.                                                         *)
(***************************************************************************)

\* The steps of the API's calls before they ask for the mutex.
Enter(t) == IotLogMetric(t) \/ \E mirror \in BOOLEAN : IotLog(t, mirror)

\* The poll between its sends.
PollerStep == PollStep \/ \E heard \in BOOLEAN : Poll(heard)

\* The steps that move no thread, but for opening the log.
Outside == Record \/ EnterCallback \/ LeaveCallback \/ ChangeRole \/ IotLogDeinit

\* Every step is of one of these kinds.
LEMMA Kinds ==
  ASSUME [Next]_vars
  PROVE  \/ \E t \in Senders : SendStep(t) \/ Enter(t)
         \/ PollerStep \/ LogStep \/ Outside \/ UNCHANGED vars
         \/ \E always \in BOOLEAN : IotLogInit(always)
  BY DEF Next, Enter, PollerStep, Outside

\* What a thread that enters, the poller between sends, the logging thread and
\* the outside leave alone.
LEMMA AloneFacts ==
  ASSUME (\E t \in Senders : Enter(t)) \/ PollerStep \/ LogStep \/ Outside \/ UNCHANGED vars
  PROVE  UNCHANGED <<sent, dropped, mutex, gain, reg, packet, wasSent, wasDropped, raced,
                     warned>>
  BY DEF Enter, IotLogMetric, IotLog, PollerStep, PollStep, Drain, DrainEnds, Lower, Expiry,
         Refresh, PollEnds, Poll, LogStep, Process, CheckActive, Put, Outside, Record,
         EnterCallback, LeaveCallback, ChangeRole, IotLogDeinit, vars, s_log, history

\* None of them leads a thread into send_message, past its lock, or out of it.
LEMMA AloneKeepsSending ==
  ASSUME Places,
         (\E t \in Senders : Enter(t)) \/ PollerStep \/ LogStep \/ Outside \/ UNCHANGED vars,
         NEW s \in Senders
  PROVE  (pc[s] \in Sending \/ pc'[s] \in Sending) => pc'[s] = pc[s]
<1>0. /\ pc \in [Threads -> {"idle", "lock", "active", "put"} \cup Sending \cup Polling]
      /\ back \in {"idle", "drain", "lower", "end"} /\ s \in Threads
      /\ Poller \in Threads /\ Logger \in Threads /\ s # Logger
  BY DEF Places, Threads, Senders
<1> USE DEF Sending
<1>1. ASSUME NEW t \in Senders, Enter(t)
      PROVE  (pc[s] \in Sending \/ pc'[s] \in Sending) => pc'[s] = pc[s]
  BY <1>0, <1>1 DEF Enter, IotLogMetric, IotLog, At, Goto, Threads
<1>2. CASE PollerStep
  <2>1. CASE Drain \/ DrainEnds \/ Lower \/ \E heard \in BOOLEAN : Poll(heard)
    BY <1>0, <2>1 DEF Drain, DrainEnds, Lower, Poll, At, Goto
  <2>2. CASE \E banner \in BOOLEAN : Expiry(banner) \/ Refresh(banner)
    BY <1>0, <2>2 DEF Expiry, Refresh, Announce, At, Goto
  <2>3. CASE \E status \in BOOLEAN : PollEnds(status)
    BY <1>0, <2>3 DEF PollEnds, At, Goto
  <2> QED
    BY <1>2, <2>1, <2>2, <2>3 DEF PollerStep, PollStep
<1>3. CASE LogStep
  BY <1>0, <1>3 DEF LogStep, Process, CheckActive, Put, Goto
<1>4. CASE Outside \/ UNCHANGED vars
  BY <1>4 DEF Outside, Record, EnterCallback, LeaveCallback, ChangeRole, IotLogDeinit, vars
<1> QED
  BY <1>1, <1>2, <1>3, <1>4

\* A step of send_message moves its own thread only.
LEMMA SendMovesOne ==
  ASSUME Places, NEW t \in Senders, SendStep(t)
  PROVE  /\ \A s \in Threads : s # t => pc'[s] = pc[s]
         /\ \/ Lock(t) /\ pc[t] = "lock" /\ pc'[t] \in {"gate", After(t)}
            \/ Gate(t) /\ pc[t] = "gate" /\ pc'[t] \in {"transmit", "store"}
            \/ TransmitOk(t) /\ pc[t] = "transmit" /\ pc'[t] = "store"
            \/ TransmitFails(t) /\ pc[t] = "transmit" /\ pc'[t] = "store"
            \/ Store(t) /\ pc[t] = "store" /\ pc'[t] = After(t)
         /\ After(t) \in {"idle", "drain", "lower", "end"}
         /\ t # Poller => After(t) = "idle"
<1>1. /\ pc \in [Threads -> {"idle", "lock", "active", "put"} \cup Sending \cup Polling]
      /\ back \in {"idle", "drain", "lower", "end"} /\ t \in Threads
  BY DEF Places, Threads
<1>2. After(t) \in {"idle", "drain", "lower", "end"} /\ (t # Poller => After(t) = "idle")
  BY <1>1 DEF After
<1>3. \A s \in Threads : s # t => pc'[s] = pc[s]
  BY <1>1 DEF SendStep, Lock, Gate, Drop, Begin, TransmitOk, TransmitFails, Store, Goto
<1>4. CASE Lock(t)
  BY <1>1, <1>2, <1>3, <1>4 DEF Lock, At, Goto
<1>5. CASE Gate(t)
  BY <1>1, <1>2, <1>3, <1>5 DEF Gate, Drop, Begin, At, Goto
<1>6. CASE TransmitOk(t)
  BY <1>1, <1>2, <1>3, <1>6 DEF TransmitOk, Begin, At, Goto
<1>7. CASE TransmitFails(t)
  BY <1>1, <1>2, <1>3, <1>7 DEF TransmitFails, Drop, Begin, At, Goto
<1>8. CASE Store(t)
  BY <1>1, <1>2, <1>3, <1>8 DEF Store, At, Goto
<1> QED
  BY <1>4, <1>5, <1>6, <1>7, <1>8 DEF SendStep

\* Opening the log moves nobody.
LEMMA InitMovesNone ==
  ASSUME NEW always, IotLogInit(always)
  PROVE  UNCHANGED <<pc, back, mutex, otLock, gain, reg, packet, logq, ring, attached,
                     callbackLogs, calls, faults>>
  BY DEF IotLogInit, queues, outside

-----------------------------------------------------------------------------
(***************************************************************************)
(* Steps preserve each part.                                               *)
(***************************************************************************)

\* Threads stay where threads of their kind can be.
LEMMA PlacesStep ==
  ASSUME Places, [Next]_vars
  PROVE  Places'
<1>0. /\ pc \in [Threads -> {"idle", "lock", "active", "put"} \cup Sending \cup Polling]
      /\ back \in {"idle", "drain", "lower", "end"}
      /\ Poller \in Threads /\ Logger \in Threads /\ Callers \cup {Ot} \subseteq Threads
      /\ Poller \notin Callers \cup {Ot} /\ Logger \notin Senders
      /\ Senders = Callers \cup {Ot} \cup {Poller}
  BY DEF Places, Threads, Senders
<1> USE DEF Places, Sending, Polling, SendPlaces
<1>1. ASSUME NEW t \in Senders, SendStep(t)
      PROVE  Places'
  <2>1. back' = back /\ pc' = [pc EXCEPT ![t] = pc'[t]]
    BY <1>0, <1>1 DEF SendStep, Lock, Gate, Drop, Begin, TransmitOk, TransmitFails, Store,
         Goto, Threads
  <2>2. pc'[t] \in {"gate", "transmit", "store", "idle"} \/ (t = Poller /\ pc'[t] \in Polling)
    BY <1>0, <1>1, SendMovesOne
  <2> QED
    BY <1>0, <2>1, <2>2 DEF Threads
<1>2. ASSUME NEW t \in Senders, Enter(t)
      PROVE  Places'
  <2>1. back' = back /\ pc' = [pc EXCEPT ![t] = "lock"]
    BY <1>2 DEF Enter, IotLogMetric, IotLog, Goto
  <2> QED
    BY <1>0, <2>1 DEF Threads
<1>3. CASE PollerStep
  <2>1. PICK p \in {"idle", "lock"} \cup Polling : pc' = [pc EXCEPT ![Poller] = p]
    BY <1>0, <1>3 DEF PollerStep, PollStep, Drain, DrainEnds, Lower, Expiry, Refresh,
         Announce, PollEnds, Poll, Goto
  <2>2. back' \in {"idle", "drain", "lower", "end"}
    BY <1>0, <1>3 DEF PollerStep, PollStep, Drain, DrainEnds, Lower, Expiry, Refresh,
         Announce, PollEnds, Poll
  <2> QED
    BY <1>0, <2>1, <2>2
<1>4. CASE LogStep
  <2>1. PICK p \in {"idle", "active", "put"} : pc' = [pc EXCEPT ![Logger] = p]
    BY <1>0, <1>4 DEF LogStep, Process, CheckActive, Put, Goto
  <2>2. back' = back
    BY <1>4 DEF LogStep, Process, CheckActive, Put
  <2> QED
    BY <1>0, <2>1, <2>2
<1>5. CASE UNCHANGED <<pc, back>>
  BY <1>5
<1>6. CASE Outside \/ UNCHANGED vars \/ \E always \in BOOLEAN : IotLogInit(always)
  <2>1. UNCHANGED <<pc, back>>
    BY <1>6, InitMovesNone DEF Outside, Record, EnterCallback, LeaveCallback, ChangeRole,
         IotLogDeinit, vars
  <2> QED
    BY <1>5, <2>1
<1> QED
  BY <1>1, <1>2, <1>3, <1>4, <1>6, Kinds

\* Flags are only ever given truth values.
LEMMA FlagsStep ==
  ASSUME Flags, [Next]_vars
  PROVE  Flags'
<1> USE DEF Flags
<1>1. ASSUME NEW t \in Senders, SendStep(t)
      PROVE  Flags'
  BY <1>1 DEF SendStep, Lock, Gate, Drop, Begin, TransmitOk, TransmitFails, Store, s_log,
       outside, history
<1>2. ASSUME NEW t \in Senders, Enter(t)
      PROVE  Flags'
  BY <1>2 DEF Enter, IotLogMetric, IotLog, s_log, history
<1>3. CASE PollerStep
  BY <1>3 DEF PollerStep, PollStep, Drain, DrainEnds, Lower, Expiry, Refresh, Announce,
       PollEnds, Poll, Believes, s_log, outside, history
<1>4. CASE LogStep \/ Outside
  BY <1>4 DEF LogStep, Process, CheckActive, Put, Outside, Record, EnterCallback,
       LeaveCallback, ChangeRole, IotLogDeinit, s_log, outside, history
<1>5. ASSUME NEW always \in BOOLEAN, IotLogInit(always)
      PROVE  Flags'
  BY <1>5 DEF IotLogInit, outside
<1>6. CASE UNCHANGED vars
  BY <1>6 DEF vars, s_log, outside, history
<1> QED
  BY <1>1, <1>2, <1>3, <1>4, <1>5, <1>6, Kinds

\* Locks and the buffer belong to threads that may have them.
LEMMA HoldersStep ==
  ASSUME Holders, [Next]_vars
  PROVE  Holders'
<1> USE DEF Holders
<1>1. ASSUME NEW t \in Senders, SendStep(t)
      PROVE  Holders'
  BY <1>1 DEF SendStep, Lock, Gate, Drop, Begin, TransmitOk, TransmitFails, Store
<1>2. CASE (\E t \in Senders : Enter(t)) \/ PollerStep \/ LogStep \/ Outside \/ UNCHANGED vars
  <2>1. UNCHANGED <<mutex, packet>>
    BY <1>2, AloneFacts
  <2>2. otLock' \in {None, Ot}
    BY <1>2 DEF Enter, IotLogMetric, IotLog, PollerStep, PollStep, Drain, DrainEnds, Lower,
         Expiry, Refresh, PollEnds, Poll, LogStep, Process, CheckActive, Put, Outside,
         Record, EnterCallback, LeaveCallback, ChangeRole, IotLogDeinit, vars
  <2> QED
    BY <2>1, <2>2
<1>3. ASSUME NEW always \in BOOLEAN, IotLogInit(always)
      PROVE  Holders'
  BY <1>3, InitMovesNone
<1> QED
  BY <1>1, <1>2, <1>3, Kinds

\* A thread's registers hold a counter's value.
LEMMA RegistersStep ==
  ASSUME Registers, Numbers, [Next]_vars
  PROVE  Registers'
<1> USE DEF Registers
<1>1. ASSUME NEW t \in Senders, SendStep(t)
      PROVE  Registers'
  <2>1. CASE Lock(t)
    BY <2>1 DEF Lock
  <2>2. CASE Gate(t) \/ TransmitOk(t) \/ TransmitFails(t)
    <3>1. \/ UNCHANGED <<gain, reg>>
          \/ /\ gain' = [gain EXCEPT ![t] = "sent"] /\ reg' = [reg EXCEPT ![t] = sent]
          \/ /\ gain' = [gain EXCEPT ![t] = "dropped"] /\ reg' = [reg EXCEPT ![t] = dropped]
      BY <2>2 DEF Gate, Drop, Begin, TransmitOk, TransmitFails
    <3> QED
      BY <3>1 DEF Numbers
  <2>3. CASE Store(t)
    <3>1. 0 \in Count
      BY DEF Count
    <3> QED
      BY <2>3, <3>1 DEF Store
  <2> QED
    BY <1>1, <2>1, <2>2, <2>3 DEF SendStep
<1>2. CASE (\E t \in Senders : Enter(t)) \/ PollerStep \/ LogStep \/ Outside \/ UNCHANGED vars
  BY <1>2, AloneFacts
<1>3. ASSUME NEW always \in BOOLEAN, IotLogInit(always)
      PROVE  Registers'
  BY <1>3, InitMovesNone
<1> QED
  BY <1>1, <1>2, <1>3, Kinds

\* Queues, counters and bounds are kept.
LEMMA NumbersStep ==
  ASSUME Numbers, Registers, [Next]_vars
  PROVE  Numbers'
<1> USE DEF Numbers, Count
<1>0. \A n \in Count : Incremented(n) \in Count
  BY DEF Incremented
<1>1. ASSUME NEW t \in Senders, SendStep(t)
      PROVE  Numbers'
  <2>1. CASE Lock(t) \/ Gate(t) \/ TransmitOk(t)
    BY <2>1 DEF Lock, Gate, TransmitOk, s_log, queues, outside, history
  <2>2. CASE TransmitFails(t)
    <3>1. /\ logq' \in {logq, Recorded(logq)} /\ ring' = ring
          /\ warned' = warned \/ (warned <= WarnLimit /\ warned' = warned + 1)
          /\ UNCHANGED <<sent, dropped, calls, faults, wasSent, wasDropped>>
      BY <2>2 DEF TransmitFails, s_log, outside
    <3> QED
      BY <3>1 DEF Recorded
  <2>3. CASE Store(t)
    <3>1. reg[t] \in Count
      BY DEF Registers
    <3>2. /\ sent' \in {sent, Incremented(reg[t])}
          /\ dropped' \in {dropped, Incremented(reg[t])}
          /\ wasSent' \in {wasSent, Incremented(wasSent)}
          /\ wasDropped' \in {wasDropped, Incremented(wasDropped)}
          /\ UNCHANGED <<logq, ring, calls, faults, warned>>
      BY <2>3 DEF Store, queues, outside
    <3> QED
      BY <1>0, <3>1, <3>2
  <2> QED
    BY <1>1, <2>1, <2>2, <2>3 DEF SendStep
<1>2. CASE (\E t \in Senders : Enter(t)) \/ PollerStep \/ LogStep \/ Outside \/ UNCHANGED vars
  <2>1. UNCHANGED <<sent, dropped, wasSent, wasDropped, warned>>
    BY <1>2, AloneFacts
  <2>2. logq' \in {logq, Recorded(logq)} \/ (logq > 0 /\ logq' = logq - 1)
    BY <1>2 DEF Enter, IotLogMetric, IotLog, PollerStep, PollStep, Drain, DrainEnds, Lower,
         Expiry, Refresh, PollEnds, Poll, LogStep, Process, CheckActive, Put, Outside,
         Record, EnterCallback, LeaveCallback, ChangeRole, IotLogDeinit, vars, queues
  <2>3. \/ ring' = ring \/ (ring > 0 /\ ring' = ring - 1)
        \/ (ring < RingSize /\ ring' = ring + 1)
    BY <1>2 DEF Enter, IotLogMetric, IotLog, PollerStep, PollStep, Drain, DrainEnds, Lower,
         Expiry, Refresh, PollEnds, Poll, LogStep, Process, CheckActive, Put, Outside,
         Record, EnterCallback, LeaveCallback, ChangeRole, IotLogDeinit, vars, queues
  <2>4. /\ calls' = calls \/ (calls < MaxCalls /\ calls' = calls + 1)
        /\ faults' = faults \/ (faults < MaxFaults /\ faults' = faults + 1)
    BY <1>2 DEF Enter, IotLogMetric, IotLog, PollerStep, PollStep, Drain, DrainEnds, Lower,
         Expiry, Refresh, PollEnds, Poll, LogStep, Process, CheckActive, Put, Outside,
         Record, EnterCallback, LeaveCallback, ChangeRole, IotLogDeinit, vars, outside,
         Call, Fault
  <2> QED
    BY <2>1, <2>2, <2>3, <2>4 DEF Recorded
<1>3. ASSUME NEW always \in BOOLEAN, IotLogInit(always)
      PROVE  Numbers'
  BY <1>3 DEF IotLogInit, queues, outside
<1> QED
  BY <1>1, <1>2, <1>3, Kinds

\* The mutex is taken before and given back after.
LEMMA ExclusiveStep ==
  ASSUME Places, Exclusive, [Next]_vars
  PROVE  Exclusive'
<1>0. Senders \subseteq Threads /\ None \notin Senders
  BY DEF Threads, Senders
<1>1. ASSUME NEW t \in Senders, SendStep(t)
      PROVE  Exclusive'
  <2>1. CASE Lock(t) /\ pc'[t] = "gate"
    <3>1. mutex = None /\ mutex' = t
      <4>1. After(t) # "gate"
        BY <1>1, SendMovesOne
      <4>2. t \in Threads /\ pc \in [Threads -> {"idle", "lock", "active", "put"} \cup Sending \cup Polling]
        BY <1>0 DEF Places
      <4> QED
        BY <2>1, <4>1, <4>2 DEF Lock, Goto
    <3>2. \A s \in Senders : s # t => pc'[s] \notin Sending
      BY <1>0, <1>1, <3>1, SendMovesOne DEF Exclusive
    <3> QED
      BY <3>1, <3>2 DEF Exclusive
  <2>2. CASE pc'[t] \in {"transmit", "store"} /\ pc[t] \in Sending
    <3>1. mutex' = mutex
      BY <1>1, <2>2, SendMovesOne DEF Gate, TransmitOk, TransmitFails, After, Places
    <3> QED
      BY <1>0, <1>1, <2>2, <3>1, SendMovesOne DEF Exclusive
  <2>3. CASE pc'[t] = After(t)
    <3>1. pc'[t] \notin Sending
      BY <1>1, <2>3, SendMovesOne DEF Sending
    <3>2. mutex' = mutex \/ mutex = t
      <4>1. CASE Lock(t)
        <5>1. t \in Threads /\ pc \in [Threads -> {"idle", "lock", "active", "put"} \cup Sending \cup Polling]
          BY <1>0 DEF Places
        <5>2. pc'[t] # "gate"
          BY <3>1 DEF Sending
        <5> QED
          BY <4>1, <5>1, <5>2 DEF Lock, Goto
      <4>2. CASE Gate(t) \/ TransmitOk(t) \/ TransmitFails(t)
        BY <4>2 DEF Gate, TransmitOk, TransmitFails
      <4>3. CASE Store(t)
        <5>1. pc[t] \in Sending
          BY <4>3 DEF Store, At, Sending
        <5> QED
          BY <5>1 DEF Exclusive
      <4> QED
        BY <1>1, <4>1, <4>2, <4>3 DEF SendStep
    <3>3. \A s \in Senders : s # t /\ pc'[s] \in Sending => mutex = s
      BY <1>0, <1>1, SendMovesOne DEF Exclusive
    <3> QED
      BY <3>1, <3>2, <3>3 DEF Exclusive
  <2> QED
    BY <1>1, <2>1, <2>2, <2>3, SendMovesOne DEF Sending
<1>2. CASE (\E t \in Senders : Enter(t)) \/ PollerStep \/ LogStep \/ Outside \/ UNCHANGED vars
  BY <1>2, AloneFacts, AloneKeepsSending DEF Exclusive
<1>3. ASSUME NEW always \in BOOLEAN, IotLogInit(always)
      PROVE  Exclusive'
  BY <1>3, InitMovesNone DEF Exclusive
<1> QED
  BY <1>1, <1>2, <1>3, Kinds

\* Nobody else builds a packet before this one is sent.
LEMMA PacketStep ==
  ASSUME Places, Exclusive, PacketIsMine, [Next]_vars
  PROVE  PacketIsMine'
<1>0. /\ Senders \subseteq Threads
      /\ pc \in [Threads -> {"idle", "lock", "active", "put"} \cup Sending \cup Polling]
  BY DEF Threads, Places
<1> USE DEF PacketIsMine, At
<1>1. ASSUME NEW t \in Senders, SendStep(t)
      PROVE  PacketIsMine'
  <2>1. CASE Lock(t)
    <3>1. packet' = packet /\ pc'[t] # "transmit"
      BY <1>1, <2>1, SendMovesOne DEF Lock, Gate, TransmitOk, TransmitFails, Store, At
    <3> QED
      BY <1>0, <1>1, <3>1, SendMovesOne
  <2>2. CASE Gate(t) \/ TransmitOk(t) \/ TransmitFails(t) \/ Store(t)
    <3>1. mutex = t
      BY <2>2 DEF Gate, TransmitOk, TransmitFails, Store, Exclusive, Sending
    <3>2. \A s \in Senders : s # t => pc'[s] # "transmit"
      BY <1>0, <1>1, <3>1, SendMovesOne DEF Exclusive, Sending
    <3>3. pc'[t] = "transmit" => packet' = t
      BY <1>0, <1>1, <2>2, SendMovesOne DEF Gate, Drop, Begin, TransmitOk, TransmitFails,
         Store, Goto
    <3> QED
      BY <3>2, <3>3
  <2> QED
    BY <1>1, <2>1, <2>2 DEF SendStep
<1>2. CASE (\E t \in Senders : Enter(t)) \/ PollerStep \/ LogStep \/ Outside \/ UNCHANGED vars
  BY <1>2, AloneFacts, AloneKeepsSending DEF Sending
<1>3. ASSUME NEW always \in BOOLEAN, IotLogInit(always)
      PROVE  PacketIsMine'
  BY <1>3, InitMovesNone
<1> QED
  BY <1>1, <1>2, <1>3, Kinds

\* What was read of a counter is still its value when it is written.
LEMMA CountingStep ==
  ASSUME Places, Registers, Exclusive, CountsExact, Counting, [Next]_vars
  PROVE  Counting' /\ CountsExact'
<1>0. /\ Senders \subseteq Threads
      /\ pc \in [Threads -> {"idle", "lock", "active", "put"} \cup Sending \cup Polling]
  BY DEF Threads, Places
<1>1. ASSUME NEW t \in Senders, SendStep(t)
      PROVE  Counting' /\ CountsExact'
  <2>1. CASE Lock(t)
    <3>1. UNCHANGED <<sent, dropped, wasSent, wasDropped, raced, gain, reg>>
      BY <2>1 DEF Lock, s_log, history
    <3>2. \A s \in Senders : pc'[s] = "store" => pc[s] = "store"
      <4>1. pc'[t] # "store"
        BY <1>1, <2>1, SendMovesOne DEF Lock, Gate, TransmitOk, TransmitFails, Store, At
      <4> QED
        BY <1>0, <1>1, <4>1, SendMovesOne
    <3> QED
      BY <3>1, <3>2 DEF Counting, CountsExact, At
  <2>2. CASE Gate(t) \/ TransmitOk(t) \/ TransmitFails(t)
    <3>1. UNCHANGED <<sent, dropped, wasSent, wasDropped, raced>> /\ mutex = t
      BY <2>2 DEF Gate, TransmitOk, TransmitFails, s_log, history, At, Exclusive, Sending
    <3>2. \A s \in Senders : s # t => pc'[s] # "store"
      BY <1>0, <1>1, <3>1, SendMovesOne DEF Exclusive, Sending
    <3>3. pc'[t] = "store" =>
              \/ gain' = [gain EXCEPT ![t] = "sent"] /\ reg' = [reg EXCEPT ![t] = sent]
              \/ gain' = [gain EXCEPT ![t] = "dropped"] /\ reg' = [reg EXCEPT ![t] = dropped]
      BY <1>0, <2>2 DEF Gate, Drop, Begin, TransmitOk, TransmitFails, Goto
    <3>4. pc'[t] = "store" =>
              \/ gain'[t] = "sent" /\ reg'[t] = sent
              \/ gain'[t] = "dropped" /\ reg'[t] = dropped
      BY <3>3 DEF Registers
    <3> QED
      BY <3>1, <3>2, <3>4 DEF Counting, CountsExact, At
  <2>3. CASE Store(t)
    <3>1. raced' = raced /\ pc[t] = "store" /\ mutex = t
      BY <2>3 DEF Store, At, Exclusive, Sending
    <3>2. \A s \in Senders : pc'[s] # "store"
      <4>1. pc'[t] # "store"
        BY <1>1, <2>3, <3>1, SendMovesOne DEF Lock, Gate, TransmitOk, TransmitFails, At
      <4> QED
        BY <1>0, <1>1, <3>1, <4>1, SendMovesOne DEF Exclusive, Sending
    <3>3. Counting'
      BY <3>2 DEF Counting, At
    <3>4. ~raced => sent' = wasSent' /\ dropped' = wasDropped'
      <4>1. CASE gain[t] = "sent"
        BY <2>3, <3>1, <4>1 DEF Store, Counting, CountsExact, At
      <4>2. CASE gain[t] = "dropped"
        BY <2>3, <3>1, <4>2 DEF Store, Counting, CountsExact, At
      <4> QED
        BY <3>1, <4>1, <4>2 DEF Counting, At
    <3> QED
      BY <3>1, <3>3, <3>4 DEF CountsExact
  <2> QED
    BY <1>1, <2>1, <2>2, <2>3 DEF SendStep
<1>2. CASE (\E t \in Senders : Enter(t)) \/ PollerStep \/ LogStep \/ Outside \/ UNCHANGED vars
  BY <1>2, AloneFacts, AloneKeepsSending DEF Counting, CountsExact, At, Sending
<1>3. ASSUME NEW always \in BOOLEAN, IotLogInit(always)
      PROVE  Counting' /\ CountsExact'
  <2>1. CountsExact'
    BY <1>3 DEF IotLogInit, CountsExact
  <2>2. UNCHANGED <<pc, gain, reg>>
    BY <1>3, InitMovesNone
  <2>3. \A t \in Senders : pc[t] = "store" => raced'
    BY <1>3 DEF IotLogInit, At
  <2> QED
    BY <2>1, <2>2, <2>3 DEF Counting, At
<1> QED
  BY <1>1, <1>2, <1>3, Kinds

\* A warning is made only while fewer sends than the limit were dropped.
LEMMA WarnedStep ==
  ASSUME Numbers, Places, Registers, Exclusive, Counting, Warned, [Next]_vars
  PROVE  Warned'
<1>0. /\ Senders \subseteq Threads
      /\ pc \in [Threads -> {"idle", "lock", "active", "put"} \cup Sending \cup Polling]
  BY DEF Threads, Places
<1>1. /\ dropped \in 0 .. CountCap /\ warned \in 0 .. WarnLimit + 1
  BY DEF Numbers, Count
<1>2. ASSUME NEW t \in Senders, SendStep(t)
      PROVE  Warned'
  <2> SUFFICES ASSUME ~raced'
               PROVE  /\ warned' <= WarnLimit /\ warned' <= dropped' + 1
                      /\ \/ warned' <= dropped'
                         \/ \E s \in Senders : pc'[s] = "store" /\ gain'[s] = "dropped"
    BY DEF Warned, At
  <2>1. raced' = raced
    BY <1>2 DEF SendStep, Lock, Gate, TransmitOk, TransmitFails, Store, history
  <2>2. /\ warned <= WarnLimit /\ warned <= dropped + 1
        /\ warned <= dropped \/ \E s \in Senders : pc[s] = "store" /\ gain[s] = "dropped"
    BY <2>1 DEF Warned, At
  <2>3. CASE Lock(t)
    <3>1. UNCHANGED <<dropped, warned, gain>>
      BY <2>3 DEF Lock, s_log, history
    <3>2. \A s \in Senders : pc[s] = "store" => pc'[s] = "store"
      BY <1>0, <1>2, <2>3, SendMovesOne DEF Lock, At
    <3> QED
      BY <2>2, <3>1, <3>2
  <2>4. CASE Gate(t) \/ TransmitOk(t)
    <3>1. UNCHANGED <<dropped, warned>>
      BY <2>4 DEF Gate, TransmitOk, s_log, history
    <3>2. mutex = t /\ pc[t] # "store"
      BY <2>4 DEF Gate, TransmitOk, At, Exclusive, Sending
    <3>3. warned <= dropped
      BY <2>2, <3>2 DEF Exclusive, Sending
    <3> QED
      BY <2>2, <3>1, <3>3
  <2>5. CASE TransmitFails(t)
    <3>1. mutex = t /\ pc[t] = "transmit"
      BY <2>5 DEF TransmitFails, At, Exclusive, Sending
    <3>2. warned <= dropped
      BY <2>2, <3>1 DEF Exclusive, Sending
    <3>3. pc'[t] = "store" /\ gain'[t] = "dropped"
      BY <1>0, <1>2, <2>5 DEF TransmitFails, Drop, Begin, Goto, Registers
    <3>4. dropped' = dropped
      BY <2>5 DEF TransmitFails, s_log
    <3>5. \/ warned' = warned
          \/ dropped < WarnLimit /\ warned' = warned + 1
      BY <1>1, <2>2, <2>5 DEF TransmitFails
    <3>6. warned' <= WarnLimit /\ warned' <= dropped + 1
      BY <1>1, <2>2, <3>2, <3>5
    <3> QED
      BY <3>3, <3>4, <3>6
  <2>6. CASE Store(t)
    <3>1. mutex = t /\ pc[t] = "store" /\ warned' = warned
      BY <2>6 DEF Store, At, Exclusive, Sending
    <3>2. \A s \in Senders : pc[s] = "store" => s = t
      BY <3>1 DEF Exclusive, Sending
    <3>3. CASE gain[t] = "sent"
      <4>1. warned <= dropped
        BY <2>2, <3>2, <3>3
      <4>2. dropped' = dropped
        BY <2>6, <3>3 DEF Store
      <4> QED
        BY <1>1, <2>2, <3>1, <4>1, <4>2
    <3>4. CASE gain[t] = "dropped"
      <4>1. reg[t] = dropped
        BY <2>1, <3>1, <3>4 DEF Counting, At
      <4>2. dropped' = Incremented(dropped)
        BY <2>6, <3>4, <4>1 DEF Store
      <4>3. warned <= Incremented(dropped) /\ warned <= Incremented(dropped) + 1
        BY <1>1, <2>2 DEF Incremented
      <4> QED
        BY <2>2, <3>1, <4>2, <4>3
    <3> QED
      BY <3>1, <3>3, <3>4 DEF Counting, At
  <2> QED
    BY <1>2, <2>3, <2>4, <2>5, <2>6 DEF SendStep
<1>3. CASE (\E t \in Senders : Enter(t)) \/ PollerStep \/ LogStep \/ Outside \/ UNCHANGED vars
  <2>1. UNCHANGED <<dropped, warned, raced, gain>>
    BY <1>3, AloneFacts
  <2>2. \A s \in Senders : pc[s] = "store" => pc'[s] = "store"
    BY <1>3, AloneKeepsSending DEF Sending
  <2> QED
    BY <2>1, <2>2 DEF Warned, At
<1>4. ASSUME NEW always \in BOOLEAN, IotLogInit(always)
      PROVE  Warned'
  BY <1>4 DEF IotLogInit, Warned
<1> QED
  BY <1>2, <1>3, <1>4, Kinds

\* OpenThread's thread sends for an application that logs from callbacks, or not at all.
LEMMA CallbacksStep ==
  ASSUME Places, Callbacks, [Next]_vars
  PROVE  Callbacks'
<1>0. /\ Ot \in Threads /\ Ot \in Senders /\ Ot # Poller /\ Ot # Logger /\ Ot \notin Callers
      /\ pc \in [Threads -> {"idle", "lock", "active", "put"} \cup Sending \cup Polling]
  BY DEF Threads, Senders, Places
<1>1. callbackLogs' = callbackLogs
  BY DEF Next, vars, outside, SendStep, Lock, Gate, TransmitOk, TransmitFails, Store,
     IotLogMetric, IotLog, Poll, Record, PollStep, Drain, DrainEnds, Lower, Expiry, Refresh,
     PollEnds, LogStep, Process, CheckActive, Put, EnterCallback, LeaveCallback, ChangeRole,
     IotLogInit, IotLogDeinit
<1> USE DEF Callbacks, At
<1>2. ASSUME NEW t \in Senders, SendStep(t)
      PROVE  Callbacks'
  <2>1. pc[Ot] = "idle" => pc'[Ot] = "idle"
    BY <1>0, <1>2, SendMovesOne
  <2> QED
    BY <1>1, <2>1
<1>3. ASSUME NEW t \in Senders, Enter(t)
      PROVE  Callbacks'
  <2>1. CASE t = Ot
    BY <1>0, <1>1, <1>3, <2>1 DEF Enter, IotLogMetric, IotLog, MayCall
  <2>2. CASE t # Ot
    BY <1>0, <1>1, <1>3, <2>2 DEF Enter, IotLogMetric, IotLog, Goto
  <2> QED
    BY <2>1, <2>2
<1>4. CASE PollerStep
  <2>1. pc'[Ot] = pc[Ot]
    BY <1>0, <1>4 DEF PollerStep, PollStep, Drain, DrainEnds, Lower, Expiry, Refresh,
       Announce, PollEnds, Poll, Goto
  <2> QED
    BY <1>1, <2>1
<1>5. CASE LogStep
  <2>1. pc'[Ot] = pc[Ot]
    BY <1>0, <1>5 DEF LogStep, Process, CheckActive, Put, Goto
  <2> QED
    BY <1>1, <2>1
<1>6. CASE Outside \/ UNCHANGED vars
  <2>1. pc' = pc
    BY <1>6 DEF Outside, Record, EnterCallback, LeaveCallback, ChangeRole, IotLogDeinit, vars
  <2> QED
    BY <1>1, <2>1
<1>7. ASSUME NEW always \in BOOLEAN, IotLogInit(always)
      PROVE  Callbacks'
  BY <1>1, <1>7, InitMovesNone
<1> QED
  BY <1>2, <1>3, <1>4, <1>5, <1>6, <1>7, Kinds

\* A listener only times out after the drain.
LEMMA DrainingStep ==
  ASSUME Places, Draining, [Next]_vars
  PROVE  Draining'
<1>0. /\ Poller \in Threads /\ Poller \in Senders /\ Poller # Logger /\ Poller \notin Callers
      /\ Poller # Ot
      /\ pc \in [Threads -> {"idle", "lock", "active", "put"} \cup Sending \cup Polling]
  BY DEF Threads, Senders, Places
<1> USE DEF Draining, Believes
<1>1. ASSUME NEW t \in Senders, SendStep(t)
      PROVE  Draining'
  <2>1. UNCHANGED <<alwaysOn, listenerActive, back, upAtStart>>
    BY <1>1 DEF SendStep, Lock, Gate, TransmitOk, TransmitFails, Store, s_log, history
  <2>2. pc'[Poller] \in {pc[Poller], "gate", "transmit", "store", back}
    BY <1>0, <1>1, SendMovesOne DEF After
  <2> QED
    BY <2>1, <2>2 DEF SendPlaces, Sending
<1>2. ASSUME NEW t \in Senders, Enter(t)
      PROVE  Draining'
  <2>1. UNCHANGED <<alwaysOn, listenerActive, back, upAtStart>>
    BY <1>2 DEF Enter, IotLogMetric, IotLog, s_log, history
  <2>2. t # Poller
    BY <1>0, <1>2 DEF Enter, IotLogMetric, IotLog, MayCall
  <2>3. pc'[Poller] = pc[Poller]
    BY <1>0, <1>2, <2>2 DEF Enter, IotLogMetric, IotLog, Goto
  <2> QED
    BY <2>1, <2>3
<1>3. CASE PollerStep
  <2>1. CASE \E heard \in BOOLEAN : Poll(heard)
    BY <1>0, <2>1 DEF Poll, Goto
  <2>2. CASE Drain
    <3>1. UNCHANGED <<alwaysOn, listenerActive, back, upAtStart>>
      BY <2>2 DEF Drain, s_log, history
    <3>2. pc'[Poller] \in {"lock", "drain"}
      BY <1>0, <2>2 DEF Drain, Goto
    <3> QED
      BY <3>1, <3>2 DEF SendPlaces
  <2>3. CASE DrainEnds
    BY <2>3 DEF DrainEnds
  <2>4. CASE Lower \/ (\E banner \in BOOLEAN : Expiry(banner) \/ Refresh(banner))
              \/ \E status \in BOOLEAN : PollEnds(status)
    <3>1. pc[Poller] \in {"lower", "check", "end"} /\ upAtStart' = upAtStart
      BY <2>4 DEF Lower, Expiry, Refresh, PollEnds, At, history
    <3> QED
      BY <3>1 DEF SendPlaces, Sending
  <2> QED
    BY <1>3, <2>1, <2>2, <2>3, <2>4 DEF PollerStep, PollStep
<1>4. CASE LogStep
  <2>1. UNCHANGED <<alwaysOn, listenerActive, back, upAtStart>>
    BY <1>4 DEF LogStep, Process, CheckActive, Put, s_log, history
  <2>2. pc'[Poller] = pc[Poller]
    BY <1>0, <1>4 DEF LogStep, Process, CheckActive, Put, Goto
  <2> QED
    BY <2>1, <2>2
<1>5. CASE IotLogDeinit \/ \E always \in BOOLEAN : IotLogInit(always)
  <2>1. ~upAtStart'
    BY <1>5 DEF IotLogDeinit, IotLogInit
  <2> QED
    BY <2>1
<1>6. CASE Record \/ EnterCallback \/ LeaveCallback \/ ChangeRole \/ UNCHANGED vars
  BY <1>6 DEF Record, EnterCallback, LeaveCallback, ChangeRole, vars, s_log, history
<1> QED
  BY <1>1, <1>2, <1>3, <1>4, <1>5, <1>6, Kinds DEF Outside

-----------------------------------------------------------------------------
(***************************************************************************)
(* The theorems.                                                           *)
(***************************************************************************)

\* The strengthened invariant holds throughout.
THEOREM Invariance == Spec => []IInv
<1>1. Init => IInv
  BY InitInv
<1>2. IInv /\ [Next]_vars => IInv'
  <2> SUFFICES ASSUME IInv, [Next]_vars PROVE IInv'
    OBVIOUS
  <2>1. Flags /\ Numbers /\ Holders /\ Places /\ Registers
    BY DEF IInv, Types
  <2>2. /\ Exclusive /\ PacketIsMine /\ CountsExact /\ Counting /\ Warned
        /\ Callbacks /\ Draining
    BY DEF IInv
  <2>3. Flags' /\ Numbers' /\ Holders' /\ Places' /\ Registers'
    BY <2>1, FlagsStep, NumbersStep, HoldersStep, PlacesStep, RegistersStep
  <2>4. Exclusive' /\ PacketIsMine' /\ CountsExact' /\ Counting'
    BY <2>1, <2>2, ExclusiveStep, PacketStep, CountingStep
  <2>5. Warned' /\ Callbacks' /\ Draining'
    BY <2>1, <2>2, WarnedStep, CallbacksStep, DrainingStep
  <2> QED
    BY <2>3, <2>4, <2>5 DEF IInv, Types
<1> QED
  BY <1>1, <1>2, PTL DEF Spec

\* Every variable keeps its type.
THEOREM TypeCorrect == Spec => []TypeOK
<1>1. IInv => TypeOK
  BY TypeParts DEF IInv
<1> QED
  BY <1>1, Invariance, PTL

\* The packet a thread sends is the one it built, and no increment is lost,
\* whichever threads send.
THEOREM MutexProtectsAll == Spec => []MutexProtects
<1>1. IInv => MutexProtects
  BY DEF IInv, MutexProtects
<1> QED
  BY <1>1, Invariance, PTL

\* No more warnings about failed sends than the limit, whatever fails.
THEOREM WarningsComeToAnEnd == Spec => []WarningsEnd
<1>1. IInv => WarningsEnd
  BY DEF IInv, Warned, WarningsEnd
<1> QED
  BY <1>1, Invariance, PTL

\* Mutex and OpenThread's lock are waited for in a circle only if the application
\* logs from one of OpenThread's callbacks.
THEOREM OnlyCallbacksLockUp == Spec => []NoCircularWait
<1>1. ASSUME IInv
      PROVE  NoCircularWait
  <2> SUFFICES ASSUME CircularWait PROVE callbackLogs
    BY DEF NoCircularWait
  <2>1. otLock = Ot
    BY <1>1 DEF IInv, Types, Holders, CircularWait
  <2>2. At(Ot, "lock")
    BY <2>1 DEF CircularWait, WaitsForMutex
  <2> QED
    BY <1>1, <2>2 DEF IInv, Callbacks, At
<1> QED
  BY <1>1, Invariance, PTL

\* A message that is in the ring when a poll begins under a listener passes the
\* gate of its send, unless Thread is left.
THEOREM BacklogIsSent == Spec => BacklogSurvives
<1>1. ASSUME IInv, [Next]_vars
      PROVE  [At(Poller, "gate") /\ attached /\ pc'[Poller] = "store" => ~upAtStart]_vars
  <2> SUFFICES ASSUME pc[Poller] = "gate", attached, pc'[Poller] = "store", upAtStart
               PROVE  FALSE
    BY DEF At
  <2>0. /\ Poller \in Threads /\ Poller \in Senders /\ Places /\ Believes
        /\ pc \in [Threads -> {"idle", "lock", "active", "put"} \cup Sending \cup Polling]
    BY <1>1 DEF Threads, Senders, IInv, Types, Places, Draining
  <2>1. ASSUME NEW t \in Senders, SendStep(t)
        PROVE  FALSE
    <3>1. t = Poller /\ Gate(t)
      BY <2>0, <2>1, SendMovesOne
    <3>2. pc'[Poller] = "transmit"
      BY <2>0, <3>1 DEF Gate, Goto
    <3> QED
      BY <3>2
  <2>2. CASE (\E t \in Senders : Enter(t)) \/ PollerStep \/ LogStep \/ Outside \/ UNCHANGED vars
    BY <2>0, <2>2, AloneKeepsSending DEF Sending
  <2>3. ASSUME NEW always \in BOOLEAN, IotLogInit(always)
        PROVE  FALSE
    BY <2>3, InitMovesNone
  <2> QED
    BY <1>1, <2>1, <2>2, <2>3, Kinds
<1> QED
  BY <1>1, Invariance, PTL DEF Spec, BacklogSurvives
=============================================================================
