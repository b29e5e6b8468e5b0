------------------------------ MODULE ModemLoop ------------------------------
(***************************************************************************)
(* The task that drives an MMDVM modem (mmdvm/src/tokio_shell): the        *)
(* select loop, its transmit queue, the handle through which callers       *)
(* submit requests, and the modem at the other end of the serial line.     *)
(* Calls are numbered in the order they are made.  A caller that gives up  *)
(* (timeout, or a dropped future) leaves its request behind in the channel.*)
(***************************************************************************)
EXTENDS Integers, Sequences, FiniteSets, SequencesExt

CONSTANTS
  MaxCalls,      \* bound: calls made through the handle
  Workloads,     \* operations callers mix in one behaviour, how many calls they
                 \* make, and whether they ever drop a future or the handle
  HeaderSlots,   \* FIFO slots of a header (DSTAR_HEADER_SLOTS)
  QueueCap,      \* MAX_TX_QUEUE_FRAMES
  FifoSize,      \* the modem's D-STAR FIFO
  WireCap        \* bound: frames in flight in each direction

Calls == 1..MaxCalls
Voice == {"Header", "Data", "Eot"}
Direct == {"GetVersion", "GetStatus", "Raw"}
Layouts(op) == IF op = "Configure" THEN {"V1", "V2"} ELSE {"V1"}

ASSUME ModemLoopConstants ==
  /\ MaxCalls \in Nat /\ HeaderSlots \in Nat \ {0}
  /\ QueueCap \in Nat \ {0} /\ FifoSize \in Nat \ {0} /\ WireCap \in Nat \ {0}
  /\ Workloads \subseteq
       [ops : SUBSET (Voice \cup Direct \cup {"SetMode", "Configure", "Shutdown"}),
        calls : 0..MaxCalls, drops : BOOLEAN]

VARIABLES
  workload,    \* the workload of this behaviour; never changes
  pc,          \* "start", "top" of the loop, "select", or the result "Ok"/"Err"
  call,        \* op, layout and state of every call
  chan,        \* command_rx: submitted calls, oldest first
  handle,      \* "live", "shutdown" (consumed by shutdown()) or "dropped"
  txQueue,     \* tx_queue: calls whose frame is queued
  dstarSpace,  \* the loop's estimate of the modem's free slots
  version,     \* protocol_version
  flush,       \* "no", "armed" once shutting down, "due" after the deadline
  pendingMode, \* call whose SetMode awaits its reply, 0 for none
  pendingCfg,  \* pending_configuration
  toModem, fromModem,
  fifo,        \* free slots in the modem
  exitEvents,  \* events emitted while the loop ends
  written,     \* history: voice calls whose frame was written, in order
  lost,        \* history: voice call whose write failed
  crossed      \* history: some status was crossed by more than one voice slot

modemLoopVars == <<workload, pc, call, chan, handle, txQueue, dstarSpace, version, flush,
  pendingMode, pendingCfg, toModem, fromModem, fifo, exitEvents, written, lost,
  crossed>>

NoCfg == [st |-> "None", c |-> 0]
Slots(c) == IF call[c].op = "Header" THEN HeaderSlots ELSE 1
SlotsOf(frames) ==
  FoldSeq(LAMBDA f, n : n + (IF f.t = "Voice" THEN Slots(f.c) ELSE 0), 0, frames)
Abandoned(c) == call[c].st \in {"gone", "Timeout"}
Running == pc \notin {"Ok", "Err"}

ModemLoopInit ==
  /\ workload \in Workloads
  /\ pc = "start"
  /\ call = [c \in Calls |-> [op |-> "none", layout |-> "V1", st |-> "unused"]]
  /\ chan = <<>> /\ handle = "live" /\ txQueue = <<>> /\ dstarSpace = 0
  /\ version = "none" /\ flush = "no" /\ pendingMode = 0 /\ pendingCfg = NoCfg
  /\ toModem = <<>> /\ fromModem = <<>> /\ fifo = FifoSize /\ exitEvents = <<>>
  /\ written = <<>> /\ lost = {} /\ crossed = FALSE

-----------------------------------------------------------------------------
(* The handle.  Its methods take &mut self: one call waits at a time.  Once   *)
(* the loop has ended every call returns SessionClosed and changes nothing.   *)

Waiting == {c \in Calls : call[c].st = "waiting"}
Made == Cardinality({c \in Calls : call[c].st # "unused"})

Invoke(op, layout) ==
  LET c == Made + 1 IN
  /\ Running /\ handle = "live" /\ Waiting = {} /\ c <= workload.calls
  /\ call' = [call EXCEPT ![c] = [op |-> op, layout |-> layout, st |-> "waiting"]]
  /\ chan' = Append(chan, c)
  /\ handle' = IF op = "Shutdown" THEN "shutdown" ELSE handle
  /\ UNCHANGED <<pc, txQueue, dstarSpace, version, flush, pendingMode,
                 pendingCfg, toModem, fromModem, fifo, exitEvents, written,
                 lost, crossed>>

\* The two-second deadline of set_mode and configure_dstar (to the loop the same as
\* a dropped future: a closed reply), or the dropped future of another call; a
\* dropped shutdown() drops the handle with it.
Timed == {"SetMode", "Configure"}
GiveUp(c) ==
  /\ call[c].st = "waiting"
  /\ workload.drops \/ call[c].op \in Timed
  /\ call' = [call EXCEPT ![c].st = IF call[c].op \in Timed THEN "Timeout" ELSE "gone"]
  /\ handle' = IF call[c].op = "Shutdown" THEN "dropped" ELSE handle
  /\ UNCHANGED <<pc, chan, txQueue, dstarSpace, version, flush, pendingMode,
                 pendingCfg, toModem, fromModem, fifo, exitEvents, written,
                 lost, crossed>>

DropHandle ==
  /\ Running /\ handle = "live" /\ Waiting = {} /\ workload.drops
  /\ handle' = "dropped"
  /\ UNCHANGED <<pc, call, chan, txQueue, dstarSpace, version, flush,
                 pendingMode, pendingCfg, toModem, fromModem, fifo, exitEvents,
                 written, lost, crossed>>

-----------------------------------------------------------------------------
(* Replies, writes and the end of the loop.                                *)

Answer(c, result) ==
  [call EXCEPT ![c].st = IF @ = "waiting" THEN result ELSE @]

\* Mutant: the loop ends without reporting what it still held.
ExitSilently(result, calls, before) ==
  /\ pc' = result
  /\ call' = [c \in Calls |-> IF calls[c].st = "waiting"
                              THEN [calls[c] EXCEPT !.st = "Closed"]
                              ELSE calls[c]]
  /\ exitEvents' = before \o (IF result = "Err" THEN <<"Fatal">> ELSE <<>>)
  /\ chan' = <<>> /\ toModem' = <<>> /\ fromModem' = <<>>

\* run(): report undelivered frames, then the error; the reply senders drop.
Exit(result, calls, before) ==
  /\ pc' = result
  /\ call' = [c \in Calls |-> IF calls[c].st = "waiting"
                              THEN [calls[c] EXCEPT !.st = "Closed"]
                              ELSE calls[c]]
  /\ exitEvents' = before
       \o (IF txQueue' # <<>> THEN <<"TxDropped">> ELSE <<>>)
       \o (IF result = "Err" THEN <<"Fatal">> ELSE <<>>)
  /\ chan' = <<>> /\ toModem' = <<>> /\ fromModem' = <<>>

Stay(next, calls) ==
  /\ pc' = next /\ call' = calls /\ UNCHANGED exitEvents

\* write_frame: the frame reaches the wire.
Written(frame) ==
  /\ Len(toModem) < WireCap
  /\ toModem' = Append(toModem, frame)

\* A write that fails or exceeds WRITE_TIMEOUT ends the loop; the requester, if
\* there is one, gets the I/O error itself.
WriteFails(calls) == Exit("Err", calls, <<>>)

-----------------------------------------------------------------------------
(* run_inner.                                                              *)

StartUp ==
  /\ pc = "start"
  /\ UNCHANGED txQueue
  /\ \/ /\ Len(toModem) + 2 <= WireCap
        /\ toModem' = toModem \o <<[t |-> "GetVersion", c |-> 0],
                                   [t |-> "GetStatus", c |-> 0]>>
        /\ Stay("top", call) /\ UNCHANGED <<chan, fromModem>>
     \/ WriteFails(call)
  /\ UNCHANGED <<handle, dstarSpace, version, flush, pendingMode, pendingCfg,
                 fifo, written, lost, crossed>>

\* The shutdown checks between dispatch_configuration and the select.
ShutdownCheck(calls, wire) ==
  IF flush # "no" /\ (txQueue = <<>> \/ flush = "due")
  THEN Exit("Ok", calls, <<>>)
  ELSE /\ Stay("select", calls) /\ UNCHANGED <<chan, fromModem>>
       /\ toModem' = wire

DispatchConfiguration ==
  LET c == pendingCfg.c IN
  /\ pc = "top"
  /\ UNCHANGED txQueue
  /\ IF pendingCfg.st # "WaitingVersion"
     THEN UNCHANGED pendingCfg /\ ShutdownCheck(call, toModem)
     ELSE IF Abandoned(c)
     THEN pendingCfg' = NoCfg /\ ShutdownCheck(Answer(c, "Timeout"), toModem)
     ELSE IF version = "none"
     THEN UNCHANGED pendingCfg /\ ShutdownCheck(call, toModem)
     ELSE IF version # call[c].layout
     THEN pendingCfg' = NoCfg /\ ShutdownCheck(Answer(c, "Mismatch"), toModem)
     ELSE \/ /\ Len(toModem) < WireCap
             /\ pendingCfg' = [st |-> "Written", c |-> c]
             /\ ShutdownCheck(call, Append(toModem, [t |-> "SetConfig", c |-> c]))
          \/ pendingCfg' = NoCfg /\ WriteFails(Answer(c, "Io"))
  /\ UNCHANGED <<handle, dstarSpace, version, flush, pendingMode, fifo, written,
                 lost, crossed>>

ApplyConfigure(c) ==
  /\ IF pendingCfg # NoCfg
     THEN Stay("top", Answer(c, "Pending")) /\ UNCHANGED pendingCfg
     ELSE /\ pendingCfg' = [st |-> "WaitingVersion", c |-> c]
          /\ Stay("top", call)
  /\ UNCHANGED <<txQueue, flush, pendingMode, toModem>>

\* Mutant: a new mode change replaces the pending one.
ApplySetModeAlways(c) ==
  /\ IF Abandoned(c)
     THEN Stay("top", call) /\ UNCHANGED <<pendingMode, toModem>>
     ELSE /\ Written([t |-> "SetMode", c |-> c])
          /\ pendingMode' = c
          /\ Stay("top", call)
  /\ UNCHANGED <<txQueue, flush, pendingCfg>>

ApplySetMode(c) ==
  /\ IF pendingMode # 0
     THEN Stay("top", Answer(c, "Pending")) /\ UNCHANGED <<pendingMode, toModem>>
     ELSE IF Abandoned(c)
     THEN Stay("top", call) /\ UNCHANGED <<pendingMode, toModem>>
     ELSE /\ Written([t |-> "SetMode", c |-> c])
          /\ pendingMode' = c
          /\ Stay("top", call)
  /\ UNCHANGED <<txQueue, flush, pendingCfg>>

ApplyDirect(c) ==
  /\ Written([t |-> call[c].op, c |-> c])
  /\ Stay("top", Answer(c, "Ok"))
  /\ UNCHANGED <<txQueue, flush, pendingMode, pendingCfg>>

\* Mutant: the caller is not answered.
ApplyVoiceNoReply(c) ==
  /\ Stay("top", call) /\ txQueue' = Append(txQueue, c)
  /\ UNCHANGED <<flush, pendingMode, pendingCfg, toModem>>

ApplyVoice(c) ==
  /\ IF Len(txQueue) >= QueueCap
     THEN Stay("top", Answer(c, "BufferFull")) /\ UNCHANGED txQueue
     ELSE Stay("top", Answer(c, "Ok")) /\ txQueue' = Append(txQueue, c)
  /\ UNCHANGED <<flush, pendingMode, pendingCfg, toModem>>

ApplyShutdown(c) ==
  /\ Stay("top", Answer(c, "Ok"))
  /\ flush' = "armed"
  /\ UNCHANGED <<txQueue, pendingMode, pendingCfg, toModem>>

\* The command branch of the select, polled first.
ApplyCommand ==
  /\ pc = "select" /\ chan # <<>>
  /\ LET c == Head(chan) IN
       \/ /\ chan' = Tail(chan) /\ UNCHANGED fromModem
          /\ \/ call[c].op = "Configure" /\ ApplyConfigure(c)
             \/ call[c].op = "SetMode" /\ ApplySetMode(c)
             \/ call[c].op \in Direct /\ ApplyDirect(c)
             \/ call[c].op \in Voice /\ ApplyVoice(c)
             \/ call[c].op = "Shutdown" /\ ApplyShutdown(c)
       \/ /\ \/ call[c].op \in Direct
             \/ call[c].op = "SetMode" /\ pendingMode = 0 /\ ~Abandoned(c)
          /\ UNCHANGED <<txQueue, flush, pendingMode, pendingCfg>>
          /\ WriteFails(Answer(c, "Io"))
  /\ UNCHANGED <<handle, dstarSpace, version, fifo, written, lost, crossed>>

\* recv() on a closed and drained channel.
CommandsClosed ==
  /\ pc = "select" /\ chan = <<>> /\ handle = "dropped"
  /\ UNCHANGED txQueue
  /\ Exit("Ok", call, <<>>)
  /\ UNCHANGED <<handle, dstarSpace, version, flush, pendingMode, pendingCfg,
                 fifo, written, lost, crossed>>

\* The tick and read branches run only when no command is ready (biased).
Idle == pc = "select" /\ chan = <<>> /\ handle # "dropped"

StatusTick ==
  /\ Idle
  /\ UNCHANGED txQueue
  /\ \/ /\ Written([t |-> "GetStatus", c |-> 0]) /\ Stay("top", call)
        /\ UNCHANGED <<chan, fromModem>>
     \/ WriteFails(call)
  /\ UNCHANGED <<handle, dstarSpace, version, flush, pendingMode, pendingCfg,
                 fifo, written, lost, crossed>>

\* pop_if_space_allows: strictly more slots than the frame costs.
PopIfSpaceAllows ==
  txQueue # <<>> /\ dstarSpace > Slots(Head(txQueue))

\* drain_tx_queue: at most one frame a tick, removed before it is written.
PlayoutTick ==
  /\ Idle
  /\ IF PopIfSpaceAllows
     THEN /\ txQueue' = Tail(txQueue)
          /\ LET c == Head(txQueue) IN
               \/ /\ Written([t |-> "Voice", c |-> c])
                  /\ dstarSpace' = dstarSpace - Slots(c)
                  /\ written' = Append(written, c)
                  /\ Stay("top", call) /\ UNCHANGED <<chan, fromModem, lost>>
               \/ /\ lost' = {c}
                  /\ WriteFails(call)
                  /\ UNCHANGED <<dstarSpace, written>>
     ELSE /\ Stay("top", call)
          /\ UNCHANGED <<chan, txQueue, toModem, fromModem, dstarSpace, written,
                        lost>>
  /\ UNCHANGED <<handle, version, flush, pendingMode, pendingCfg, fifo, crossed>>

\* complete_configuration and the ACK/NAK arm of dispatch_frame.
Settle(frame) ==
  LET result == IF frame.t = "Ack" THEN "Ok" ELSE "Nak" IN
  /\ UNCHANGED <<dstarSpace, version, crossed>>
  /\ IF frame.cmd = "SetMode" /\ pendingMode # 0
     THEN /\ pendingMode' = 0 /\ UNCHANGED pendingCfg
          /\ Stay("top", Answer(pendingMode, result))
     ELSE IF frame.cmd = "SetConfig" /\ pendingCfg.st = "Written"
     THEN /\ pendingCfg' = NoCfg /\ UNCHANGED pendingMode
          /\ Stay("top", Answer(pendingCfg.c, result))
     ELSE UNCHANGED <<pendingMode, pendingCfg>> /\ Stay("top", call)

HandleVersion(frame) ==
  /\ version' = frame.v
  /\ dstarSpace' = 0
  /\ Stay("top", call)
  /\ UNCHANGED <<pendingMode, pendingCfg, crossed>>

\* Status before a version is a protocol violation and changes nothing.
HandleStatus(frame) ==
  /\ IF version = "none"
     THEN UNCHANGED <<dstarSpace, crossed>>
     ELSE /\ dstarSpace' = frame.space
          /\ crossed' = (crossed \/ frame.after + SlotsOf(toModem) > 1)
  /\ Stay("top", call)
  /\ UNCHANGED <<version, pendingMode, pendingCfg>>

Read ==
  /\ Idle /\ fromModem # <<>>
  /\ fromModem' = Tail(fromModem)
  /\ LET frame == Head(fromModem) IN
       \/ frame.t = "Version" /\ HandleVersion(frame)
       \/ frame.t = "Status" /\ HandleStatus(frame)
       \/ frame.t \in {"Ack", "Nak"} /\ Settle(frame)
  /\ UNCHANGED <<chan, handle, txQueue, flush, toModem, fifo, written, lost>>

\* End of file or an error on the read side.
ReadEnds ==
  /\ Idle
  /\ UNCHANGED txQueue
  /\ \/ Exit("Ok", call, <<"TransportClosed">>)
     \/ Exit("Err", call, <<>>)
  /\ UNCHANGED <<handle, dstarSpace, version, flush, pendingMode, pendingCfg,
                 fifo, written, lost, crossed>>

FlushDeadline ==
  /\ flush = "armed" /\ Running
  /\ flush' = "due"
  /\ UNCHANGED <<pc, call, chan, handle, txQueue, dstarSpace, version,
                 pendingMode, pendingCfg, toModem, fromModem, fifo, exitEvents,
                 written, lost, crossed>>

-----------------------------------------------------------------------------
(* The modem and the line (external).                                      *)

\* Status replies still on the line age by the slots taken after them.
Aged(replies, slots) ==
  [i \in DOMAIN replies |-> IF replies[i].t = "Status"
                            THEN [replies[i] EXCEPT !.after = Min({2, @ + slots})]
                            ELSE replies[i]]

Replies(frame) ==
  CASE frame.t = "GetVersion" -> {[t |-> "Version", v |-> "V1"]}
    [] frame.t = "GetStatus" -> {[t |-> "Status", space |-> fifo, after |-> 0]}
    [] frame.t \in {"SetMode", "SetConfig"} ->
         {[t |-> t, cmd |-> frame.t, c |-> frame.c] : t \in {"Ack", "Nak"}}
    [] OTHER -> {}

ModemTakes ==
  /\ toModem # <<>> /\ Running
  /\ toModem' = Tail(toModem)
  /\ LET frame == Head(toModem) IN
       IF frame.t = "Voice"
       THEN /\ fifo' = IF fifo >= Slots(frame.c) THEN fifo - Slots(frame.c) ELSE 0
            /\ fromModem' = Aged(fromModem, Slots(frame.c))
       ELSE /\ UNCHANGED fifo
            /\ \/ /\ Len(fromModem) < WireCap
                  /\ \E reply \in Replies(frame) : fromModem' = Append(fromModem, reply)
               \/ UNCHANGED fromModem   \* no reply, or one lost on the line
  /\ UNCHANGED <<pc, call, chan, handle, txQueue, dstarSpace, version, flush,
                 pendingMode, pendingCfg, exitEvents, written, lost, crossed>>

ModemTransmits ==
  /\ fifo < FifoSize /\ Running
  /\ fifo' = fifo + 1
  /\ UNCHANGED <<pc, call, chan, handle, txQueue, dstarSpace, version, flush,
                 pendingMode, pendingCfg, toModem, fromModem, exitEvents,
                 written, lost, crossed>>

-----------------------------------------------------------------------------
LoopStep ==
  \/ StartUp \/ DispatchConfiguration \/ ApplyCommand \/ CommandsClosed
  \/ StatusTick \/ PlayoutTick \/ Read \/ ReadEnds

ModemLoopSteps ==
  \/ \E op \in workload.ops : \E layout \in Layouts(op) : Invoke(op, layout)
  \/ \E c \in Calls : GiveUp(c)
  \/ DropHandle
  \/ LoopStep
  \/ FlushDeadline
  \/ ModemTakes
  \/ ModemTransmits

ModemLoopNext == ModemLoopSteps /\ UNCHANGED workload

\* The deadline of a mode change or configuration.
CallDeadline == \E c \in Calls : call[c].op \in Timed /\ GiveUp(c)

ModemLoopSpec == ModemLoopInit /\ [][ModemLoopNext]_modemLoopVars

-----------------------------------------------------------------------------
(* Properties.                                                             *)

\* A frame whose send reported success is never forgotten and never overtakes an
\* earlier one: it is on the wire, still queued (and then counted by TxDropped when
\* the loop ends), or it is the one frame whose write failed.
AcceptedFramesAccounted ==
  LET line == written \o SetToSeq(lost) \o txQueue IN
  /\ \A i, j \in DOMAIN line : i < j => line[i] < line[j]
  /\ \A c \in Calls : call[c].op \in Voice /\ call[c].st = "Ok" => c \in ToSet(line)
  /\ ~Running /\ txQueue # <<>> => "TxDropped" \in ToSet(exitEvents)

\* The one-slot margin of pop_if_space_allows is enough: as long as no status reply
\* was crossed by more than one slot of voice, the frames on the line always fit in
\* the modem's FIFO.
MarginAbsorbsOneSlot == ~crossed => SlotsOf(toModem) <= fifo

\* An ACK or NAK of the modem can only resolve the call it answers: a reply on the
\* line to a mode change or configuration belongs to the call the loop holds pending,
\* even when that call timed out long ago and others were made since.
RepliesFindTheirCall ==
  Running => \A i \in DOMAIN fromModem :
    LET r == fromModem[i] IN
    r.t \in {"Ack", "Nak"} =>
      IF r.cmd = "SetMode" THEN pendingMode = r.c
                           ELSE pendingCfg = [st |-> "Written", c |-> r.c]

\* Shutdown always ends the task, even when the modem never grants the space the
\* queued frames need: the flush deadline forces the exit.
ShutdownEnds == []<>(flush = "no" \/ ~Running)

\* No caller waits for ever: every submitted request is answered, times out, or is
\* closed with the loop.
CallsResolve == []<>(Waiting = {})

\* A frame that was accepted reaches the modem and fits there, or its loss is reported.
AcceptedFramesArrive ==
  AcceptedFramesAccounted /\ MarginAbsorbsOneSlot
==============================================================================
