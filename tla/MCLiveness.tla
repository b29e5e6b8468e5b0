------------------------------ MODULE MCLiveness ------------------------------
(***************************************************************************)
(* What must eventually happen, for TLC.  part, which never changes, says  *)
(* which component a behaviour exercises.  The fairness of a component is  *)
(* that its own task is polled while it can go on and that its timers      *)
(* fire; nothing that a user, a peer or a network does need ever happen,   *)
(* unless it is said so.                                                   *)
(***************************************************************************)
EXTENDS ModemLoop, DstarModem, StreamPump, TmdTerminal, AprsClient, Coordinator, DmrTerminal,
  PulsarRecorder, LodestarSession

CONSTANTS m1, s1, s2, p1, p2, writes, listens, A, Parts,
    NoStream, NoCaller, NoModule, NoClient, NoEntry, NoAccess

VARIABLES
    part,
    \* of SessionLoop
    state, timers, outbox, coreEvents, cachedTxHeader, active, voiceAge, clockOk, consumer,
    loopAt, delivering, flushing, resume, commands, channel, socket, unlinkSent, ackInTime,
    doingCall, reply, askedToLeave, reason, drainLeft, left, joined, result,
    \* of ReflectorEndpoint
    pool, byModule, cache, replies, doomed, due, feed

Core == INSTANCE SessionCore WITH
    Kind <- "DPlus", Streams <- {s1}, KeepaliveInterval <- 1, KeepaliveInactivity <- 4,
    VoiceInactivity <- 2, DisconnectTimeout <- 2, TakeoverThreshold <- 1,
    EventCap <- 5, OutboxCap <- 2, events <- coreEvents

Pkt(t) == [type |-> t]
Loop == INSTANCE SessionLoop WITH
    Kind <- "DPlus", Streams <- {s1}, KeepaliveInterval <- 1, KeepaliveInactivity <- 2,
    VoiceInactivity <- 2, DisconnectTimeout <- 1, TakeoverThreshold <- 1,
    EventCap <- 4, OutboxCap <- 2, Arrivals <- {Pkt("UnlinkAck"), Pkt("PollEchoPacket")},
    Sends <- {"SendEot"}, SocketCap <- 1, ChannelCap <- 1, CommandCap <- 1,
    Prompt <- FALSE, ShellDeadline <- 2,
    events <- coreEvents, pc <- loopAt, running <- flushing, call <- doingCall,
    requested <- askedToLeave, budget <- drainLeft

Verdicts == [c \in {writes, listens} |-> IF c = writes THEN "ReadWrite" ELSE "ReadOnly"]
Reflector == INSTANCE ReflectorEndpoint WITH
    Kind <- "Dcs", Peers <- {p1, p2}, Calls <- {writes, listens}, Policy <- Verdicts,
    NoCall <- NoCaller, Streams <- {s1}, Modules <- {A}, DefaultModule <- A,
    OtherModules <- {}, MaxTotal <- 2, MaxPerModule <- 2, KeepaliveTimeout <- 2,
    VoiceTimeout <- 2, FailureLimit <- 1, Cadence <- 2, outgoing <- replies

\* Queued voice and a mode change, with a shutdown.
LiveMixes ==
  {[ops |-> {"Data", "SetMode", "Shutdown"}, calls |-> 2, drops |-> FALSE]}
OneMessage ==
  {[digis |-> {"b"}, delay |-> 1, senders |-> {"a"}, messages |-> 1, foreign |-> 0,
    path |-> <<[call |-> "WIDE", hops |-> 1, used |-> FALSE]>>, faults |-> TRUE]}
LivePlans == {<<1>>}
LiveBegins == {<<"usb", "off">>}
LiveAllowed ==
  {[prepares |-> 1, finishes |-> 1, sessions |-> 0, losses |-> 1, edits |-> 0],
   [prepares |-> 0, finishes |-> 0, sessions |-> 1, losses |-> 1, edits |-> 0]}
OneMaster == {[masters |-> {m1}, events |-> 2]}

deviceVars == <<modemLoopVars, dstarModemVars, streamVars, tmdVars>>
recorderVars == <<coordinatorVars, dmrVars, pulsarVars>>
shellVars ==
  <<loopAt, delivering, flushing, resume, commands, channel, socket, unlinkSent, ackInTime,
    doingCall, reply, askedToLeave, reason, drainLeft, left, joined, result>>
coreVars ==
  <<state, timers, outbox, coreEvents, cachedTxHeader, active, voiceAge, clockOk, consumer>>
sessionVars == <<coreVars, shellVars>>
reflectorVars == <<pool, byModule, cache, replies, doomed, due, feed>>
linkVars == <<sessionVars, reflectorVars, lodestarVars>>
liveVars == <<part, deviceVars, aprsClientVars, recorderVars, linkVars>>

\* A component that is not exercised starts in one state.
LiveInit ==
  /\ part \in Parts
  /\ ModemLoopInit /\ DstarModemInit /\ StreamInit /\ TmdInit /\ AprsClientInit
  /\ CoordinatorInit /\ DmrInit /\ PulsarInit /\ LodestarInit /\ Reflector!Init
  /\ IF part = "core" THEN Core!Init /\ Loop!ShellInit ELSE Loop!LoopInit
  /\ part # "coordinator" => fileConfig = <<>> /\ disabled = {}
  /\ part # "tmd" => allowed.prepares = 0
  /\ part # "dmr" => network = "ordered"

DeviceNext ==
  /\ \/ part = "modem" /\ ModemLoopNext /\ UNCHANGED <<dstarModemVars, streamVars, tmdVars>>
     \/ part = "dstar" /\ DstarModemNext /\ UNCHANGED <<modemLoopVars, streamVars, tmdVars>>
     \/ part = "stream" /\ StreamNext /\ UNCHANGED <<modemLoopVars, dstarModemVars, tmdVars>>
     \/ part = "tmd" /\ TmdNext /\ UNCHANGED <<modemLoopVars, dstarModemVars, streamVars>>
  /\ UNCHANGED <<aprsClientVars, recorderVars, linkVars>>
AprsNext == part = "aprs" /\ AprsClientNext /\ UNCHANGED <<deviceVars, recorderVars, linkVars>>
RecorderNext ==
  /\ \/ part = "coordinator" /\ CoordinatorNext /\ UNCHANGED <<dmrVars, pulsarVars>>
     \/ part = "dmr" /\ DmrNext /\ UNCHANGED <<coordinatorVars, pulsarVars>>
     \/ part = "pulsar" /\ PulsarNext /\ UNCHANGED <<coordinatorVars, dmrVars>>
  /\ UNCHANGED <<deviceVars, aprsClientVars, linkVars>>
LinkNext ==
  /\ \/ part = "core" /\ Core!Next /\ UNCHANGED <<shellVars, reflectorVars, lodestarVars>>
     \/ part = "loop" /\ Loop!LoopNext /\ UNCHANGED <<reflectorVars, lodestarVars>>
     \/ part = "reflector" /\ Reflector!Next /\ UNCHANGED <<sessionVars, lodestarVars>>
     \/ part = "lodestar" /\ LodestarNext /\ UNCHANGED <<sessionVars, reflectorVars>>
  /\ UNCHANGED <<deviceVars, aprsClientVars, recorderVars>>

LiveNext == (DeviceNext \/ AprsNext \/ RecorderNext \/ LinkNext) /\ UNCHANGED part

\* The modem task and its timeouts; the caller of the D-STAR runtime that keeps asking;
\* the pump; a programming session, which is polled, and its budgets.
DeviceFairness ==
  /\ WF_modemLoopVars(part = "modem" /\ LoopStep /\ UNCHANGED workload)
  /\ WF_modemLoopVars(part = "modem" /\ FlushDeadline /\ UNCHANGED workload)
  /\ WF_modemLoopVars(part = "modem" /\ CallDeadline /\ UNCHANGED workload)
  /\ WF_dstarModemVars(part = "dstar" /\ CallNextEvent)
  /\ SF_dstarModemVars(part = "dstar" /\ (TakeEvent \/ ChannelClosed))
  /\ WF_dstarModemVars(part = "dstar" /\ PlayEcho)
  /\ WF_streamVars(part = "stream" /\ PumpStep)
  /\ WF_tmdVars(part = "tmd" /\ TmdStep)
  /\ WF_tmdVars(part = "tmd" /\ BudgetSpent)

\* Every client calls next_event again and again, and time passes.
AprsFairness ==
  /\ \A s \in Stations : WF_aprsClientVars(part = "aprs" /\ CycleStep(s))
  /\ WF_aprsClientVars(part = "aprs" /\ AprsTick)

\* The coordinator reconciles, and a supervisor that was told to stop does; a DMR client
\* is asked for events, its deadlines fire and datagrams that are not lost arrive; the
\* tasks of the recorder are polled, and a full queue is not refused to one for ever.
RecorderFairness ==
  /\ WF_coordinatorVars(part = "coordinator" /\ Reconcile)
  /\ WF_coordinatorVars(part = "coordinator" /\ Drain)
  /\ WF_coordinatorVars(part = "coordinator" /\ EndCommand)
  /\ WF_coordinatorVars(part = "coordinator" /\ \E i \in DOMAIN tasks : tasks[i].told /\ SupervisorEnds(i))
  /\ WF_dmrVars(part = "dmr" /\ Usable /\ NextEvent)
  /\ SF_dmrVars(part = "dmr" /\ Usable /\ Deadline)
  /\ WF_dmrVars(part = "dmr" /\ Usable /\ DmrTick)
  /\ WF_dmrVars(part = "dmr" /\ Usable /\ \E ok \in BOOLEAN : SendEnds(ok))
  /\ SF_dmrVars(part = "dmr" /\ Usable /\ \E i \in DOMAIN toClient : ClientGets(i))
  /\ WF_dmrVars(part = "dmr" /\ Usable /\ \E i \in DOMAIN toMaster : MasterGets(i))
  /\ WF_pulsarVars(part = "pulsar" /\ \E ok \in BOOLEAN : WriterFinishes(ok))
  /\ WF_pulsarVars(part = "pulsar" /\ (WriterTakes \/ WriterEnds))
  /\ WF_pulsarVars(part = "pulsar" /\ (Select \/ Collect))
  /\ WF_pulsarVars(part = "pulsar" /\ (StopAway(m1) \/ PumpTop(m1) \/ CheckInactive(m1)))
  /\ SF_pulsarVars(part = "pulsar" /\ SendRecording(m1))

\* The shell calls handle_timeout and drains both queues; both tasks of a session run; the
\* endpoint loop runs; lodestar's task runs, and so do the calls on its handle.
LinkFairness ==
  /\ WF_coreVars(part = "core" /\ Core!Tick /\ UNCHANGED consumer)
  /\ WF_coreVars(part = "core" /\ Core!HandleTimeout /\ UNCHANGED consumer)
  /\ WF_coreVars(part = "core" /\ Core!PopTransmit /\ UNCHANGED consumer)
  /\ WF_coreVars(part = "core" /\ Core!PopEvent)
  /\ WF_sessionVars(part = "loop" /\ Loop!LoopStep)
  /\ WF_sessionVars(part = "loop" /\ Loop!CallStep)
  /\ WF_sessionVars(part = "loop" /\ Loop!LoopTick)
  /\ WF_reflectorVars(part = "reflector" /\ Reflector!Sending)
  /\ WF_reflectorVars(part = "reflector" /\ Reflector!EvictDoomed)
  /\ WF_reflectorVars(part = "reflector" /\ Reflector!HandleTick)
  /\ WF_reflectorVars(part = "reflector" /\ Reflector!Elapse)
  /\ WF_lodestarVars(part = "lodestar" /\ TaskStep)
  /\ \A c \in Callers : WF_lodestarVars(part = "lodestar" /\ CallGoesOn(c))

LiveSpec ==
  LiveInit /\ [][LiveNext]_liveVars
    /\ DeviceFairness /\ AprsFairness /\ RecorderFairness /\ LinkFairness

(* The DMR client recovers, or its caller is told (RecoveryEnds). *)
ClientRecovers == []<>(part = "dmr" => phase = "operational" \/ ~Usable)

(* A disconnect completes: acknowledged or not, a session does not stay Disconnecting
   (enqueue_disconnect arms the deadline, handle_timeout finds it expired). *)
DisconnectResolves == []<>(part = "core" => state # "Disconnecting")

(* A link attempt is resolved one way or the other, once the reflector stops repeating
   the LINK1 acknowledgement, which restarts the wait (handle_timeout). *)
LinkResolves == Core!LinkResolves

(* A stream whose frames stop is ended even when its EOT was lost and its header keeps
   being retransmitted (TIMER_VOICE_INACTIVITY). *)
SilentStreamEnds == Core!SilentStreamEnds

(* A sender gets its answer although it does not drain the events that have filled the
   channel: the loop serves commands while it waits for room (deliver_event). *)
CommandsAreAnswered == Loop!CommandsAreAnswered

(* disconnect returns, even while the reflector's events keep coming. *)
DisconnectReturns == Loop!DisconnectReturns

(* A lost EOT cannot keep a module busy: a stream cache entry that is not refreshed is
   dropped (handle_tick). *)
ModulesAreFreed == Reflector!ModulesAreFreed

(* A client that falls silent is evicted (handle_tick). *)
SilentClientsLeave == Reflector!SilentClientsLeave

(* No caller waits for ever: modem calls and stream requests, TM-D750 sessions, commands and
   disconnects of a D-STAR session, calls on a lodestar handle, APRS messages. *)
CallersAreAnswered ==
  /\ CallsResolve /\ RequestsComplete /\ TmdCallsEnd /\ MessagesResolve
  /\ CommandsAreAnswered /\ DisconnectReturns /\ LodestarCallsReturn

(* Whoever falls silent is noticed: an unanswered link or unlink, a stream without an end, a
   reflector client, a modem that died. *)
SilenceIsNoticed ==
  /\ DisconnectResolves /\ LinkResolves /\ SilentStreamEnds
  /\ ModulesAreFreed /\ SilentClientsLeave /\ DeadModemIsReported

(* Services reach what was asked of them: the configured targets run, a DMR client is
   operational again, a recorder or a modem loop that was stopped has ended. *)
ServicesSettle ==
  Converges /\ ClientRecovers /\ RecorderEnds /\ ShutdownEnds
==============================================================================
