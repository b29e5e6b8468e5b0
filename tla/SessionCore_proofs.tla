-------------------------- MODULE SessionCore_proofs --------------------------
(***************************************************************************)
(* Theorems about the client session for every protocol, every set of      *)
(* streams, every choice of durations and every queue bound.               *)
(***************************************************************************)
EXTENDS SessionCore, TLAPS

(* The timer discipline is inductive once it is known that a session that has
   not linked yet has no active stream. *)
TimerInv ==
    /\ TypeOK
    /\ TimersMatchState
    /\ state \in {"Configured", "Authenticated", "Connecting"} => active = NoStream

(* Queues of events stay queues of events. *)
LEMMA QueueTypes ==
    ASSUME NEW S, NEW q \in Seq(S)
    PROVE  /\ \A e \in S : Append(q, e) \in Seq(S)
           /\ \A r \in Seq(S) : q \o r \in Seq(S)
           /\ \A r \in Seq(S), e \in S : Append(q \o r, e) \in Seq(S)
OBVIOUS

(* The constructors of events build events. *)
LEMMA EventTypes ==
    /\ Connected \in Events
    /\ PollEcho \in Events
    /\ \A r \in DisconnectReasons : Disconnected(r) \in Events
    /\ \A s \in Streams : VoiceStart(s) \in Events /\ VoiceFrame(s) \in Events
    /\ \A s \in Streams, r \in {"Eot", "Inactivity"} : VoiceEnd(s, r) \in Events
BY DEF Events

(* Every event a consumer hears leaves it in one of its states. *)
LEMMA HearType ==
    ASSUME NEW c \in [phase : {"waiting", "linked", "ended", "broken"},
                      talker : Streams \cup {NoStream}],
           NEW e \in Events
    PROVE  Hear(c, e) \in [phase : {"waiting", "linked", "ended", "broken"},
                           talker : Streams \cup {NoStream}]
<1>1. e.type = "VoiceStart" => e.stream \in Streams
  BY DEF Events, Connected, PollEcho, Disconnected, VoiceStart, VoiceFrame, VoiceEnd
<1> QED
  BY <1>1 DEF Hear

(* The session starts with every timer off. *)
LEMMA TimerInvInit == Init => TimerInv
<1> SUFFICES ASSUME Init PROVE TimerInv
  OBVIOUS
<1>1. timers \in [TimerId -> Nat \cup {Off}]
  BY DEF Init, AllOff, TimerId
<1>2. voiceAge \in 0..TakeoverThreshold
  BY DurationAssumption DEF Init
<1>3. outbox \in Seq(Packets) /\ events \in Seq(Events)
  BY DEF Init
<1>4. TypeOK
  BY <1>1, <1>2, <1>3 DEF Init, TypeOK, States
<1>5. TimersMatchState
  BY DEF Init, TimersMatchState, AllOff, Armed, Off, TimerId
<1> QED
  BY <1>4, <1>5 DEF TimerInv, Init

(* What the timers are after each change a handler makes to them. *)
LEMMA TimerUpdates ==
    ASSUME NEW t \in [TimerId -> Nat \cup {Off}]
    PROVE  /\ AllOff \in [TimerId -> Nat \cup {Off}]
           /\ ArmInactivity(t) \in [TimerId -> Nat \cup {Off}]
           /\ ArmInactivity(t)["KeepaliveInactivity"] # Off
           /\ \A id \in TimerId \ {"KeepaliveInactivity"} : ArmInactivity(t)[id] = t[id]
           /\ ArmVoice(t) \in [TimerId -> Nat \cup {Off}]
           /\ ArmVoice(t)["VoiceInactivity"] # Off
           /\ \A id \in TimerId \ {"VoiceInactivity"} : ArmVoice(t)[id] = t[id]
BY DurationAssumption DEF AllOff, ArmInactivity, ArmVoice, Off, TimerId

(* A handler that closes the session leaves no timer armed. *)
LEMMA CloseKeepsInv ==
    ASSUME TimerInv, NEW r \in DisconnectReasons, NEW q \in Seq(Events), Close(r, q),
           active' \in Streams \cup {NoStream}
    PROVE  /\ state' = "Closed"
           /\ timers' \in [TimerId -> Nat \cup {Off}]
           /\ events' \in Seq(Events)
           /\ TimersMatchState'
<1>1. state' = "Closed" /\ timers' = AllOff
  BY DEF Close
<1>2. events' \in Seq(Events)
  BY EventTypes DEF Close
<1>3. timers' \in [TimerId -> Nat \cup {Off}]
  BY <1>1 DEF AllOff, TimerId
<1>4. TimersMatchState'
  BY <1>1 DEF TimersMatchState, AllOff, Armed, Off, TimerId
<1> QED
  BY <1>1, <1>2, <1>3, <1>4

(* Every operation of the caller keeps the invariant. *)
LEMMA CallerKeepsInv ==
    ASSUME TimerInv, CallerStep, UNCHANGED consumer
    PROVE  TimerInv'
<1> USE DEF TimerInv, TypeOK, OutboxRoom
<1> DEFINE TT == [TimerId -> Nat \cup {Off}]
<1>1. CASE AttachHostList
  BY <1>1 DEF AttachHostList, TimersMatchState, States, Armed
<1>2. CASE EnqueueConnect
  <2>1. timers' = ArmInactivity(timers) /\ state' = "Connecting" /\ timers = AllOff
    BY <1>2 DEF EnqueueConnect, TimersMatchState
  <2>2. timers' \in TT
    BY <2>1, TimerUpdates
  <2>3. outbox' \in Seq(Packets)
    BY <1>2 DEF EnqueueConnect, Packets
  <2>4. TypeOK'
    BY <1>2, <2>1, <2>2, <2>3 DEF EnqueueConnect, States
  <2>5. TimersMatchState'
    BY <2>1, TimerUpdates DEF TimersMatchState, AllOff, Armed, Off, TimerId
  <2>6. active' = NoStream
    BY <1>2, KindAssumption DEF EnqueueConnect
  <2> QED
    BY <2>4, <2>5, <2>6
<1>3. CASE EnqueueDisconnect
  <2>1. /\ timers' = [timers EXCEPT !["DisconnectDeadline"] = DisconnectTimeout]
        /\ state' = "Disconnecting"
    BY <1>3 DEF EnqueueDisconnect
  <2>2. timers' \in TT
    BY <2>1, DurationAssumption DEF TimerId
  <2>3. outbox' \in Seq(Packets)
    BY <1>3 DEF EnqueueDisconnect, Packets
  <2>4. TypeOK'
    BY <1>3, <2>1, <2>2, <2>3 DEF EnqueueDisconnect, States
  <2>5. TimersMatchState'
    BY <2>1, DurationAssumption DEF TimersMatchState, Armed, Off, TimerId
  <2> QED
    BY <2>1, <2>4, <2>5
<1>4. CASE EnqueueSendHeader
  <2>1. outbox' \in Seq(Packets)
    BY <1>4 DEF EnqueueSendHeader, Packets
  <2>2. TypeOK'
    BY <1>4, <2>1 DEF EnqueueSendHeader
  <2> QED
    BY <1>4, <2>2 DEF EnqueueSendHeader, TimersMatchState, Armed
<1>5. CASE EnqueueSendVoice \/ EnqueueSendEot
  <2>1. "VOICE" \in Packets /\ "EOT" \in Packets
    BY DEF Packets
  <2>2. PICK packet \in Packets : EnqueueSend(packet)
    BY <1>5, <2>1, Zenon DEF EnqueueSendVoice, EnqueueSendEot
  <2>3. /\ outbox' = Append(outbox, packet)
        /\ UNCHANGED <<state, timers, events, cachedTxHeader, active, voiceAge, clockOk>>
    BY <2>2, Zenon DEF EnqueueSend
  <2>4. outbox' \in Seq(Packets)
    BY <2>3
  <2> QED
    BY <2>3, <2>4 DEF TimersMatchState, Armed
<1> QED
  BY <1>1, <1>2, <1>3, <1>4, <1>5 DEF CallerStep

(* The clock only lowers timers that are armed, never to Off. *)
LEMMA ClockKeepsInv ==
    ASSUME TimerInv, ClockStep, UNCHANGED consumer
    PROVE  TimerInv'
<1> USE DEF TimerInv, TypeOK
<1>1. CASE Tick
  <2>1. timers' \in [TimerId -> Nat \cup {Off}]
    BY <1>1 DEF Tick, Elapse, Off
  <2>2. \A id \in TimerId : (timers'[id] = Off <=> timers[id] = Off)
    BY <1>1 DEF Tick, Elapse, Off
  <2>3. voiceAge' \in 0..TakeoverThreshold
    BY <1>1, DurationAssumption DEF Tick, Elapse
  <2>4. timers = AllOff => timers' = AllOff
    BY <1>1 DEF Tick, Elapse, AllOff, Off
  <2>5. TimersMatchState'
    BY <1>1, <2>2, <2>4 DEF Tick, Elapse, TimersMatchState, Armed, TimerId
  <2> QED
    BY <1>1, <2>1, <2>3, <2>5 DEF Tick, Elapse
<1>2. CASE ClockRunsOut
  BY <1>2 DEF ClockRunsOut, TimersMatchState, Armed
<1> QED
  BY <1>1, <1>2 DEF ClockStep

(* Draining a queue keeps the invariant. *)
LEMMA DrainKeepsInv ==
    /\ TimerInv /\ PopTransmit /\ UNCHANGED consumer => TimerInv'
    /\ TimerInv /\ PopEvent => TimerInv'
<1> USE DEF TimerInv, TypeOK
<1>1. ASSUME TimerInv, PopTransmit, UNCHANGED consumer PROVE TimerInv'
  <2>1. outbox' \in Seq(Packets)
    BY <1>1 DEF PopTransmit
  <2> QED
    BY <1>1, <2>1 DEF PopTransmit, TimersMatchState, Armed
<1>2. ASSUME TimerInv, PopEvent PROVE TimerInv'
  <2>1. Head(events) \in Events /\ events' \in Seq(Events)
    BY <1>2 DEF PopEvent, PopEventCore
  <2>2. consumer' \in [phase : {"waiting", "linked", "ended", "broken"},
                       talker : Streams \cup {NoStream}]
    BY <1>2, <2>1, HearType DEF PopEvent
  <2> QED
    BY <1>2, <2>1, <2>2 DEF PopEvent, PopEventCore, TimersMatchState, Armed
<1> QED
  BY <1>1, <1>2

(* A voice packet names one of the streams. *)
LEMMA StreamOfPacket ==
    ASSUME NEW pkt \in ServerPackets,
           pkt.type \in {"VoiceHeader", "VoiceData", "VoiceEot", "Voice"}
    PROVE  pkt.stream \in Streams
<1>1. pkt \notin ControlPackets
  <2>1. CASE Kind = "DPlus"
    BY <2>1 DEF ControlPackets
  <2>2. CASE Kind # "DPlus"
    BY <2>2 DEF ControlPackets
  <2> QED
    BY <2>1, <2>2
<1>2. pkt # PollEchoPacket
  BY DEF PollEchoPacket
<1>3. pkt \in VoicePackets
  BY <1>1, <1>2 DEF ServerPackets
<1> QED
  BY <1>3 DEF VoicePackets

(* The events that open a stream are events. *)
LEMMA StartEventsType ==
    ASSUME TypeOK, NEW s \in Streams
    PROVE  StartEvents(s) \in Seq(Events)
<1>1. VoiceStart(s) \in Events
  BY EventTypes
<1>2. active # NoStream => VoiceEnd(active, "Inactivity") \in Events
  BY EventTypes DEF TypeOK
<1> QED
  BY <1>1, <1>2 DEF StartEvents

(* What a datagram does to the active stream and its timer: set, keep or clear
   them together. *)
Receives ==
    \/ active' \in Streams /\ timers' = ArmVoice(ArmInactivity(timers))
    \/ active' = active /\ timers' = ArmInactivity(timers)
    \/ /\ active' = NoStream
       /\ timers' = [ArmInactivity(timers) EXCEPT !["VoiceInactivity"] = Off]

(* A linked session that goes on receiving keeps the invariant. *)
LEMMA ReceivingKeepsInv ==
    ASSUME TimerInv, UNCHANGED <<state, outbox, cachedTxHeader, clockOk>>,
           UNCHANGED consumer,
           state = "Connected",
           events' \in Seq(Events),
           voiceAge' \in 0..TakeoverThreshold,
           Receives
    PROVE  TimerInv'
<1> USE DEF TimerInv, TypeOK
<1> DEFINE TT == [TimerId -> Nat \cup {Off}]
           t == ArmInactivity(timers)
<1>1. t \in TT /\ t["KeepaliveInactivity"] # Off
      /\ \A id \in TimerId \ {"KeepaliveInactivity"} : t[id] = timers[id]
  BY TimerUpdates
<1> HIDE DEF t
<1>2. CASE active' \in Streams /\ timers' = ArmVoice(t)
  <2>1. timers' \in TT /\ timers'["VoiceInactivity"] # Off
        /\ \A id \in TimerId \ {"VoiceInactivity"} : timers'[id] = t[id]
    BY <1>1, <1>2, TimerUpdates
  <2> QED
    BY <1>1, <1>2, <2>1, StreamAssumption DEF TimersMatchState, Armed, TimerId
<1>3. CASE active' = active /\ timers' = t
  BY <1>1, <1>3 DEF TimersMatchState, Armed, TimerId
<1>4. CASE active' = NoStream /\ timers' = [t EXCEPT !["VoiceInactivity"] = Off]
  <2>1. timers' \in TT /\ timers'["VoiceInactivity"] = Off
        /\ \A id \in TimerId \ {"VoiceInactivity"} : timers'[id] = t[id]
    BY <1>1, <1>4 DEF TimerId
  <2> QED
    BY <1>1, <1>4, <2>1 DEF TimersMatchState, Armed, TimerId
<1> QED
  BY <1>2, <1>3, <1>4 DEF t, Receives

(* Every datagram keeps the invariant. *)
LEMMA InputKeepsInv ==
    ASSUME TimerInv, NEW pkt \in ServerPackets, HandleInput(pkt), UNCHANGED consumer
    PROVE  TimerInv'
<1> DEFINE TT == [TimerId -> Nat \cup {Off}]
<1>0. state # "Closed" /\ Heeded(pkt)
  BY Zenon DEF HandleInput
<1>t. TypeOK /\ TimersMatchState
  BY DEF TimerInv
<1>c. ASSUME NEW r \in DisconnectReasons, Close(r, events),
             UNCHANGED <<outbox, cachedTxHeader, active, voiceAge, clockOk>>
      PROVE  TimerInv'
  <2>1. /\ state' = "Closed" /\ timers' \in TT /\ events' \in Seq(Events)
        /\ TimersMatchState'
    BY <1>c, <1>t, CloseKeepsInv DEF TypeOK
  <2> QED
    BY <1>c, <1>t, <2>1 DEF TimerInv, TypeOK, States
<1>r. /\ "UnlinkAcked" \in DisconnectReasons
      /\ "Rejected" \in DisconnectReasons
  BY DEF DisconnectReasons
<1>1. CASE Link1Ack(pkt)
  <2>1. CASE state = "Disconnecting"
    BY <1>1, <2>1, <1>c, <1>r DEF Link1Ack
  <2>2. CASE state = "Connecting"
    <3>1. /\ outbox' = Append(outbox, "LINK2") /\ timers' = ArmInactivity(timers)
          /\ UNCHANGED <<state, events, cachedTxHeader, active, voiceAge, clockOk>>
      BY <1>1, <2>2 DEF Link1Ack
    <3>2. timers' \in TT /\ timers'["KeepaliveInactivity"] # Off
          /\ \A id \in TimerId \ {"KeepaliveInactivity"} : timers'[id] = timers[id]
      BY <3>1, <1>t, TimerUpdates DEF TypeOK
    <3>3. TypeOK'
      BY <1>t, <3>1, <3>2 DEF TypeOK, Packets
    <3>4. TimersMatchState'
      BY <1>t, <2>2, <3>1, <3>2 DEF TimersMatchState, Armed, TimerId
    <3> QED
      BY <3>1, <3>3, <3>4 DEF TimerInv
  <2> QED
    BY <1>1, <2>1, <2>2, Zenon DEF Link1Ack
<1>2. CASE LinkAccepted(pkt)
  <2>1. /\ state = "Connecting" /\ state' = "Connected"
        /\ timers' = [ArmInactivity(timers) EXCEPT !["Keepalive"] = KeepaliveInterval]
        /\ events' = Append(events, Connected)
        /\ UNCHANGED <<outbox, cachedTxHeader, active, voiceAge, clockOk>>
    BY <1>2, Zenon DEF LinkAccepted, Establish
  <2> DEFINE t == ArmInactivity(timers)
  <2>2. t \in TT /\ t["KeepaliveInactivity"] # Off
        /\ \A id \in TimerId \ {"KeepaliveInactivity"} : t[id] = timers[id]
    BY <1>t, TimerUpdates DEF TypeOK
  <2> HIDE DEF t
  <2>3. timers' \in TT /\ timers'["Keepalive"] # Off
        /\ \A id \in TimerId \ {"Keepalive"} : timers'[id] = t[id]
    BY <2>1, <2>2, DurationAssumption DEF t, TimerId, Off
  <2>4. events' \in Seq(Events)
    BY <1>t, <2>1, EventTypes DEF TypeOK
  <2>5. active = NoStream
    BY <2>1 DEF TimerInv
  <2>6. TypeOK'
    BY <1>t, <2>1, <2>3, <2>4 DEF TypeOK, States
  <2>7. TimersMatchState'
    BY <1>t, <2>1, <2>2, <2>3, <2>5 DEF TimersMatchState, Armed, TimerId
  <2> QED
    BY <2>1, <2>6, <2>7 DEF TimerInv
<1>3. CASE LinkRefused(pkt) \/ UnlinkAcked(pkt)
  BY <1>3, <1>c, <1>r, Zenon DEF LinkRefused, UnlinkAcked
<1>4. CASE PollEchoed(pkt)
  <2>1. events' \in Seq(Events)
    BY <1>4, <1>t, EventTypes DEF PollEchoed, TypeOK
  <2>2. Receives
    BY <1>4 DEF PollEchoed, Receives
  <2> QED
    BY <1>4, <1>t, <2>1, <2>2, ReceivingKeepsInv DEF PollEchoed, TypeOK
<1>5. CASE VoiceHeader(pkt)
  <2>1. pkt.stream \in Streams
    BY <1>5, StreamOfPacket, Zenon DEF VoiceHeader
  <2>2. StartEvents(pkt.stream) \in Seq(Events)
    BY <1>t, <2>1, StartEventsType
  <2>3. events' \in Seq(Events)
    <3>1. events \in Seq(Events) /\ events \o StartEvents(pkt.stream) \in Seq(Events)
      BY <1>t, <2>2, QueueTypes DEF TypeOK
    <3> QED
      BY <1>5, <3>1, Zenon DEF VoiceHeader
  <2>4. voiceAge' \in 0..TakeoverThreshold
    BY <1>5, <1>t, DurationAssumption DEF VoiceHeader, TypeOK
  <2>5. Receives
    BY <1>5, <2>1 DEF VoiceHeader, Retransmit, Receives
  <2> QED
    BY <1>5, <2>3, <2>4, <2>5, ReceivingKeepsInv, Zenon DEF VoiceHeader
<1>6. CASE VoiceData(pkt)
  <2>1. pkt.stream \in Streams
    BY <1>6, StreamOfPacket, Zenon DEF VoiceData
  <2>2. /\ state = "Connected"
        /\ UNCHANGED <<state, outbox, cachedTxHeader, clockOk>>
        /\ \/ /\ \/ events' = Append(events, VoiceFrame(pkt.stream))
                 \/ events' = Append(events \o StartEvents(pkt.stream), VoiceFrame(pkt.stream))
              /\ active' = pkt.stream
              /\ timers' = ArmVoice(ArmInactivity(timers))
              /\ voiceAge' = 0
           \/ /\ timers' = ArmInactivity(timers)
              /\ UNCHANGED <<events, active, voiceAge>>
    <3>1. events \o << >> = events
      BY <1>t DEF TypeOK
    <3> QED
      BY <1>6, <3>1, Zenon DEF VoiceData
  <2>3. StartEvents(pkt.stream) \in Seq(Events) /\ VoiceFrame(pkt.stream) \in Events
    BY <1>t, <2>1, StartEventsType, EventTypes
  <2>4. events' \in Seq(Events)
    <3>1. /\ events \in Seq(Events)
          /\ Append(events, VoiceFrame(pkt.stream)) \in Seq(Events)
          /\ Append(events \o StartEvents(pkt.stream), VoiceFrame(pkt.stream))
                \in Seq(Events)
      BY <1>t, <2>3, QueueTypes DEF TypeOK
    <3> QED
      BY <2>2, <3>1, Zenon
  <2>5. voiceAge' \in 0..TakeoverThreshold
    BY <1>t, <2>2, DurationAssumption DEF TypeOK
  <2>6. Receives
    BY <2>1, <2>2 DEF Receives
  <2> QED
    BY <2>2, <2>4, <2>5, <2>6, ReceivingKeepsInv, Zenon
<1>7. CASE VoiceEot(pkt)
  <2>1. pkt.stream \in Streams
    BY <1>7, StreamOfPacket, Zenon DEF VoiceEot
  <2>2. /\ state = "Connected"
        /\ UNCHANGED <<state, outbox, cachedTxHeader, clockOk>>
        /\ \/ /\ active = pkt.stream
              /\ events' = Append(events, VoiceEnd(active, "Eot"))
              /\ active' = NoStream
              /\ voiceAge' = TakeoverThreshold
              /\ timers' = [ArmInactivity(timers) EXCEPT !["VoiceInactivity"] = Off]
           \/ /\ timers' = ArmInactivity(timers)
              /\ UNCHANGED <<events, active, voiceAge>>
    BY <1>7, Zenon DEF VoiceEot
  <2>3. VoiceEnd(pkt.stream, "Eot") \in Events
    BY <2>1, EventTypes
  <2>4. events' \in Seq(Events)
    <3>1. events \in Seq(Events) /\ Append(events, VoiceEnd(pkt.stream, "Eot")) \in Seq(Events)
      BY <1>t, <2>3, QueueTypes DEF TypeOK
    <3> QED
      BY <2>2, <3>1, Zenon
  <2>5. voiceAge' \in 0..TakeoverThreshold
    BY <1>t, <2>2, DurationAssumption DEF TypeOK
  <2>6. Receives
    BY <2>1, <2>2 DEF Receives
  <2> QED
    BY <2>2, <2>4, <2>5, <2>6, ReceivingKeepsInv, Zenon
<1> QED
  BY <1>0, <1>1, <1>2, <1>3, <1>4, <1>5, <1>6, <1>7, Zenon DEF Heeded

(* A timeout keeps the invariant. *)
LEMMA TimeoutKeepsInv ==
    ASSUME TimerInv, HandleTimeout, UNCHANGED consumer
    PROVE  TimerInv'
<1> DEFINE TT == [TimerId -> Nat \cup {Off}]
           ends == Hushes /\ active # NoStream
           queued == IF ends THEN Append(events, VoiceEnd(active, "Inactivity"))
                             ELSE events
<1>0. TimeoutClockRange \/ TimeoutInRange
  BY Zenon DEF HandleTimeout
<1>t. TypeOK /\ TimersMatchState
  BY DEF TimerInv
<1>r. /\ "ClockRange" \in DisconnectReasons
      /\ "KeepaliveInactivity" \in DisconnectReasons
      /\ "DisconnectTimeout" \in DisconnectReasons
  BY DEF DisconnectReasons
<1>c. ASSUME NEW r \in DisconnectReasons, NEW q \in Seq(Events), Close(r, q),
             active' \in Streams \cup {NoStream}, outbox' \in Seq(Packets),
             voiceAge' \in 0..TakeoverThreshold,
             UNCHANGED <<cachedTxHeader, clockOk>>
      PROVE  TimerInv'
  <2>1. /\ state' = "Closed" /\ timers' \in TT /\ events' \in Seq(Events)
        /\ TimersMatchState'
    BY <1>c, <1>t, CloseKeepsInv
  <2> QED
    BY <1>c, <1>t, <2>1 DEF TimerInv, TypeOK, States
<1>q. queued \in Seq(Events)
  <2>1. events \in Seq(Events)
    BY <1>t DEF TypeOK
  <2>2. ends => VoiceEnd(active, "Inactivity") \in Events
    BY <1>t, EventTypes DEF TypeOK
  <2> QED
    BY <2>1, <2>2, QueueTypes
<1>1. CASE TimeoutClockRange
  <2>1. /\ Close("ClockRange", events) /\ outbox' = << >> /\ active' = NoStream
        /\ voiceAge' = TakeoverThreshold /\ UNCHANGED <<cachedTxHeader, clockOk>>
    BY <1>1, Zenon DEF TimeoutClockRange
  <2>2. events \in Seq(Events) /\ << >> \in Seq(Packets)
    BY <1>t DEF TypeOK
  <2>3. TakeoverThreshold \in 0..TakeoverThreshold
    BY DurationAssumption
  <2> QED
    BY <1>c, <1>r, <2>1, <2>2, <2>3
<1>2. CASE TimeoutInRange
  <2>1. /\ outbox' = IF Polls THEN Append(outbox, "POLL") ELSE outbox
        /\ active' = IF ends THEN NoStream ELSE active
        /\ voiceAge' = IF ends THEN TakeoverThreshold ELSE voiceAge
        /\ UNCHANGED <<cachedTxHeader, clockOk>>
    BY <1>2, Zenon DEF TimeoutInRange
  <2>2. \/ Close("KeepaliveInactivity", queued)
        \/ Close("DisconnectTimeout", queued)
        \/ /\ timers' = [timers EXCEPT
                  !["Keepalive"] = IF Polls THEN KeepaliveInterval ELSE @,
                  !["VoiceInactivity"] = IF Hushes THEN Off ELSE @]
           /\ events' = queued
           /\ UNCHANGED state
    BY <1>2, Zenon DEF TimeoutInRange
  <2>3. active' \in Streams \cup {NoStream}
    BY <1>t, <2>1 DEF TypeOK
  <2>4. outbox' \in Seq(Packets)
    BY <1>t, <2>1 DEF TypeOK, Packets
  <2>5. voiceAge' \in 0..TakeoverThreshold
    BY <1>t, <2>1, DurationAssumption DEF TypeOK
  <2> HIDE DEF queued
  <2>6. CASE Close("KeepaliveInactivity", queued) \/ Close("DisconnectTimeout", queued)
    BY <1>c, <1>q, <1>r, <2>1, <2>3, <2>4, <2>5, <2>6
  <2>7. CASE /\ timers' = [timers EXCEPT
                  !["Keepalive"] = IF Polls THEN KeepaliveInterval ELSE @,
                  !["VoiceInactivity"] = IF Hushes THEN Off ELSE @]
             /\ events' = queued
             /\ UNCHANGED state
    <3>1. timers \in TT
      BY <1>t DEF TypeOK
    <3>2. timers' \in TT
      BY <2>7, <3>1, DurationAssumption DEF TimerId, Off
    <3>3. /\ timers'["Keepalive"] = IF Polls THEN KeepaliveInterval ELSE timers["Keepalive"]
          /\ timers'["VoiceInactivity"] = IF Hushes THEN Off ELSE timers["VoiceInactivity"]
          /\ timers'["KeepaliveInactivity"] = timers["KeepaliveInactivity"]
          /\ timers'["DisconnectDeadline"] = timers["DisconnectDeadline"]
      BY <2>7, <3>1 DEF TimerId
    <3>4. TypeOK'
      BY <1>t, <1>q, <2>1, <2>3, <2>4, <2>5, <2>7, <3>2 DEF TypeOK
    <3>5. CASE state = "Connected"
      <4>1. timers'["Keepalive"] # Off
        BY <1>t, <3>3, <3>5, DurationAssumption DEF TimersMatchState, Armed, Off
      <4>2. timers'["VoiceInactivity"] # Off <=> active' # NoStream
        <5>1. timers["VoiceInactivity"] # Off <=> active # NoStream
          BY <1>t, <3>5 DEF TimersMatchState, Armed
        <5> QED
          BY <5>1, <2>1, <3>3, Zenon
      <4> QED
        BY <1>t, <2>7, <3>3, <3>4, <3>5, <4>1, <4>2
           DEF TimerInv, TimersMatchState, Armed
    <3>6. CASE state # "Connected"
      <4>1. ~Polls /\ ~Hushes
        BY <3>6 DEF Polls, Hushes
      <4>2. timers' = timers /\ active' = active
        BY <2>1, <2>7, <3>1, <4>1 DEF TimerId
      <4> QED
        BY <1>t, <2>7, <3>4, <4>2 DEF TimerInv, TimersMatchState, Armed
    <3> QED
      BY <3>5, <3>6
  <2> QED
    BY <2>2, <2>6, <2>7
<1> QED
  BY <1>0, <1>1, <1>2

(* The timer invariant is inductive. *)
LEMMA TimerInvNext == TimerInv /\ [Next]_vars => TimerInv'
<1> SUFFICES ASSUME TimerInv, [Next]_vars PROVE TimerInv'
  OBVIOUS
<1>1. CASE CoreStep /\ UNCHANGED consumer
  BY <1>1, CallerKeepsInv, TimeoutKeepsInv, DrainKeepsInv, InputKeepsInv, Zenon
     DEF CoreStep
<1>2. CASE ClockStep /\ UNCHANGED consumer
  BY <1>2, ClockKeepsInv, Zenon
<1>3. CASE PopEvent
  BY <1>3, DrainKeepsInv, Zenon
<1>4. CASE UNCHANGED vars
  <2>1. UNCHANGED <<state, timers, outbox, events, cachedTxHeader, active, voiceAge,
                    clockOk, consumer>>
    BY <1>4 DEF vars, coreVars
  <2> QED
    BY <2>1 DEF TimerInv, TypeOK, TimersMatchState, Armed
<1> QED
  BY <1>1, <1>2, <1>3, <1>4 DEF Next

(* Whatever the caller, the reflector and the clock do, a session has exactly
   the timers its state needs, and every variable keeps its type. *)
THEOREM SessionTimers == Spec => [](TypeOK /\ TimersMatchState)
<1>1. TimerInv => TypeOK /\ TimersMatchState
  BY DEF TimerInv
<1> QED
  BY TimerInvInit, TimerInvNext, <1>1, PTL DEF Spec

(***************************************************************************)
(* The receive path implements the talk channel.                           *)
(***************************************************************************)
Holder == IF state = "Connected" THEN active ELSE NoStream
Quiet == voiceAge >= TakeoverThreshold

(* Steps of the channel, in terms of its two state functions. *)
LEMMA ChannelSteps ==
    /\ UNCHANGED <<Holder, Quiet>> => [Channel!ChannelNext]_(Channel!channelVars)
    /\ Holder' = Holder /\ Quiet' = TRUE => [Channel!ChannelNext]_(Channel!channelVars)
    /\ Holder # NoStream /\ Holder' = NoStream =>
            [Channel!ChannelNext]_(Channel!channelVars)
    /\ \A s \in Streams :
          /\ Holder' = s /\ Quiet' = FALSE
          /\ Holder \in {NoStream, s} \/ Quiet
          => [Channel!ChannelNext]_(Channel!channelVars)
<1> USE DEF Holder, Quiet
<1>1. UNCHANGED <<Holder, Quiet>> => [Channel!ChannelNext]_(Channel!channelVars)
  BY DEF Channel!channelVars
<1>2. Holder' = Holder /\ Quiet' = TRUE => [Channel!ChannelNext]_(Channel!channelVars)
  BY DEF Channel!ChannelNext, Channel!GoQuiet
<1>3. Holder # NoStream /\ Holder' = NoStream =>
            [Channel!ChannelNext]_(Channel!channelVars)
  BY DEF Channel!ChannelNext, Channel!Release
<1>4. ASSUME NEW s \in Streams, Holder' = s, Quiet' = FALSE,
             Holder \in {NoStream, s} \/ Quiet
      PROVE  Channel!ChannelNext
  BY <1>4, Zenon DEF Channel!ChannelNext, Channel!Claim, Channel!Talk, Channel!Preempt
<1> QED
  BY <1>1, <1>2, <1>3, <1>4

(* A datagram is a step of the channel or none. *)
LEMMA InputOnChannel ==
    ASSUME TimerInv, NEW pkt \in ServerPackets, Heeded(pkt)
    PROVE  [Channel!ChannelNext]_(Channel!channelVars)
<1> DEFINE A == [Channel!ChannelNext]_(Channel!channelVars)
<1>t. active \in Streams \cup {NoStream} /\ voiceAge \in 0..TakeoverThreshold
  BY DEF TimerInv, TypeOK
<1>s. ASSUME state' = state, active' = active, voiceAge' = voiceAge
      PROVE  UNCHANGED <<Holder, Quiet>>
  BY <1>s DEF Holder, Quiet
<1>c. ASSUME state' = "Closed", voiceAge' = voiceAge
      PROVE  A
  <2>1. Holder' = NoStream /\ Quiet' = Quiet
    BY <1>c DEF Holder, Quiet
  <2> QED
    BY <2>1, ChannelSteps
<1>1. CASE Link1Ack(pkt)
  <2>1. \/ state' = "Closed" /\ voiceAge' = voiceAge
        \/ state' = state /\ active' = active /\ voiceAge' = voiceAge
    BY <1>1, Zenon DEF Link1Ack, Close
  <2> QED
    BY <1>c, <1>s, <2>1, ChannelSteps
<1>2. CASE LinkAccepted(pkt)
  <2>1. state = "Connecting" /\ state' = "Connected" /\ UNCHANGED <<active, voiceAge>>
    BY <1>2, Zenon DEF LinkAccepted, Establish
  <2>2. active = NoStream
    BY <2>1 DEF TimerInv
  <2>3. UNCHANGED <<Holder, Quiet>>
    BY <2>1, <2>2 DEF Holder, Quiet
  <2> QED
    BY <2>3, ChannelSteps
<1>3. CASE LinkRefused(pkt) \/ UnlinkAcked(pkt)
  <2>1. state' = "Closed" /\ voiceAge' = voiceAge
    BY <1>3, Zenon DEF LinkRefused, UnlinkAcked, Close
  <2> QED
    BY <1>c, <2>1
<1>4. CASE PollEchoed(pkt)
  <2>1. state' = state /\ active' = active /\ voiceAge' = voiceAge
    BY <1>4, Zenon DEF PollEchoed
  <2> QED
    BY <1>s, <2>1, ChannelSteps
<1>5. CASE VoiceHeader(pkt) \/ VoiceData(pkt)
  <2>1. pkt.stream \in Streams
    BY <1>5, StreamOfPacket, Zenon DEF VoiceHeader, VoiceData
  <2>2. /\ state = "Connected" /\ state' = state
        /\ \/ active' = active /\ voiceAge' = voiceAge
           \/ /\ active' = pkt.stream /\ voiceAge' = 0
              /\ MayStart(pkt.stream) \/ active = pkt.stream
    BY <1>5, Zenon DEF VoiceHeader, VoiceData
  <2>3. CASE active' = active /\ voiceAge' = voiceAge
    BY <1>s, <2>2, <2>3, ChannelSteps
  <2>4. CASE /\ active' = pkt.stream /\ voiceAge' = 0
             /\ MayStart(pkt.stream) \/ active = pkt.stream
    <3>1. Holder' = pkt.stream /\ Holder = active
      BY <2>2, <2>4 DEF Holder
    <3>2. Quiet' = FALSE
      BY <2>4, DurationAssumption DEF Quiet
    <3>3. Holder \in {NoStream, pkt.stream} \/ Quiet
      BY <2>4, <3>1 DEF MayStart, Quiet
    <3> QED
      BY <2>1, <3>1, <3>2, <3>3, ChannelSteps
  <2> QED
    BY <2>2, <2>3, <2>4
<1>6. CASE VoiceEot(pkt)
  <2>1. pkt.stream \in Streams
    BY <1>6, StreamOfPacket, Zenon DEF VoiceEot
  <2>2. /\ state = "Connected" /\ state' = state
        /\ \/ active' = active /\ voiceAge' = voiceAge
           \/ active = pkt.stream /\ active' = NoStream
    BY <1>6, Zenon DEF VoiceEot
  <2>3. CASE active' = active /\ voiceAge' = voiceAge
    BY <1>s, <2>2, <2>3, ChannelSteps
  <2>4. CASE active = pkt.stream /\ active' = NoStream
    <3>1. Holder # NoStream /\ Holder' = NoStream
      BY <2>1, <2>2, <2>4, StreamAssumption DEF Holder
    <3> QED
      BY <3>1, ChannelSteps
  <2> QED
    BY <2>2, <2>3, <2>4
<1> QED
  BY <1>1, <1>2, <1>3, <1>4, <1>5, <1>6, Zenon DEF Heeded

(* A timeout is a step of the channel or none. *)
LEMMA TimeoutOnChannel ==
    ASSUME TimerInv, HandleTimeout
    PROVE  [Channel!ChannelNext]_(Channel!channelVars)
<1>1. \/ /\ active' = NoStream /\ voiceAge' = TakeoverThreshold
         /\ state' = "Closed" \/ state' = state
      \/ active' = active /\ voiceAge' = voiceAge /\ state' \in {"Closed", state}
  <2>1. CASE TimeoutClockRange
    BY <2>1, Zenon DEF TimeoutClockRange, Close
  <2>2. CASE TimeoutInRange
    BY <2>2, Zenon DEF TimeoutInRange, Close
  <2> QED
    BY <2>1, <2>2, Zenon DEF HandleTimeout
<1>2. CASE active' = NoStream /\ voiceAge' = TakeoverThreshold
  <2>1. Holder' = NoStream
    BY <1>2 DEF Holder
  <2>2. Quiet' = TRUE
    BY <1>2, DurationAssumption DEF Quiet
  <2> QED
    BY <2>1, <2>2, ChannelSteps
<1>3. CASE active' = active /\ voiceAge' = voiceAge /\ state' \in {"Closed", state}
  <2>1. Holder' = Holder \/ Holder' = NoStream
    BY <1>3 DEF Holder
  <2>2. Quiet' = Quiet
    BY <1>3 DEF Quiet
  <2> QED
    BY <2>1, <2>2, ChannelSteps
<1> QED
  BY <1>1, <1>2, <1>3

(* The receive path of a session is a talk channel: at any time at most one
   stream holds it, and a stream that talks keeps it (emit_voice_start_if_new). *)
THEOREM SessionImplementsChannel == Spec => ReceivesOneTalker
<1>1. Init => Channel!ChannelInit
  BY DurationAssumption DEF Init, Channel!ChannelInit
<1>2. TimerInv /\ [Next]_vars => [Channel!ChannelNext]_(Channel!channelVars)
  <2> SUFFICES ASSUME TimerInv, [Next]_vars
               PROVE  [Channel!ChannelNext]_(Channel!channelVars)
    OBVIOUS
  <2>t. active \in Streams \cup {NoStream} /\ voiceAge \in 0..TakeoverThreshold
    BY DEF TimerInv, TypeOK
  <2>s. ASSUME state' = state, active' = active, voiceAge' = voiceAge
        PROVE  [Channel!ChannelNext]_(Channel!channelVars)
    <3>1. UNCHANGED <<Holder, Quiet>>
      BY <2>s DEF Holder, Quiet
    <3> QED
      BY <3>1, ChannelSteps
  <2>1. CASE CallerStep
    <3>1. /\ active' = active /\ voiceAge' = voiceAge
          /\ state' # "Connected" \/ state' = state
      <4>1. active' = active /\ voiceAge' = voiceAge
        BY <2>1, Zenon DEF CallerStep, AttachHostList, EnqueueConnect, EnqueueDisconnect,
           EnqueueSendHeader, EnqueueSendVoice, EnqueueSendEot, EnqueueSend
      <4>2. state' \in {"Authenticated", "Connecting", "Disconnecting", state}
        BY <2>1, Zenon DEF CallerStep, AttachHostList, EnqueueConnect, EnqueueDisconnect,
           EnqueueSendHeader, EnqueueSendVoice, EnqueueSendEot, EnqueueSend
      <4> QED
        BY <4>1, <4>2
    <3>2. Quiet' = Quiet /\ (Holder' = Holder \/ Holder' = NoStream)
      BY <3>1 DEF Holder, Quiet
    <3> QED
      BY <3>2, ChannelSteps
  <2>2. CASE HandleTimeout
    BY <2>2, TimeoutOnChannel
  <2>3. CASE PopTransmit \/ PopEvent \/ ClockRunsOut
    BY <2>3, <2>s, Zenon DEF PopTransmit, PopEvent, PopEventCore, ClockRunsOut
  <2>4. CASE \E pkt \in ServerPackets : HandleInput(pkt)
    BY <2>4, InputOnChannel, Zenon DEF HandleInput
  <2>5. CASE Tick
    <3>1. Holder' = Holder
      BY <2>5 DEF Tick, Elapse, Holder
    <3>2. Quiet' = Quiet \/ Quiet' = TRUE
      BY <2>5, <2>t, DurationAssumption DEF Tick, Elapse, Quiet
    <3> QED
      BY <3>1, <3>2, ChannelSteps
  <2>6. CASE UNCHANGED vars
    BY <2>6, <2>s DEF vars, coreVars
  <2> QED
    BY <2>1, <2>2, <2>3, <2>4, <2>5, <2>6, Zenon DEF Next, CoreStep, ClockStep
<1> QED
  BY <1>1, <1>2, TimerInvInit, TimerInvNext, PTL
     DEF Spec, ReceivesOneTalker, Channel!ChannelSpec

(* Whether the session has sent its UNLINK, or will not send one any more. *)
Leaving == state \in {"Disconnecting", "Closed"}

(* What a step does to the outbox, and that nothing leads back from leaving. *)
OutboxStep ==
    /\ Leaving => Leaving'
    /\ \/ outbox' = outbox
       \/ \E p \in Packets : ~Leaving /\ p # "UNLINK" /\ outbox' = Append(outbox, p)
       \/ ~Leaving /\ Leaving' /\ outbox' = Append(outbox, "UNLINK")
       \/ outbox # << >> /\ outbox' = Tail(outbox)
       \/ outbox' = << >>

(* Every step is one of these: what queues a packet is guarded by a state in which the
   session is not leaving. *)
LEMMA OutboxSteps == [Next]_vars => OutboxStep
<1> SUFFICES ASSUME [Next]_vars PROVE OutboxStep
  OBVIOUS
<1>1. CASE AttachHostList \/ EnqueueConnect \/ EnqueueDisconnect
  BY <1>1 DEF AttachHostList, EnqueueConnect, EnqueueDisconnect, OutboxStep, Leaving, Packets
<1>2. CASE EnqueueSendHeader \/ EnqueueSendVoice \/ EnqueueSendEot
  BY <1>2 DEF EnqueueSendHeader, EnqueueSendVoice, EnqueueSendEot, EnqueueSend, OutboxStep,
     Leaving, Packets
<1>3. CASE HandleTimeout
  <2>1. CASE TimeoutClockRange
    BY <2>1 DEF TimeoutClockRange, Close, OutboxStep, Leaving
  <2>2. CASE TimeoutInRange
    <3>1. Leaving => Leaving'
      BY <2>2 DEF TimeoutInRange, Close, Leaving
    <3>2. outbox' = outbox \/ (state = "Connected" /\ outbox' = Append(outbox, "POLL"))
      BY <2>2 DEF TimeoutInRange, Polls
    <3> QED
      BY <3>1, <3>2 DEF OutboxStep, Leaving, Packets
  <2> QED
    BY <1>3, <2>1, <2>2 DEF HandleTimeout
<1>4. ASSUME NEW pkt \in ServerPackets, HandleInput(pkt) PROVE OutboxStep
  <2>1. CASE Link1Ack(pkt)
    BY <2>1 DEF Link1Ack, Close, OutboxStep, Leaving, Packets
  <2>2. CASE LinkAccepted(pkt) \/ LinkRefused(pkt) \/ UnlinkAcked(pkt)
    BY <2>2, Zenon DEF LinkAccepted, LinkRefused, UnlinkAcked, Establish, Close, OutboxStep, Leaving
  <2>3. CASE PollEchoed(pkt) \/ VoiceHeader(pkt) \/ VoiceData(pkt) \/ VoiceEot(pkt)
    BY <2>3, Zenon DEF PollEchoed, VoiceHeader, VoiceData, VoiceEot, OutboxStep, Leaving
  <2> QED
    BY <1>4, <2>1, <2>2, <2>3, Zenon DEF HandleInput, Heeded
<1>5. CASE PopTransmit \/ PopEvent \/ Tick \/ ClockRunsOut \/ UNCHANGED vars
  BY <1>5 DEF PopTransmit, PopEvent, PopEventCore, Tick, Elapse, ClockRunsOut, vars, coreVars,
     OutboxStep, Leaving
<1> QED
  BY <1>1, <1>2, <1>3, <1>4, <1>5, Zenon DEF Next, CoreStep, CallerStep, ClockStep

(* UNLINK is the last packet of a session, whatever the network, the clock and the caller
   do and however slowly the outbox is drained (enqueue_disconnect and the state checks
   of enqueue_send_*, handle_input and handle_timeout). *)
THEOREM NothingAfterUnlink == Spec => []UnlinkIsLast
<1>1. Init => UnlinkIsLast
  BY DEF Init, UnlinkIsLast
<1>2. ASSUME TypeOK, UnlinkIsLast, OutboxStep PROVE UnlinkIsLast'
  <2>0. outbox \in Seq(Packets) /\ Len(outbox) \in Nat
    BY <1>2 DEF TypeOK
  <2>1. CASE outbox' = outbox
    BY <1>2, <2>1 DEF OutboxStep, UnlinkIsLast, Leaving
  <2>2. ASSUME NEW p \in Packets, outbox' = Append(outbox, p), ~Leaving,
               p = "UNLINK" => Leaving'
        PROVE  UnlinkIsLast'
    <3>1. /\ Len(outbox') = Len(outbox) + 1 /\ outbox'[Len(outbox) + 1] = p
          /\ \A i \in 1..Len(outbox) : outbox'[i] = outbox[i] /\ outbox[i] # "UNLINK"
      BY <1>2, <2>0, <2>2 DEF UnlinkIsLast, Leaving
    <3> QED
      BY <2>0, <2>2, <3>1 DEF UnlinkIsLast, Leaving
  <2>3. CASE outbox # << >> /\ outbox' = Tail(outbox)
    <3>1. Len(outbox') = Len(outbox) - 1 /\ \A i \in 1..Len(outbox') : outbox'[i] = outbox[i + 1]
      BY <2>0, <2>3
    <3> QED
      BY <1>2, <2>0, <3>1 DEF UnlinkIsLast, OutboxStep, Leaving
  <2>4. CASE outbox' = << >>
    BY <2>4 DEF UnlinkIsLast
  <2>5. "UNLINK" \in Packets
    BY DEF Packets
  <2> QED
    BY <1>2, <2>1, <2>2, <2>3, <2>4, <2>5 DEF OutboxStep
<1> QED
  BY <1>1, <1>2, OutboxSteps, SessionTimers, PTL DEF Spec
================================================================================
