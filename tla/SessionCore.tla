------------------------------ MODULE SessionCore ------------------------------
(***************************************************************************)
(* The sans-io client session of the D-STAR gateway (SessionCore in        *)
(* dstar-gateway-core/src/session/client/core.rs).  The caller owns the    *)
(* socket and the clock: it feeds datagrams and instants in and drains     *)
(* datagrams and events out, in any order it likes.                        *)
(*                                                                         *)
(* Time is relative.  A timer holds the ticks left until its deadline, so  *)
(* 0 is "expired" (now >= deadline) and stays expired until re-armed.      *)
(***************************************************************************)
EXTENDS Integers, Sequences

CONSTANTS
    Kind,                 \* "DPlus", "DExtra" or "Dcs"
    Streams,              \* stream identifiers the reflector may use
    NoStream,             \* active_rx_stream = None
    KeepaliveInterval, KeepaliveInactivity, VoiceInactivity,
    DisconnectTimeout, TakeoverThreshold,   \* durations, in ticks
    EventCap, OutboxCap   \* bounds of the model on the two queues

ASSUME KindAssumption == Kind \in {"DPlus", "DExtra", "Dcs"}
ASSUME StreamAssumption == NoStream \notin Streams
ASSUME DurationAssumption ==
    /\ KeepaliveInterval \in Nat \ {0}
    /\ KeepaliveInactivity \in Nat \ {0}
    /\ VoiceInactivity \in Nat \ {0}
    /\ DisconnectTimeout \in Nat \ {0}
    /\ TakeoverThreshold \in Nat \ {0}
ASSUME CapAssumption == EventCap \in Nat /\ OutboxCap \in Nat

VARIABLES
    state,            \* ClientStateKind
    timers,           \* TimerWheel: ticks left, or Off
    outbox,           \* Outbox: every packet is queued with not_before = now
    events,           \* VecDeque<RawEvent>
    cachedTxHeader,   \* cached_tx_header.is_some()
    active,           \* active_rx_stream
    voiceAge,         \* ticks since last_voice_activity_at, saturating
    clockOk,          \* validate_time(now) succeeds
    consumer          \* history: what the drained events have told the caller

coreVars == <<state, timers, outbox, events, cachedTxHeader, active, voiceAge,
              clockOk>>
vars == <<coreVars, consumer>>

Off == -1
TimerId == {"Keepalive", "KeepaliveInactivity", "DisconnectDeadline",
            "VoiceInactivity"}
States == {"Configured", "Authenticated", "Connecting", "Connected",
           "Disconnecting", "Closed"}

(* The events, without the data no property tells apart. *)
Connected == [type |-> "Connected"]
PollEcho == [type |-> "PollEcho"]
Disconnected(reason) == [type |-> "Disconnected", reason |-> reason]
VoiceStart(s) == [type |-> "VoiceStart", stream |-> s]
VoiceFrame(s) == [type |-> "VoiceFrame", stream |-> s]
VoiceEnd(s, reason) == [type |-> "VoiceEnd", stream |-> s, reason |-> reason]

DisconnectReasons == {"ClockRange", "Rejected", "UnlinkAcked",
                      "KeepaliveInactivity", "DisconnectTimeout"}
Events ==
    {Connected, PollEcho}
    \cup {Disconnected(r) : r \in DisconnectReasons}
    \cup {VoiceStart(s) : s \in Streams}
    \cup {VoiceFrame(s) : s \in Streams}
    \cup {VoiceEnd(s, r) : s \in Streams, r \in {"Eot", "Inactivity"}}

Packets == {"LINK", "LINK2", "UNLINK", "POLL", "HEADER", "VOICE", "EOT"}

(***************************************************************************)
(* What the reflector may send.  "own" says that the callsign, the client  *)
(* module and the reflector module of the packet are this session's.       *)
(***************************************************************************)
ControlPackets ==
    IF Kind = "DPlus"
    THEN [type : {"Link1Ack", "Link2Accept", "Link2Refuse", "UnlinkAck"}]
         \cup [type : {"Link2Echo"}, own : BOOLEAN]
    ELSE [type : {"ConnectAck"}, own : BOOLEAN]
         \cup [type : {"ConnectNak"}, own : BOOLEAN, slot : {"empty", "linked"}]
VoicePackets ==
    IF Kind = "Dcs"
    THEN [type : {"Voice"}, stream : Streams, isEnd : BOOLEAN]
    ELSE [type : {"VoiceHeader", "VoiceData", "VoiceEot"}, stream : Streams]
PollEchoPacket == [type |-> "PollEchoPacket"]
ServerPackets == ControlPackets \cup VoicePackets \cup {PollEchoPacket}

(***************************************************************************)
(* Timers.                                                                 *)
(***************************************************************************)
Expired(id) == timers[id] = 0
Armed(id) == timers[id] # Off
AllOff == [id \in TimerId |-> Off]
ArmInactivity(t) == [t EXCEPT !["KeepaliveInactivity"] = KeepaliveInactivity]
ArmVoice(t) == [t EXCEPT !["VoiceInactivity"] = VoiceInactivity]

(* A tick of the injected clock. *)
Elapse ==
    /\ timers' = [id \in TimerId |->
                    IF timers[id] > 0 THEN timers[id] - 1 ELSE timers[id]]
    /\ voiceAge' = IF voiceAge < TakeoverThreshold THEN voiceAge + 1 ELSE voiceAge
    /\ UNCHANGED <<state, outbox, events, cachedTxHeader, active, clockOk>>
Tick ==
    /\ \/ \E id \in TimerId : timers[id] > 0
       \/ voiceAge < TakeoverThreshold
    /\ Elapse

(* From some instant on, now + (the longest timer) is not representable. *)
ClockRunsOut ==
    /\ clockOk
    /\ clockOk' = FALSE
    /\ UNCHANGED <<state, timers, outbox, events, cachedTxHeader, active, voiceAge>>

(* The model's bounds.  A handler queues at most three events and one packet;
   the caller and the reflector leave room for what one timeout queues, so that
   they never keep handle_timeout from running. *)
EventRoom(n) == Len(events) + n <= EventCap
InputRoom == EventRoom(3 + 2) /\ Len(outbox) + 1 < OutboxCap
OutboxRoom == Len(outbox) + 1 < OutboxCap
TimeoutRoom == EventRoom(2) /\ Len(outbox) < OutboxCap

(***************************************************************************)
(* State changes shared by the handlers.                                   *)
(***************************************************************************)
(* Mutant: clear_timers is forgotten. *)
CloseWithTimers(reason, queued) ==
    /\ state' = "Closed"
    /\ events' = Append(queued, Disconnected(reason))
    /\ UNCHANGED timers
Close(reason, queued) ==
    /\ state' = "Closed"
    /\ timers' = AllOff
    /\ events' = Append(queued, Disconnected(reason))

Establish ==
    /\ state' = "Connected"
    /\ timers' = [ArmInactivity(timers) EXCEPT !["Keepalive"] = KeepaliveInterval]
    /\ events' = Append(events, Connected)

Init ==
    /\ state = "Configured"
    /\ timers = AllOff
    /\ outbox = << >>
    /\ events = << >>
    /\ cachedTxHeader = FALSE
    /\ active = NoStream
    /\ voiceAge = TakeoverThreshold
    /\ clockOk = TRUE
    /\ consumer = [phase |-> "waiting", talker |-> NoStream]

(***************************************************************************)
(* Operations of the caller.  A call whose guard is false returns an error *)
(* and changes nothing.                                                    *)
(***************************************************************************)
AttachHostList ==
    /\ Kind = "DPlus" /\ state = "Configured"
    /\ state' = "Authenticated"
    /\ UNCHANGED <<timers, outbox, events, cachedTxHeader, active, voiceAge, clockOk>>

EnqueueConnect ==
    /\ clockOk /\ OutboxRoom
    /\ state = IF Kind = "DPlus" THEN "Authenticated" ELSE "Configured"
    /\ state' = "Connecting"
    /\ outbox' = Append(outbox, "LINK")
    /\ timers' = ArmInactivity(timers)
    /\ UNCHANGED <<events, cachedTxHeader, active, voiceAge, clockOk>>

EnqueueDisconnect ==
    /\ clockOk /\ OutboxRoom
    /\ state \in {"Connecting", "Connected"}
    /\ state' = "Disconnecting"
    /\ outbox' = Append(outbox, "UNLINK")
    /\ timers' = [timers EXCEPT !["DisconnectDeadline"] = DisconnectTimeout]
    /\ UNCHANGED <<events, cachedTxHeader, active, voiceAge, clockOk>>

(* A DCS header travels inside a voice frame: the first one is silence. *)
EnqueueSendHeader ==
    /\ OutboxRoom
    /\ state = "Connected"
    /\ cachedTxHeader' = TRUE
    /\ outbox' = Append(outbox, IF Kind = "Dcs" THEN "VOICE" ELSE "HEADER")
    /\ UNCHANGED <<state, timers, events, active, voiceAge, clockOk>>

EnqueueSend(packet) ==
    /\ OutboxRoom
    /\ state = "Connected"
    /\ Kind = "Dcs" => cachedTxHeader
    /\ outbox' = Append(outbox, packet)
    /\ UNCHANGED <<state, timers, events, cachedTxHeader, active, voiceAge, clockOk>>
EnqueueSendVoice == EnqueueSend("VOICE")
EnqueueSendEot == EnqueueSend("EOT")

(***************************************************************************)
(* Datagrams from the reflector: handle_input and the three per-protocol   *)
(* dispatchers.  A datagram no handler heeds is dropped.                   *)
(***************************************************************************)
Link1Ack(pkt) ==
    /\ pkt.type = "Link1Ack"
    /\ \/ /\ state = "Connecting"
          /\ outbox' = Append(outbox, "LINK2")
          /\ timers' = ArmInactivity(timers)
          /\ UNCHANGED <<state, events>>
       \/ /\ state = "Disconnecting"
          /\ Close("UnlinkAcked", events)
          /\ UNCHANGED outbox
    /\ UNCHANGED <<cachedTxHeader, active, voiceAge, clockOk>>

LinkAccepted(pkt) ==
    /\ \/ pkt.type = "Link2Accept"
       \/ pkt.type \in {"Link2Echo", "ConnectAck"} /\ pkt.own
    /\ state = "Connecting"
    /\ Establish
    /\ UNCHANGED <<outbox, cachedTxHeader, active, voiceAge, clockOk>>

LinkRefused(pkt) ==
    /\ \/ pkt.type = "Link2Refuse"
       \/ pkt.type = "ConnectNak" /\ pkt.own
    /\ state = "Connecting"
    /\ Close("Rejected", events)
    /\ UNCHANGED <<outbox, cachedTxHeader, active, voiceAge, clockOk>>

UnlinkAcked(pkt) ==
    /\ \/ pkt.type = "UnlinkAck"
       \/ pkt.type = "ConnectNak" /\ pkt.own /\ pkt.slot = "empty"
    /\ state = "Disconnecting"
    /\ Close("UnlinkAcked", events)
    /\ UNCHANGED <<outbox, cachedTxHeader, active, voiceAge, clockOk>>

PollEchoed(pkt) ==
    /\ pkt.type = "PollEchoPacket"
    /\ state = "Connected"
    /\ timers' = ArmInactivity(timers)
    /\ events' = Append(events, PollEcho)
    /\ UNCHANGED <<state, outbox, cachedTxHeader, active, voiceAge, clockOk>>

(* emit_voice_start_if_new: whether a header of s opens a stream, and the
   events it queues when it does. *)
(* Mutant: the last_voice_activity_at check is dropped. *)
MayStartAnyTime(s) == active # s
MayStart(s) ==
    \/ active = NoStream
    \/ active # s /\ voiceAge >= TakeoverThreshold
(* Mutant: no VoiceEnd for the stream that is replaced. *)
StartEventsOnly(s) == <<VoiceStart(s)>>
StartEvents(s) ==
    (IF active = NoStream THEN << >> ELSE <<VoiceEnd(active, "Inactivity")>>)
    \o <<VoiceStart(s)>>

(* A header of the active stream, or of one that may not take over, shows that
   the peer is alive and nothing else. *)
Retransmit == ArmInactivity(timers)

VoiceHeader(pkt) ==
    /\ pkt.type = "VoiceHeader"
    /\ state = "Connected"
    /\ \/ /\ MayStart(pkt.stream)
          /\ events' = events \o StartEvents(pkt.stream)
          /\ active' = pkt.stream
          /\ timers' = ArmVoice(ArmInactivity(timers))
          /\ voiceAge' = 0
       \/ /\ ~MayStart(pkt.stream)
          /\ timers' = Retransmit
          /\ UNCHANGED <<events, active, voiceAge>>
    /\ UNCHANGED <<state, outbox, cachedTxHeader, clockOk>>

(* emit_voice_frame; a DCS frame also carries the header (start_if_new). *)
VoiceData(pkt) ==
    /\ \/ pkt.type = "VoiceData"
       \/ pkt.type = "Voice" /\ ~pkt.isEnd
    /\ state = "Connected"
    /\ LET starts == pkt.type = "Voice" /\ MayStart(pkt.stream) IN
       \/ /\ starts \/ active = pkt.stream
          /\ events' = Append(events \o (IF starts THEN StartEvents(pkt.stream)
                                                   ELSE << >>),
                              VoiceFrame(pkt.stream))
          /\ active' = pkt.stream
          /\ timers' = ArmVoice(ArmInactivity(timers))
          /\ voiceAge' = 0
       \/ /\ ~starts /\ active # pkt.stream
          /\ timers' = ArmInactivity(timers)
          /\ UNCHANGED <<events, active, voiceAge>>
    /\ UNCHANGED <<state, outbox, cachedTxHeader, clockOk>>

(* emit_voice_end(stream, Eot). *)
VoiceEot(pkt) ==
    /\ \/ pkt.type = "VoiceEot"
       \/ pkt.type = "Voice" /\ pkt.isEnd
    /\ state = "Connected"
    /\ \/ /\ active = pkt.stream
          /\ events' = Append(events, VoiceEnd(active, "Eot"))
          /\ active' = NoStream
          /\ voiceAge' = TakeoverThreshold
          /\ timers' = [ArmInactivity(timers) EXCEPT !["VoiceInactivity"] = Off]
       \/ /\ active # pkt.stream
          /\ timers' = ArmInactivity(timers)
          /\ UNCHANGED <<events, active, voiceAge>>
    /\ UNCHANGED <<state, outbox, cachedTxHeader, clockOk>>

Heeded(pkt) ==
    \/ Link1Ack(pkt) \/ LinkAccepted(pkt) \/ LinkRefused(pkt) \/ UnlinkAcked(pkt)
    \/ PollEchoed(pkt) \/ VoiceHeader(pkt) \/ VoiceData(pkt) \/ VoiceEot(pkt)
HandleInput(pkt) == clockOk /\ state # "Closed" /\ InputRoom /\ Heeded(pkt)

(***************************************************************************)
(* handle_timeout.  Polling, ending a silent stream and giving the link up *)
(* are decided by the same call, in this order.                            *)
(***************************************************************************)
(* Mutant: a poll in every state. *)
PollsAlways == Expired("Keepalive")
Polls == state = "Connected" /\ Expired("Keepalive")
Hushes == state = "Connected" /\ Expired("VoiceInactivity")
GivesUp ==
    state \in {"Connecting", "Connected"} /\ Expired("KeepaliveInactivity")
Unacknowledged == state = "Disconnecting" /\ Expired("DisconnectDeadline")

TimeoutClockRange ==
    /\ ~clockOk /\ state # "Closed"
    /\ Close("ClockRange", events)
    /\ outbox' = << >>
    /\ active' = NoStream
    /\ voiceAge' = TakeoverThreshold
    /\ UNCHANGED <<cachedTxHeader, clockOk>>

TimeoutInRange ==
    /\ clockOk
    /\ LET ends == Hushes /\ active # NoStream
           queued == IF ends THEN Append(events, VoiceEnd(active, "Inactivity"))
                             ELSE events
       IN  /\ outbox' = IF Polls THEN Append(outbox, "POLL") ELSE outbox
           /\ active' = IF ends THEN NoStream ELSE active
           /\ voiceAge' = IF ends THEN TakeoverThreshold ELSE voiceAge
           /\ \/ GivesUp /\ Close("KeepaliveInactivity", queued)
              \/ Unacknowledged /\ Close("DisconnectTimeout", queued)
              \/ /\ ~GivesUp /\ ~Unacknowledged
                 /\ Polls \/ Hushes
                 /\ timers' = [timers EXCEPT
                        !["Keepalive"] = IF Polls THEN KeepaliveInterval ELSE @,
                        !["VoiceInactivity"] = IF Hushes THEN Off ELSE @]
                 /\ events' = queued
                 /\ UNCHANGED state
    /\ UNCHANGED <<cachedTxHeader, clockOk>>

HandleTimeout == TimeoutRoom /\ (TimeoutClockRange \/ TimeoutInRange)

(***************************************************************************)
(* Draining.                                                               *)
(***************************************************************************)
PopTransmit ==
    /\ outbox # << >>
    /\ outbox' = Tail(outbox)
    /\ UNCHANGED <<state, timers, events, cachedTxHeader, active, voiceAge, clockOk>>

PopEventCore ==
    /\ events # << >>
    /\ events' = Tail(events)
    /\ UNCHANGED <<state, timers, outbox, cachedTxHeader, active, voiceAge, clockOk>>

(* What a consumer may be told next, given what it has been told: the link
   comes up once and goes down once, and frames and ends belong to the stream
   that was last started. *)
Expects(c, e) ==
    CASE e.type = "Connected" -> c.phase = "waiting"
      [] e.type = "Disconnected" -> c.phase \in {"waiting", "linked"}
      [] e.type = "PollEcho" -> c.phase = "linked"
      [] e.type = "VoiceStart" -> c.phase = "linked" /\ c.talker = NoStream
      [] OTHER -> c.phase = "linked" /\ c.talker = e.stream
Hear(c, e) ==
    [phase |-> CASE ~Expects(c, e) -> "broken"
                 [] e.type = "Connected" -> "linked"
                 [] e.type = "Disconnected" -> "ended"
                 [] OTHER -> c.phase,
     talker |-> CASE e.type = "VoiceStart" -> e.stream
                  [] e.type = "VoiceEnd" -> NoStream
                  [] OTHER -> c.talker]

PopEvent == PopEventCore /\ consumer' = Hear(consumer, Head(events))

CallerStep ==
    \/ AttachHostList \/ EnqueueConnect \/ EnqueueDisconnect
    \/ EnqueueSendHeader \/ EnqueueSendVoice \/ EnqueueSendEot
CoreStep ==
    \/ CallerStep \/ HandleTimeout \/ PopTransmit
    \/ \E pkt \in ServerPackets : HandleInput(pkt)
ClockStep == Tick \/ ClockRunsOut

Next ==
    \/ CoreStep /\ UNCHANGED consumer
    \/ ClockStep /\ UNCHANGED consumer
    \/ PopEvent

Spec == Init /\ [][Next]_vars

(* The shell calls handle_timeout whenever a deadline passes and drains both
   queues before it waits again (session_loop.rs run_inner). *)
FairSpec ==
    /\ Spec
    /\ WF_vars(Tick /\ UNCHANGED consumer)
    /\ WF_vars(HandleTimeout /\ UNCHANGED consumer)
    /\ WF_vars(PopTransmit /\ UNCHANGED consumer)
    /\ WF_vars(PopEvent)

(***************************************************************************)
(* Properties.                                                             *)
(***************************************************************************)

(* Every variable has its type; an armed timer is never in the past beyond
   "expired" (TimerWheel). *)
TypeOK ==
    /\ state \in States
    /\ timers \in [TimerId -> Nat \cup {Off}]
    /\ outbox \in Seq(Packets)
    /\ events \in Seq(Events)
    /\ cachedTxHeader \in BOOLEAN
    /\ active \in Streams \cup {NoStream}
    /\ voiceAge \in 0..TakeoverThreshold
    /\ clockOk \in BOOLEAN
    /\ consumer \in [phase : {"waiting", "linked", "ended", "broken"},
                     talker : Streams \cup {NoStream}]

(* The timers that can end a state are armed for as long as the session is in
   it, and only then: a session never waits for a link, for a silent peer, for a
   silent talker or for an UNLINK acknowledgement without a deadline, and a
   closed session wakes nobody (finalize_connected, clear_timers, arm_keepalive_inactivity). *)
TimersMatchState ==
    /\ state \in {"Configured", "Authenticated", "Closed"} => timers = AllOff
    /\ state = "Connecting" =>
        /\ Armed("KeepaliveInactivity")
        /\ ~Armed("Keepalive") /\ ~Armed("VoiceInactivity")
    /\ state = "Connected" =>
        /\ Armed("KeepaliveInactivity") /\ Armed("Keepalive")
        /\ Armed("VoiceInactivity") <=> active # NoStream
    /\ Armed("DisconnectDeadline") <=> state = "Disconnecting"

(* UNLINK is the last packet a session queues: no poll, voice or LINK2 follows
   it to the reflector (enqueue_disconnect, handle_timeout, handle_input). *)
UnlinkIsLast ==
    \A i \in 1..Len(outbox) :
        outbox[i] = "UNLINK" => i = Len(outbox) /\ state \in {"Disconnecting", "Closed"}

(* The consumer after it has drained the queue. *)
Heard ==
    LET h[i \in 0..Len(events)] ==
            IF i = 0 THEN consumer ELSE Hear(h[i - 1], events[i])
    IN  h[Len(events)]

(* The event stream a consumer drains is well formed whatever the network did:
   Connected at most once, one Disconnected and nothing after it, every
   VoiceFrame and VoiceEnd inside the stream last started.  And it is complete:
   a consumer that drains it knows the state of the link and the talker of a
   linked session (emit_voice_start_if_new, emit_voice_end, finalize_disconnect). *)
FeedTellsTheTruth ==
    /\ Heard.phase # "broken"
    /\ state \in {"Configured", "Authenticated", "Connecting"} =>
            Heard = [phase |-> "waiting", talker |-> NoStream]
    /\ state = "Connected" => Heard = [phase |-> "linked", talker |-> active]
    /\ state = "Closed" <=> Heard.phase = "ended"

(* The receive path is a talk channel held by active_rx_stream while the session
   is Connected: another stream takes over only after the active one has been
   silent for STREAM_TAKEOVER_THRESHOLD. *)
Channel == INSTANCE TalkChannel WITH
    holder <- IF state = "Connected" THEN active ELSE NoStream,
    quiet <- voiceAge >= TakeoverThreshold
ReceivesOneTalker == Channel!ChannelSpec

(* A disconnect completes, acknowledged or not: the session does not stay in
   Disconnecting, which only Closed follows. *)
DisconnectResolves == []<>(state # "Disconnecting")

(* A link attempt is resolved one way or the other.  Every DPlus LINK1
   acknowledgement restarts the wait, so the reflector must at some point stop
   repeating it. *)
LinkResolves ==
    <>[][~\E pkt \in ServerPackets : Link1Ack(pkt)]_vars
        => []<>(state # "Connecting")

(* A stream whose frames stop is ended even when its EOT was lost and its header
   keeps being retransmitted (TIMER_VOICE_INACTIVITY). *)
SilentStreamEnds ==
    \A s \in Streams :
        <>[][~\E pkt \in ServerPackets : VoiceData(pkt) /\ pkt.stream = s]_vars
            => []<>(state # "Connected" \/ active # s)
================================================================================
