------------------------------ MODULE SessionLoop ------------------------------
(***************************************************************************)
(* The tokio shell around the client session: the spawned event loop       *)
(* (SessionLoop::run_inner, tokio_shell/session_loop.rs) and the handle    *)
(* its owner drives (AsyncSession, tokio_shell/handle.rs).  They share a   *)
(* command channel, a bounded event channel and, at the end, a join.       *)
(*                                                                         *)
(* The handle's methods take &mut self, so its owner is in at most one     *)
(* call; a call is dropped ("cancelled") at any await.                     *)
(*                                                                         *)
(* Instants stay representable here (clockOk): SessionCore covers the rest.*)
(***************************************************************************)
EXTENDS SessionCore

CONSTANTS
    Arrivals,        \* the datagrams the reflector sends in this model
    Sends,           \* the voice operations the owner uses
    SocketCap,       \* datagrams the kernel holds for the loop
    ChannelCap,      \* EVENT_CHANNEL_CAPACITY
    CommandCap,      \* COMMAND_CHANNEL_CAPACITY
    Prompt,          \* both tasks are scheduled, and sends finish, within a tick
    ShellDeadline    \* DISCONNECT_COMPLETION_TIMEOUT, in ticks

ASSUME ShellAssumption ==
    /\ Arrivals \subseteq ServerPackets
    /\ Sends \subseteq {"SendHeader", "SendVoice", "SendEot"}
    /\ SocketCap \in Nat /\ ChannelCap \in Nat \ {0} /\ CommandCap \in Nat \ {0}
    /\ ShellDeadline \in Nat \ {0} /\ Prompt \in BOOLEAN

VARIABLES
    pc,           \* where the loop is
    delivering,   \* the event deliver_event holds: a sequence of at most one
    running,      \* the command whose packets are being flushed: at most one
    resume,       \* where the loop goes after that flush
    commands,     \* command channel: [op, awaited]
    channel,      \* event channel
    socket,       \* datagrams received by the kernel
    unlinkSent,   \* history: the socket took the UNLINK
    ackInTime,    \* history: its acknowledgement came before the deadline
    call,         \* what the owner of the handle is doing
    reply,        \* the oneshot the owner is waiting on
    requested,    \* disconnect_requested
    reason,       \* disconnect_reason
    budget,       \* iterations left of the drain in disconnect
    left,         \* ticks left of the shell deadline
    joined,       \* completion.is_none()
    result        \* what the last call to disconnect returned

loopVars == <<pc, delivering, running, resume>>
netVars == <<socket, unlinkSent, ackInTime>>
callVars == <<call, requested, reason, budget, left, joined, result>>
shellVars == <<loopVars, netVars, callVars, commands, channel, reply>>
allVars == <<vars, shellVars>>

Ops == Sends \cup {"Disconnect"}
Gone == pc \in {"exited", "failed"}
Dropped == call = "dropped"
None == "none"

ShellInit ==
    /\ pc = "top" /\ delivering = << >> /\ running = << >> /\ resume = "top"
    /\ commands = << >> /\ channel = << >>
    /\ socket = << >> /\ unlinkSent = FALSE /\ ackInTime = FALSE
    /\ call = "idle" /\ reply = None /\ requested = FALSE /\ reason = None
    /\ budget = 0 /\ left = 0 /\ joined = FALSE /\ result = None

(* AsyncSession::spawn takes over a session that has just linked. *)
LoopInit ==
    /\ state = "Connected"
    /\ timers = [ArmInactivity(AllOff) EXCEPT !["Keepalive"] = KeepaliveInterval]
    /\ outbox = << >> /\ events = << >>
    /\ cachedTxHeader = FALSE
    /\ active = NoStream /\ voiceAge = TakeoverThreshold
    /\ clockOk = TRUE
    /\ consumer = [phase |-> "linked", talker |-> NoStream]
    /\ ShellInit

(***************************************************************************)
(* The loop.                                                               *)
(***************************************************************************)
Due == \E id \in TimerId : Expired(id)
NothingToDo ==
    /\ ~Polls /\ ~Hushes /\ ~GivesUp /\ ~Unacknowledged
    /\ UNCHANGED coreVars
RunTimeouts == HandleTimeout \/ NothingToDo

LoopTop ==
    /\ pc = "top"
    /\ RunTimeouts
    /\ pc' = "flush"
    /\ UNCHANGED <<delivering, running, resume, commands, channel, reply,
                   consumer, netVars, callVars>>

(* flush_transmit, one datagram at a time; send_to may fail or stall. *)
SendOne ==
    /\ PopTransmit
    /\ unlinkSent' = (unlinkSent \/ Head(outbox) = "UNLINK")
    /\ UNCHANGED <<socket, ackInTime>>

LoopFlush ==
    /\ pc = "flush"
    /\ \/ SendOne /\ UNCHANGED pc
       \/ outbox = << >> /\ pc' = "drain" /\ UNCHANGED <<coreVars, netVars>>
       \/ outbox # << >> /\ pc' = "failed" /\ UNCHANGED <<coreVars, netVars>>
    /\ UNCHANGED <<delivering, running, resume, commands, channel, reply,
                   consumer, callVars>>

(* Events are drained before the state is looked at. *)
Drained == events = << >>
LoopDrain ==
    /\ pc = "drain"
    /\ \/ /\ ~Drained
          /\ PopEventCore
          /\ delivering' = <<Head(events)>>
          /\ pc' = "deliver"
       \/ /\ Drained
          /\ pc' = IF state = "Closed" THEN "exited" ELSE "select"
          /\ UNCHANGED <<coreVars, delivering>>
    /\ UNCHANGED <<running, resume, commands, channel, reply, consumer,
                   netVars, callVars>>

(* apply_command: the core accepts or rejects.  An accepted command is flushed
   to the socket before it is answered. *)
Accepts(op) ==
    \/ op = "SendHeader" /\ EnqueueSendHeader
    \/ op = "SendVoice" /\ EnqueueSendVoice
    \/ op = "SendEot" /\ EnqueueSendEot
    \/ op = "Disconnect" /\ EnqueueDisconnect
Rejects(op) ==
    IF op = "Disconnect"
    THEN state \notin {"Connecting", "Connected"}
    ELSE \/ state # "Connected"
         \/ Kind = "Dcs" /\ op # "SendHeader" /\ ~cachedTxHeader
Answer(command, answer) == reply' = IF command.awaited THEN answer ELSE reply

ApplyCommand(next) ==
    /\ commands # << >>
    /\ LET c == Head(commands) IN
       \/ /\ Accepts(c.op)
          /\ running' = <<c>> /\ resume' = next /\ pc' = "flushCommand"
          /\ UNCHANGED reply
       \/ /\ Rejects(c.op)
          /\ Answer(c, "Core")
          /\ pc' = next
          /\ UNCHANGED <<coreVars, running, resume>>
    /\ commands' = Tail(commands)
    /\ UNCHANGED <<delivering, channel, consumer, netVars, callVars>>

LoopFlushCommand ==
    /\ pc = "flushCommand"
    /\ \/ SendOne /\ UNCHANGED <<pc, running, reply>>
       \/ /\ outbox = << >>
          /\ Answer(Head(running), "Ok")
          /\ pc' = resume /\ running' = << >>
          /\ UNCHANGED <<coreVars, netVars>>
       \/ /\ outbox # << >>
          /\ Answer(Head(running), "SessionFailed")
          /\ pc' = "failed" /\ running' = << >>
          /\ UNCHANGED <<coreVars, netVars>>
    /\ UNCHANGED <<delivering, resume, commands, channel, consumer, callVars>>

(* deliver_event: wait for room in the event channel, serving commands. *)
ServesWhileFull == ApplyCommand("deliver")
(* Mutant: try_send for poll echoes, lost when the channel is full. *)
DeliverOrDrop ==
    /\ Len(channel) < ChannelCap \/ Head(delivering).type = "PollEcho"
    /\ channel' = IF Len(channel) < ChannelCap THEN channel \o delivering ELSE channel
Deliver == Len(channel) < ChannelCap /\ channel' = channel \o delivering
LoopDeliver ==
    /\ pc = "deliver"
    /\ \/ /\ Dropped
          /\ pc' = "exited"
          /\ UNCHANGED <<coreVars, delivering, running, resume, commands, channel,
                         reply, consumer, netVars, callVars>>
       \/ /\ ~Dropped
          /\ Deliver
          /\ delivering' = << >>
          /\ pc' = "drain"
          /\ UNCHANGED <<coreVars, running, resume, commands, reply, consumer,
                         netVars, callVars>>
       \/ ~Dropped /\ Len(channel) = ChannelCap /\ ServesWhileFull

(* The biased select: a deadline that has passed, else a command, else a
   datagram. *)
LoopTimer ==
    /\ pc = "select" /\ Due
    /\ RunTimeouts
    /\ pc' = "top"
    /\ UNCHANGED <<delivering, running, resume, commands, channel, reply, consumer,
                   netVars, callVars>>

LoopCommand ==
    /\ pc = "select" /\ ~Due
    /\ \/ ApplyCommand("top")
       \/ /\ commands = << >> /\ Dropped
          /\ pc' = "exited"
          /\ UNCHANGED <<coreVars, delivering, running, resume, commands, channel,
                         reply, consumer, netVars, callVars>>

LoopInput ==
    /\ pc = "select" /\ ~Due /\ commands = << >> /\ ~Dropped
    /\ socket # << >>
    /\ \/ HandleInput(Head(socket)) /\ pc' = "top"
       \/ /\ ~ENABLED HandleInput(Head(socket))
          /\ pc' = "top" /\ UNCHANGED coreVars
    /\ socket' = Tail(socket)
    /\ UNCHANGED <<delivering, running, resume, commands, channel, reply, consumer,
                   unlinkSent, ackInTime, callVars>>

LoopReceiveFails ==
    /\ pc = "select" /\ ~Due /\ commands = << >> /\ ~Dropped
    /\ pc' = "failed"
    /\ UNCHANGED <<coreVars, delivering, running, resume, commands, channel,
                   reply, consumer, netVars, callVars>>

LoopStep ==
    \/ LoopTop \/ LoopFlush \/ LoopDrain \/ LoopFlushCommand \/ LoopDeliver
    \/ LoopTimer \/ LoopCommand \/ LoopInput

(***************************************************************************)
(* The handle.                                                             *)
(***************************************************************************)
Receive ==
    /\ channel # << >>
    /\ channel' = Tail(channel)
    /\ consumer' = Hear(consumer, Head(channel))
    /\ reason' = IF Head(channel).type = "Disconnected" THEN Head(channel).reason
                                                        ELSE reason
Ends == channel # << >> /\ Head(channel).type = "Disconnected"
Forgotten(c) == [c EXCEPT !.awaited = FALSE]
Send(op) ==
    /\ ~Gone /\ Len(commands) < CommandCap
    /\ commands' = Append(commands, [op |-> op, awaited |-> TRUE])
    /\ reply' = None

NextEvent ==
    /\ call = "idle"
    /\ Receive
    /\ result' = None
    /\ UNCHANGED <<coreVars, loopVars, netVars, commands, reply, call, requested,
                   budget, left, joined>>

(* send_header, send_voice and send_eot. *)
SendCall ==
    /\ call = "idle"
    /\ \E op \in Sends : Send(op)
    /\ call' = "sending" /\ result' = None
    /\ UNCHANGED <<coreVars, consumer, loopVars, netVars, channel, requested, reason,
                   budget, left, joined>>
SendReturns ==
    /\ call = "sending"
    /\ reply # None \/ Gone
    /\ call' = "idle" /\ reply' = None
    /\ UNCHANGED <<coreVars, consumer, loopVars, netVars, commands, channel, requested,
                   reason, budget, left, joined, result>>

(* disconnect_result.  Mutant: a disconnect that times out is a success. *)
VerdictLenient(r) == IF r \in {"UnlinkAcked", "DisconnectTimeout"} THEN "Ok"
                     ELSE "DisconnectedBeforeUnlink"
Verdict(r) == CASE r = "UnlinkAcked" -> "Ok"
                [] r = "DisconnectTimeout" -> "DisconnectUnacknowledged"
                [] OTHER -> "DisconnectedBeforeUnlink"
Joining(verdict) == call' = "joining" /\ result' = verdict
Return(r) == call' = "idle" /\ result' = r /\ left' = 0 /\ budget' = 0

DisconnectCall ==
    /\ call = "idle"
    /\ left' = ShellDeadline
    /\ \/ reason # None /\ Joining(Verdict(reason)) /\ UNCHANGED budget
       \/ /\ reason = None
          /\ call' = "draining" /\ budget' = ChannelCap /\ result' = None
    /\ UNCHANGED <<coreVars, consumer, loopVars, netVars, commands, channel, reply,
                   requested, reason, joined>>

(* The drain before the command takes at most one queue's worth of events. *)
DrainBudget == budget - 1
DisconnectDrain ==
    /\ call = "draining"
    /\ \/ /\ budget > 0 /\ Receive
          /\ \/ Ends /\ Joining(Verdict(reason')) /\ UNCHANGED budget
             \/ ~Ends /\ budget' = DrainBudget /\ UNCHANGED <<call, result>>
          /\ UNCHANGED <<commands, reply, requested>>
       \/ /\ budget = 0 \/ channel = << >>
          /\ call' = IF requested THEN "waiting" ELSE "dispatch"
          /\ reply' = None /\ budget' = 0
          /\ UNCHANGED <<consumer, commands, channel, requested, reason, result>>
    /\ UNCHANGED <<coreVars, loopVars, netVars, left, joined>>

Remember == TRUE
DisconnectDispatch ==
    /\ call = "dispatch"
    /\ \/ /\ Send("Disconnect")
          /\ call' = "waiting" /\ requested' = Remember
          /\ UNCHANGED result
       \/ Gone /\ Joining("SessionClosed") /\ UNCHANGED <<commands, reply, requested>>
    /\ UNCHANGED <<coreVars, consumer, loopVars, netVars, channel, reason, budget, left,
                   joined>>

(* The biased wait for the terminal event or the command's answer. *)
DisconnectWait ==
    /\ call = "waiting"
    /\ \/ /\ Receive
          /\ \/ Ends /\ Joining(Verdict(reason'))
             \/ ~Ends /\ UNCHANGED <<call, result>>
          /\ UNCHANGED <<reply, requested>>
       \/ /\ channel = << >>
          /\ \/ Gone /\ Joining("SessionClosed") /\ UNCHANGED <<reply, requested>>
             \/ ~Gone /\ reply = "Ok" /\ reply' = None
                /\ UNCHANGED <<call, result, requested>>
          /\ UNCHANGED <<consumer, channel, reason>>
    /\ UNCHANGED <<coreVars, loopVars, netVars, commands, budget, left, joined>>

DisconnectRejected ==
    /\ call = "waiting" /\ channel = << >> /\ ~Gone
    /\ reply = "Core"
    /\ requested' = FALSE /\ reply' = None
    /\ Return("Core")
    /\ UNCHANGED <<coreVars, consumer, loopVars, netVars, commands, channel, reason,
                   joined>>

(* join_before, which also drains the channel. *)
DisconnectJoin ==
    /\ call = "joining"
    /\ \/ Receive /\ UNCHANGED <<call, budget, left, joined, result>>
       \/ /\ Gone
          /\ Return(IF pc = "failed" /\ ~joined THEN "TaskFailed" ELSE result)
          /\ joined' = TRUE
          /\ UNCHANGED <<consumer, channel, reason>>
    /\ UNCHANGED <<coreVars, loopVars, netVars, commands, reply, requested>>

(* timeout_at polls what it wraps first. *)
Ready ==
    \/ call = "draining"
    \/ call \in {"waiting", "joining"} /\ (channel # << >> \/ Gone)
    \/ call \in {"sending", "waiting"} /\ (reply # None \/ Gone)
    \/ call = "dispatch" /\ (Len(commands) < CommandCap \/ Gone)
DisconnectStalls ==
    /\ call \in {"dispatch", "waiting", "joining"}
    /\ left = 0 /\ ~Ready
    /\ Return("DisconnectStalled") /\ reply' = None
    /\ commands' = [i \in DOMAIN commands |-> Forgotten(commands[i])]
    /\ running' = [i \in DOMAIN running |-> Forgotten(running[i])]
    /\ UNCHANGED <<coreVars, consumer, pc, delivering, resume, netVars, channel,
                   requested, reason, joined>>

CallStep ==
    \/ SendReturns \/ DisconnectDrain \/ DisconnectDispatch \/ DisconnectWait
    \/ DisconnectRejected \/ DisconnectJoin \/ DisconnectStalls

(* Any await may be dropped; what was sent stays sent. *)
CancelCall ==
    /\ call \in {"sending", "dispatch", "waiting", "joining"}
    /\ Return(None) /\ reply' = None
    /\ commands' = [i \in DOMAIN commands |-> Forgotten(commands[i])]
    /\ running' = [i \in DOMAIN running |-> Forgotten(running[i])]
    /\ UNCHANGED <<coreVars, consumer, pc, delivering, resume, netVars, channel,
                   requested, reason, joined>>

DropHandle ==
    /\ call = "idle"
    /\ call' = "dropped"
    /\ UNCHANGED <<coreVars, consumer, loopVars, netVars, commands, channel, reply,
                   requested, reason, budget, left, joined, result>>

(***************************************************************************)
(* The network and the clock.                                              *)
(***************************************************************************)
IsUnlinkAck(pkt) ==
    \/ pkt.type \in {"UnlinkAck", "Link1Ack"}
    \/ pkt.type = "ConnectNak" /\ pkt.own /\ pkt.slot = "empty"

(* The reflector acknowledges an UNLINK it was sent. *)
Arrive ==
    /\ ~Gone /\ Len(socket) < SocketCap
    /\ \E pkt \in Arrivals :
        /\ IsUnlinkAck(pkt) => unlinkSent
        /\ socket' = Append(socket, pkt)
        /\ ackInTime' = (ackInTime \/ (IsUnlinkAck(pkt) /\ timers["DisconnectDeadline"] > 0))
    /\ UNCHANGED <<coreVars, consumer, loopVars, callVars, unlinkSent, commands, channel,
                   reply>>

(* Prompt tasks are fast: a tick passes only while the loop is blocked, or turns
   without effect because a deadline has passed that handle_timeout leaves alone
   in this state, and while the caller has nothing to do in its call. *)
Blocked ==
    \/ pc = "select" /\ ~Due /\ commands = << >> /\ socket = << >> /\ ~Dropped
    \/ pc = "deliver" /\ Len(channel) = ChannelCap /\ commands = << >> /\ ~Dropped
Spinning ==
    /\ pc \in {"top", "flush", "drain", "select"}
    /\ Due /\ ~Polls /\ ~Hushes /\ ~GivesUp /\ ~Unacknowledged
    /\ outbox = << >> /\ events = << >>
LoopTick ==
    /\ ~Gone
    /\ Prompt => ~Ready /\ (Blocked \/ Spinning)
    /\ Elapse
    /\ left' = IF left > 0 THEN left - 1 ELSE 0
    /\ UNCHANGED <<consumer, pc, delivering, running, resume, netVars, commands, channel,
                   reply, call, requested, reason, budget, joined, result>>

Finished == Gone /\ Dropped /\ UNCHANGED allVars

LoopNext ==
    \/ LoopStep \/ LoopReceiveFails
    \/ NextEvent \/ SendCall \/ DisconnectCall \/ CallStep \/ CancelCall \/ DropHandle
    \/ Arrive \/ LoopTick \/ Finished

LoopSpec == LoopInit /\ [][LoopNext]_allVars

(* Tokio polls a task that is ready and the clock advances; no one has to
   cancel, to drop the handle or to call it. *)
LoopFairSpec ==
    LoopSpec /\ WF_allVars(LoopStep) /\ WF_allVars(CallStep) /\ WF_allVars(LoopTick)

(***************************************************************************)
(* Properties.                                                             *)
(***************************************************************************)

(* The loop is a legal driver of the core: seen from the consumer, the event
   channel, the event deliver_event holds and the core's queue are one queue, and
   every step of the shell is a step of the core or none.  So no event is lost,
   duplicated or reordered between the core and next_event, backpressure or not. *)
Undelivered == channel \o delivering \o events
Seen == INSTANCE SessionCore WITH
    events <- Undelivered, EventCap <- EventCap + ChannelCap + 1
DrivesTheCore == [][Seen!Next]_(Seen!vars)

(* The consumer's story stays true through the shell: whatever waits in the channel or
   in deliver_event, it completes what next_event has returned to a well-formed feed
   that ends in the state of the link (FeedTellsTheTruth of the core, which it is when
   nothing is on the way). *)
ConsumerIsToldTheTruth == Seen!FeedTellsTheTruth

(* A loop that exits cleanly under a live handle has told it so: the consumer
   that drains the channel gets the Disconnected event before None. *)
ExitIsAnnounced ==
    pc = "exited" /\ ~Dropped =>
        delivering \o events = << >> /\ Seen!Heard.phase = "ended"

(* disconnect reports success only for an UNLINK that left the socket and was
   acknowledged before the protocol's deadline, whatever was cancelled and
   resumed on the way. *)
OkMeansAcknowledged == call = "idle" /\ result = "Ok" => unlinkSent /\ ackInTime

(* disconnect_requested survives cancellation: an UNLINK in progress is never
   followed by a second disconnect command. *)
OneDisconnect ==
    LET queued == {i \in DOMAIN commands : commands[i].op = "Disconnect"}
    IN  /\ \A i, j \in queued : i = j
        /\ state = "Disconnecting" => queued = {}

(* The five-second shell deadline of disconnect has the margin its comment
   claims: with both tasks scheduled, the protocol's own deadline always ends the
   session first, even from a full event queue. *)
NeverStalls == result # "DisconnectStalled"

(* A sender gets its answer although it does not drain the events that have
   filled the channel: the loop serves commands while it waits for room. *)
CommandsAreAnswered == []<>(call # "sending")

(* disconnect returns, even while the reflector's events keep coming. *)
DisconnectReturns == []<>(call \notin {"draining", "dispatch", "waiting", "joining"})

(* The documented meaning of DisconnectUnacknowledged (handle.rs, "if the
   reflector does not acknowledge UNLINK before the protocol deadline"): an
   acknowledgement that came before the deadline is heeded. *)
AckInTimeIsHeeded ==
    call = "idle" /\ result = "DisconnectUnacknowledged" => ~ackInTime

(* The handle is told everything: next_event returns a well-formed feed that ends in the
   state of the link, and a loop that exits has announced it. *)
FeedIsComplete ==
    ConsumerIsToldTheTruth /\ ExitIsAnnounced
================================================================================
