------------------------------- MODULE Sextant -------------------------------
(***************************************************************************)
(* The D-STAR client with a GUI (sextant: session.rs, session/control.rs,  *)
(* audio.rs, app.rs): the GUI thread, the audio worker, which captures     *)
(* while the operator holds PTT, and the session task, which owns the      *)
(* AsyncSession (SessionLoop models it).  Worker and GUI share one bounded *)
(* command queue; stop and disconnect requests have registers of their own,*)
(* a generation each, of which only equality with the one last seen        *)
(* matters.  Events to the GUI are coalesced, so that its status lags.     *)
(*                                                                         *)
(* AsyncSession's calls return: they succeed on a live link and fail on a  *)
(* dead one.  Received audio is not modelled.                              *)
(***************************************************************************)
EXTENDS Naturals, Sequences, FiniteSets

CONSTANTS
    CommandSlots,                          \* capacity of the session's command queue
    MaxPresses, MaxUnlinks, MaxConnects,   \* bounds: what the operator does
    MaxSilences, MaxDrops                  \* bounds: silence tests, lost links

ASSUME SextantConstants ==
    /\ CommandSlots \in Nat \ {0}
    /\ {MaxPresses, MaxUnlinks, MaxConnects, MaxSilences, MaxDrops} \subseteq Nat

VARIABLES
    shown, news,       \* the status the GUI shows, and the one it has yet to read
    held,              \* the operator holds PTT
    target,            \* pending_target: a Connect was submitted
    did,               \* how often the operator and the network have done what
    unlinks, quit,     \* the terminal register: its generation, shutdown
    stopRequest,       \* the stop generation is not the one the worker saw
    starts,            \* queued StartTx of the GUI: whether no stop came since
    audio,             \* where the audio thread is
    capturing,         \* tx_active
    pendingEnd,        \* an EndTx that found the queue full
    commands,          \* the session's command queue
    task,              \* where the session task is
    seenUnlinks,       \* terminal_generation
    link,              \* the session: none, up, or down and not yet noticed
    announced,         \* a link that is down has queued its Disconnected event
    stream,            \* tx_stream: none, ptt or silence
    lastCfg,            \* last_cfg: the generation its Connect was issued in, or NoConfig
    trying,            \* the same of the connection being made
    attempt,           \* reconnect_at: the attempt that is scheduled, or 0
    afterwards,        \* what follows the retirement in progress
    identity,          \* the audio worker may transmit
    wire, clash        \* history: the stream the reflector has open; two at a time

guiVars == <<shown, held, target, did, unlinks, quit>>
workerVars == <<starts, audio, capturing, pendingEnd>>
taskVars == <<task, seenUnlinks, lastCfg, trying, attempt, afterwards>>
linkVars == <<link, announced, stream, wire, clash>>
sextantVars == <<guiVars, workerVars, taskVars, linkVars, news, stopRequest, commands, identity>>

NoConfig == MaxUnlinks + 1
Read == "read"        \* news, once the GUI has it
Deeds == {"press", "connect", "silence", "drop"}

SextantInit ==
    /\ shown = "Disconnected" /\ news = Read /\ held = FALSE /\ target = FALSE
    /\ did = [d \in Deeds |-> 0] /\ unlinks = 0 /\ quit = FALSE /\ stopRequest = FALSE
    /\ starts = << >> /\ audio = "top" /\ capturing = FALSE /\ pendingEnd = FALSE
    /\ commands = << >> /\ task = "select" /\ seenUnlinks = 0
    /\ link = "none" /\ announced = FALSE /\ stream = "none" /\ lastCfg = NoConfig
    /\ trying = NoConfig /\ attempt = 0
    /\ afterwards = "select" /\ identity = FALSE /\ wire = "none" /\ clash = FALSE

Room == Len(commands) < CommandSlots
Command(type) == [type |-> type, issued |-> unlinks]
Enqueued(type) == commands' = Append(commands, Command(type))

(* AudioControl::stop: queued starts are stale, the worker has a stop to see. *)
Stop == stopRequest' = TRUE /\ starts' = [i \in DOMAIN starts |-> FALSE]

(***************************************************************************)
(* The GUI and its operator.                                               *)
(***************************************************************************)
Do(d, bound) == did[d] < bound /\ did' = [did EXCEPT ![d] = @ + 1]

ReadStatus ==
    /\ news # Read /\ shown' = news /\ news' = Read
    /\ target' = (target /\ news \notin {"Connected", "Disconnected"})
    /\ IF news = "Disconnected" THEN Stop ELSE UNCHANGED <<stopRequest, starts>>
    /\ UNCHANGED <<held, did, unlinks, quit, audio, capturing, pendingEnd, taskVars, linkVars,
                   commands, identity>>

(* Keys and clicks: a start may be repeated before the GUI has heard of the first one.
   A full audio queue refuses it like a missing device (WorkerStarts). *)
Press ==
    /\ shown = "Connected" /\ ~quit /\ Do("press", MaxPresses) /\ held' = TRUE
    /\ starts' = Append(starts, TRUE)
    /\ UNCHANGED <<shown, target, unlinks, quit, audio, capturing, pendingEnd, taskVars, linkVars,
                   news, stopRequest, commands, identity>>
Release ==
    /\ held /\ held' = FALSE /\ Stop
    /\ UNCHANGED <<shown, target, did, unlinks, quit, audio, capturing, pendingEnd, taskVars,
                   linkVars, news, commands, identity>>

AskConnect ==
    /\ shown = "Disconnected" /\ ~target /\ ~quit /\ Room /\ Do("connect", MaxConnects)
    /\ target' = TRUE /\ Enqueued("Connect")
    /\ UNCHANGED <<shown, held, unlinks, quit, workerVars, taskVars, linkVars, news, stopRequest,
                   identity>>
AskSilence ==
    /\ shown = "Connected" /\ ~quit /\ Room /\ Do("silence", MaxSilences) /\ Enqueued("TxSilence")
    /\ UNCHANGED <<shown, held, target, unlinks, quit, workerVars, taskVars, linkVars, news,
                   stopRequest, identity>>
Unlink ==
    /\ shown = "Connected" /\ ~quit /\ unlinks < MaxUnlinks /\ unlinks' = unlinks + 1
    /\ UNCHANGED <<shown, held, target, did, quit, workerVars, taskVars, linkVars, news,
                   stopRequest, commands, identity>>
Quit ==
    /\ ~quit /\ quit' = TRUE
    /\ UNCHANGED <<shown, held, target, did, unlinks, workerVars, taskVars, linkVars, news,
                   stopRequest, commands, identity>>

(***************************************************************************)
(* The audio worker: a stop, the retained end, the queued starts, a frame. *)
(***************************************************************************)
(* stop_tx_capture and flush_end.  Mutant: an end that finds no room is dropped. *)
EndsCaptureOnce(stopping) ==
    LET ending == pendingEnd \/ (stopping /\ capturing)
    IN /\ capturing' = (capturing /\ ~stopping)
       /\ pendingEnd' = FALSE
       /\ IF ending /\ Room THEN Enqueued("EndTx") ELSE UNCHANGED commands
EndsCapture(stopping) ==
    LET ending == pendingEnd \/ (stopping /\ capturing)
    IN /\ capturing' = (capturing /\ ~stopping)
       /\ pendingEnd' = (ending /\ ~Room)
       /\ IF ending /\ Room THEN Enqueued("EndTx") ELSE UNCHANGED commands

WorkerTop ==
    /\ audio = "top" /\ audio' = "commands"
    /\ stopRequest' = FALSE /\ EndsCapture(stopRequest)
    /\ UNCHANGED <<guiVars, starts, taskVars, linkVars, news, identity>>

Fresh(start) == start

WorkerTakes ==
    /\ audio = "commands" /\ starts # << >> /\ starts' = Tail(starts)
    /\ audio' = IF Fresh(Head(starts)) /\ identity THEN "starting" ELSE "commands"
    /\ UNCHANGED <<guiVars, capturing, pendingEnd, taskVars, linkVars, news, stopRequest, commands,
                   identity>>

(* start_tx_capture and transmit_file: the device or the file may be missing. *)
WorkerStarts ==
    /\ audio = "starting" /\ audio' = "commands"
    /\ \/ /\ ~capturing /\ ~pendingEnd /\ Room
          /\ capturing' = TRUE /\ Enqueued("StartTx")
       \/ UNCHANGED <<capturing, commands>>
    /\ UNCHANGED <<guiVars, starts, pendingEnd, taskVars, linkVars, news, stopRequest, identity>>

(* pump_tx: no frame is due, one is, or the capture fails; a full queue ends it too. *)
WorkerPumps ==
    /\ audio = "commands" /\ starts = << >> /\ audio' = "top"
    /\ \/ UNCHANGED <<capturing, pendingEnd, commands>>
       \/ /\ capturing /\ Room /\ Enqueued("TxFrame") /\ UNCHANGED <<capturing, pendingEnd>>
       \/ capturing /\ EndsCapture(TRUE)
    /\ UNCHANGED <<guiVars, starts, taskVars, linkVars, news, stopRequest, identity>>

(***************************************************************************)
(* The session task.                                                       *)
(***************************************************************************)
Requested == seenUnlinks # unlinks \/ quit
Selecting == task = "select" /\ ~Requested
Status(s) == news' = s

(* The reflector is sent a header, a frame or an end; the call fails on a dead link. *)
SendsHeader(kind) ==
    /\ wire' = IF link = "up" THEN kind ELSE wire
    /\ clash' = (clash \/ (link = "up" /\ wire # "none"))
SendsEnd == wire' = IF link = "up" THEN "none" ELSE wire

(* retire_session, up to the calls it waits for and from there. *)
NotConnected == identity' = FALSE /\ Stop
Retire(next) ==
    /\ NotConnected /\ afterwards' = next
    /\ IF link = "none"
       THEN /\ Status("Disconnected") /\ stream' = "none"
            /\ task' = IF next = "ended" THEN "ended" ELSE "select"
       ELSE /\ Status("Disconnecting") /\ task' = "retiring" /\ UNCHANGED stream

Retired ==
    /\ task = "retiring" /\ task' = IF afterwards = "ended" THEN "ended" ELSE "select"
    /\ link' = "none" /\ announced' = FALSE /\ stream' = "none" /\ wire' = "none"
    /\ attempt' = IF afterwards = "reconnect" THEN 1 ELSE attempt
    /\ Status("Disconnected")
    /\ UNCHANGED <<guiVars, workerVars, seenUnlinks, lastCfg, trying, afterwards, clash, stopRequest, commands,
                   identity>>

(* Mutant: queued operations outlive a disconnect. *)
SupersededNothing == UNCHANGED commands
Superseded == commands' = << >>

(* The loop's first statements; the worker may use the queue between the two steps. *)
SeeRequest ==
    /\ task = "select" /\ Requested /\ task' = "superseding"
    /\ seenUnlinks' = unlinks /\ lastCfg' = NoConfig /\ attempt' = 0 /\ Superseded
    /\ UNCHANGED <<guiVars, workerVars, linkVars, trying, afterwards, news, stopRequest, identity>>
Supersede ==
    /\ task = "superseding" /\ Retire(IF quit THEN "ended" ELSE "select")
    /\ UNCHANGED <<guiVars, audio, capturing, pendingEnd, seenUnlinks, lastCfg, trying, attempt,
                   link, announced, wire, clash, commands>>

TakeConnect(c) ==
    /\ IF link # "none" THEN UNCHANGED <<task, trying, news>>
       ELSE task' = "connecting" /\ Status("Connecting") /\ trying' = c.issued
    /\ UNCHANGED <<starts, stopRequest, identity, lastCfg, attempt, afterwards, linkVars>>

(* Mutant: the silence test does not look for a transmission in progress. *)
MayTestSilenceAnyTime == link # "none"
MayTestSilence == link # "none" /\ stream = "none"
TakeSilence ==
    /\ IF MayTestSilence THEN stream' = "silence" /\ task' = "silence" /\ SendsHeader("silence")
       ELSE UNCHANGED <<stream, task, wire, clash>>
    /\ UNCHANGED <<starts, news, stopRequest, identity, lastCfg, trying, attempt, afterwards, link,
                   announced>>

TakeStart ==
    /\ CASE link = "none" -> NotConnected /\ UNCHANGED <<task, afterwards, news, stream, wire, clash>>
         [] link # "none" /\ stream # "none" ->
              UNCHANGED <<starts, stopRequest, identity, task, afterwards, news, stream, wire, clash>>
         [] OTHER ->
              /\ SendsHeader("ptt")
              /\ IF link = "up"
                 THEN stream' = "ptt" /\ UNCHANGED <<starts, stopRequest, identity, task, afterwards, news>>
                 ELSE Retire("select")
    /\ UNCHANGED <<lastCfg, trying, attempt, link, announced>>

TakeFrame ==
    /\ IF link = "down" /\ stream # "none" THEN Retire("select")
       ELSE UNCHANGED <<starts, stopRequest, identity, task, afterwards, news, stream>>
    /\ UNCHANGED <<lastCfg, trying, attempt, link, announced, wire, clash>>

(* An end that cannot be sent leaves the session to its next event. *)
TakeEnd ==
    /\ stream' = "none" /\ IF stream # "none" THEN SendsEnd ELSE UNCHANGED wire
    /\ UNCHANGED <<starts, news, stopRequest, identity, task, lastCfg, trying, attempt, afterwards, link,
                   announced, clash>>

TakeCommand ==
    /\ Selecting /\ commands # << >> /\ commands' = Tail(commands)
    /\ LET c == Head(commands)
       IN CASE c.type = "Connect" -> TakeConnect(c)
            [] c.type = "TxSilence" -> TakeSilence
            [] c.type = "StartTx" -> TakeStart
            [] c.type = "TxFrame" -> TakeFrame
            [] c.type = "EndTx" -> TakeEnd
    /\ UNCHANGED <<guiVars, audio, capturing, pendingEnd, seenUnlinks>>

Made ==
    /\ link' = "up" /\ identity' = TRUE /\ Status("Connected") /\ task' = "select"
    /\ UNCHANGED <<guiVars, workerVars, seenUnlinks, trying, afterwards, announced, stream, wire,
                   clash, stopRequest, commands>>

(* A request is seen before the connection that completes with it. *)
ConnectEnds ==
    /\ task = "connecting" /\ ~Requested
    /\ \/ lastCfg' = trying /\ attempt' = 0 /\ Made
       \/ /\ task' = "select" /\ Status("Disconnected")
          /\ UNCHANGED <<guiVars, workerVars, linkVars, seenUnlinks, lastCfg, trying, attempt,
                         afterwards, stopRequest, commands, identity>>

Reconnect ==
    /\ Selecting /\ commands = << >> /\ link # "down" /\ attempt # 0
    /\ task' = "reconnecting" /\ Status("Connecting")
    /\ UNCHANGED <<guiVars, workerVars, linkVars, seenUnlinks, lastCfg, trying, attempt, afterwards,
                   stopRequest, commands, identity>>
ReconnectEnds ==
    /\ task = "reconnecting" /\ ~Requested
    /\ \/ attempt' = 0 /\ Made /\ UNCHANGED lastCfg
       \/ /\ attempt' = (IF attempt < 3 THEN attempt + 1 ELSE 3) /\ task' = "select"
          /\ UNCHANGED <<guiVars, workerVars, linkVars, seenUnlinks, lastCfg, trying, afterwards,
                         news, stopRequest, commands, identity>>

SilenceGoesOn ==
    /\ task = "silence" /\ ~Requested
    /\ \/ link = "up" /\ SendsEnd /\ stream' = "none" /\ task' = "select"
          /\ UNCHANGED <<starts, stopRequest, identity, afterwards, news>>
       \/ link = "down" /\ Retire("select") /\ UNCHANGED wire
    /\ UNCHANGED <<guiVars, audio, capturing, pendingEnd, seenUnlinks, lastCfg, trying, attempt,
                   link, announced, clash, commands>>

(* continue: the loop's first statements see the request. *)
Interrupted ==
    /\ task \in {"connecting", "reconnecting", "silence"} /\ Requested /\ task' = "select"
    /\ attempt' = IF task = "reconnecting" THEN 0 ELSE attempt
    /\ UNCHANGED <<guiVars, workerVars, linkVars, seenUnlinks, lastCfg, trying, afterwards, news,
                   stopRequest, commands, identity>>

(* Disconnected, or a channel that closed without it, after which nothing is scheduled;
   nothing is either when a command found the dead link first.  reconnect_on_drop is on. *)
LinkEnds ==
    /\ Selecting /\ commands = << >> /\ link = "down"
    /\ Retire(IF announced /\ lastCfg # NoConfig THEN "reconnect" ELSE "select")
    /\ UNCHANGED <<guiVars, audio, capturing, pendingEnd, seenUnlinks, lastCfg, trying, attempt,
                   link, announced, wire, clash, commands>>

LinkDrops ==
    /\ link = "up" /\ Do("drop", MaxDrops) /\ link' = "down" /\ announced' \in BOOLEAN
    /\ UNCHANGED <<shown, held, target, unlinks, quit, workerVars, taskVars, stream, wire, clash,
                   news, stopRequest, commands, identity>>

SextantNext ==
    \/ ReadStatus \/ Press \/ Release \/ AskConnect \/ AskSilence \/ Unlink \/ Quit
    \/ WorkerTop \/ WorkerTakes \/ WorkerStarts \/ WorkerPumps
    \/ SeeRequest \/ Supersede \/ Retired \/ TakeCommand \/ ConnectEnds \/ SilenceGoesOn
    \/ Reconnect \/ ReconnectEnds \/ Interrupted \/ LinkEnds \/ LinkDrops
SextantSpec == SextantInit /\ [][SextantNext]_sextantVars

(***************************************************************************)
(* Properties                                                              *)
(***************************************************************************)
(* A transmission never outlives its operator: while the session has a stream, its end is
   on its way, from the capture that runs, the end the worker retains or the one queued;
   the silence test has its own (stop_tx_capture, flush_end, retire_session). *)
EndIsOnItsWay ==
    CASE stream = "ptt" -> \/ capturing \/ pendingEnd \/ task \in {"superseding", "retiring"}
                           \/ \E i \in DOMAIN commands : commands[i].type = "EndTx"
      [] stream = "silence" -> task \in {"silence", "superseding", "retiring"} \/ Requested
      [] OTHER -> TRUE

(* The reflector never sees a header while it has another stream of this client open,
   although two threads start streams ("interleaving two stream-ids on one wire confuses
   the reflector"). *)
OneStreamOnTheWire == ~clash

(* PTT once released, a worker that has seen the stop does not capture, whatever starts
   the stop has overtaken (stop_generation, stale_start). *)
ReleaseEndsCapture == ~held /\ ~stopRequest => ~capturing

(* What the operator asked for before an unlink has no effect once the unlink is handled:
   no session, no attempt at one and no schedule stems from an earlier Connect
   (SessionHandle::disconnect, "Supersede queued operations"). *)
UnlinkSupersedes ==
    /\ (link # "none" \/ attempt # 0) /\ task \notin {"superseding", "retiring"} =>
         lastCfg = seenUnlinks
    /\ task = "connecting" => trying = seenUnlinks

(* When the task waits for its next event, a scheduled attempt never meets a session it
   would replace without retiring it; the status the GUI gets says connected, and the
   worker may transmit, exactly while there is a session. *)
StatusIsTrue ==
    /\ attempt # 0 => link = "none" \/ task \in {"superseding", "retiring"}
    /\ task = "select" =>
         /\ identity = (link # "none")
         /\ (IF news = Read THEN shown ELSE news) = "Connected" <=> link # "none"

(* The operator's PTT governs the transmission: capture stops with it, and the end of what
   it started is on its way. *)
PttIsObeyed == EndIsOnItsWay /\ ReleaseEndsCapture

(* An unlink, and every loss of a link, leaves no session behind that nobody asked for, and
   the operator is told (the loop's first statements, retire_session). *)
UnlinkIsObeyed == UnlinkSupersedes /\ StatusIsTrue
=============================================================================
