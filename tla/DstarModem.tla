------------------------------ MODULE DstarModem ------------------------------
(***************************************************************************)
(* D-STAR operation over a running modem (mmdvm/src/dstar.rs): raw modem   *)
(* events, read from a bounded broadcast ring that overwrites what a slow  *)
(* consumer has not read, become the voice events a caller sees.  An echo  *)
(* transmission is recorded and played back at its end.  The calls         *)
(* next_event and poll_status may be cancelled at every await.             *)
(* Transmissions are numbered; a voice frame is [n, i], frame i of number n.*)
(***************************************************************************)
EXTENDS Integers, Sequences, FiniteSets, SequencesExt

CONSTANTS
  MaxTransmissions, MaxFrames, MaxReports,  \* bounds: what the radio sends
  MaxPolls,                     \* bound: calls of poll_status
  TextFrames,                   \* voice frames that carry one text message
  Kinds,                        \* UrCallAction of a header: "cq", "echo", "command"
  RingSize,                     \* EVENT_CHANNEL_CAPACITY
  MaxEcho,                      \* MAX_ECHO_RECORDING_FRAMES
  TxSlots                       \* MAX_TX_QUEUE_FRAMES of the modem loop

ASSUME DstarModemConstants ==
  {MaxTransmissions, MaxFrames, MaxReports, MaxPolls, RingSize, MaxEcho, TxSlots, TextFrames} \subseteq Nat \ {0}

VARIABLES
  air,         \* the radio: transmission number, frames sent in each, whether it is
               \* on the air, reports made
  ring, skipped, modemUp, \* event_rx: unread events, whether some were overwritten,
               \* whether the task lives
  rx,          \* rx_active, rx_header
  text,        \* slow_data: frames collected
  echo,        \* echo_active, echo_header, echo_frames
  pendingEvents,
  running,     \* the call in progress: "none", "next" or "poll"
  polls,       \* poll_status calls made
  playing,     \* play_echo: the recording, submissions made, "playing" or the error
  queued,      \* frames in the modem loop's queue
  view,        \* history: the transmission open in the caller's eyes, 0 for none
  told         \* history: the caller was given a terminal error

dstarModemVars == <<air, ring, skipped, modemUp, rx, text, echo, pendingEvents,
  running, polls, playing, queued, view, told>>

NoRx == [active |-> FALSE, n |-> 0]
NoEcho == [active |-> FALSE, n |-> 0, frames |-> <<>>]
NoPlay == [why |-> "none", n |-> 0, frames |-> <<>>, sent |-> 0]
Playing == playing.why = "playing"
Ev(k, n) == [k |-> k, n |-> n]

DstarModemInit ==
  /\ air = [n |-> 0, sent |-> [t \in 1..MaxTransmissions |-> 0], on |-> FALSE,
            reports |-> 0]
  /\ ring = <<>> /\ skipped = FALSE /\ modemUp = TRUE
  /\ rx = NoRx /\ text = <<>> /\ echo = NoEcho /\ pendingEvents = <<>>
  /\ running = "none" /\ polls = 0 /\ playing = NoPlay /\ queued = 0
  /\ view = 0 /\ told = FALSE

consumerVars == <<rx, text, echo, pendingEvents, running, polls, playing, view,
                  told>>

-----------------------------------------------------------------------------
(* The modem loop as the runtime sees it: events it emits, frames it takes. *)

\* broadcast::Sender::send: a full ring loses its oldest unread event.
Emit(e) ==
  IF Len(ring) < RingSize
  THEN ring' = Append(ring, e) /\ UNCHANGED skipped
  ELSE ring' = Append(Tail(ring), e) /\ skipped' = TRUE

RadioHeader(kind) ==
  /\ modemUp /\ air.n < MaxTransmissions
  /\ air' = [air EXCEPT !.n = @ + 1, !.on = TRUE]
  /\ Emit([k |-> "Header", n |-> air.n + 1, kind |-> kind])
  /\ UNCHANGED <<modemUp, queued, consumerVars>>

RadioData ==
  /\ modemUp /\ air.on /\ FoldFunction(+, 0, air.sent) < MaxFrames
  /\ air' = [air EXCEPT !.sent[air.n] = @ + 1]
  /\ Emit([k |-> "Data", n |-> air.n, i |-> air.sent[air.n] + 1])
  /\ UNCHANGED <<modemUp, queued, consumerVars>>

RadioEnds(k) ==
  /\ modemUp /\ air.on
  /\ air' = [air EXCEPT !.on = FALSE]
  /\ Emit(Ev(k, air.n))
  /\ UNCHANGED <<modemUp, queued, consumerVars>>

\* A status reply; other reports take the path of one that shows an edge.
ModemReports ==
  /\ modemUp /\ air.reports < MaxReports
  /\ air' = [air EXCEPT !.reports = @ + 1]
  /\ Emit(Ev("Status", 0))
  /\ UNCHANGED <<modemUp, queued, consumerVars>>

\* terminal_event_error treats TransportClosed and Fatal alike; a clean exit has neither.
LastWords == {<<>>, <<Ev("Terminal", 0)>>}

ModemEnds(words) ==
  /\ modemUp /\ modemUp' = FALSE
  /\ ring' = ring \o words
  /\ UNCHANGED <<air, skipped, queued, consumerVars>>

Playout ==
  /\ modemUp /\ queued > 0
  /\ queued' = queued - 1
  /\ UNCHANGED <<air, ring, skipped, modemUp, consumerVars>>

-----------------------------------------------------------------------------
(* Translation of one raw event.                                           *)

\* What the caller holds open once it has been given an event.
Seen(open, e) ==
  CASE e.k = "VoiceStart" -> e.n
    [] e.k \in {"VoiceEnd", "VoiceLost"} -> 0
    [] OTHER -> open

\* next_event returns the event and ends; poll_status queues it in front of the
\* secondary events of the same step and goes on.
Hand(e, rest) ==
  IF running = "poll"
  THEN /\ pendingEvents' = pendingEvents \o <<e>> \o rest
       /\ UNCHANGED <<running, view>>
  ELSE /\ pendingEvents' = pendingEvents \o rest
       /\ running' = "none"
       /\ view' = Seen(view, e)

ResetReceiveState == rx' = NoRx /\ text' = <<>> /\ echo' = NoEcho

\* handle_voice_start: a second header ends the active stream first.
OnHeader(e) ==
  LET command == IF e.kind = "command" THEN <<Ev("UrCallCommand", e.n)>> ELSE <<>>
      heard == <<Ev("StationHeard", e.n)>> \o command IN
  /\ rx' = [active |-> TRUE, n |-> e.n] /\ text' = <<>>
  /\ echo' = IF e.kind = "echo" THEN [active |-> TRUE, n |-> e.n, frames |-> <<>>]
                                ELSE NoEcho
  /\ IF rx.active
     THEN Hand(Ev("VoiceLost", rx.n), <<Ev("VoiceStart", e.n)>> \o heard)
     ELSE Hand(Ev("VoiceStart", e.n), heard)

RecordingFull == echo.active /\ Len(echo.frames) >= MaxEcho

\* Mutant: a full recording is kept and loses the rest.
OnDataTruncating(e) ==
  IF ~rx.active
  THEN Hand(Ev("ProtocolViolation", 0), <<>>) /\ UNCHANGED <<rx, text, echo>>
  ELSE LET frame == [n |-> e.n, i |-> e.i] IN
       /\ UNCHANGED rx
       /\ text' = Append(text, frame)
       /\ echo' = IF echo.active /\ ~RecordingFull
                  THEN [echo EXCEPT !.frames = Append(@, frame)] ELSE echo
       /\ Hand(Ev("VoiceData", e.n), <<>>)

\* An oversized recording is thrown away, and nothing more is recorded.
OnData(e) ==
  IF ~rx.active
  THEN Hand(Ev("ProtocolViolation", 0), <<>>) /\ UNCHANGED <<rx, text, echo>>
  ELSE LET frame == [n |-> e.n, i |-> e.i] IN
       /\ UNCHANGED rx
       /\ text' = Append(text, frame)
       /\ echo' = IF RecordingFull THEN NoEcho
                  ELSE IF echo.active
                  THEN [echo EXCEPT !.frames = Append(@, frame)] ELSE echo
       /\ Hand(Ev("VoiceData", e.n),
               IF RecordingFull THEN <<Ev("EchoAborted", e.n)>> ELSE <<>>)

\* on_eot: everything is reset and the end queued before the first await of the
\* playback.
OnEot ==
  IF ~rx.active
  THEN /\ Hand(Ev("ProtocolViolation", 0), <<>>)
       /\ UNCHANGED <<rx, text, echo, playing>>
  ELSE LET message == IF Len(text) >= TextFrames
                      THEN <<[k |-> "Text", n |-> rx.n, frames |-> text]>> ELSE <<>> IN
       /\ ResetReceiveState
       /\ IF echo.active /\ echo.frames # <<>>
          THEN /\ pendingEvents' = pendingEvents \o <<Ev("VoiceEnd", rx.n)>> \o message
               /\ playing' = [why |-> "playing", n |-> echo.n,
                              frames |-> echo.frames, sent |-> 0]
               /\ UNCHANGED <<running, view>>
          ELSE Hand(Ev("VoiceEnd", rx.n), message) /\ UNCHANGED playing

OnLost ==
  /\ ResetReceiveState
  /\ Hand(IF rx.active THEN Ev("VoiceLost", rx.n) ELSE Ev("ProtocolViolation", 0), <<>>)

\* EventsDropped: the stream has a hole, so what was being received is over.
OnSkipped ==
  /\ ResetReceiveState
  /\ Hand(Ev("EventsDropped", 0),
          IF rx.active THEN <<Ev("VoiceLost", rx.n)>> ELSE <<>>)

\* poll_status returns the status it waited for; next_event reports only an edge
\* of the transmit flag (edge, which the radio decides), and otherwise keeps waiting.
OnStatus ==
  /\ UNCHANGED <<rx, text, echo>>
  /\ IF running = "poll"
     THEN running' = "none" /\ UNCHANGED <<pendingEvents, view>>
     ELSE \E edge \in BOOLEAN :
            IF edge THEN Hand(Ev("StatusUpdate", 0), <<>>)
                    ELSE UNCHANGED <<running, pendingEvents, view>>

-----------------------------------------------------------------------------
(* The two calls.  A caller that was given a terminal error stops calling.  *)

\* A caller enters next_event, or takes an event that is already pending.
CallNextEvent ==
  /\ running = "none" /\ ~told
  /\ IF pendingEvents # <<>>
     THEN /\ view' = Seen(view, Head(pendingEvents))
          /\ pendingEvents' = Tail(pendingEvents)
          /\ UNCHANGED running
     ELSE running' = "next" /\ UNCHANGED <<view, pendingEvents>>
  /\ UNCHANGED <<air, polls, ring, skipped, modemUp, rx, text, echo, playing,
                 queued, told>>

\* poll_status submits its request; on a dead modem that fails.
CallPollStatus ==
  /\ running = "none" /\ ~told /\ polls < MaxPolls
  /\ polls' = polls + 1
  /\ IF modemUp THEN running' = "poll" /\ UNCHANGED told
                ELSE told' = TRUE /\ UNCHANGED running
  /\ UNCHANGED <<air, ring, skipped, modemUp, rx, text, echo, pendingEvents,
                 playing, queued, view>>

Receiving == running # "none" /\ ~Playing

\* recv() reports what the ring overwrote before it goes on with the oldest
\* event kept.
TakeEvent ==
  /\ Receiving
  /\ \/ /\ skipped
        /\ skipped' = FALSE /\ OnSkipped
        /\ UNCHANGED <<ring, playing, told>>
     \/ /\ ~skipped /\ ring # <<>>
        /\ ring' = Tail(ring) /\ UNCHANGED skipped
        /\ LET e == Head(ring) IN
             \/ /\ e.k = "Header" /\ OnHeader(e)
                /\ UNCHANGED <<playing, told>>
             \/ /\ e.k = "Data" /\ OnData(e)
                /\ UNCHANGED <<playing, told>>
             \/ /\ e.k = "Eot" /\ OnEot /\ UNCHANGED <<told>>
             \/ /\ e.k = "Lost" /\ OnLost /\ UNCHANGED <<playing, told>>
             \/ /\ e.k = "Status" /\ OnStatus /\ UNCHANGED <<playing, told>>
             \/ /\ e.k = "Terminal" /\ running' = "none" /\ told' = TRUE
                /\ UNCHANGED <<rx, text, echo, pendingEvents, playing, view>>
  /\ UNCHANGED <<air, polls, modemUp, queued>>

\* The closed channel is the last signal of a dead modem.
ChannelClosed ==
  /\ Receiving /\ ~modemUp /\ ring = <<>> /\ ~skipped
  /\ running' = "none" /\ told' = TRUE
  /\ UNCHANGED <<air, polls, ring, skipped, modemUp, rx, text, echo, pendingEvents,
                 playing, queued, view>>

\* The event timeout, the deadline of poll_status or a dropped future, at any await.
GiveUpCall ==
  /\ running # "none"
  /\ running' = "none"
  /\ playing' = IF Playing THEN NoPlay ELSE playing
  /\ UNCHANGED <<air, polls, ring, skipped, modemUp, rx, text, echo, pendingEvents,
                 queued, view, told>>

\* The playback is over: next_event returns the VoiceEnd it queued.
EchoDone ==
  LET end == SelectInSeq(pendingEvents, LAMBDA e : e = Ev("VoiceEnd", playing.n)) IN
  /\ playing' = NoPlay
  /\ IF running = "poll" THEN UNCHANGED <<running, pendingEvents, view>>
     ELSE /\ running' = "none"
          /\ pendingEvents' = RemoveAt(pendingEvents, end)
          /\ view' = Seen(view, pendingEvents[end])

\* play_echo submits the header, the frames and the end, one call after the other.
\* The modem loop refuses when its queue is full or when it is gone; the error ends
\* the call.
PlayEcho ==
  /\ Playing
  /\ IF playing.sent = Len(playing.frames) + 2
     THEN EchoDone /\ UNCHANGED queued
     ELSE IF modemUp /\ queued < TxSlots
     THEN /\ queued' = queued + 1
          /\ playing' = [playing EXCEPT !.sent = @ + 1]
          /\ UNCHANGED <<running, pendingEvents, view>>
     ELSE /\ playing' = [playing EXCEPT !.why = IF modemUp THEN "BufferFull" ELSE "Closed"]
          /\ running' = "none"
          /\ UNCHANGED <<queued, pendingEvents, view>>
  /\ UNCHANGED <<air, polls, ring, skipped, modemUp, rx, text, echo, told>>

-----------------------------------------------------------------------------
DstarModemNext ==
  \/ \E kind \in Kinds : RadioHeader(kind)
  \/ RadioData
  \/ \E k \in {"Eot", "Lost"} : RadioEnds(k)
  \/ ModemReports
  \/ \E words \in LastWords : ModemEnds(words)
  \/ Playout
  \/ CallNextEvent \/ CallPollStatus \/ TakeEvent \/ ChannelClosed
  \/ GiveUpCall \/ PlayEcho

DstarModemSpec == DstarModemInit /\ [][DstarModemNext]_dstarModemVars

-----------------------------------------------------------------------------
(* Properties.                                                             *)

\* The events a caller has seen and those still queued form a well-bracketed stream:
\* no VoiceStart inside an open transmission, voice, text commands and boundaries only
\* for the one that is open, the decoded text only after its own end; and at the end of
\* the queue the stream is open exactly when the runtime is receiving.  Preempting
\* headers, skipped events, poll_status and cancelled calls all keep it so.
EventsWellBracketed ==
  LET Follows(open, e) ==
        CASE e.k = "VoiceStart" -> open = 0
          [] e.k \in {"VoiceEnd", "VoiceLost", "VoiceData", "StationHeard",
                      "UrCallCommand", "EchoAborted"} -> open = e.n
          [] e.k = "Text" -> open = 0
          [] OTHER -> TRUE
      OpenBefore(i) == FoldLeft(Seen, view, SubSeq(pendingEvents, 1, i - 1)) IN
  /\ \A i \in DOMAIN pendingEvents : Follows(OpenBefore(i), pendingEvents[i])
  /\ OpenBefore(Len(pendingEvents) + 1) = IF rx.active THEN rx.n ELSE 0

\* What is decoded or played back is one whole transmission: collected slow data never
\* mixes two transmissions, and a recording submitted for playback holds every frame the
\* radio sent in it, in order, whatever the event ring lost meanwhile.
RecordingsAreWhole ==
  /\ \A i \in DOMAIN text : text[i] = [n |-> rx.n, i |-> i]
  /\ \A i \in DOMAIN pendingEvents : pendingEvents[i].k = "Text" =>
       \A j \in DOMAIN pendingEvents[i].frames :
         pendingEvents[i].frames[j] = [n |-> pendingEvents[i].n, i |-> j]
  /\ playing.why # "none" =>
       playing.frames = [i \in 1..air.sent[playing.n] |-> [n |-> playing.n, i |-> i]]

\* A dead modem never reads as quiet airtime: once the loop has ended, a caller that
\* keeps asking is given an error.
DeadModemIsReported == []<>(modemUp \/ told)

\* "A truncated prefix is never replayed": a playback that the caller did not cancel
\* and whose modem is alive is submitted whole or not at all.
NoTruncatedReplay ==
  playing.why = "BufferFull" => playing.sent = 0

\* A caller sees transmissions one after the other, with the text and the echo of each whole.
TransmissionsAreWhole ==
  EventsWellBracketed /\ RecordingsAreWhole
==============================================================================
