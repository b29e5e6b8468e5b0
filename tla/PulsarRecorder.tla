--------------------------- MODULE PulsarRecorder ---------------------------
(***************************************************************************)
(* The DMR recorder of pulsar/src/session.rs and capture.rs: one worker    *)
(* per master assembles the events of its connection into calls, completed *)
(* calls pass through one bounded queue to one writer task, and a          *)
(* coordinator waits for a shutdown request or the first failure and then  *)
(* drains workers and writer.  A call is identified by one id; 0 is the    *)
(* unknown id of the wire, and the session type, the other id and the      *)
(* callsigns, which are compared the same way, are left out.               *)
(***************************************************************************)
EXTENDS Integers, Sequences, SequencesExt, FiniteSetsExt

CONSTANTS
  Recorders,        \* configurations: the masters, and the bound on events of a behaviour
  QueueCapacity,    \* WRITE_QUEUE_CAPACITY
  RecordLimit,      \* max_capture_records_per_call
  CallHang          \* call_hang, in ticks

ASSUME PulsarConstants ==
  {QueueCapacity, RecordLimit, CallHang} \subseteq Nat \ {0}

VARIABLES
  recorder,         \* [masters, events], fixed
  worker,           \* what each worker is doing
  openCall,         \* the open call of each worker, or NoCall
  idle,             \* its age since the last activity
  handOff,          \* the completed call a worker is sending, and what follows
  queue,            \* recordings: the bounded channel
  writing,          \* the recording being written, or NoCall
  writer,           \* "running", "done" or "failed"
  recordings,       \* those on disk
  shutdown,         \* the watch channel
  requested,        \* the owner asked for the shutdown
  coordinator,      \* "select", "drain" or "ended"
  firstFailure,     \* the failure kept by run_tasks
  eventsSeen,       \* bound used up
  onAir, admitted, discarded   \* history: id announced, records kept, records discarded

pulsarVars == <<recorder, worker, openCall, idle, handOff, queue, writing, writer, recordings,
                shutdown, requested, coordinator, firstFailure, eventsSeen, onAir, admitted, discarded>>

Masters == recorder.masters

NoCall == [header |-> -1, records |-> <<>>]      \* no open call
Headerless == -2                                 \* a call without a header
Ids == 0 .. 2

PulsarInit ==
  /\ recorder \in Recorders
  /\ worker = [m \in Masters |-> "away"]
  /\ openCall = [m \in Masters |-> NoCall]
  /\ idle = [m \in Masters |-> 0]
  /\ handOff = [m \in Masters |-> [call |-> NoCall, next |-> "none"]]
  /\ queue = <<>> /\ writing = NoCall /\ writer = "running" /\ recordings = <<>>
  /\ shutdown = FALSE /\ requested = FALSE /\ coordinator = "select" /\ firstFailure = "none"
  /\ eventsSeen = 0
  /\ onAir = [m \in Masters |-> 0]
  /\ admitted = [m \in Masters |-> <<>>]
  /\ discarded = {}

-----------------------------------------------------------------------------
(* The capture manager: what an event makes of the open call.              *)

Compatible(a, b) == a = 0 \/ b = 0 \/ a = b

\* enrich_identity: a known id replaces the unknown one.
Enriched(current, incoming) == IF current = 0 THEN incoming ELSE current

\* The call after a header that continues it: attached to a headerless call, or enriching.
Attached(call, id) ==
  [call EXCEPT !.header = IF @ = Headerless THEN id ELSE Enriched(@, id)]

Continues(call, id) ==
  call # NoCall /\ (call.header = Headerless \/ Compatible(call.header, id))

OpenedWith(id) == [header |-> id, records |-> <<>>]

\* open_for_record and the push: record r joins the open call or opens a headerless one.
WithRecord(call, r) ==
  IF call = NoCall THEN [header |-> Headerless, records |-> <<r>>]
  ELSE [call EXCEPT !.records = Append(@, r)]

\* open_for_record: the limit on retained records.
LimitReached(call) == Len(call.records) >= RecordLimit

-----------------------------------------------------------------------------
(* A worker.                                                               *)

At(m, pc) == worker[m] = pc
Becomes(m, pc) == worker' = [worker EXCEPT ![m] = pc]
Touch(m) == idle' = [idle EXCEPT ![m] = 0]
Sets(m, call) == openCall' = [openCall EXCEPT ![m] = call]

\* No call is open any more.
Over(m) == Sets(m, NoCall) /\ Touch(m) /\ onAir' = [onAir EXCEPT ![m] = 0]

CallOf(m, call) == [master |-> m, header |-> call.header, records |-> call.records]

\* Mutant: a call that finds the queue full is dropped.
EnqueueIfRoom(m, call, next) ==
  IF call = NoCall \/ Len(queue) = QueueCapacity THEN Becomes(m, next) /\ UNCHANGED handOff
  ELSE /\ Becomes(m, "sending")
       /\ handOff' = [handOff EXCEPT ![m] = [call |-> CallOf(m, call), next |-> next]]

\* enqueue_if_complete: the worker sends the call, if there is one, and goes on to next.
Enqueue(m, call, next) ==
  IF call = NoCall THEN Becomes(m, next) /\ UNCHANGED handOff
  ELSE /\ Becomes(m, "sending")
       /\ handOff' = [handOff EXCEPT ![m] = [call |-> CallOf(m, call), next |-> next]]

\* The next record of master m, tagged with the id announced last.
NextRecord(m, id) == [n |-> eventsSeen + 1, id |-> IF id = 0 THEN onAir[m] ELSE id]

\* The record r reaches a call, or the limit discards the call and fails the worker.
Keep(m, call, r) ==
  IF LimitReached(call)
  THEN /\ Sets(m, NoCall) /\ Becomes(m, "failed")
       /\ discarded' = discarded \cup Range(call.records) /\ Touch(m)
       /\ UNCHANGED admitted
  ELSE /\ Sets(m, WithRecord(call, r)) /\ Becomes(m, "top") /\ Touch(m)
       /\ admitted' = [admitted EXCEPT ![m] = Append(@, r)]
       /\ UNCHANGED discarded

Event(m) == At(m, "waiting") /\ eventsSeen < recorder.events /\ eventsSeen' = eventsSeen + 1

outsideWorker ==
  <<recorder, queue, writing, writer, recordings, shutdown, requested, coordinator, firstFailure>>

\* supervise: a connection is made, even when the shutdown request has just arrived.
Connect(m) ==
  /\ At(m, "away") /\ Becomes(m, "top")
  /\ UNCHANGED <<openCall, idle, handOff, eventsSeen, onAir, admitted, discarded, outsideWorker>>

\* supervise: the shutdown request ends the worker between connections.
StopAway(m) ==
  /\ At(m, "away") /\ shutdown /\ Becomes(m, "done")
  /\ UNCHANGED <<openCall, idle, handOff, eventsSeen, onAir, admitted, discarded, outsideWorker>>

\* pump_session, the head of the loop: a shutdown request finishes the open call.
PumpTop(m) ==
  /\ At(m, "top")
  /\ IF shutdown THEN Enqueue(m, openCall[m], "done") /\ Over(m)
     ELSE Becomes(m, "waiting") /\ UNCHANGED <<handOff, openCall, idle, onAir>>
  /\ UNCHANGED <<eventsSeen, admitted, discarded, outsideWorker>>

\* handle_super_header: the header continues the open call or replaces it.
HearSuperHeader(m, id) ==
  /\ Event(m)
  /\ onAir' = [onAir EXCEPT ![m] = IF id = 0 /\ Continues(openCall[m], id) THEN @ ELSE id]
  /\ IF Continues(openCall[m], id)
     THEN Sets(m, Attached(openCall[m], id)) /\ Becomes(m, "top") /\ UNCHANGED handOff
     ELSE Sets(m, OpenedWith(id)) /\ Enqueue(m, openCall[m], "check")
  /\ Touch(m)
  /\ UNCHANGED <<admitted, discarded, outsideWorker>>

\* handle_voice_header: like a header, then its record; the record of a header that
\* replaced a call is kept once that call is in the queue.
HearVoiceHeader(m, id) ==
  /\ Event(m)
  /\ onAir' = [onAir EXCEPT ![m] = IF id = 0 /\ Continues(openCall[m], id) THEN @ ELSE id]
  /\ IF Continues(openCall[m], id)
     THEN Keep(m, Attached(openCall[m], id), NextRecord(m, id)) /\ UNCHANGED handOff
     ELSE IF openCall[m] = NoCall
     THEN Keep(m, OpenedWith(id), NextRecord(m, id)) /\ UNCHANGED handOff
     ELSE /\ Sets(m, OpenedWith(id)) /\ Enqueue(m, openCall[m], "voice") /\ Touch(m)
          /\ UNCHANGED <<admitted, discarded>>
  /\ UNCHANGED outsideWorker

\* Audio and embedded data (and a voice header of another kind of call): a record.
HearRecord(m) ==
  /\ Event(m) /\ Keep(m, openCall[m], NextRecord(m, 0))
  /\ UNCHANGED <<handOff, onAir, outsideWorker>>

\* handle_terminator: a compatible id completes the header, and the call is over.
HearTerminator(m, id) ==
  /\ Event(m)
  /\ Enqueue(m, IF Continues(openCall[m], id) THEN Attached(openCall[m], id) ELSE openCall[m],
             "check")
  /\ Over(m)
  /\ UNCHANGED <<admitted, discarded, outsideWorker>>

\* The master closes the session, or the client fails: the open call is finished and the
\* worker reconnects.
HearClose(m) ==
  /\ At(m, "waiting")
  /\ Enqueue(m, openCall[m], "away") /\ Over(m)
  /\ UNCHANGED <<eventsSeen, admitted, discarded, outsideWorker>>

\* finish_if_inactive ends the loop: a call that has been idle for call_hang is finished.
\* (After an event that has just touched the call the test is false.)
FinishIfInactive(m) ==
  IF openCall[m] # NoCall /\ idle[m] >= CallHang
  THEN Enqueue(m, openCall[m], "top") /\ Over(m)
  ELSE Becomes(m, "top") /\ UNCHANGED <<handOff, openCall, idle, onAir>>

\* The housekeeping interval passes or an event that concerns no call arrives; or the call
\* sent after an event is in the queue.
CheckInactive(m) ==
  /\ worker[m] \in {"waiting", "check"} /\ FinishIfInactive(m)
  /\ UNCHANGED <<eventsSeen, admitted, discarded, outsideWorker>>

\* recordings.send: waits for room, or fails when the writer is gone.
SendRecording(m) ==
  /\ At(m, "sending")
  /\ handOff' = [handOff EXCEPT ![m] = [call |-> NoCall, next |-> "none"]]
  /\ IF writer = "failed"
     THEN /\ Becomes(m, "failed")
          /\ UNCHANGED <<queue, openCall, idle, eventsSeen, admitted, discarded>>
     ELSE /\ Len(queue) < QueueCapacity
          /\ queue' = Append(queue, handOff[m].call)
          /\ IF handOff[m].next = "voice"
             THEN Keep(m, openCall[m], NextRecord(m, onAir[m])) /\ eventsSeen' = eventsSeen + 1
             ELSE /\ Becomes(m, handOff[m].next)
                  /\ UNCHANGED <<openCall, idle, eventsSeen, admitted, discarded>>
  /\ UNCHANGED <<recorder, writing, writer, recordings, shutdown, requested, coordinator, firstFailure,
                 onAir>>

-----------------------------------------------------------------------------
(* The writer task, the coordinator and the owner.                         *)

workers == <<recorder, worker, openCall, idle, handOff, eventsSeen, onAir, admitted, discarded>>

WriterTakes ==
  /\ writer = "running" /\ writing = NoCall /\ queue # <<>>
  /\ writing' = Head(queue) /\ queue' = Tail(queue)
  /\ UNCHANGED <<workers, writer, recordings, shutdown, requested, coordinator, firstFailure>>

\* write_recording ends; an error ends the task, and the queue is dropped with it.
WriterFinishes(ok) ==
  /\ writing # NoCall /\ writing' = NoCall
  /\ IF ok THEN recordings' = Append(recordings, writing) /\ UNCHANGED <<writer, queue>>
     ELSE writer' = "failed" /\ queue' = <<>> /\ UNCHANGED recordings
  /\ UNCHANGED <<workers, shutdown, requested, coordinator, firstFailure>>

WorkersEnded == \A m \in Masters : worker[m] \in {"done", "failed"}

\* The channel is empty and every sender is gone.
WriterEnds ==
  /\ writer = "running" /\ writing = NoCall /\ queue = <<>> /\ WorkersEnded
  /\ writer' = "done"
  /\ UNCHANGED <<workers, queue, writing, recordings, shutdown, requested, coordinator, firstFailure>>

\* shutdown_tx.send(true), after any branch of the select.
Broadcast == shutdown' = TRUE

\* run_tasks: whichever branch of the select is ready first.
Select ==
  /\ coordinator = "select"
  /\ \/ shutdown /\ firstFailure' = "none"
     \/ \E m \in Masters :
          \/ worker[m] = "done" /\ firstFailure' = "worker stopped"
          \/ worker[m] = "failed" /\ firstFailure' = "worker failed"
     \/ writer = "failed" /\ firstFailure' = "writer failed"
     \/ writer = "done" /\ firstFailure' = "writer stopped"
  /\ coordinator' = "drain" /\ Broadcast
  /\ UNCHANGED <<workers, queue, writing, writer, recordings, requested>>

\* drain_workers and the wait for the writer; the first failure is the result.
Collect ==
  /\ coordinator = "drain" /\ WorkersEnded /\ writer # "running"
  /\ coordinator' = "ended"
  /\ firstFailure' = IF firstFailure # "none" THEN firstFailure
                ELSE IF \E m \in Masters : worker[m] = "failed" THEN "worker failed"
                ELSE IF writer = "failed" THEN "writer failed" ELSE "none"
  /\ UNCHANGED <<workers, queue, writing, writer, recordings, shutdown, requested>>

\* request_shutdown, from the signal handler or by dropping the handle.
RequestShutdown ==
  /\ ~requested /\ requested' = TRUE /\ shutdown' = TRUE
  /\ UNCHANGED <<workers, queue, writing, writer, recordings, coordinator, firstFailure>>

\* Time passes while a call is open.
PulsarTick(m) ==
  /\ openCall[m] # NoCall /\ idle[m] < CallHang
  /\ idle' = [idle EXCEPT ![m] = @ + 1]
  /\ UNCHANGED <<worker, openCall, handOff, eventsSeen, onAir, admitted, discarded, outsideWorker>>

WorkerStep(m) ==
  \/ Connect(m) \/ StopAway(m) \/ PumpTop(m) \/ HearRecord(m) \/ HearClose(m)
  \/ CheckInactive(m) \/ SendRecording(m)
  \/ \E id \in Ids : HearSuperHeader(m, id) \/ HearVoiceHeader(m, id) \/ HearTerminator(m, id)

WriterTask == WriterTakes \/ WriterEnds \/ \E ok \in BOOLEAN : WriterFinishes(ok)

PulsarNext ==
  \/ \E m \in Masters : WorkerStep(m) \/ PulsarTick(m)
  \/ WriterTask \/ Select \/ Collect \/ RequestShutdown

PulsarSpec == PulsarInit /\ [][PulsarNext]_pulsarVars

-----------------------------------------------------------------------------

\* The records of master m in a sequence of recordings, in order.
RecordsOf(m, calls) ==
  FlattenSeq([i \in DOMAIN calls |-> IF calls[i].master = m THEN calls[i].records ELSE <<>>])

\* Until the writer fails, every record a worker accepted is, once and in order of arrival,
\* in a written call, in the one being written, in the queue, in a worker's hand or in its
\* open call, except for the calls the limit discarded whole: neither the full queue, nor a
\* reconnect, nor the drain loses, repeats or reorders one.
RecordsFlowInOrder ==
  writer # "failed" =>
    \A m \in Masters :
      LET inWriter == IF writing = NoCall THEN <<>> ELSE <<writing>>
          inHand == IF handOff[m].call = NoCall THEN <<>> ELSE <<handOff[m].call>>
      IN SelectSeq(admitted[m], LAMBDA r : r \notin discarded)
           = RecordsOf(m, recordings \o inWriter \o queue \o inHand) \o openCall[m].records

\* A recording never joins records of two different announced ids, although the unknown id
\* is compatible with both: the first known id stays with the call (enrich_identity).
OneCallPerRecording ==
  \A i \in DOMAIN recordings :
    \A r, q \in Range(recordings[i].records) : Compatible(r.id, q.id)

\* When the recorder ends without an error, every record it accepted is on disk; when it
\* ends with an error that is not the writer's, every record but the discarded calls is
\* (Recorder::wait: "Wait for all workers and accepted writes").
EndedMeansWritten ==
  (coordinator = "ended" /\ writer # "failed") =>
    \A m \in Masters :
      /\ RecordsOf(m, recordings) = SelectSeq(admitted[m], LAMBDA r : r \notin discarded)
      /\ firstFailure = "none" => discarded = {}

\* Error::WorkerStopped means that a worker stopped "without a shutdown request".
StoppedMeansUnrequested ==
  firstFailure \in {"worker stopped", "writer stopped"} => ~requested

\* A requested shutdown, and any failure, ends the recorder: the workers leave whatever
\* they wait for, a full queue included, and the writer finds its queue closed.
RecorderEnds ==
  []<>((shutdown \/ writer = "failed" \/ (\E m \in Masters : worker[m] = "failed"))
         => coordinator = "ended")

\* Every record is recorded once, in order, with its own call, and all are when the recorder
\* has ended.
RecordingsAreFaithful ==
  RecordsFlowInOrder /\ OneCallPerRecording /\ EndedMeansWritten
=============================================================================
