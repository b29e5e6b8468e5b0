------------------------------ MODULE Messenger ------------------------------
(***************************************************************************)
(* The APRS message manager (aprs/src/messenger.rs) as operators on its    *)
(* state: pending messages with their attempts, the next message number,   *)
(* and the memory of incoming messages that suppresses repeats.  The code  *)
(* keeps instants and compares them with a caller-supplied now; the model  *)
(* keeps ages, capped where every comparison has become true.              *)
(***************************************************************************)
EXTENDS Integers, Sequences, SequencesExt, FiniteSetsExt

CONSTANTS
  MaxRetries,      \* MessengerConfig::max_retries
  RetryInterval,   \* retry_interval, in ticks
  DedupWindow,     \* incoming_dedup_window, in ticks
  MaxPending,      \* max_pending
  MaxIncoming,     \* max_incoming
  MaxId            \* the largest message number, 65535 in the code

ASSUME MessengerConstants ==
  /\ {MaxRetries, RetryInterval, DedupWindow, MaxPending, MaxIncoming, MaxId} \subseteq Nat \ {0}
  /\ MaxPending <= MaxId

NeverSent == -1                            \* last_sent of a message never sent

\* A pending message is [id, to, attempts, sent, n]; n numbers the queued messages
\* and stands for the text.  seen maps <<source, id>> to the age of its last sight.
NewMessenger == [pending |-> <<>>, nextId |-> 1, seen |-> <<>>]

IdAfter(m, k) == ((m.nextId - 1 + k) % MaxId) + 1

OccupiedIds(m) == {m.pending[i].id : i \in DOMAIN m.pending}

\* The candidates queue_message tries, by distance from next_message_id.
FreeOffsets(m) ==
  {k \in 0..Cardinality(OccupiedIds(m)) : IdAfter(m, k) \notin OccupiedIds(m)}

NextFreeId(m) == IdAfter(m, Min(FreeOffsets(m)))

CanQueue(m) == Len(m.pending) < MaxPending

QueueMessage(m, to, n) ==
  [m EXCEPT !.nextId = IdAfter(m, Min(FreeOffsets(m)) + 1),
            !.pending = Append(@, [id |-> NextFreeId(m), to |-> to, attempts |-> 0,
                                   sent |-> NeverSent, n |-> n])]

Due(p) == p.attempts < MaxRetries /\ (p.sent = NeverSent \/ p.sent >= RetryInterval)

\* peek_frame_to_send: the first due message; 0 when there is none.
FrameToSend(m) == SelectInSeq(m.pending, Due)

CommitSend(m, i) ==
  [m EXCEPT !.pending[i].attempts = @ + 1, !.pending[i].sent = 0]

FreshSightings(m) == {k \in DOMAIN m.seen : m.seen[k] < DedupWindow}

\* Mutant: sightings are remembered for one retry only.
IsDuplicateWithinRetry(m, key) == key \in DOMAIN m.seen /\ m.seen[key] < RetryInterval

IsDuplicateIncoming(m, key) == key \in FreshSightings(m)

\* check_incoming_capacity: stale entries that were not yet reclaimed do not count.
HasIncomingCapacity(m, key) ==
  IsDuplicateIncoming(m, key) \/ Cardinality(FreshSightings(m)) < MaxIncoming

MarkIncomingSeen(m, key) ==
  [m EXCEPT !.seen = [k \in FreshSightings(m) \cup {key} |->
                        IF k = key THEN 0 ELSE m.seen[k]]]

\* The message numbers a received frame settles: its own when it is an ack or rej, and
\* the one in its reply-ack trailer (0 for none).
SettledIds(f) ==
  (IF f.kind \in {"ack", "rej"} THEN {f.id} ELSE {}) \cup ({f.reply} \ {0})

\* process_incoming: only the station a message was addressed to can settle it.
Settles(p, f) == p.id \in SettledIds(f) /\ p.to = f.src

SettledBy(m, f) ==
  {m.pending[i] : i \in {j \in DOMAIN m.pending : Settles(m.pending[j], f)}}

\* Mutant: a settled message stays pending.
ProcessIncomingKeeping(m, f) == m

ProcessIncoming(m, f) ==
  [m EXCEPT !.pending = SelectSeq(@, LAMBDA p : ~Settles(p, f))]

\* cleanup_expired: the last attempt, too, is given one interval to be answered.
ExpiredMessage(p) == p.attempts >= MaxRetries /\ p.sent >= RetryInterval

ExpiredMessages(m) == SelectSeq(m.pending, ExpiredMessage)

CleanupExpired(m) == [m EXCEPT !.pending = SelectSeq(@, LAMBDA p : ~ExpiredMessage(p))]

\* One tick passes.
AgedMessenger(m) ==
  [m EXCEPT !.pending = [i \in DOMAIN @ |->
                [@[i] EXCEPT !.sent = IF @ = NeverSent THEN NeverSent ELSE Min({@ + 1, RetryInterval})]],
            !.seen = [k \in DOMAIN @ |-> Min({@[k] + 1, DedupWindow})]]
==============================================================================
