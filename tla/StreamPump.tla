------------------------------ MODULE StreamPump -----------------------------
(***************************************************************************)
(* StreamAdapter of kenwood-transport/src/stream.rs: a task, the pump, owns *)
(* the transport and serves two bounded channels, requests to write and    *)
(* chunks read; the adapter's user writes, flushes, reads, shuts down and  *)
(* finally takes the transport back.  Requests and chunks are numbered.    *)
(* The pump runs on a thread of its own: between its look at the write     *)
(* channel and its second branch the user may take any step.               *)
(***************************************************************************)
EXTENDS Integers, Sequences

CONSTANTS
  WriteSlots,  \* WRITE_CHANNEL_CAPACITY
  ReadSlots,   \* READ_CHANNEL_CAPACITY
  MaxWrites,   \* bound: requests made
  MaxChunks    \* bound: chunks that arrive

ASSUME StreamConstants ==
  WriteSlots \in Nat \ {0} /\ ReadSlots \in Nat \ {0} /\ MaxWrites \in Nat /\ MaxChunks \in Nat

VARIABLES
  user,         \* what the user waits for: "free", "flush", "shutdown", "recover";
                \* or "recovered", "unrecovered" (the transport comes with an error)
  accepted,     \* requests accepted by poll_write
  requests,     \* the write channel
  writesClosed, readsClosed,
  chunks,       \* the read channel
  pump,         \* "top", "second" branch, "write" (a request in hand), "exit"
  inHand,       \* the request being written, 0 for none
  pendingRead,  \* the chunk that found the read channel full, 0 for none
  arrived,      \* chunks the transport has produced
  consumed,     \* chunks the user has read
  put,          \* requests the transport has written, in order
  failure,      \* terminal_failure
  exitFailure,  \* PumpExit::failure
  flushed       \* requests an Ok of flush or shutdown vouched for

streamVars == <<user, accepted, requests, writesClosed, readsClosed, chunks, pump, inHand,
                pendingRead, arrived, consumed, put, failure, exitFailure, flushed>>
adapter == <<user, accepted, writesClosed, readsClosed, consumed, flushed>>

StreamInit ==
  /\ user = "free" /\ accepted = 0 /\ requests = <<>> /\ chunks = <<>>
  /\ writesClosed = FALSE /\ readsClosed = FALSE
  /\ pump = "top" /\ inHand = 0 /\ pendingRead = 0
  /\ arrived = 0 /\ consumed = 0 /\ put = <<>>
  /\ failure = FALSE /\ exitFailure = FALSE /\ flushed = 0

(***************************************************************************)
(* The pump.                                                               *)
(***************************************************************************)

\* The biased first branch: write_rx.recv().
LookForWrite ==
  /\ pump = "top"
  /\ IF requests # <<>>
     THEN /\ pump' = "write" /\ inHand' = Head(requests) /\ requests' = Tail(requests)
     ELSE /\ pump' = IF writesClosed THEN "exit" ELSE "second"
          /\ UNCHANGED <<inHand, requests>>
  /\ UNCHANGED <<adapter, chunks, pendingRead, arrived, put, failure, exitFailure>>

\* perform_write.
WriteDone ==
  /\ pump = "write" /\ pump' = "top"
  /\ put' = Append(put, inHand) /\ inHand' = 0
  /\ UNCHANGED <<adapter, requests, chunks, pendingRead, arrived, failure, exitFailure>>

WriteFailed ==
  /\ pump = "write" /\ pump' = "exit" /\ inHand' = 0
  /\ failure' = TRUE /\ exitFailure' = TRUE
  /\ UNCHANGED <<adapter, requests, chunks, pendingRead, arrived, put>>

\* handle_read_result of a chunk; one that finds the channel full is kept.
\* Mutant: it is lost.
KeptIfRoom(c) == 0
Kept(c) == c
ReadChunk ==
  /\ pump = "second" /\ pendingRead = 0 /\ arrived < MaxChunks
  /\ arrived' = arrived + 1
  /\ pump' = IF readsClosed THEN "exit" ELSE "top"
  /\ LET fits == Len(chunks) < ReadSlots
     IN  /\ chunks' = IF ~readsClosed /\ fits THEN Append(chunks, arrived') ELSE chunks
         /\ pendingRead' = IF readsClosed \/ fits THEN 0 ELSE Kept(arrived')
  /\ UNCHANGED <<adapter, requests, inHand, put, failure, exitFailure>>

ReadFailed ==
  /\ pump = "second" /\ pendingRead = 0
  /\ pump' = "exit" /\ failure' = TRUE /\ exitFailure' = TRUE
  /\ UNCHANGED <<adapter, requests, chunks, inHand, pendingRead, arrived, put>>

\* Neither branch is ready: the task sleeps until it is woken.
Quiet ==
  /\ pump = "second" /\ pump' = "top"
  /\ pendingRead # 0 => ~readsClosed /\ Len(chunks) = ReadSlots
  /\ UNCHANGED <<adapter, requests, chunks, inHand, pendingRead, arrived, put, failure,
                 exitFailure>>

\* dispatch_pending_read: its second branch, read_tx.reserve().
SendPending ==
  /\ pump = "second" /\ pendingRead # 0 /\ (readsClosed \/ Len(chunks) < ReadSlots)
  /\ pump' = IF readsClosed THEN "exit" ELSE "top"
  /\ chunks' = IF readsClosed THEN chunks ELSE Append(chunks, pendingRead)
  /\ pendingRead' = 0
  /\ UNCHANGED <<adapter, requests, inHand, arrived, put, failure, exitFailure>>

PumpStep == LookForWrite \/ WriteDone \/ WriteFailed \/ ReadChunk \/ ReadFailed
            \/ Quiet \/ SendPending

(***************************************************************************)
(* The user of the adapter.                                                *)
(***************************************************************************)
pumpVars == <<chunks, pump, inHand, pendingRead, arrived, put, failure, exitFailure>>

\* poll_write: a full channel, a failure or a shutdown accepts nothing.
PollWrite ==
  /\ user = "free" /\ ~failure /\ ~writesClosed /\ pump # "exit"
  /\ accepted < MaxWrites /\ Len(requests) < WriteSlots
  /\ accepted' = accepted + 1 /\ requests' = Append(requests, accepted')
  /\ UNCHANGED <<user, writesClosed, readsClosed, consumed, flushed, pumpVars>>

PollRead ==
  /\ user = "free" /\ chunks # <<>>
  /\ consumed' = Head(chunks) /\ chunks' = Tail(chunks)
  /\ UNCHANGED <<user, accepted, requests, writesClosed, readsClosed, flushed, pump, inHand,
                 pendingRead, arrived, put, failure, exitFailure>>

\* poll_write_completions with wait_for_all.
AllCompleted == Len(put) = accepted

Ask(what) ==
  /\ user = "free" /\ user' = what
  /\ UNCHANGED <<accepted, requests, writesClosed, readsClosed, consumed, flushed, pumpVars>>

PollFlush ==
  /\ user = "flush" /\ (failure \/ AllCompleted)
  /\ user' = "free"
  /\ flushed' = IF failure THEN flushed ELSE accepted
  /\ UNCHANGED <<accepted, requests, writesClosed, readsClosed, consumed, pumpVars>>

\* poll_shutdown: flush, close the channel, wait for the pump.
PollShutdown ==
  /\ user = "shutdown"
  /\ IF ~writesClosed
     THEN /\ failure \/ AllCompleted
          /\ writesClosed' = TRUE
          /\ user' = IF failure THEN "free" ELSE user
          /\ UNCHANGED flushed
     ELSE /\ pump = "exit"
          /\ user' = "free"
          /\ flushed' = IF exitFailure THEN flushed ELSE accepted
          /\ UNCHANGED writesClosed
  /\ UNCHANGED <<accepted, requests, readsClosed, consumed, pumpVars>>

\* shutdown_and_recover: close both channels, then join the pump.
ShutdownAndRecover ==
  /\ user = "recover"
  /\ IF ~writesClosed
     THEN writesClosed' = TRUE /\ UNCHANGED <<readsClosed, user>>
     ELSE IF ~readsClosed
     THEN readsClosed' = TRUE /\ UNCHANGED <<writesClosed, user>>
     ELSE /\ pump = "exit"
          /\ user' = IF exitFailure THEN "unrecovered" ELSE "recovered"
          /\ UNCHANGED <<writesClosed, readsClosed>>
  /\ UNCHANGED <<accepted, requests, consumed, flushed, pumpVars>>

StreamNext ==
  \/ PumpStep \/ PollWrite \/ PollRead
  \/ \E what \in {"flush", "shutdown", "recover"} : Ask(what)
  \/ PollFlush \/ PollShutdown \/ ShutdownAndRecover

StreamSpec == StreamInit /\ [][StreamNext]_streamVars
------------------------------------------------------------------------------
\* A request is written once and in the order of acceptance, and no request is
\* written past one that failed.
WritesInOrder == put = [i \in 1..Len(put) |-> i]

\* pending_read: however writes interrupt a chunk that waits for room, the user
\* reads every chunk, in order; while the user listens none is lost.
ReadsInOrder ==
  ~readsClosed =>
    [i \in 1..consumed |-> i] \o chunks \o (IF pendingRead = 0 THEN <<>> ELSE <<pendingRead>>)
      = [i \in 1..arrived |-> i]

\* poll_flush, poll_shutdown: Ok vouches for every request accepted before.
OkMeansWritten == flushed <= Len(put)

\* A transport that failed is never handed back as if nothing had happened, and
\* a pump that stops on its own is one that failed.
FailureIsReported ==
  /\ user = "recovered" => ~failure
  /\ pump = "exit" /\ ~writesClosed => failure

\* "Any writes already accepted by [`AsyncWrite::poll_write`] are completed
\* before a successful return" (shutdown_and_recover).
RecoveredMeansWritten == user = "recovered" => Len(put) = accepted

\* A consumer that does not read cannot hold up an accepted request.
RequestsComplete == []<>(Len(put) = accepted \/ pump = "exit")

\* The adapter is a faithful stream: bytes pass once and in order in both directions, flush
\* means written, and a failure is reported.
StreamIsFaithful ==
  WritesInOrder /\ ReadsInOrder /\ OkMeansWritten /\ FailureIsReported
==============================================================================
