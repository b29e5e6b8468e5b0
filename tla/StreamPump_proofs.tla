-------------------------- MODULE StreamPump_proofs --------------------------
(***************************************************************************)
(* Theorems about the stream adapter, for every capacity of its channels   *)
(* and every number of requests and chunks.                                *)
(***************************************************************************)
EXTENDS StreamPump, SequenceTheorems, TLAPS

(* s holds the numbers that follow n, in order. *)
CountsFrom(s, n) == \A i \in 1..Len(s) : s[i] = n + i

StreamTypes ==
  /\ user \in {"free", "flush", "shutdown", "recover", "recovered", "unrecovered"}
  /\ writesClosed \in BOOLEAN /\ readsClosed \in BOOLEAN
  /\ failure \in BOOLEAN /\ exitFailure \in BOOLEAN
  /\ pump \in {"top", "second", "write", "exit"}
  /\ accepted \in Nat /\ inHand \in Nat /\ pendingRead \in Nat
  /\ arrived \in Nat /\ consumed \in Nat /\ flushed \in Nat
  /\ requests \in Seq(Nat) /\ chunks \in Seq(Nat) /\ put \in Seq(Nat)

(* Requests the pump has taken from the channel. *)
Handled == Len(put) + (IF pump = "write" THEN 1 ELSE 0)

(* What the transport has written, what the pump holds and what the channel holds are the
   requests accepted, in order; after the pump's exit some may be missing at the end. *)
WritePath ==
  /\ CountsFrom(put, 0)
  /\ inHand = IF pump = "write" THEN Len(put) + 1 ELSE 0
  /\ Len(put) <= accepted
  /\ pump # "exit" =>
       /\ CountsFrom(requests, Handled)
       /\ accepted = Handled + Len(requests)

(* What the user has read, what the channel holds and what the pump holds are the chunks
   that arrived, in order. *)
ReadPath ==
  /\ CountsFrom(chunks, consumed)
  /\ pendingRead # 0 => pendingRead = consumed + Len(chunks) + 1
  /\ ~readsClosed =>
       arrived = consumed + Len(chunks) + (IF pendingRead = 0 THEN 0 ELSE 1)

(* Who closes what, and what a closed channel and an exit say. *)
Endings ==
  /\ failure = exitFailure
  /\ failure => pump = "exit"
  /\ readsClosed => writesClosed /\ user \in {"recover", "recovered", "unrecovered"}
  /\ writesClosed /\ user \in {"free", "flush", "shutdown"} => failure \/ Len(put) = accepted
  /\ pump = "exit" /\ ~writesClosed => failure
  /\ user = "recovered" => ~failure /\ pump = "exit"
  /\ flushed <= Len(put)

StreamInv == StreamTypes /\ WritePath /\ ReadPath /\ Endings

(* Appending the next number, taking the first one, and nothing at all keep the count. *)
LEMMA Counting ==
  ASSUME NEW s \in Seq(Nat), NEW n \in Nat, CountsFrom(s, n)
  PROVE  /\ Len(s) \in Nat
         /\ LET a == Append(s, n + Len(s) + 1)
            IN a \in Seq(Nat) /\ Len(a) = Len(s) + 1 /\ CountsFrom(a, n)
         /\ s # <<>> => /\ Head(s) = n + 1 /\ Tail(s) \in Seq(Nat)
                        /\ Len(s) # 0 /\ Len(Tail(s)) = Len(s) - 1 /\ CountsFrom(Tail(s), n + 1)
<1>1. Len(s) \in Nat /\ n + Len(s) + 1 \in Nat
  OBVIOUS
<1>2. LET a == Append(s, n + Len(s) + 1)
      IN a \in Seq(Nat) /\ Len(a) = Len(s) + 1 /\ CountsFrom(a, n)
  <2> DEFINE a == Append(s, n + Len(s) + 1)
  <2>1. /\ a \in Seq(Nat) /\ Len(a) = Len(s) + 1 /\ a[Len(s) + 1] = n + Len(s) + 1
        /\ \A i \in 1..Len(s) : a[i] = s[i]
    BY <1>1, AppendProperties
  <2> HIDE DEF a
  <2>2. CountsFrom(a, n)
    <3> SUFFICES ASSUME NEW i \in 1..Len(a) PROVE a[i] = n + i
      BY DEF CountsFrom
    <3>1. CASE i = Len(s) + 1
      BY <3>1, <2>1, <1>1
    <3>2. CASE i # Len(s) + 1
      <4>1. i \in 1..Len(s)
        BY <3>2, <2>1, <1>1
      <4> QED
        BY <4>1, <2>1 DEF CountsFrom
    <3> QED
      BY <3>1, <3>2
  <2> QED
    BY <2>1, <2>2 DEF a
<1>3. ASSUME s # <<>>
      PROVE  /\ Head(s) = n + 1 /\ Tail(s) \in Seq(Nat)
             /\ Len(s) # 0 /\ Len(Tail(s)) = Len(s) - 1 /\ CountsFrom(Tail(s), n + 1)
  <2>1. /\ Tail(s) \in Seq(Nat) /\ Len(Tail(s)) = Len(s) - 1
        /\ \A i \in 1..Len(Tail(s)) : Tail(s)[i] = s[i + 1]
    BY <1>3, HeadTailProperties
  <2>2. Len(s) # 0 /\ Head(s) = s[1]
    BY <1>3, <1>1
  <2> QED
    BY <1>1, <2>1, <2>2 DEF CountsFrom
<1> QED
  BY <1>1, <1>2, <1>3

(* The adapter starts with nothing on its way. *)
LEMMA StreamInvInit == StreamInit => StreamInv
<1> SUFFICES ASSUME StreamInit PROVE StreamInv
  OBVIOUS
<1>0. <<>> \in Seq(Nat) /\ Len(<<>>) = 0
  BY EmptySeq
<1>1. StreamTypes
  BY <1>0 DEF StreamInit, StreamTypes
<1>2. \A n \in Nat : CountsFrom(<<>>, n)
  BY <1>0 DEF CountsFrom
<1>3. WritePath
  BY <1>0, <1>2 DEF StreamInit, WritePath, Handled
<1>4. ReadPath
  BY <1>0, <1>2 DEF StreamInit, ReadPath
<1>5. Endings
  <2>1. flushed = 0 /\ Len(put) = 0 /\ flushed <= Len(put)
    BY <1>0 DEF StreamInit
  <2>2. /\ user = "free" /\ pump = "top"
        /\ writesClosed = FALSE /\ readsClosed = FALSE /\ failure = FALSE /\ exitFailure = FALSE
    BY DEF StreamInit
  <2> QED
    BY <2>1, <2>2, Zenon DEF Endings
<1> QED
  BY <1>1, <1>3, <1>4, <1>5 DEF StreamInv

(* The pump keeps the order of what it takes, writes and reads. *)
LEMMA PumpKeepsInv == StreamInv /\ PumpStep => StreamInv'
<1> SUFFICES ASSUME StreamInv, PumpStep PROVE StreamInv'
  OBVIOUS
<1> USE DEF StreamInv
<1>c. Len(put) \in Nat /\ Len(requests) \in Nat /\ Len(chunks) \in Nat
  BY DEF StreamTypes
<1>1. CASE LookForWrite
  <2>r. pump # "exit" /\ pump # "write" /\ Handled = Len(put) /\ CountsFrom(requests, Len(put))
        /\ accepted = Len(put) + Len(requests)
    BY <1>1 DEF LookForWrite, WritePath, Handled
  <2>1. CASE requests # <<>>
    <3>1. /\ Head(requests) = Len(put) + 1 /\ Tail(requests) \in Seq(Nat)
          /\ Len(requests) # 0 /\ Len(Tail(requests)) = Len(requests) - 1
          /\ CountsFrom(Tail(requests), Len(put) + 1)
      BY <2>1, <2>r, <1>c, Counting DEF StreamTypes
    <3>2. pump' = "write" /\ inHand' = Head(requests) /\ requests' = Tail(requests)
      BY <1>1, <2>1 DEF LookForWrite
    <3>3. UNCHANGED <<adapter, chunks, pendingRead, arrived, put, failure, exitFailure>>
      BY <1>1 DEF LookForWrite
    <3>4. StreamTypes' /\ ReadPath' /\ Endings'
      BY <3>1, <3>2, <3>3, <2>r, <1>c DEF adapter, StreamTypes, ReadPath, Endings
    <3>5. WritePath'
      BY <3>1, <3>2, <3>3, <2>r, <1>c DEF adapter, WritePath, Handled, StreamTypes
    <3> QED
      BY <3>4, <3>5
  <2>2. CASE requests = <<>>
    <3>1. Len(requests) = 0
      BY <2>2
    <3>2. /\ pump' = IF writesClosed THEN "exit" ELSE "second"
          /\ UNCHANGED <<inHand, requests, adapter, chunks, pendingRead, arrived, put, failure,
                         exitFailure>>
      BY <1>1, <2>2 DEF LookForWrite
    <3> QED
      BY <3>1, <3>2, <2>r, <1>c DEF adapter, StreamTypes, WritePath, Handled, ReadPath, Endings
  <2> QED
    BY <2>1, <2>2
<1>2. CASE WriteDone
  <2>1. /\ pump = "write" /\ pump' = "top" /\ put' = Append(put, Len(put) + 1) /\ inHand' = 0
        /\ UNCHANGED <<adapter, requests, chunks, pendingRead, arrived, failure, exitFailure>>
    BY <1>2 DEF WriteDone, WritePath
  <2>2. put' \in Seq(Nat) /\ Len(put') = Len(put) + 1 /\ CountsFrom(put', 0)
    <3>1. Len(put) + 1 = 0 + Len(put) + 1
      BY <1>c
    <3> QED
      BY <2>1, <3>1, Counting DEF StreamTypes, WritePath
  <2>3. CountsFrom(requests, Len(put) + 1) /\ accepted = Len(put) + 1 + Len(requests)
    BY <2>1 DEF WritePath, Handled
  <2>4. StreamTypes' /\ ReadPath'
    BY <2>1, <2>2 DEF adapter, StreamTypes, ReadPath
  <2>5. WritePath'
    BY <2>1, <2>2, <2>3, <1>c DEF adapter, WritePath, Handled, StreamTypes
  <2>6. Endings'
    BY <2>1, <2>2, <2>3, <1>c DEF adapter, Endings, StreamTypes
  <2> QED
    BY <2>4, <2>5, <2>6
<1>3. CASE WriteFailed
  BY <1>3, <1>c DEF WriteFailed, adapter, StreamTypes, WritePath, Handled, ReadPath, Endings
<1>4. CASE ReadChunk
  <2>1. /\ pump = "second" /\ pendingRead = 0 /\ arrived' = arrived + 1
        /\ pump' = IF readsClosed THEN "exit" ELSE "top"
        /\ UNCHANGED <<adapter, requests, inHand, put, failure, exitFailure>>
    BY <1>4 DEF ReadChunk
  <2>2. /\ chunks' = IF ~readsClosed /\ Len(chunks) < ReadSlots THEN Append(chunks, arrived + 1)
                     ELSE chunks
        /\ pendingRead' = IF readsClosed \/ Len(chunks) < ReadSlots THEN 0 ELSE arrived + 1
    BY <1>4, <2>1 DEF ReadChunk, Kept
  <2>3. WritePath' /\ Endings'
    BY <2>1, <1>c DEF adapter, WritePath, Handled, Endings
  <2>4. CASE ~readsClosed /\ Len(chunks) < ReadSlots
    <3>1. arrived + 1 = consumed + Len(chunks) + 1
      BY <2>1, <2>4, <1>c DEF ReadPath, StreamTypes
    <3>2. chunks' \in Seq(Nat) /\ Len(chunks') = Len(chunks) + 1 /\ CountsFrom(chunks', consumed)
      BY <3>1, <2>2, <2>4, Counting DEF StreamTypes, ReadPath
    <3>3. pendingRead' = 0 /\ consumed' = consumed /\ readsClosed' = readsClosed
      BY <2>1, <2>2, <2>4 DEF adapter
    <3>4. ReadPath'
      BY <3>1, <3>2, <3>3, <2>1, <1>c DEF ReadPath, StreamTypes
    <3>5. StreamTypes'
      BY <3>2, <3>3, <2>1 DEF StreamTypes, adapter
    <3> QED
      BY <3>4, <3>5, <2>3
  <2>5. CASE readsClosed \/ ~(Len(chunks) < ReadSlots)
    <3>1. chunks' = chunks /\ consumed' = consumed /\ readsClosed' = readsClosed
      BY <2>1, <2>2, <2>5 DEF adapter
    <3>2. pendingRead' = IF readsClosed THEN 0 ELSE arrived + 1
      BY <2>2, <2>5, <1>c, StreamConstants
    <3>3. StreamTypes'
      BY <3>1, <3>2, <2>1 DEF adapter, StreamTypes
    <3>4. ~readsClosed => arrived = consumed + Len(chunks)
      BY <2>1 DEF ReadPath, StreamTypes
    <3>5. CountsFrom(chunks', consumed')
      BY <3>1 DEF ReadPath
    <3>6. ReadPath'
      <4>1. CASE readsClosed
        BY <4>1, <3>1, <3>2, <3>5 DEF ReadPath
      <4>2. CASE ~readsClosed
        <5>1. arrived' = consumed' + Len(chunks') + 1 /\ pendingRead' = consumed' + Len(chunks') + 1
          BY <4>2, <3>1, <3>2, <3>4, <2>1
        <5>2. pendingRead' # 0
          BY <5>1, <3>1, <1>c DEF StreamTypes
        <5> QED
          BY <5>1, <5>2, <3>5 DEF ReadPath
      <4> QED
        BY <4>1, <4>2
    <3> QED
      BY <3>3, <3>6, <2>3
  <2> QED
    BY <2>4, <2>5
<1>5. CASE ReadFailed
  BY <1>5, <1>c DEF ReadFailed, adapter, StreamTypes, WritePath, Handled, ReadPath, Endings
<1>6. CASE Quiet
  BY <1>6, <1>c DEF Quiet, adapter, StreamTypes, WritePath, Handled, ReadPath, Endings
<1>7. CASE SendPending
  <2>1. /\ pump = "second" /\ pendingRead # 0 /\ pendingRead' = 0
        /\ pump' = IF readsClosed THEN "exit" ELSE "top"
        /\ chunks' = IF readsClosed THEN chunks ELSE Append(chunks, pendingRead)
        /\ UNCHANGED <<adapter, requests, inHand, arrived, put, failure, exitFailure>>
    BY <1>7 DEF SendPending
  <2>2. WritePath' /\ Endings'
    BY <2>1, <1>c DEF adapter, WritePath, Handled, Endings
  <2>3. pendingRead = consumed + Len(chunks) + 1
    BY <2>1 DEF ReadPath
  <2>4. ~readsClosed =>
          chunks' \in Seq(Nat) /\ Len(chunks') = Len(chunks) + 1 /\ CountsFrom(chunks', consumed)
    BY <2>1, <2>3, Counting DEF StreamTypes, ReadPath
  <2>5. StreamTypes' /\ ReadPath'
    BY <2>1, <2>3, <2>4, <1>c DEF adapter, StreamTypes, ReadPath
  <2> QED
    BY <2>2, <2>5
<1> QED
  BY <1>1, <1>2, <1>3, <1>4, <1>5, <1>6, <1>7 DEF PumpStep

(* The user's calls take chunks in order, and are vouched for only what was written. *)
LEMMA UserKeepsInv ==
  ASSUME StreamInv,
         \/ PollWrite \/ PollRead \/ \E what \in {"flush", "shutdown", "recover"} : Ask(what)
         \/ PollFlush \/ PollShutdown \/ ShutdownAndRecover
  PROVE  StreamInv'
<1> USE DEF StreamInv
<1>c. Len(put) \in Nat /\ Len(requests) \in Nat /\ Len(chunks) \in Nat
  BY DEF StreamTypes
<1>1. CASE PollWrite
  <2>1. /\ user = "free" /\ ~failure /\ ~writesClosed /\ pump # "exit"
        /\ accepted' = accepted + 1 /\ requests' = Append(requests, accepted + 1)
        /\ UNCHANGED <<user, writesClosed, readsClosed, consumed, flushed, pumpVars>>
    BY <1>1 DEF PollWrite
  <2>2. Handled \in Nat /\ CountsFrom(requests, Handled) /\ accepted = Handled + Len(requests)
    BY <2>1, <1>c DEF WritePath, Handled
  <2>3. accepted + 1 = Handled + Len(requests) + 1
    BY <2>2, <1>c
  <2>4. /\ requests' \in Seq(Nat) /\ Len(requests') = Len(requests) + 1
        /\ CountsFrom(requests', Handled)
    BY <2>1, <2>2, <2>3, Counting DEF StreamTypes
  <2>5. Handled' = Handled
    BY <2>1 DEF Handled, pumpVars
  <2>6. StreamTypes' /\ ReadPath' /\ Endings'
    BY <2>1, <2>4, <1>c DEF pumpVars, StreamTypes, ReadPath, Endings
  <2>7. WritePath'
    BY <2>1, <2>2, <2>4, <2>5, <1>c DEF pumpVars, WritePath, StreamTypes
  <2> QED
    BY <2>6, <2>7
<1>2. CASE PollRead
  <2>1. /\ user = "free" /\ chunks # <<>> /\ consumed' = Head(chunks) /\ chunks' = Tail(chunks)
        /\ UNCHANGED <<user, accepted, requests, writesClosed, readsClosed, flushed, pump, inHand,
                       pendingRead, arrived, put, failure, exitFailure>>
    BY <1>2 DEF PollRead
  <2>2. /\ Head(chunks) = consumed + 1 /\ Tail(chunks) \in Seq(Nat)
        /\ Len(Tail(chunks)) = Len(chunks) - 1 /\ CountsFrom(Tail(chunks), consumed + 1)
    BY <2>1, Counting DEF StreamTypes, ReadPath
  <2>3. StreamTypes' /\ WritePath' /\ Endings'
    BY <2>1, <2>2 DEF StreamTypes, WritePath, Handled, Endings
  <2>4. CountsFrom(chunks', consumed')
    BY <2>1, <2>2
  <2>5. consumed' + Len(chunks') = consumed + Len(chunks)
    BY <2>1, <2>2, <1>c DEF StreamTypes
  <2>6. ReadPath'
    BY <2>1, <2>4, <2>5 DEF ReadPath
  <2> QED
    BY <2>3, <2>6
<1>3. ASSUME NEW what \in {"flush", "shutdown", "recover"}, Ask(what) PROVE StreamInv'
  BY <1>3 DEF Ask, pumpVars, StreamTypes, WritePath, Handled, ReadPath, Endings
<1>4. CASE PollFlush
  BY <1>4, <1>c
     DEF PollFlush, AllCompleted, pumpVars, StreamTypes, WritePath, Handled, ReadPath, Endings
<1>5. CASE PollShutdown
  BY <1>5, <1>c
     DEF PollShutdown, AllCompleted, pumpVars, StreamTypes, WritePath, Handled, ReadPath, Endings
<1>6. CASE ShutdownAndRecover
  BY <1>6, <1>c
     DEF ShutdownAndRecover, pumpVars, StreamTypes, WritePath, Handled, ReadPath, Endings
<1> QED
  BY <1>1, <1>2, <1>3, <1>4, <1>5, <1>6

(* The invariant gives the sequences their values, element by element. *)
LEMMA StreamInvImplies == StreamInv => StreamIsFaithful
<1> SUFFICES ASSUME StreamInv PROVE StreamIsFaithful
  OBVIOUS
<1> USE DEF StreamInv
<1> DEFINE Upto(n) == [i \in 1..n |-> i]
<1>u. \A n \in Nat : Upto(n) \in Seq(Nat) /\ Len(Upto(n)) = n
  OBVIOUS
<1>c. Len(put) \in Nat /\ Len(chunks) \in Nat
  BY DEF StreamTypes
<1>1. WritesInOrder
  <2>1. \A i \in 1..Len(put) : put[i] = Upto(Len(put))[i]
    BY <1>c DEF WritePath, CountsFrom
  <2>2. put = Upto(Len(put))
    BY <2>1, <1>u, <1>c, SeqEqual DEF StreamTypes
  <2> QED
    BY <2>2 DEF WritesInOrder
<1>2. ASSUME ~readsClosed
      PROVE  Upto(consumed) \o chunks \o (IF pendingRead = 0 THEN <<>> ELSE <<pendingRead>>)
               = Upto(arrived)
  <2> DEFINE rest == IF pendingRead = 0 THEN <<>> ELSE <<pendingRead>>
             front == Upto(consumed) \o chunks
  <2>t. consumed \in Nat /\ arrived \in Nat /\ pendingRead \in Nat /\ chunks \in Seq(Nat)
    BY DEF StreamTypes
  <2>1. /\ rest \in Seq(Nat) /\ Len(rest) = (IF pendingRead = 0 THEN 0 ELSE 1)
        /\ pendingRead # 0 => rest[1] = consumed + Len(chunks) + 1
    BY <2>t DEF ReadPath
  <2>2. /\ front \in Seq(Nat) /\ Len(front) = consumed + Len(chunks)
        /\ \A i \in 1..(consumed + Len(chunks)) : front[i] = i
    <3>1. /\ front \in Seq(Nat) /\ Len(front) = consumed + Len(chunks)
          /\ \A i \in 1..(consumed + Len(chunks)) :
               front[i] = IF i <= consumed THEN Upto(consumed)[i] ELSE chunks[i - consumed]
      BY <1>u, <2>t, ConcatProperties
    <3> HIDE DEF front
    <3>2. ASSUME NEW i \in 1..(consumed + Len(chunks)) PROVE front[i] = i
      <4>1. CASE i <= consumed
        BY <4>1, <3>1, <2>t
      <4>2. CASE ~(i <= consumed)
        <5>1. i - consumed \in 1..Len(chunks)
          BY <4>2, <2>t, <1>c
        <5> QED
          BY <4>2, <5>1, <3>1, <2>t, SMTT(30) DEF ReadPath, CountsFrom
      <4> QED
        BY <4>1, <4>2
    <3> QED
      BY <3>1, <3>2
  <2> HIDE DEF rest, front
  <2>3. arrived = consumed + Len(chunks) + Len(rest)
    BY <1>2, <2>1 DEF ReadPath
  <2>4. /\ front \o rest \in Seq(Nat) /\ Len(front \o rest) = arrived
        /\ \A i \in 1..arrived :
             (front \o rest)[i] = IF i <= Len(front) THEN front[i] ELSE rest[i - Len(front)]
    <3>1. /\ front \o rest \in Seq(Nat) /\ Len(front \o rest) = Len(front) + Len(rest)
          /\ \A i \in 1..(Len(front) + Len(rest)) :
               (front \o rest)[i] = IF i <= Len(front) THEN front[i] ELSE rest[i - Len(front)]
      BY <2>1, <2>2, ConcatProperties
    <3>2. Len(front) + Len(rest) = arrived
      BY <2>2, <2>3
    <3> QED
      BY <3>1, <3>2
  <2>5. ASSUME NEW i \in 1..arrived PROVE (front \o rest)[i] = Upto(arrived)[i]
    <3>1. CASE i <= Len(front)
      BY <3>1, <2>2, <2>4, <2>t, <1>c
    <3>2. CASE ~(i <= Len(front))
      <4>1. pendingRead # 0 /\ i - Len(front) = 1
        BY <3>2, <2>1, <2>2, <2>3, <2>t, <1>c
      <4> QED
        BY <3>2, <4>1, <2>1, <2>2, <2>4, <2>t, <1>c
    <3> QED
      BY <3>1, <3>2
  <2>6. front \o rest = Upto(arrived)
    BY <2>4, <2>5, <1>u, <2>t, SeqEqual
  <2> QED
    BY <2>6 DEF front, rest
<1>3. ReadsInOrder
  BY <1>2 DEF ReadsInOrder
<1>4. OkMeansWritten /\ FailureIsReported
  BY DEF OkMeansWritten, FailureIsReported, Endings
<1> QED
  BY <1>1, <1>3, <1>4 DEF StreamIsFaithful

(* The adapter is a faithful stream, whatever the capacities: accepted bytes are written
   once and in order, arriving ones are read once and in order, Ok of flush and shutdown
   vouches for every accepted write, and a transport that failed is not handed back as
   recovered (StreamAdapter, run_pump). *)
THEOREM StreamFaithful == StreamSpec => []StreamIsFaithful
<1>1. StreamInv /\ [StreamNext]_streamVars => StreamInv'
  <2> SUFFICES ASSUME StreamInv, [StreamNext]_streamVars PROVE StreamInv'
    OBVIOUS
  <2>1. CASE UNCHANGED streamVars
    BY <2>1 DEF streamVars, StreamInv, StreamTypes, WritePath, Handled, ReadPath, Endings
  <2> QED
    BY <2>1, PumpKeepsInv, UserKeepsInv DEF StreamNext
<1> QED
  BY <1>1, StreamInvInit, StreamInvImplies, PTL DEF StreamSpec
==============================================================================
