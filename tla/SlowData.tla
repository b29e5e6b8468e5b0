------------------------------- MODULE SlowData -------------------------------
(***************************************************************************)
(* Text and GPS carried in the slow data of D-STAR voice frames            *)
(* (dstar-gateway-core/src/slowdata, lodestar-core/src/session.rs).  A     *)
(* talker sends superframes of Period frames; frame 0 is the sync frame,   *)
(* every pair (1,2), (3,4), ... carries one block in two halves.  Frames   *)
(* get lost on the way to the receiver, which must not join halves of      *)
(* different blocks.  The gateway also reads the text that its own user    *)
(* transmits.                                                              *)
(* A half is known by its place; its first byte reads as a type, which the *)
(* talker chooses for a first half and which can be any for a second half. *)
(***************************************************************************)
EXTENDS Integers, Sequences

CONSTANTS
  Period,       \* frames of a superframe, 21
  TextBlocks,   \* TEXT_BLOCK_COUNT, 4
  Talks,        \* bound: the frames of each transmission, in order
  MaxBurst      \* frames lost in a row, less than a superframe

ASSUME SlowDataConstants ==
  /\ Period \in Nat /\ Period % 2 = 1 /\ TextBlocks \in 1..((Period - 1) \div 2)
  /\ Talks \in Seq(Nat) /\ MaxBurst \in 0..(Period - 1)

VARIABLES
  talk,      \* the transmission: its number, the next frame, frames lost since one arrived
  way,       \* "heard" from a reflector, or "sent" by the gateway's own user, or "none"
  slow,     \* Option<StreamSlowDataState> of a stream that is heard
  tx,        \* TxTextState: the collector and latest
  told,      \* ghost: the texts reported, with the transmission they are reported for
  pairs,    \* ghost: the pair of halves that made the last GPS chunk, the last text block
  intact     \* ghost: no frame was lost since the last sync frame that arrived

slowVars == <<talk, way, slow, tx, told, pairs, intact>>

Gps == TextBlocks
Other == TextBlocks + 1
Types == 0..Other          \* a text block's index, or one of the above
NoHalf == [talk |-> 0, frame |-> 0, type |-> Other]
NoPair == <<NoHalf, NoHalf>>
Halves(numbers, frames) == [talk : numbers, frame : frames, type : Types]
NoState == [some |-> FALSE]

\* Both halves of one block of one transmission.
OneBlock(pair) ==
  pair = NoPair
    \/ /\ pair[1].talk = pair[2].talk /\ pair[2].frame = pair[1].frame + 1
       /\ (pair[1].frame % Period) % 2 = 1

(***************************************************************************)
(* SlowDataTextCollector.                                                  *)
(***************************************************************************)
NewCollector == [second |-> FALSE, first |-> NoHalf, slots |-> [i \in {} |-> NoPair]]

\* commit_block: only a text block fills a slot.
Commit(c, half) ==
  LET type == c.first.type
      slots == [i \in DOMAIN c.slots \cup {type} |->
                  IF i = type THEN <<c.first, half>> ELSE c.slots[i]]
  IN [c EXCEPT !.second = FALSE, !.slots = IF type < TextBlocks THEN slots ELSE @]

Push(c, half, seq) ==
  IF seq = 0 THEN [c EXCEPT !.second = FALSE]
  ELSE IF ~c.second THEN [c EXCEPT !.second = TRUE, !.first = half]
  ELSE Commit(c, half)

Complete(c) == DOMAIN c.slots = 0..(TextBlocks - 1)
\* take_message: the message, and the collector armed again.
Rearmed(c) == [c EXCEPT !.slots = NewCollector.slots]

(***************************************************************************)
(* StreamSlowDataState: the same halves again, for GPS.                    *)
(***************************************************************************)
NewState(n) ==
  [some |-> TRUE, stream |-> n, second |-> FALSE, first |-> NoHalf, last |-> -1,
   collector |-> NewCollector, text |-> NewCollector.slots]

\* A frame that does not follow the last one ends the block in hand.
AfterGap(s, seq) ==
  IF s.last # -1 /\ seq # (s.last + 1) % Period THEN [s EXCEPT !.second = FALSE] ELSE s

\* commit_text: a complete message is taken when the dispatcher meets a text block.
CommitText(s, type) ==
  IF type < TextBlocks /\ Complete(s.collector)
  THEN [s EXCEPT !.text = s.collector.slots, !.collector = Rearmed(@)] ELSE s

\* push: the next state, and whether a GPS chunk was taken in.
StatePush(s0, half, seq) ==
  LET next == [AfterGap(s0, seq) EXCEPT !.last = seq, !.collector = Push(s0.collector, half, seq)]
  IN IF seq = 0 THEN [next EXCEPT !.second = FALSE]
     ELSE IF seq % 2 = 1 THEN [next EXCEPT !.second = TRUE, !.first = half]
     ELSE IF ~next.second THEN next
     ELSE CommitText([next EXCEPT !.second = FALSE], next.first.type)
TakesGps(s, seq) ==
  AfterGap(s, seq).second /\ seq # 0 /\ seq % 2 = 0 /\ s.first.type = Gps

\* The block the collector finishes with this frame, if it is text.
TakesText(c, seq) == seq # 0 /\ c.second /\ c.first.type < TextBlocks

(***************************************************************************)
(* handle_event of lodestar's session task.                                *)
(***************************************************************************)
Report(n, text) == told' = told \cup {[talk |-> n, text |-> text]}

HearStart ==
  /\ way = "none" /\ talk.number < Len(Talks)
  /\ way' = "heard" /\ talk' = [number |-> talk.number + 1, next |-> 0, gap |-> 0]
  /\ slow' = NewState(talk.number + 1) /\ intact' = FALSE
  /\ UNCHANGED <<tx, told, pairs>>

\* What the talker puts in the next frame.
Carries(half) ==
  /\ talk.next < Talks[talk.number]
  /\ half \in Halves({talk.number}, {talk.next})
  /\ talk.next % Period = 0 => half.type = Other

Arrives == talk' = [talk EXCEPT !.next = @ + 1, !.gap = 0]

HearFrame ==
  /\ way = "heard" /\ Arrives
  /\ \E half \in Halves({talk.number}, {talk.next}) :
       LET seq == talk.next % Period
           s == StatePush(slow, half, seq)
       IN /\ Carries(half) /\ slow' = s
          /\ pairs' =
               [gps |-> IF TakesGps(slow, seq) THEN <<slow.first, half>> ELSE pairs.gps,
                text |-> IF TakesText(slow.collector, seq) THEN <<slow.collector.first, half>>
                         ELSE pairs.text]
          /\ IF s.text # slow.text THEN Report(slow.stream, s.text) ELSE UNCHANGED told
          /\ intact' = (intact \/ seq = 0)
  /\ UNCHANGED <<way, tx>>

\* The network or the radio path loses a frame.
LoseFrame ==
  /\ way # "none" /\ talk.next < Talks[talk.number] /\ talk.gap < MaxBurst
  /\ talk' = [talk EXCEPT !.next = @ + 1, !.gap = @ + 1] /\ intact' = FALSE
  /\ UNCHANGED <<way, slow, tx, told, pairs>>

HearEnd ==
  /\ way = "heard" /\ way' = "none" /\ slow' = NoState
  /\ IF slow.text # NewCollector.slots THEN Report(talk.number, slow.text) ELSE UNCHANGED told
  /\ UNCHANGED <<talk, tx, pairs, intact>>

(***************************************************************************)
(* The user's own transmission, in run_session_task.                       *)
(***************************************************************************)
NewTx == [collector |-> NewCollector, latest |-> NewCollector.slots]

\* Mutant: what the last transmission left stays.
TxHeaderKept == tx
\* A header starts afresh, also after a transmission without an end.
TxHeader == NewTx

SendHeader ==
  /\ way \in {"none", "sent"} /\ talk.number < Len(Talks)
  /\ way' = "sent" /\ talk' = [number |-> talk.number + 1, next |-> 0, gap |-> 0]
  /\ tx' = TxHeader /\ intact' = FALSE
  /\ UNCHANGED <<slow, told, pairs>>

\* TxTextState::ingest.
Ingest(t, half, seq) ==
  LET c == Push(t.collector, half, seq)
  IN IF Complete(c) THEN [collector |-> Rearmed(c), latest |-> c.slots]
     ELSE [t EXCEPT !.collector = c]

SendVoice ==
  /\ way = "sent" /\ Arrives
  /\ \E half \in Halves({talk.number}, {talk.next}) :
       LET seq == talk.next % Period
       IN /\ Carries(half) /\ tx' = Ingest(tx, half, seq)
          /\ pairs' = IF TakesText(tx.collector, seq)
                       THEN [pairs EXCEPT !.text = <<tx.collector.first, half>>] ELSE pairs
          /\ intact' = (intact \/ seq = 0)
  /\ UNCHANGED <<way, slow, told>>

\* The reply carries the text.
SendEot ==
  /\ way = "sent" /\ way' = "none" /\ tx' = NewTx
  /\ IF tx.latest # NewCollector.slots THEN Report(talk.number, tx.latest) ELSE UNCHANGED told
  /\ UNCHANGED <<talk, slow, pairs, intact>>

SlowInit ==
  /\ talk = [number |-> 0, next |-> 0, gap |-> 0] /\ way = "none" /\ slow = NoState /\ tx = NewTx
  /\ told = {} /\ pairs = [gps |-> NoPair, text |-> NoPair] /\ intact = FALSE
SlowNext ==
  \/ HearStart \/ HearFrame \/ LoseFrame \/ HearEnd \/ SendHeader \/ SendVoice \/ SendEot
SlowSpec == SlowInit /\ [][SlowNext]_slowVars

(* A GPS chunk is the two halves of one block: whatever frames are lost, less than a      *)
(* superframe in a row, halves of two blocks are never joined (push: last_sequence,       *)
(* block_phase).                                                                          *)
GpsHalvesBelongTogether == OneBlock(pairs.gps)

(* The text collector, which does not look at gaps, is aligned again at every sync frame  *)
(* that arrives: as long as nothing is lost after it, the halves of a text block belong   *)
(* together (SlowDataTextCollector::push, frame_index 0).                                 *)
TextIsAlignedAfterSync ==
  [][intact /\ intact' /\ pairs'.text # pairs.text => OneBlock(pairs'.text)]_slowVars

(* A text is reported only with the transmission all of its halves came in, also after a  *)
(* transmission whose end never came (VoiceStart, VoiceEnd, TxTextState at a header).       *)
TextOfThisTransmission ==
  \A r \in told : \A i \in DOMAIN r.text : \A h \in 1..2 : r.text[i][h].talk = r.talk

(* Halves, blocks and transmissions are never mixed: GPS chunks and reported texts are each
   from one source, and every sync frame aligns the text collector again. *)
SlowDataIsNotMixed ==
  /\ [](GpsHalvesBelongTogether /\ TextOfThisTransmission)
  /\ TextIsAlignedAfterSync
==============================================================================
