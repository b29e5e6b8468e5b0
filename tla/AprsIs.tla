-------------------------------- MODULE AprsIs --------------------------------
(***************************************************************************)
(* The APRS-IS client (aprs-is/src/client.rs) and its server: a line       *)
(* reader with a length cap whose caller may drop next_event between any   *)
(* two reads, the login state that gates uploads, and a writer that is     *)
(* given up for good when a write does not complete.  A byte is [k, i], the*)
(* i-th of the server's line k, and a line of length Len ends at its last  *)
(* byte, the newline.                                                      *)
(***************************************************************************)
EXTENDS Integers, Sequences, SequencesExt, FiniteSets

CONSTANTS
  MaxLine,         \* MAX_IS_READ_LINE_BYTES
  Scripts,         \* what the server sends on a connection: sequences of [kind, len]
  MaxConnections, MaxUploads   \* bounds: connections made, lines uploaded on each

ASSUME AprsIsConstants ==
  {MaxLine, MaxConnections, MaxUploads} \subseteq Nat \ {0}

VARIABLES
  receiveOnly,     \* the configured passcode is Passcode::ReceiveOnly
  conn,            \* the number of the current connection
  script, stream, closed,   \* the server's lines, the bytes under way, whether it hung up
  buf, overflowed, complete,   \* line_buf, line_overflowed, line_complete
  reading,         \* next_event is waiting for bytes
  login,           \* login_state
  writer,          \* "idle", "writing" (a call is in progress) or "retired"
  line,            \* the line being written
  returned,          \* history: what next_event returned on this connection
  wire             \* history: the lines on the wire of this connection, [kind, whole]

linkVars == <<receiveOnly, conn, script>>
readVars == <<buf, overflowed, complete, reading, returned>>
sendVars == <<writer, line, wire>>
aprsIsVars == <<linkVars, stream, closed, login, readVars, sendVars>>

BytesOf(k, len) == [i \in 1..len |-> [k |-> k, i |-> i]]
Ends(b) == b.i = script[b.k].len
Stream(s) == FlattenSeq([k \in DOMAIN s |-> BytesOf(k, s[k].len)])

\* connect: the login line is written before there is a client.
Connected(s) ==
  /\ script' = s /\ stream' = Stream(s) /\ closed' = FALSE
  /\ buf' = <<>> /\ overflowed' = FALSE /\ complete' = FALSE /\ reading' = FALSE
  /\ login' = "Pending" /\ writer' = "idle" /\ line' = ""
  /\ returned' = <<>> /\ wire' = <<>>

AprsIsInit ==
  /\ receiveOnly \in BOOLEAN /\ conn = 1
  /\ script \in Scripts /\ stream = Stream(script) /\ closed = FALSE
  /\ buf = <<>> /\ overflowed = FALSE /\ complete = FALSE /\ reading = FALSE
  /\ login = "Pending" /\ writer = "idle" /\ line = "" /\ returned = <<>> /\ wire = <<>>

\* The client's methods take &mut self: one is in progress at a time.
Free == ~reading /\ writer # "writing"

\* reconnect replaces the client only when the new connection stands.
Reconnect(s) ==
  /\ Free /\ conn < MaxConnections
  /\ conn' = conn + 1 /\ Connected(s) /\ UNCHANGED receiveOnly

\* What next_event returned: a line's bytes, "TooLong" or "Disconnected".
Got(what, bytes) == [what |-> what, bytes |-> bytes]

-----------------------------------------------------------------------------
(* next_event.                                                             *)

\* Mutant: the overflow of a completed line is not reset.
NextEventKeeping ==
  /\ Free /\ reading' = TRUE
  /\ complete' = FALSE
  /\ IF complete THEN buf' = <<>> /\ UNCHANGED overflowed ELSE UNCHANGED <<buf, overflowed>>
  /\ UNCHANGED <<linkVars, sendVars, stream, closed, login, returned>>

\* A prefix kept from a dropped call is continued, a returned line is cleared.
NextEvent ==
  /\ Free /\ reading' = TRUE
  /\ complete' = FALSE
  /\ buf' = IF complete THEN <<>> ELSE buf
  /\ overflowed' = (overflowed /\ ~complete)
  /\ UNCHANGED <<linkVars, sendVars, stream, closed, login, returned>>

CancelRead ==
  /\ reading /\ reading' = FALSE
  /\ UNCHANGED <<linkVars, sendVars, stream, closed, buf, overflowed, complete, login, returned>>

\* What a complete line means; a packet or comment leaves the login state alone.
LoginAfter(kind) ==
  IF login # "Pending" \/ kind \notin {"verified", "unverified"} THEN login
  ELSE IF kind = "verified" THEN "Verified"
  ELSE IF receiveOnly THEN "ReceiveOnly" ELSE "Rejected"

Room == MaxLine - Len(buf)

\* One pass of read_is_line: n bytes of a chunk, up to and including a newline if it has
\* one; what exceeds the cap is dropped until the newline.
ReadChunk(n) ==
  LET chunk == SubSeq(stream, 1, n)
      ended == Ends(chunk[n])
      room == Room
      fits == ~overflowed /\ n <= room IN
  /\ reading /\ n <= Len(stream) /\ \A i \in 1..(n - 1) : ~Ends(chunk[i])
  /\ stream' = SubSeq(stream, n + 1, Len(stream))
  /\ IF ended
     THEN /\ reading' = FALSE /\ complete' = TRUE
          /\ buf' = IF fits THEN buf \o chunk ELSE buf
          /\ returned' = Append(returned, IF fits THEN Got("Line", buf \o chunk)
                                     ELSE Got("TooLong", <<>>))
          /\ login' = IF fits THEN LoginAfter(script[chunk[n].k].kind) ELSE login
          /\ UNCHANGED overflowed
     ELSE /\ buf' = IF n <= room THEN buf \o chunk ELSE buf \o SubSeq(chunk, 1, room)
          /\ overflowed' = (overflowed \/ n > room)
          /\ UNCHANGED <<reading, complete, returned, login>>
  /\ UNCHANGED <<linkVars, sendVars, closed>>

\* End of file: an unterminated line within the cap is returned, and may still parse;
\* then Disconnected.
ReadEof ==
  /\ reading /\ stream = <<>> /\ closed
  /\ reading' = FALSE /\ complete' = TRUE
  /\ Len(returned) <= Len(script)
  /\ returned' = Append(returned, IF overflowed THEN Got("TooLong", <<>>)
                              ELSE IF buf = <<>> THEN Got("Disconnected", <<>>)
                              ELSE Got("Line", buf))
  /\ login' \in IF overflowed \/ buf = <<>> THEN {login}
                ELSE {login, LoginAfter(script[buf[1].k].kind)}
  /\ UNCHANGED <<linkVars, sendVars, stream, closed, buf, overflowed>>

ServerCloses(keep) ==
  /\ ~closed /\ closed' = TRUE
  /\ stream' = SubSeq(stream, 1, keep)
  /\ UNCHANGED <<linkVars, readVars, sendVars, login>>

-----------------------------------------------------------------------------
(* send_uplink_line.                                                       *)

MayUpload(kind) == kind = "comment" \/ login = "Verified"

StartUpload(kind) ==
  /\ Free /\ writer = "idle" /\ MayUpload(kind) /\ Len(wire) < MaxUploads
  /\ writer' = "writing" /\ line' = kind
  /\ UNCHANGED <<linkVars, readVars, stream, closed, login, wire>>

\* The writer was taken for the call; a failure, a timeout or a dropped call keeps it.
EndUpload(ok, whole) ==
  /\ writer = "writing" /\ (ok => whole)
  /\ writer' = IF ok THEN "idle" ELSE "retired"
  /\ wire' = Append(wire, [kind |-> line, whole |-> whole])
  /\ UNCHANGED <<linkVars, readVars, stream, closed, login, line>>

AprsIsNext ==
  \/ \E s \in Scripts : Reconnect(s)
  \/ NextEvent \/ CancelRead \/ ReadEof
  \/ \E n \in 1..Len(stream) : ReadChunk(n)
  \/ \E keep \in 0..Len(stream) : ServerCloses(keep)
  \/ \E kind \in {"packet", "comment"} : StartUpload(kind)
  \/ \E ok, whole \in BOOLEAN : EndUpload(ok, whole)

AprsIsSpec == AprsIsInit /\ [][AprsIsNext]_aprsIsVars

-----------------------------------------------------------------------------

\* However reads are split and calls dropped, next_event returns the server's lines, each
\* one whole and once, in order; an oversized line is refused and costs no other line.
\* Only where the server hung up may a line be cut short.
LinesAreFramed ==
  \A i \in DOMAIN returned :
    IF i > Len(script) THEN returned[i].what = "Disconnected"
    ELSE LET whole == BytesOf(i, script[i].len) IN
         \/ returned[i] = IF Len(whole) <= MaxLine THEN Got("Line", whole)
                        ELSE Got("TooLong", <<>>)
         \/ closed /\ stream = <<>> /\
              (returned[i].what = "Disconnected" \/ IsPrefix(returned[i].bytes, whole))

\* A packet is uploaded only on a connection whose own server verified the login.
UploadsAreVerified ==
  \A i \in DOMAIN wire : wire[i].kind = "packet" =>
    \E j \in DOMAIN script :
      /\ script[j].kind = "verified"
      /\ j \in DOMAIN returned /\ returned[j].bytes # <<>>

\* Nothing follows a line that was cut short on the wire.
WireIsWhole ==
  \A i \in DOMAIN wire : i < Len(wire) => wire[i].whole

\* Neither direction of the connection mixes lines, and packets are sent only once verified.
LinesAreWhole ==
  LinesAreFramed /\ WireIsWhole /\ UploadsAreVerified
==============================================================================
