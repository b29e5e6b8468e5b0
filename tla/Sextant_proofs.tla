--------------------------- MODULE Sextant_proofs ---------------------------
(***************************************************************************)
(* Theorems about the GUI client, for every capacity of the command queue  *)
(* and however often the operator acts and the link is lost.               *)
(***************************************************************************)
EXTENDS Sextant, SequenceTheorems, TLAPS

Commands == [type : {"Connect", "TxSilence", "StartTx", "TxFrame", "EndTx"}, issued : Nat]

SextantTypes ==
    /\ shown \in {"Disconnected", "Connecting", "Connected", "Disconnecting"}
    /\ news \in {Read, "Disconnected", "Connecting", "Connected", "Disconnecting"}
    /\ unlinks \in Nat /\ seenUnlinks \in Nat /\ attempt \in Nat
    /\ starts \in Seq(BOOLEAN) /\ commands \in Seq(Commands)
    /\ audio \in {"top", "commands", "starting"}
    /\ task \in {"select", "superseding", "retiring", "connecting", "reconnecting", "silence", "ended"}
    /\ link \in {"none", "up", "down"} /\ afterwards \in {"select", "reconnect", "ended"}
    /\ stream \in {"none", "ptt", "silence"} /\ wire \in {"none", "ptt", "silence"}
SextantFlags ==
    /\ held \in BOOLEAN /\ quit \in BOOLEAN /\ stopRequest \in BOOLEAN
    /\ capturing \in BOOLEAN /\ pendingEnd \in BOOLEAN /\ identity \in BOOLEAN

(* Of a queue q of commands: an end behind position i, an end behind every start, and
   the generations its commands were issued in. *)
EndBehind(q, i) == \E j \in 1..Len(q) : j > i /\ q[j].type = "EndTx"
StartsEnd(q) == \A i \in 1..Len(q) : q[i].type = "StartTx" => EndBehind(q, i)
IssuedIn(q, low, high) == \A i \in 1..Len(q) : low <= q[i].issued /\ q[i].issued <= high

(* Every start, open or queued, has its end behind it, in the queue or with the worker,
   which captures or holds the end back; the silence test has its own. *)
EndInv ==
    /\ stream = "ptt" => \/ capturing \/ pendingEnd \/ EndBehind(commands, 0)
                         \/ task \in {"superseding", "retiring"}
    /\ capturing \/ pendingEnd \/ StartsEnd(commands)
    /\ stream = "silence" => task \in {"silence", "superseding", "retiring"} \/ Requested

(* A start that no stop has overtaken has its operator. *)
StopInv ==
    /\ \A i \in 1..Len(starts) : starts[i] => held
    /\ audio = "starting" \/ capturing => held \/ stopRequest

(* A live link and the session task agree on whether a stream is open; a link is made only
   where there is none. *)
WireInv ==
    /\ clash = FALSE
    /\ link = "none" => wire = "none"
    /\ link = "up" /\ wire # "none" => stream # "none"
    /\ task \in {"connecting", "reconnecting"} => link = "none"
    /\ task \in {"retiring", "silence"} => link # "none"

(* What was issued before the unlink last seen is not in the queue, and everything that
   came of it was dropped with it, but for a session that is being retired. *)
UnlinkInv ==
    /\ seenUnlinks <= unlinks /\ IssuedIn(commands, seenUnlinks, unlinks)
    /\ (link # "none" \/ attempt # 0) /\ task # "superseding" =>
         lastCfg = seenUnlinks \/ (task = "retiring" /\ afterwards # "reconnect")
    /\ task = "connecting" => trying = seenUnlinks
    /\ task = "reconnecting" => attempt # 0
    /\ attempt # 0 => link = "none" /\ task # "superseding"

(* The status that the GUI shows or has yet to read. *)
Told == IF news = Read THEN shown ELSE news

StatusInv ==
    /\ task \in {"select", "silence"} =>
         (identity <=> link # "none") /\ (Told = "Connected" <=> link # "none")
    /\ task \in {"connecting", "reconnecting"} => Told # "Connected" /\ ~identity
    /\ task = "retiring" => ~identity

SextantInv ==
    SextantTypes /\ SextantFlags /\ EndInv /\ StopInv /\ WireInv /\ UnlinkInv /\ StatusInv

(* A command that is queued: an end serves every start before it, and only a start needs
   one (Enqueued). *)
LEMMA Queued ==
  ASSUME NEW q \in Seq(Commands), NEW c \in Commands
  PROVE  LET a == Append(q, c)
         IN /\ a \in Seq(Commands)
            /\ EndBehind(q, 0) => EndBehind(a, 0)
            /\ c.type = "EndTx" => EndBehind(a, 0) /\ StartsEnd(a)
            /\ c.type # "StartTx" /\ StartsEnd(q) => StartsEnd(a)
            /\ \A low, high \in Nat :
                 IssuedIn(q, low, high) /\ low <= c.issued /\ c.issued <= high => IssuedIn(a, low, high)
<1> DEFINE a == Append(q, c)
<1>1. /\ Len(q) \in Nat /\ a \in Seq(Commands) /\ Len(a) = Len(q) + 1 /\ a[Len(q) + 1] = c
      /\ \A i \in 1..Len(q) : a[i] = q[i]
  BY AppendProperties
<1> HIDE DEF a
<1>2. \A i : EndBehind(q, i) => EndBehind(a, i)
  BY <1>1 DEF EndBehind
<1>3. c.type = "EndTx" => EndBehind(a, 0) /\ StartsEnd(a)
  BY <1>1 DEF EndBehind, StartsEnd
<1>4. c.type # "StartTx" /\ StartsEnd(q) => StartsEnd(a)
  BY <1>1, <1>2 DEF StartsEnd
<1>5. \A low, high \in Nat :
        IssuedIn(q, low, high) /\ low <= c.issued /\ c.issued <= high => IssuedIn(a, low, high)
  BY <1>1 DEF IssuedIn
<1> QED
  BY <1>1, <1>2, <1>3, <1>4, <1>5 DEF a

(* A command that is taken (TakeCommand): only the end itself loses an end. *)
LEMMA Taken ==
  ASSUME NEW q \in Seq(Commands), q # << >>
  PROVE  /\ Tail(q) \in Seq(Commands) /\ Head(q) \in Commands
         /\ EndBehind(q, 0) /\ Head(q).type # "EndTx" => EndBehind(Tail(q), 0)
         /\ StartsEnd(q) => StartsEnd(Tail(q)) /\ (Head(q).type = "StartTx" => EndBehind(Tail(q), 0))
         /\ \A low, high \in Nat :
              IssuedIn(q, low, high) =>
                low <= Head(q).issued /\ Head(q).issued <= high /\ IssuedIn(Tail(q), low, high)
<1> DEFINE t == Tail(q)
<1>1. /\ Len(q) \in Nat /\ Len(q) # 0 /\ t \in Seq(Commands) /\ Len(t) = Len(q) - 1
      /\ Head(q) = q[1] /\ Head(q) \in Commands /\ \A i \in 1..Len(t) : t[i] = q[i + 1]
  BY HeadTailProperties
<1> HIDE DEF t
<1>2. ASSUME NEW i \in Nat, EndBehind(q, i + 1) PROVE EndBehind(t, i)
  <2>1. PICK j \in 1..Len(q) : j > i + 1 /\ q[j].type = "EndTx"
    BY <1>2 DEF EndBehind
  <2>2. j - 1 \in 1..Len(t) /\ t[j - 1] = q[j] /\ j - 1 > i
    BY <1>1, <2>1
  <2> QED
    BY <2>1, <2>2 DEF EndBehind
<1>3. EndBehind(q, 0) /\ Head(q).type # "EndTx" => EndBehind(q, 1)
  BY <1>1 DEF EndBehind
<1>4. ASSUME StartsEnd(q) PROVE StartsEnd(t) /\ (Head(q).type = "StartTx" => EndBehind(t, 0))
  <2>1. ASSUME NEW i \in 1..Len(t), t[i].type = "StartTx" PROVE EndBehind(t, i)
    <3>1. i + 1 \in 1..Len(q) /\ q[i + 1].type = "StartTx"
      BY <1>1, <2>1
    <3> QED
      BY <1>2, <1>4, <3>1 DEF StartsEnd
  <2>2. Head(q).type = "StartTx" => EndBehind(q, 0 + 1)
    BY <1>1, <1>4 DEF StartsEnd
  <2> QED
    BY <1>2, <2>1, <2>2 DEF StartsEnd
<1>5. ASSUME NEW low \in Nat, NEW high \in Nat, IssuedIn(q, low, high)
      PROVE  low <= Head(q).issued /\ Head(q).issued <= high /\ IssuedIn(t, low, high)
  BY <1>1, <1>5 DEF IssuedIn
<1>6. EndBehind(q, 0) /\ Head(q).type # "EndTx" => EndBehind(t, 0)
  BY <1>2, <1>3
<1> QED
  BY <1>1, <1>4, <1>5, <1>6 DEF t

(* The starts the GUI has queued: pressed, overtaken by a stop, taken by the worker. *)
LEMMA Starting ==
  ASSUME NEW s \in Seq(BOOLEAN), NEW h \in BOOLEAN, \A i \in 1..Len(s) : s[i] => h
  PROVE  /\ LET a == Append(s, TRUE) IN a \in Seq(BOOLEAN) /\ \A i \in 1..Len(a) : a[i] => TRUE
         /\ LET f == [i \in DOMAIN s |-> FALSE] IN f \in Seq(BOOLEAN) /\ \A i \in 1..Len(f) : ~f[i]
         /\ s # << >> => /\ Tail(s) \in Seq(BOOLEAN) /\ Head(s) \in BOOLEAN /\ (Head(s) => h)
                         /\ \A i \in 1..Len(Tail(s)) : Tail(s)[i] => h
<1>1. LET f == [i \in DOMAIN s |-> FALSE] IN f \in Seq(BOOLEAN) /\ \A i \in 1..Len(f) : ~f[i]
  <2> DEFINE f == [i \in 1..Len(s) |-> FALSE]
  <2>1. DOMAIN s = 1..Len(s) /\ Len(s) \in Nat
    BY LenProperties
  <2>2. f \in [1..Len(s) -> BOOLEAN] /\ \A i \in 1..Len(s) : f[i] = FALSE
    OBVIOUS
  <2> HIDE DEF f
  <2>3. f \in Seq(BOOLEAN)
    BY <2>1, <2>2, SeqDef
  <2>4. Len(f) = Len(s)
    BY <2>1, <2>2, <2>3, LenProperties
  <2> QED
    BY <2>1, <2>2, <2>3, <2>4, Zenon DEF f
<1>2. ASSUME s # << >>
      PROVE  /\ Tail(s) \in Seq(BOOLEAN) /\ Head(s) \in BOOLEAN /\ (Head(s) => h)
             /\ \A i \in 1..Len(Tail(s)) : Tail(s)[i] => h
  <2> DEFINE t == Tail(s)
  <2>1. /\ Head(s) \in BOOLEAN /\ Head(s) = s[1] /\ t \in Seq(BOOLEAN) /\ Len(t) = Len(s) - 1
        /\ \A i \in 1..Len(t) : t[i] = s[i + 1]
    BY <1>2, HeadTailProperties
  <2>2. 1 \in 1..Len(s)
    BY <1>2, LenProperties
  <2> HIDE DEF t
  <2>3. \A i \in 1..Len(t) : i + 1 \in 1..Len(s)
    BY <2>1, LenProperties
  <2> QED
    BY <2>1, <2>2, <2>3, Zenon DEF t
<1> QED
  BY <1>1, <1>2, AppendProperties

(* The same of the variables: a stop leaves no start that it has not overtaken. *)
LEMMA Stopping ==
  ASSUME SextantTypes, Stop
  PROVE  starts' \in Seq(BOOLEAN) /\ stopRequest' = TRUE /\ StopInv'
<1>1. \A i \in 1..Len(starts) : starts[i] => TRUE
  OBVIOUS
<1>2. starts \in Seq(BOOLEAN) /\ TRUE \in BOOLEAN
  BY DEF SextantTypes
<1>3. starts' \in Seq(BOOLEAN) /\ \A i \in 1..Len(starts') : ~starts'[i]
  BY <1>1, <1>2, Starting, Zenon DEF Stop
<1> QED
  BY <1>3, Zenon DEF Stop, StopInv

LEMMA Enqueueing ==
  ASSUME SextantTypes, UnlinkInv,
         NEW t \in {"Connect", "TxSilence", "StartTx", "TxFrame", "EndTx"}, Enqueued(t)
  PROVE  /\ commands' \in Seq(Commands)
         /\ EndBehind(commands, 0) => EndBehind(commands', 0)
         /\ t = "EndTx" => EndBehind(commands', 0) /\ StartsEnd(commands')
         /\ t # "StartTx" /\ StartsEnd(commands) => StartsEnd(commands')
         /\ IssuedIn(commands', seenUnlinks, unlinks)
<1> DEFINE c == Command(t)
<1>1. c \in Commands /\ c.type = t /\ c.issued = unlinks
  BY DEF Command, Commands, SextantTypes
<1>2. commands' = Append(commands, c) /\ commands \in Seq(Commands)
  BY DEF Enqueued, SextantTypes
<1>3. /\ seenUnlinks \in Nat /\ unlinks \in Nat /\ seenUnlinks <= unlinks /\ unlinks <= unlinks
      /\ IssuedIn(commands, seenUnlinks, unlinks)
  BY DEF SextantTypes, UnlinkInv
<1> HIDE DEF c
<1> QED
  BY <1>1, <1>2, <1>3, Queued

(* The client starts without a session, and nobody asks for anything. *)
LEMMA SextantInvInit == SextantInit => SextantInv
<1> SUFFICES ASSUME SextantInit PROVE SextantInv
  OBVIOUS
<1>1. /\ starts \in Seq(BOOLEAN) /\ commands \in Seq(Commands)
      /\ Len(starts) = 0 /\ Len(commands) = 0
  BY EmptySeq DEF SextantInit
<1>2. StartsEnd(commands) /\ IssuedIn(commands, seenUnlinks, unlinks)
      /\ \A i \in 1..Len(starts) : starts[i] => held
  BY <1>1 DEF StartsEnd, IssuedIn
<1>3. SextantTypes
  BY <1>1 DEF SextantInit, SextantTypes
<1>0. SextantFlags
  BY Zenon DEF SextantInit, SextantFlags
<1>4. EndInv /\ StopInv
  BY <1>2 DEF SextantInit, EndInv, StopInv
<1>5. WireInv /\ UnlinkInv
  BY <1>2 DEF SextantInit, WireInv, UnlinkInv
<1>6. StatusInv
  BY DEF SextantInit, StatusInv, Told, Read
<1> QED
  BY <1>0, <1>3, <1>4, <1>5, <1>6 DEF SextantInv

(* A capture that ends leaves its end in the queue or with the worker (EndsCapture). *)
LEMMA Ending ==
  ASSUME SextantTypes, SextantFlags, EndInv, UnlinkInv, NEW stopping \in BOOLEAN, EndsCapture(stopping)
  PROVE  /\ commands' \in Seq(Commands) /\ IssuedIn(commands', seenUnlinks, unlinks)
         /\ EndBehind(commands, 0) => EndBehind(commands', 0)
         /\ capturing' \/ pendingEnd' \/ (StartsEnd(commands') /\ (capturing \/ pendingEnd => EndBehind(commands', 0)))
         /\ capturing' \in BOOLEAN /\ pendingEnd' \in BOOLEAN /\ (capturing' => capturing)
<1>1. CASE Enqueued("EndTx")
  <2>1. /\ commands' \in Seq(Commands) /\ IssuedIn(commands', seenUnlinks, unlinks)
        /\ EndBehind(commands', 0) /\ StartsEnd(commands')
    BY <1>1, Enqueueing
  <2> QED
    BY <2>1, Zenon DEF EndsCapture, SextantFlags
<1>2. CASE UNCHANGED commands
  <2>1. commands' \in Seq(Commands) /\ IssuedIn(commands', seenUnlinks, unlinks)
    BY <1>2, Zenon DEF SextantTypes, UnlinkInv
  <2>2. capturing' \in BOOLEAN /\ pendingEnd' \in BOOLEAN /\ (capturing' => capturing)
    BY Zenon DEF EndsCapture, SextantFlags
  <2>3. (capturing \/ pendingEnd) /\ ~(pendingEnd \/ (stopping /\ capturing)) => capturing'
    BY Zenon DEF EndsCapture
  <2>4. pendingEnd \/ (stopping /\ capturing) => pendingEnd' \/ Enqueued("EndTx")
    BY Zenon DEF EndsCapture
  <2> QED
    BY <1>1, <1>2, <2>1, <2>2, <2>3, <2>4, Zenon DEF EndInv
<1> QED
  BY <1>1, <1>2, Zenon DEF EndsCapture

(* The operator's steps and the GUI's. *)
LEMMA GuiKeepsInv ==
  ASSUME SextantInv, ReadStatus \/ Press \/ Release \/ AskConnect \/ AskSilence \/ Unlink \/ Quit
  PROVE  SextantInv'
<1> USE DEF SextantInv, guiVars, workerVars, taskVars, linkVars
<1>1. CASE ReadStatus
  <2>0. starts' \in Seq(BOOLEAN) /\ stopRequest' \in BOOLEAN /\ StopInv'
    <3>1. CASE Stop
      BY <3>1, Stopping
    <3>2. CASE UNCHANGED <<starts, stopRequest>>
      BY <1>1, <3>2 DEF ReadStatus, Read, StopInv, SextantTypes, SextantFlags
    <3> QED
      BY <1>1, <3>1, <3>2 DEF ReadStatus
  <2>1. EndInv' /\ WireInv' /\ UnlinkInv'
    BY <1>1 DEF ReadStatus, EndInv, Requested, WireInv, UnlinkInv
  <2>2. SextantTypes'
    BY <1>1, <2>0 DEF ReadStatus, Read, SextantTypes
  <2>3. SextantFlags'
    BY <1>1, <2>0, Zenon DEF ReadStatus, Read, SextantFlags
  <2>4. StopInv'
    BY <2>0
  <2>5. StatusInv'
    BY <1>1, <2>0 DEF ReadStatus, Read, StatusInv, Told, SextantTypes, WireInv
  <2> QED
    BY <2>1, <2>2, <2>3, <2>4, <2>5
<1>2. CASE Press
  <2>1. EndInv' /\ WireInv' /\ UnlinkInv' /\ StatusInv'
    BY <1>2 DEF Press, EndInv, Requested, WireInv, UnlinkInv, StatusInv, Told
  <2>2. SextantTypes'
    BY <1>2 DEF Press, Do, SextantTypes
  <2>3. SextantFlags'
    BY <1>2, Zenon DEF Press, Do, SextantFlags
  <2>4. StopInv'
    BY <1>2 DEF Press, Do, StopInv, SextantTypes, SextantFlags
  <2> QED
    BY <2>1, <2>2, <2>3, <2>4
<1>3. CASE Release
  <2>0. starts' \in Seq(BOOLEAN) /\ stopRequest' \in BOOLEAN /\ StopInv'
    BY <1>3, Stopping DEF Release
  <2>1. EndInv' /\ WireInv' /\ UnlinkInv' /\ StatusInv'
    BY <1>3 DEF Release, EndInv, Requested, WireInv, UnlinkInv, StatusInv, Told
  <2>2. SextantTypes'
    BY <1>3, <2>0 DEF Release, SextantTypes
  <2>3. SextantFlags'
    BY <1>3, <2>0, Zenon DEF Release, SextantFlags
  <2>4. StopInv'
    BY <2>0
  <2> QED
    BY <2>1, <2>2, <2>3, <2>4
<1>4. CASE AskConnect
  <2>0. /\ commands' \in Seq(Commands) /\ IssuedIn(commands', seenUnlinks, unlinks)
        /\ EndBehind(commands, 0) => EndBehind(commands', 0)
        /\ StartsEnd(commands) => StartsEnd(commands')
    BY <1>4, Enqueueing DEF AskConnect
  <2>1. StopInv' /\ WireInv' /\ StatusInv'
    BY <1>4 DEF AskConnect, StopInv, WireInv, StatusInv, Told
  <2>2. SextantTypes'
    BY <1>4, <2>0 DEF AskConnect, Do, SextantTypes
  <2>3. SextantFlags'
    BY <1>4, <2>0, Zenon DEF AskConnect, Do, SextantFlags
  <2>4. EndInv'
    BY <1>4, <2>0 DEF AskConnect, Do, EndInv, Requested
  <2>5. UnlinkInv'
    BY <1>4, <2>0 DEF AskConnect, Do, UnlinkInv, SextantTypes, SextantFlags
  <2> QED
    BY <2>1, <2>2, <2>3, <2>4, <2>5
<1>5. CASE AskSilence
  <2>0. /\ commands' \in Seq(Commands) /\ IssuedIn(commands', seenUnlinks, unlinks)
        /\ EndBehind(commands, 0) => EndBehind(commands', 0)
        /\ StartsEnd(commands) => StartsEnd(commands')
    BY <1>5, Enqueueing DEF AskSilence
  <2>1. StopInv' /\ WireInv' /\ StatusInv'
    BY <1>5 DEF AskSilence, StopInv, WireInv, StatusInv, Told
  <2>2. SextantTypes'
    BY <1>5, <2>0 DEF AskSilence, Do, SextantTypes
  <2>3. SextantFlags'
    BY <1>5, <2>0, Zenon DEF AskSilence, Do, SextantFlags
  <2>4. EndInv'
    BY <1>5, <2>0 DEF AskSilence, Do, EndInv, Requested
  <2>5. UnlinkInv'
    BY <1>5, <2>0 DEF AskSilence, Do, UnlinkInv, SextantTypes, SextantFlags
  <2> QED
    BY <2>1, <2>2, <2>3, <2>4, <2>5
<1>6. CASE Unlink
  <2>0. unlinks' \in Nat /\ seenUnlinks <= unlinks /\ seenUnlinks # unlinks'
        /\ IssuedIn(commands, seenUnlinks, unlinks')
    <3>1. \A i \in 1..Len(commands) : commands[i] \in Commands
      BY ElementOfSeq DEF SextantTypes
    <3> QED
      BY <1>6, <3>1 DEF Unlink, UnlinkInv, IssuedIn, SextantTypes, Commands
  <2>1. StopInv' /\ WireInv' /\ StatusInv'
    BY <1>6 DEF Unlink, StopInv, WireInv, StatusInv, Told
  <2>2. SextantTypes'
    BY <1>6, <2>0 DEF Unlink, SextantTypes
  <2>3. SextantFlags'
    BY <1>6, <2>0, Zenon DEF Unlink, SextantFlags
  <2>4. EndInv'
    BY <1>6, <2>0 DEF Unlink, EndInv, Requested, SextantTypes, SextantFlags
  <2>5. UnlinkInv'
    BY <1>6, <2>0 DEF Unlink, UnlinkInv, SextantTypes, SextantFlags
  <2> QED
    BY <2>1, <2>2, <2>3, <2>4, <2>5
<1>7. CASE Quit
  <2>1. StopInv' /\ WireInv' /\ UnlinkInv' /\ StatusInv'
    BY <1>7 DEF Quit, StopInv, WireInv, UnlinkInv, StatusInv, Told
  <2>2. SextantTypes'
    BY <1>7 DEF Quit, SextantTypes
  <2>3. SextantFlags'
    BY <1>7, Zenon DEF Quit, SextantFlags
  <2>4. EndInv'
    BY <1>7 DEF Quit, EndInv, Requested, SextantTypes, SextantFlags
  <2> QED
    BY <2>1, <2>2, <2>3, <2>4
<1> QED
  BY <1>1, <1>2, <1>3, <1>4, <1>5, <1>6, <1>7

(* The audio worker's steps. *)
LEMMA WorkerKeepsInv ==
  ASSUME SextantInv, WorkerTop \/ WorkerTakes \/ WorkerStarts \/ WorkerPumps
  PROVE  SextantInv'
<1> USE DEF SextantInv, guiVars, workerVars, taskVars, linkVars
<1>1. CASE WorkerTop
  <2>0. /\ commands' \in Seq(Commands) /\ IssuedIn(commands', seenUnlinks, unlinks)
        /\ EndBehind(commands, 0) => EndBehind(commands', 0)
        /\ capturing' \/ pendingEnd' \/ (StartsEnd(commands') /\ (capturing \/ pendingEnd => EndBehind(commands', 0)))
        /\ capturing' \in BOOLEAN /\ pendingEnd' \in BOOLEAN /\ (capturing' => capturing)
    BY <1>1, Ending DEF WorkerTop, SextantFlags
  <2>1. WireInv' /\ StatusInv'
    BY <1>1 DEF WorkerTop, WireInv, StatusInv, Told
  <2>2. SextantTypes'
    BY <1>1, <2>0 DEF WorkerTop, SextantTypes
  <2>3. SextantFlags'
    BY <1>1, <2>0, Zenon DEF WorkerTop, SextantFlags
  <2>4. EndInv'
    BY <1>1, <2>0 DEF WorkerTop, EndInv, Requested, SextantTypes, SextantFlags
  <2>5. StopInv'
    BY <1>1 DEF WorkerTop, EndsCapture, StopInv, SextantFlags
  <2>6. UnlinkInv'
    BY <1>1, <2>0 DEF WorkerTop, UnlinkInv, SextantTypes, SextantFlags
  <2> QED
    BY <2>1, <2>2, <2>3, <2>4, <2>5, <2>6
<1>2. CASE WorkerTakes
  <2>0. /\ starts' \in Seq(BOOLEAN) /\ (Head(starts) => held)
        /\ \A i \in 1..Len(starts') : starts'[i] => held
        /\ audio' \in {"commands", "starting"}
    BY <1>2, Starting, Zenon DEF WorkerTakes, SextantTypes, SextantFlags, StopInv
  <2>1. EndInv' /\ WireInv' /\ UnlinkInv' /\ StatusInv'
    BY <1>2 DEF WorkerTakes, EndInv, Requested, WireInv, UnlinkInv, StatusInv, Told
  <2>2. SextantTypes'
    <3>1. UNCHANGED <<guiVars, taskVars, linkVars, news, commands>>
      BY <1>2 DEF WorkerTakes
    <3>2. starts' \in Seq(BOOLEAN) /\ audio' \in {"top", "commands", "starting"}
      BY <2>0, Zenon
    <3> QED
      BY <3>1, <3>2 DEF SextantTypes
  <2>3. SextantFlags'
    BY <1>2, <2>0, Zenon DEF WorkerTakes, Fresh, SextantFlags
  <2>4. StopInv'
    BY <1>2, <2>0 DEF WorkerTakes, Fresh, StopInv, SextantTypes, SextantFlags
  <2> QED
    BY <2>1, <2>2, <2>3, <2>4
<1>3. CASE WorkerStarts
  <2>0. /\ commands' \in Seq(Commands) /\ IssuedIn(commands', seenUnlinks, unlinks)
        /\ EndBehind(commands, 0) => EndBehind(commands', 0)
        /\ (capturing' /\ Enqueued("StartTx")) \/ UNCHANGED <<capturing, commands>>
    BY <1>3, Enqueueing DEF WorkerStarts, SextantTypes, SextantFlags, UnlinkInv
  <2>1. WireInv' /\ StatusInv'
    BY <1>3 DEF WorkerStarts, WireInv, StatusInv, Told
  <2>2. SextantTypes'
    BY <1>3, <2>0 DEF WorkerStarts, SextantTypes
  <2>3. SextantFlags'
    BY <1>3, <2>0, Zenon DEF WorkerStarts, SextantFlags
  <2>4. EndInv'
    BY <1>3, <2>0 DEF WorkerStarts, EndInv, Requested, SextantTypes, SextantFlags
  <2>5. StopInv'
    BY <1>3, <2>0 DEF WorkerStarts, StopInv, SextantTypes, SextantFlags
  <2>6. UnlinkInv'
    BY <1>3, <2>0 DEF WorkerStarts, UnlinkInv, SextantTypes, SextantFlags
  <2> QED
    BY <2>1, <2>2, <2>3, <2>4, <2>5, <2>6
<1>4. CASE WorkerPumps
  <2>0. /\ commands' \in Seq(Commands) /\ IssuedIn(commands', seenUnlinks, unlinks)
        /\ EndBehind(commands, 0) => EndBehind(commands', 0)
        /\ capturing' \/ pendingEnd' \/ (StartsEnd(commands') /\ (capturing \/ pendingEnd => EndBehind(commands', 0)))
        /\ capturing' \in BOOLEAN /\ pendingEnd' \in BOOLEAN /\ (capturing' => capturing)
    <3>1. CASE EndsCapture(TRUE)
      BY <3>1, Ending
    <3>2. CASE UNCHANGED <<capturing, pendingEnd, commands>>
      BY <3>2 DEF SextantTypes, SextantFlags, UnlinkInv, EndInv
    <3>3. CASE Enqueued("TxFrame") /\ UNCHANGED <<capturing, pendingEnd>>
      BY <3>3, Enqueueing DEF SextantTypes, SextantFlags, EndInv
    <3> QED
      BY <1>4, <3>1, <3>2, <3>3 DEF WorkerPumps
  <2>1. WireInv' /\ StatusInv'
    BY <1>4 DEF WorkerPumps, WireInv, StatusInv, Told
  <2>2. SextantTypes'
    BY <1>4, <2>0 DEF WorkerPumps, SextantTypes
  <2>3. SextantFlags'
    BY <1>4, <2>0, Zenon DEF WorkerPumps, SextantFlags
  <2>4. EndInv'
    BY <1>4, <2>0 DEF WorkerPumps, EndInv, Requested, SextantTypes, SextantFlags
  <2>5. StopInv'
    BY <1>4, <2>0 DEF WorkerPumps, StopInv, SextantTypes, SextantFlags
  <2>6. UnlinkInv'
    BY <1>4, <2>0 DEF WorkerPumps, UnlinkInv, SextantTypes, SextantFlags
  <2> QED
    BY <2>1, <2>2, <2>3, <2>4, <2>5, <2>6
<1> QED
  BY <1>1, <1>2, <1>3, <1>4

(* The session task's steps, but for a command's. *)
LEMMA TaskKeepsInv ==
  ASSUME SextantInv, SeeRequest \/ Supersede \/ Retired \/ ConnectEnds \/ SilenceGoesOn \/ Reconnect \/ ReconnectEnds \/ Interrupted \/ LinkEnds \/ LinkDrops
  PROVE  SextantInv'
<1> USE DEF SextantInv, guiVars, workerVars, taskVars, linkVars
<1>1. CASE SeeRequest
  <2>0. /\ commands' \in Seq(Commands) /\ Len(commands') = 0 /\ StartsEnd(commands')
        /\ IssuedIn(commands', seenUnlinks', unlinks')
    <3>1. commands' \in Seq(Commands) /\ Len(commands') = 0
      BY <1>1, EmptySeq DEF SeeRequest, Superseded
    <3> QED
      BY <3>1 DEF StartsEnd, IssuedIn
  <2>1. SextantTypes'
    BY <1>1, <2>0 DEF SeeRequest, Superseded, SextantTypes
  <2>2. SextantFlags'
    BY <1>1, <2>0, Zenon DEF SeeRequest, Superseded, SextantFlags
  <2>3. EndInv'
    BY <1>1, <2>0 DEF SeeRequest, Superseded, EndInv, Requested, SextantTypes, SextantFlags
  <2>4. StopInv'
    BY <1>1, <2>0 DEF SeeRequest, Superseded, StopInv, SextantTypes, SextantFlags
  <2>5. WireInv'
    BY <1>1, <2>0 DEF SeeRequest, Superseded, WireInv, SextantTypes
  <2>6. UnlinkInv'
    BY <1>1, <2>0 DEF SeeRequest, Superseded, UnlinkInv, SextantTypes, SextantFlags
  <2>7. StatusInv'
    BY <1>1, <2>0 DEF SeeRequest, Superseded, StatusInv, Told, Read, SextantTypes, WireInv
  <2> QED
    BY <2>1, <2>2, <2>3, <2>4, <2>5, <2>6, <2>7
<1>2. CASE Supersede
  <2>0. starts' \in Seq(BOOLEAN) /\ stopRequest' \in BOOLEAN /\ StopInv'
    BY <1>2, Stopping DEF Supersede, Retire, NotConnected
  <2>1. SextantTypes'
    BY <1>2, <2>0 DEF Supersede, Retire, NotConnected, Status, SextantTypes
  <2>2. SextantFlags'
    BY <1>2, <2>0, Zenon DEF Supersede, Retire, NotConnected, Status, SextantFlags
  <2>3. EndInv'
    BY <1>2, <2>0 DEF Supersede, Retire, NotConnected, Status, EndInv, Requested, SextantTypes, SextantFlags
  <2>4. StopInv'
    BY <2>0
  <2>5. WireInv'
    BY <1>2, <2>0 DEF Supersede, Retire, NotConnected, Status, WireInv, SextantTypes
  <2>6. UnlinkInv'
    BY <1>2, <2>0 DEF Supersede, Retire, NotConnected, Status, UnlinkInv, SextantTypes, SextantFlags
  <2>7. StatusInv'
    BY <1>2, <2>0 DEF Supersede, Retire, NotConnected, Status, StatusInv, Told, Read, SextantTypes, WireInv
  <2> QED
    BY <2>1, <2>2, <2>3, <2>4, <2>5, <2>6, <2>7
<1>3. CASE Retired
  <2>1. SextantTypes'
    BY <1>3 DEF Retired, Status, SextantTypes
  <2>2. SextantFlags'
    BY <1>3, Zenon DEF Retired, Status, SextantFlags
  <2>3. EndInv'
    BY <1>3 DEF Retired, Status, EndInv, Requested, SextantTypes, SextantFlags
  <2>4. StopInv'
    BY <1>3 DEF Retired, Status, StopInv, SextantTypes, SextantFlags
  <2>5. WireInv'
    BY <1>3 DEF Retired, Status, WireInv, SextantTypes
  <2>6. UnlinkInv'
    BY <1>3 DEF Retired, UnlinkInv, SextantTypes, WireInv
  <2>7. StatusInv'
    BY <1>3 DEF Retired, Status, StatusInv, Told, Read, SextantTypes, WireInv
  <2> QED
    BY <2>1, <2>2, <2>3, <2>4, <2>5, <2>6, <2>7
<1>4. CASE ConnectEnds
  <2>0. /\ task' = "select" /\ task \notin {"superseding", "retiring", "silence"} /\ ~Requested
        /\ UNCHANGED <<guiVars, workerVars, stream, stopRequest, commands, seenUnlinks>>
    BY <1>4 DEF ConnectEnds, Made, linkVars
  <2>1. SextantTypes'
    BY <1>4, SMTT(30) DEF ConnectEnds, Made, Status, SextantTypes
  <2>2. SextantFlags'
    BY <1>4, Zenon DEF ConnectEnds, Made, Status, SextantFlags
  <2>3. EndInv'
    BY <2>0 DEF EndInv, Requested, guiVars, workerVars
  <2>4. StopInv'
    BY <2>0 DEF StopInv, guiVars, workerVars
  <2>5. WireInv'
    BY <1>4 DEF ConnectEnds, Made, Status, WireInv, SextantTypes
  <2>6. UnlinkInv'
    BY <1>4 DEF ConnectEnds, Made, Status, UnlinkInv, SextantTypes, SextantFlags
  <2>7. StatusInv'
    BY <1>4, SMTT(30) DEF ConnectEnds, Made, Status, StatusInv, Told, Read, SextantTypes, WireInv
  <2> QED
    BY <2>1, <2>2, <2>3, <2>4, <2>5, <2>6, <2>7
<1>5. CASE SilenceGoesOn
  <2>0. starts' \in Seq(BOOLEAN) /\ stopRequest' \in BOOLEAN /\ StopInv'
    <3>1. CASE Stop
      BY <3>1, Stopping
    <3>2. CASE UNCHANGED <<starts, stopRequest>>
      BY <1>5, <3>2 DEF SilenceGoesOn, StopInv, SextantTypes, SextantFlags
    <3> QED
      BY <1>5, <3>1, <3>2 DEF SilenceGoesOn, Retire, NotConnected
  <2>1. SextantTypes'
    BY <1>5, <2>0 DEF SilenceGoesOn, Retire, NotConnected, Status, SendsEnd, SextantTypes
  <2>2. SextantFlags'
    BY <1>5, <2>0, Zenon DEF SilenceGoesOn, Retire, NotConnected, Status, SendsEnd, SextantFlags
  <2>3. EndInv'
    BY <1>5, <2>0 DEF SilenceGoesOn, Retire, NotConnected, Status, SendsEnd, EndInv, Requested, SextantTypes, SextantFlags
  <2>4. StopInv'
    BY <2>0
  <2>5. WireInv'
    BY <1>5, <2>0 DEF SilenceGoesOn, Retire, NotConnected, Status, SendsEnd, WireInv, SextantTypes
  <2>6. UnlinkInv'
    BY <1>5, <2>0 DEF SilenceGoesOn, Retire, NotConnected, Status, SendsEnd, UnlinkInv, SextantTypes, SextantFlags
  <2>7. StatusInv'
    BY <1>5, <2>0 DEF SilenceGoesOn, Retire, NotConnected, Status, SendsEnd, StatusInv, Told, Read, SextantTypes, WireInv
  <2> QED
    BY <2>1, <2>2, <2>3, <2>4, <2>5, <2>6, <2>7
<1>6. CASE Reconnect
  <2>1. SextantTypes'
    BY <1>6 DEF Reconnect, Selecting, Status, SextantTypes
  <2>2. SextantFlags'
    BY <1>6, Zenon DEF Reconnect, Selecting, Status, SextantFlags
  <2>3. EndInv'
    BY <1>6 DEF Reconnect, Selecting, Status, EndInv, Requested, SextantTypes, SextantFlags
  <2>4. StopInv'
    BY <1>6 DEF Reconnect, Selecting, Status, StopInv, SextantTypes, SextantFlags
  <2>5. WireInv'
    BY <1>6 DEF Reconnect, Selecting, WireInv, UnlinkInv
  <2>6. UnlinkInv'
    BY <1>6 DEF Reconnect, Selecting, Status, UnlinkInv, SextantTypes, SextantFlags
  <2>7. StatusInv'
    BY <1>6 DEF Reconnect, Selecting, Status, StatusInv, Told, Read, SextantTypes, WireInv, UnlinkInv
  <2> QED
    BY <2>1, <2>2, <2>3, <2>4, <2>5, <2>6, <2>7
<1>7. CASE ReconnectEnds
  <2>0. /\ task' = "select" /\ task \notin {"superseding", "retiring", "silence"} /\ ~Requested
        /\ UNCHANGED <<guiVars, workerVars, stream, stopRequest, commands, seenUnlinks>>
    BY <1>7 DEF ReconnectEnds, Made, linkVars
  <2>1. SextantTypes'
    BY <1>7, SMTT(30) DEF ReconnectEnds, Made, Status, SextantTypes
  <2>2. SextantFlags'
    BY <1>7, Zenon DEF ReconnectEnds, Made, Status, SextantFlags
  <2>3. EndInv'
    BY <2>0 DEF EndInv, Requested, guiVars, workerVars
  <2>4. StopInv'
    BY <2>0 DEF StopInv, guiVars, workerVars
  <2>5. WireInv'
    BY <1>7 DEF ReconnectEnds, Made, Status, WireInv, SextantTypes
  <2>6. UnlinkInv'
    BY <1>7 DEF ReconnectEnds, Made, Status, UnlinkInv, SextantTypes, SextantFlags
  <2>7. StatusInv'
    BY <1>7, SMTT(30) DEF ReconnectEnds, Made, Status, StatusInv, Told, Read, SextantTypes, WireInv
  <2> QED
    BY <2>1, <2>2, <2>3, <2>4, <2>5, <2>6, <2>7
<1>8. CASE Interrupted
  <2>1. SextantTypes'
    BY <1>8 DEF Interrupted, SextantTypes
  <2>2. SextantFlags'
    BY <1>8, Zenon DEF Interrupted, SextantFlags
  <2>3. EndInv'
    BY <1>8 DEF Interrupted, EndInv, Requested, SextantTypes, SextantFlags
  <2>4. StopInv'
    BY <1>8 DEF Interrupted, StopInv, SextantTypes, SextantFlags
  <2>5. WireInv'
    BY <1>8 DEF Interrupted, WireInv, SextantTypes
  <2>6. UnlinkInv'
    BY <1>8 DEF Interrupted, UnlinkInv, SextantTypes, SextantFlags
  <2>7. StatusInv'
    BY <1>8 DEF Interrupted, StatusInv, Told, Read, SextantTypes, WireInv
  <2> QED
    BY <2>1, <2>2, <2>3, <2>4, <2>5, <2>6, <2>7
<1>9. CASE LinkEnds
  <2>0. starts' \in Seq(BOOLEAN) /\ stopRequest' \in BOOLEAN /\ StopInv'
    BY <1>9, Stopping DEF LinkEnds, Retire, NotConnected
  <2>1. SextantTypes'
    BY <1>9, <2>0 DEF LinkEnds, Selecting, Retire, NotConnected, Status, SextantTypes
  <2>2. SextantFlags'
    BY <1>9, <2>0, Zenon DEF LinkEnds, Selecting, Retire, NotConnected, Status, SextantFlags
  <2>3. EndInv'
    BY <1>9, <2>0 DEF LinkEnds, Selecting, Retire, NotConnected, Status, EndInv, Requested, SextantTypes, SextantFlags
  <2>4. StopInv'
    BY <2>0
  <2>5. WireInv'
    BY <1>9, <2>0 DEF LinkEnds, Selecting, Retire, NotConnected, Status, WireInv, SextantTypes
  <2>6. UnlinkInv'
    BY <1>9, <2>0 DEF LinkEnds, Selecting, Retire, NotConnected, Status, UnlinkInv, SextantTypes, SextantFlags
  <2>7. StatusInv'
    BY <1>9, <2>0 DEF LinkEnds, Selecting, Retire, NotConnected, Status, StatusInv, Told, Read, SextantTypes, WireInv
  <2> QED
    BY <2>1, <2>2, <2>3, <2>4, <2>5, <2>6, <2>7
<1>10. CASE LinkDrops
  <2>1. EndInv' /\ StopInv'
    BY <1>10 DEF LinkDrops, EndInv, Requested, StopInv
  <2>2. SextantTypes'
    BY <1>10 DEF LinkDrops, Do, SextantTypes
  <2>3. SextantFlags'
    BY <1>10, Zenon DEF LinkDrops, Do, SextantFlags
  <2>4. WireInv'
    BY <1>10 DEF LinkDrops, Do, WireInv, SextantTypes
  <2>5. UnlinkInv'
    BY <1>10 DEF LinkDrops, Do, UnlinkInv, SextantTypes, SextantFlags
  <2>6. StatusInv'
    BY <1>10 DEF LinkDrops, Do, StatusInv, Told, Read, SextantTypes, WireInv
  <2> QED
    BY <2>1, <2>2, <2>3, <2>4, <2>5, <2>6
<1> QED
  BY <1>1, <1>2, <1>3, <1>4, <1>5, <1>6, <1>7, <1>8, <1>9, <1>10

(* The session task takes a command from its queue. *)
LEMMA TakeCommandKeepsInv ==
  ASSUME SextantInv, TakeCommand
  PROVE  SextantInv'
<1> DEFINE c == Head(commands)
<1> USE DEF SextantInv, guiVars, linkVars
<1>0. /\ task = "select" /\ seenUnlinks = unlinks /\ ~quit /\ commands' = Tail(commands)
      /\ commands \in Seq(Commands) /\ commands # << >>
      /\ UNCHANGED <<guiVars, audio, capturing, pendingEnd, seenUnlinks>>
  BY DEF TakeCommand, Selecting, Requested, SextantTypes
<1>1. /\ commands' \in Seq(Commands) /\ c \in Commands /\ IssuedIn(commands', seenUnlinks, unlinks)
      /\ EndBehind(commands, 0) /\ c.type # "EndTx" => EndBehind(commands', 0)
      /\ StartsEnd(commands) => StartsEnd(commands') /\ (c.type = "StartTx" => EndBehind(commands', 0))
      /\ c.issued = seenUnlinks
  <2>1. seenUnlinks \in Nat /\ unlinks \in Nat /\ IssuedIn(commands, seenUnlinks, unlinks)
    BY DEF SextantTypes, UnlinkInv
  <2>2. /\ commands' \in Seq(Commands) /\ c \in Commands /\ IssuedIn(commands', seenUnlinks, unlinks)
        /\ seenUnlinks <= c.issued /\ c.issued <= unlinks
    BY <1>0, <2>1, Taken
  <2>3. c.issued \in Nat
    BY <2>2 DEF Commands
  <2>4. c.issued = seenUnlinks
    BY <1>0, <2>1, <2>2, <2>3
  <2> QED
    BY <1>0, <2>2, <2>4, Taken
<1>2. \/ c.type = "Connect" /\ TakeConnect(c)
      \/ c.type = "TxSilence" /\ TakeSilence
      \/ c.type = "StartTx" /\ TakeStart
      \/ c.type = "TxFrame" /\ TakeFrame
      \/ c.type = "EndTx" /\ TakeEnd
  <2>1. c.type \in {"Connect", "TxSilence", "StartTx", "TxFrame", "EndTx"}
    BY <1>1 DEF Commands
  <2> QED
    BY <2>1 DEF TakeCommand
<1> HIDE DEF c
<1>3. CASE c.type = "Connect" /\ TakeConnect(c)
  <2>1. SextantTypes'
    BY <1>0, <1>1, <1>3 DEF TakeConnect, Status, SextantTypes
  <2>2. SextantFlags'
    BY <1>0, <1>1, <1>3, Zenon DEF TakeConnect, Status, SextantFlags
  <2>3. EndInv'
    BY <1>0, <1>1, <1>3 DEF TakeConnect, Status, EndInv, Requested, SextantTypes
  <2>4. StopInv'
    BY <1>0, <1>1, <1>3 DEF TakeConnect, Status, StopInv
  <2>5. WireInv'
    BY <1>0, <1>1, <1>3 DEF TakeConnect, Status, WireInv, SextantTypes
  <2>6. UnlinkInv'
    BY <1>0, <1>1, <1>3 DEF TakeConnect, Status, UnlinkInv, WireInv, SextantTypes
  <2>7. StatusInv'
    BY <1>0, <1>1, <1>3 DEF TakeConnect, Status, StatusInv, Told, Read, SextantTypes, WireInv
  <2> QED
    BY <2>1, <2>2, <2>3, <2>4, <2>5, <2>6, <2>7
<1>4. CASE c.type = "TxSilence" /\ TakeSilence
  <2>1. SextantTypes'
    BY <1>0, <1>1, <1>4 DEF TakeSilence, MayTestSilence, SendsHeader, SextantTypes
  <2>2. SextantFlags'
    BY <1>0, <1>1, <1>4, Zenon DEF TakeSilence, MayTestSilence, SendsHeader, SextantFlags
  <2>3. EndInv'
    BY <1>0, <1>1, <1>4 DEF TakeSilence, MayTestSilence, SendsHeader, EndInv, Requested, SextantTypes
  <2>4. StopInv'
    BY <1>0, <1>1, <1>4 DEF TakeSilence, MayTestSilence, SendsHeader, StopInv
  <2>5. WireInv'
    BY <1>0, <1>1, <1>4 DEF TakeSilence, MayTestSilence, SendsHeader, WireInv, SextantTypes
  <2>6. UnlinkInv'
    BY <1>0, <1>1, <1>4 DEF TakeSilence, MayTestSilence, SendsHeader, UnlinkInv, WireInv, SextantTypes
  <2>7. StatusInv'
    BY <1>0, <1>1, <1>4 DEF TakeSilence, MayTestSilence, SendsHeader, StatusInv, Told, Read, SextantTypes, WireInv
  <2> QED
    BY <2>1, <2>2, <2>3, <2>4, <2>5, <2>6, <2>7
<1>5. CASE c.type = "StartTx" /\ TakeStart
  <2>0. starts' \in Seq(BOOLEAN) /\ stopRequest' \in BOOLEAN /\ StopInv'
    <3>1. CASE Stop
      BY <3>1, Stopping
    <3>2. CASE UNCHANGED <<starts, stopRequest>>
      BY <1>0, <3>2 DEF StopInv, SextantTypes, SextantFlags
    <3> QED
      BY <1>5, <3>1, <3>2 DEF TakeStart, SendsHeader, NotConnected, Retire, Status
  <2>1. SextantTypes'
    BY <1>0, <1>1, <1>5, <2>0 DEF TakeStart, SendsHeader, NotConnected, Retire, Status, SextantTypes
  <2>2. SextantFlags'
    BY <1>0, <1>1, <1>5, <2>0, Zenon DEF TakeStart, SendsHeader, NotConnected, Retire, Status, SextantFlags
  <2>3. EndInv'
    BY <1>0, <1>1, <1>5, <2>0 DEF TakeStart, SendsHeader, NotConnected, Retire, Status, EndInv, Requested, SextantTypes
  <2>4. StopInv'
    BY <2>0
  <2>5. WireInv'
    BY <1>0, <1>1, <1>5, <2>0 DEF TakeStart, SendsHeader, NotConnected, Retire, Status, WireInv, SextantTypes
  <2>6. UnlinkInv'
    BY <1>0, <1>1, <1>5, <2>0 DEF TakeStart, SendsHeader, NotConnected, Retire, Status, UnlinkInv, WireInv, SextantTypes
  <2>7. StatusInv'
    BY <1>0, <1>1, <1>5, <2>0 DEF TakeStart, SendsHeader, NotConnected, Retire, Status, StatusInv, Told, Read, SextantTypes, WireInv
  <2> QED
    BY <2>1, <2>2, <2>3, <2>4, <2>5, <2>6, <2>7
<1>6. CASE c.type = "TxFrame" /\ TakeFrame
  <2>0. starts' \in Seq(BOOLEAN) /\ stopRequest' \in BOOLEAN /\ StopInv'
    <3>1. CASE Stop
      BY <3>1, Stopping
    <3>2. CASE UNCHANGED <<starts, stopRequest>>
      BY <1>0, <3>2 DEF StopInv, SextantTypes, SextantFlags
    <3> QED
      BY <1>6, <3>1, <3>2 DEF TakeFrame, NotConnected, Retire, Status
  <2>1. SextantTypes'
    BY <1>0, <1>1, <1>6, <2>0 DEF TakeFrame, NotConnected, Retire, Status, SextantTypes
  <2>2. SextantFlags'
    BY <1>0, <1>1, <1>6, <2>0, Zenon DEF TakeFrame, NotConnected, Retire, Status, SextantFlags
  <2>3. EndInv'
    BY <1>0, <1>1, <1>6, <2>0 DEF TakeFrame, NotConnected, Retire, Status, EndInv, Requested, SextantTypes
  <2>4. StopInv'
    BY <2>0
  <2>5. WireInv'
    BY <1>0, <1>1, <1>6, <2>0 DEF TakeFrame, NotConnected, Retire, Status, WireInv, SextantTypes
  <2>6. UnlinkInv'
    BY <1>0, <1>1, <1>6, <2>0 DEF TakeFrame, NotConnected, Retire, Status, UnlinkInv, WireInv, SextantTypes
  <2>7. StatusInv'
    BY <1>0, <1>1, <1>6, <2>0 DEF TakeFrame, NotConnected, Retire, Status, StatusInv, Told, Read, SextantTypes, WireInv
  <2> QED
    BY <2>1, <2>2, <2>3, <2>4, <2>5, <2>6, <2>7
<1>7. CASE c.type = "EndTx" /\ TakeEnd
  <2>1. StopInv' /\ StatusInv'
    BY <1>0, <1>7 DEF TakeEnd, StopInv, StatusInv, Told
  <2>2. SextantTypes'
    BY <1>0, <1>1, <1>7 DEF TakeEnd, SendsEnd, SextantTypes
  <2>3. SextantFlags'
    BY <1>0, <1>1, <1>7, Zenon DEF TakeEnd, SendsEnd, SextantFlags
  <2>4. EndInv'
    BY <1>0, <1>1, <1>7 DEF TakeEnd, SendsEnd, EndInv, Requested, SextantTypes
  <2>5. WireInv'
    BY <1>0, <1>1, <1>7 DEF TakeEnd, SendsEnd, WireInv, SextantTypes
  <2>6. UnlinkInv'
    BY <1>0, <1>1, <1>7 DEF TakeEnd, SendsEnd, UnlinkInv, WireInv, SextantTypes
  <2> QED
    BY <2>1, <2>2, <2>3, <2>4, <2>5, <2>6
<1> QED
  BY <1>2, <1>3, <1>4, <1>5, <1>6, <1>7

(* The inductive invariant, kept by every step and by stuttering. *)
LEMMA SextantInvInvariant == SextantSpec => []SextantInv
<1>1. ASSUME SextantInv, UNCHANGED sextantVars PROVE SextantInv'
  <2> USE <1>1 DEF sextantVars, guiVars, workerVars, taskVars, linkVars, SextantInv
  <2>1. SextantTypes' /\ SextantFlags'
    BY DEF SextantTypes, SextantFlags
  <2>2. EndInv' /\ StopInv' /\ WireInv'
    BY DEF EndInv, StopInv, WireInv, Requested
  <2>3. UnlinkInv' /\ StatusInv'
    BY DEF UnlinkInv, StatusInv, Told
  <2> QED
    BY <2>1, <2>2, <2>3
<1>2. ASSUME SextantInv, SextantNext PROVE SextantInv'
  BY <1>2, GuiKeepsInv, WorkerKeepsInv, TaskKeepsInv, TakeCommandKeepsInv DEF SextantNext
<1> QED
  BY <1>1, <1>2, SextantInvInit, PTL DEF SextantSpec

(* PTT governs the transmission for every queue capacity: while the session has a stream
   its end is on its way, although worker and task share a bounded queue that may be full
   when the end is due (stop_tx_capture, flush_end); and a worker that has seen the
   release does not capture, whatever starts the stop has overtaken (stale_start). *)
THEOREM PttGoverns == SextantSpec => []PttIsObeyed
<1>1. ASSUME SextantInv PROVE PttIsObeyed
  <2>1. EndIsOnItsWay
    <3>1. EndBehind(commands, 0) => \E i \in DOMAIN commands : commands[i].type = "EndTx"
      <4>1. DOMAIN commands = 1..Len(commands)
        BY <1>1, LenProperties DEF SextantInv, SextantTypes
      <4> QED
        BY <4>1 DEF EndBehind
    <3> QED
      BY <1>1, <3>1 DEF SextantInv, EndInv, EndIsOnItsWay, SextantTypes
  <2>2. ReleaseEndsCapture
    BY <1>1 DEF SextantInv, StopInv, ReleaseEndsCapture
  <2> QED
    BY <2>1, <2>2 DEF PttIsObeyed
<1> QED
  BY <1>1, SextantInvInvariant, PTL

(* The reflector never gets a header while a stream of this client is open on the same
   link, although PTT and the silence test start streams from two threads and a link may
   die and be replaced at any time (tx_stream, retire_session). *)
THEOREM OneStreamAtATime == SextantSpec => []OneStreamOnTheWire
<1>1. SextantInv => OneStreamOnTheWire
  BY DEF SextantInv, WireInv, OneStreamOnTheWire
<1> QED
  BY <1>1, SextantInvInvariant, PTL

(* No session, attempt or schedule stems from a Connect issued before an unlink that was
   handled, and status and permission to transmit follow the session, for every number of
   unlinks, connects and lost links (SessionHandle::disconnect, retire_session). *)
THEOREM UnlinkGoverns == SextantSpec => []UnlinkIsObeyed
<1>1. ASSUME SextantInv PROVE UnlinkIsObeyed
  <2>1. UnlinkSupersedes
    BY <1>1 DEF SextantInv, UnlinkInv, UnlinkSupersedes
  <2>2. attempt # 0 => link = "none" \/ task \in {"superseding", "retiring"}
    BY <1>1 DEF SextantInv, UnlinkInv
  <2>3. (identity <=> link # "none") => identity = (link # "none")
    BY <1>1, Zenon DEF SextantInv, SextantFlags
  <2>4. StatusIsTrue
    BY <1>1, <2>2, <2>3 DEF SextantInv, StatusInv, StatusIsTrue, Told
  <2> QED
    BY <2>1, <2>4 DEF UnlinkIsObeyed
<1> QED
  BY <1>1, SextantInvInvariant, PTL
=============================================================================
