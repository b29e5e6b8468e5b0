------------------------------ MODULE MCSession ------------------------------
(***************************************************************************)
(* The client session for TLC.  part, which never changes, says what a     *)
(* behaviour exercises: the sans-io core of one protocol, driven in any    *)
(* order, or the DPlus core inside its tokio shell, on a machine that      *)
(* schedules the shell's tasks promptly or on one that may be slow; what   *)
(* is built on a session: lodestar's handle, and the slow data of a stream;*)
(* or, at the other end, the endpoints of a reflector: talks with frames,  *)
(* talks that follow each other on a short bus, endpoints that fail.       *)
(***************************************************************************)
EXTENDS SessionLoop, SlowData, LodestarSession, ReflectorBus, TLC

CONSTANTS Parts, s1, t1, t2

VARIABLE part

(* DExtra and DCS send keepalives less often than DPlus. *)
DPlus == INSTANCE SessionCore WITH Kind <- "DPlus", KeepaliveInactivity <- 4
DExtra == INSTANCE SessionCore WITH
    Kind <- "DExtra", KeepaliveInterval <- 3, KeepaliveInactivity <- 4
Dcs == INSTANCE SessionCore WITH
    Kind <- "Dcs", KeepaliveInterval <- 3, KeepaliveInactivity <- 4

(* The datagrams a linked DPlus client meets. *)
Pkt(t) == [type |-> t]
Control == {Pkt("UnlinkAck"), PollEchoPacket}
ControlAndVoice ==
    Control \cup {[type |-> t, stream |-> s1] : t \in {"VoiceHeader", "VoiceEot"}}

PromptLoop == INSTANCE SessionLoop WITH Sends <- {"SendVoice"}
SlowLoop == INSTANCE SessionLoop WITH
    Prompt <- FALSE, Arrivals <- Control, Sends <- {"SendEot"}
Loops == {"prompt", "slow"}

\* One transmission longer than a superframe, and a short one.
TwoTalks == <<7, 3>>
usersVars == <<slowVars, lodestarVars, busVars>>

Homes == t1 :> "DExtra" @@ t2 :> "Dcs"
Frames == INSTANCE ReflectorBus WITH
    MaxTalks <- 1, MaxPackets <- 2, OddSequences <- BOOLEAN
Supervised == INSTANCE ReflectorBus WITH MaxTalks <- 1

SessionInit ==
    /\ part \in Parts
    /\ \/ part \in Loops /\ LoopInit
       \/ part \notin Loops /\ Init /\ ShellInit
    /\ SlowInit /\ LodestarInit /\ BusInit

SessionNext ==
    /\ \/ /\ \/ part = "prompt" /\ PromptLoop!LoopNext
             \/ part = "slow" /\ SlowLoop!LoopNext
             \/ part = "DPlus" /\ DPlus!Next /\ UNCHANGED shellVars
             \/ part = "DExtra" /\ DExtra!Next /\ UNCHANGED shellVars
             \/ part = "Dcs" /\ Dcs!Next /\ UNCHANGED shellVars
          /\ UNCHANGED usersVars
       \/ part = "slowdata" /\ SlowNext /\ UNCHANGED <<allVars, lodestarVars, busVars>>
       \/ part = "lodestar" /\ LodestarNext /\ UNCHANGED <<allVars, slowVars, busVars>>
       \/ /\ \/ part = "frames" /\ Frames!VoiceNext
             \/ part = "talks" /\ VoiceNext
             \/ part = "supervised" /\ Supervised!BusNext
          /\ UNCHANGED <<allVars, slowVars, lodestarVars>>
    /\ UNCHANGED part

SessionSpec == SessionInit /\ [][SessionNext]_<<part, allVars, usersVars>>

(* DrivesTheCore, for the behaviours that have a loop: every step of the shell is a step
   of the core or none, so no event is lost, duplicated or reordered between the core and
   next_event, backpressure or not. *)
LoopDrivesTheCore == [][(part \in Loops) => Seen!Next]_(Seen!vars)

(* disconnect, cancelled and resumed at any point: success means an acknowledged UNLINK, one
   UNLINK is enough, and where both tasks are scheduled promptly the five-second deadline of
   the shell has the margin its comment claims, even from a full event queue. *)
DisconnectKeepsItsWord ==
    OkMeansAcknowledged /\ OneDisconnect /\ (part = "prompt" => NeverStalls)
==============================================================================
