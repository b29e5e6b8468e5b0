----------------------------- MODULE TalkChannel -----------------------------
(***************************************************************************)
(* What every D-STAR voice path promises: one stream at a time.  A stream  *)
(* claims the idle channel, keeps it while it talks, and loses it only by  *)
(* ending, by being ended, or to another stream once it has gone quiet.    *)
(***************************************************************************)
CONSTANTS Streams, NoStream

VARIABLES holder, quiet
channelVars == <<holder, quiet>>

ChannelInit == holder = NoStream /\ quiet = TRUE

Claim(s) == holder = NoStream /\ holder' = s /\ quiet' = FALSE
Talk(s) == holder = s /\ holder' = s /\ quiet' = FALSE
GoQuiet == quiet' = TRUE /\ UNCHANGED holder
Preempt(s) == holder \notin {s, NoStream} /\ quiet /\ holder' = s /\ quiet' = FALSE
Release == holder # NoStream /\ holder' = NoStream /\ quiet' \in BOOLEAN

ChannelNext ==
    \/ \E s \in Streams : Claim(s) \/ Talk(s) \/ Preempt(s)
    \/ GoQuiet
    \/ Release

ChannelSpec == ChannelInit /\ [][ChannelNext]_channelVars
=============================================================================
