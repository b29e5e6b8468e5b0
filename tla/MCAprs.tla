-------------------------------- MODULE MCAprs --------------------------------
(***************************************************************************)
(* The APRS components for TLC.  part, which never changes, says which of  *)
(* them a behaviour exercises: clients on a radio channel, the gateway from*)
(* the Internet to RF, or the APRS-IS connection.                          *)
(***************************************************************************)
EXTENDS AprsClient, IGate, AprsIs

VARIABLE part

Wide(h) == [call |-> "WIDE", hops |-> h, used |-> FALSE]
Trace(h) == [call |-> "TRACE", hops |-> h, used |-> FALSE]

\* Message numbers that wrap, and a foreign station that answers.
Answered ==
  [digis |-> {}, delay |-> 0, path |-> <<>>, senders |-> {"a"}, messages |-> 3,
   foreign |-> 1, faults |-> FALSE]
\* Two digipeaters, without and with a viscous delay.
Flooding ==
  [digis |-> {"a", "b"}, delay |-> 0, path |-> <<Wide(2)>>, senders |-> {"a", "b"},
   messages |-> 2, foreign |-> 0, faults |-> FALSE]
Tracing == [Flooding EXCEPT !.delay = 1, !.path = <<Trace(2)>>]
\* Writes that fail.
Failing == [Tracing EXCEPT !.path = <<Wide(1)>>, !.digis = {"b"}, !.faults = TRUE]

AprsSetups == {Answered, Flooding, Tracing, Failing}
OneMessage == {[Flooding EXCEPT !.senders = {"a"}, !.messages = 1]}

\* A server that verifies the login or does not, with lines longer than the cap.
Line(kind, len) == [kind |-> kind, len |-> len]
IsScripts ==
  {<<Line("verified", 2), Line("packet", 4), Line("unverified", 1)>>,
   <<Line("packet", 3), Line("unverified", 2), Line("verified", 1)>>}

\* A component that is not exercised starts in one state.
AprsInit ==
  /\ part \in {"client", "igate", "is"}
  /\ AprsClientInit /\ IGateInit /\ AprsIsInit
  /\ part # "client" => setup = CHOOSE s \in Setups : TRUE
  /\ part # "is" => receiveOnly /\ script = CHOOSE s \in Scripts : TRUE

AprsNext ==
  /\ \/ part = "client" /\ AprsClientNext /\ UNCHANGED <<igateVars, aprsIsVars>>
     \/ part = "igate" /\ IGateNext /\ UNCHANGED <<aprsClientVars, aprsIsVars>>
     \/ part = "is" /\ AprsIsNext /\ UNCHANGED <<aprsClientVars, igateVars>>
  /\ UNCHANGED part

AprsSpec == AprsInit /\ [][AprsNext]_<<part, aprsClientVars, igateVars, aprsIsVars>>
==============================================================================
