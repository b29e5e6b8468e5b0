------------------------------ MODULE ServerCore ------------------------------
(***************************************************************************)
(* The reflector's side of one link (ServerSessionCore in                  *)
(* dstar-gateway-core/src/session/server/core.rs) as a function from a     *)
(* session and a datagram to the session after it, the replies it queues   *)
(* and the events it reports.  The endpoint drains both at once, so the    *)
(* queues are empty between datagrams.                                     *)
(*                                                                         *)
(* A callsign stands for the callsign and module a client links with.      *)
(***************************************************************************)
EXTENDS Sequences

CONSTANTS
    Kind,       \* "DPlus", "DExtra" or "Dcs"
    NoCall,     \* client_callsign = None
    NoStream    \* last_stream_id = None

NewSession(module) ==
    [state |-> "Unknown", module |-> module, call |-> NoCall, stream |-> NoStream]

Outcome(session, replies, events) ==
    [session |-> session, replies |-> replies, events |-> events]
Ignored(session) == Outcome(session, << >>, << >>)
Up(session) == session.state \in {"Linked", "Streaming"}

(* on_dextra_link, on_dcs_link: the first LINK fixes the identity, a repeated
   one is acknowledged again and does not interrupt a stream. *)
OnLink(session, pkt) ==
    IF /\ session.state \in {"Unknown", "Linked", "Streaming"}
       /\ pkt.module = session.module
       /\ session.call \in {NoCall, pkt.call}
    THEN Outcome([session EXCEPT !.call = pkt.call,
                                 !.state = IF @ = "Streaming" THEN @ ELSE "Linked"],
                 <<"ConnectAck">>, <<"Linked">>)
    ELSE Ignored(session)

Closed(session) == [session EXCEPT !.state = "Closed", !.stream = NoStream]

(* on_dextra_unlink has no reply; on_dcs_unlink answers with a NAK. *)
OnUnlink(session, pkt) ==
    IF session.call = pkt.call
    THEN Outcome(Closed(session),
                 IF Kind = "Dcs" THEN <<"ConnectNak">> ELSE << >>, <<"Unlinked">>)
    ELSE Ignored(session)

OnLink1(session) ==
    IF session.state \in {"Unknown", "Link1Received", "Linked"}
    THEN Outcome([session EXCEPT !.state = IF @ = "Unknown" THEN "Link1Received" ELSE @],
                 <<"Link1Ack">>, << >>)
    ELSE Ignored(session)

OnLink2(session, pkt) ==
    CASE session.state = "Link1Received" ->
            Outcome([session EXCEPT !.call = pkt.call, !.state = "Linked"],
                    <<"Link2Accept">>, <<"Linked">>)
      [] Up(session) ->
            Outcome(session,
                    <<IF session.call = pkt.call THEN "Link2Accept" ELSE "Link2Busy">>,
                    << >>)
      [] OTHER -> Ignored(session)

OnDPlusUnlink(session) ==
    IF Up(session) \/ session.state = "Link1Received"
    THEN Outcome(Closed(session), <<"UnlinkAck">>, <<"Unlinked">>)
    ELSE Ignored(session)

OnPoll(session, pkt) ==
    IF /\ Kind \in {"DPlus", "Dcs"} => Up(session)
       /\ Kind \in {"DExtra", "Dcs"} => session.call = pkt.call
    THEN Outcome(session, <<"PollEcho">>, << >>)
    ELSE Ignored(session)

(* A header opens a stream only from Linked; frames and the EOT belong to the
   stream it opened. *)
OnVoiceHeader(session, pkt) ==
    IF session.state = "Linked"
    THEN Outcome([session EXCEPT !.state = "Streaming", !.stream = pkt.stream],
                 << >>, <<"StreamStarted">>)
    ELSE Ignored(session)
OnVoiceData(session, pkt) ==
    IF session.state = "Streaming" /\ session.stream = pkt.stream
    THEN Outcome(session, << >>, <<"StreamFrame">>)
    ELSE Ignored(session)
OnVoiceEot(session, pkt) ==
    IF session.state = "Streaming" /\ session.stream = pkt.stream
    THEN Outcome([session EXCEPT !.state = "Linked", !.stream = NoStream],
                 << >>, <<"StreamEnded">>)
    ELSE Ignored(session)

(* Every DCS voice packet carries the header: the first one opens the stream. *)
OnDcsVoice(session, pkt) ==
    IF Up(session) /\ session.stream \in {NoStream, pkt.stream}
    THEN Outcome(
            IF pkt.isEnd THEN [session EXCEPT !.state = "Linked", !.stream = NoStream]
            ELSE [session EXCEPT !.state = "Streaming", !.stream = pkt.stream],
            << >>,
            (IF session.stream = NoStream THEN <<"StreamStarted">> ELSE << >>)
                \o <<"StreamFrame">>
                \o (IF pkt.isEnd THEN <<"StreamEnded">> ELSE << >>))
    ELSE Ignored(session)

SessionInput(session, pkt) ==
    CASE session.state = "Closed" -> Ignored(session)
      [] pkt.type = "Link" -> OnLink(session, pkt)
      [] pkt.type = "Unlink" /\ Kind # "DPlus" -> OnUnlink(session, pkt)
      [] pkt.type = "Unlink" /\ Kind = "DPlus" -> OnDPlusUnlink(session)
      [] pkt.type = "Link1" -> OnLink1(session)
      [] pkt.type = "Link2" -> OnLink2(session, pkt)
      [] pkt.type = "Poll" -> OnPoll(session, pkt)
      [] pkt.type = "VoiceHeader" -> OnVoiceHeader(session, pkt)
      [] pkt.type = "VoiceData" -> OnVoiceData(session, pkt)
      [] pkt.type = "VoiceEot" -> OnVoiceEot(session, pkt)
      [] pkt.type = "Voice" -> OnDcsVoice(session, pkt)
===============================================================================
