----------------------------- MODULE ReflectorBus -----------------------------
(***************************************************************************)
(* The endpoints of a reflector together (dstar-gateway-server:            *)
(* reflector/reflector.rs, the voice bus of tokio_shell/endpoint.rs,       *)
(* tokio_shell/transcode.rs).  Every endpoint is a task with its own       *)
(* sessions and stream cache; what it forwards it also publishes on a      *)
(* broadcast channel, which the other ones encode for their own members.   *)
(* The channel keeps the newest BusSlots events for each receiver; one     *)
(* that lags is told so and goes on with the oldest event kept.            *)
(*                                                                         *)
(* One module of the reflector, whose talkers are linked; ReflectorEndpoint*)
(* has links, limits, access and sending.  A talker numbers its talks (its *)
(* stream identifiers, which two talkers may share) and its packets, which *)
(* the network may lose.                                                   *)
(***************************************************************************)
EXTENDS Integers, Sequences, FiniteSets

CONSTANTS
    BusTalkers, HomeOf,     \* the clients that talk, and the endpoint each is linked to
    BusSlots,               \* CROSS_PROTOCOL_BUS_CAPACITY
    SilenceLimit,           \* voice_inactivity_timeout, in maintenance periods
    MaxTalks, MaxPackets,   \* bounds: talks of a talker, packets of a talk
    OddSequences            \* whether frames may have a sequence out of range

ASSUME BusConstants ==
    /\ HomeOf \in [BusTalkers -> {"DPlus", "DExtra", "Dcs"}]
    /\ {BusSlots, SilenceLimit, MaxTalks, MaxPackets} \subseteq Nat \ {0}
    /\ OddSequences \subseteq BOOLEAN

VARIABLES
    endTasks,    \* of every endpoint: spawned, running, ok or failed
    collected,   \* those that Reflector::run has collected
    stop,        \* the shutdown watch channel
    returned,    \* what run returned: the failures, or NotYet
    line,        \* the server session of every talker
    said,        \* every talker's talk, next packet, and whether it is over
    heldBy,      \* the stream cache entry of the module at every endpoint
    inbox,       \* bus events an endpoint has yet to take
    missed,      \* endpoints whose next recv is Lagged
    dueEnds,     \* endpoints whose maintenance tick is ready
    relay        \* history: what an endpoint sent its members last

busVars == <<endTasks, collected, stop, returned, line, said, heldBy, inbox, missed, dueEnds, relay>>
endTaskVars == <<endTasks, collected, stop, returned>>
voiceVars == <<line, said, heldBy, inbox, missed, relay>>

Endpoints == {HomeOf[t] : t \in BusTalkers}
Server(kind) == INSTANCE ServerCore WITH Kind <- kind, NoCall <- "none", NoStream <- 0
NotYet == {"running"}
NoTrack == [from |-> "none", stream |-> 0, age |-> 0]
NoHeader == <<"none", 0>>
Quiet == [who |-> NoHeader, order |-> 0, over |-> TRUE, age |-> SilenceLimit,
          again |-> FALSE, header |-> NoHeader]
UpEnds == {e \in Endpoints : endTasks[e] = "running"}
(* select! is biased: shutdown first, then maintenance, then datagrams and the bus. *)
Serving == IF stop THEN {} ELSE UpEnds

BusInit ==
    /\ endTasks = [e \in Endpoints |-> "spawned"] /\ collected = {} /\ stop = FALSE /\ returned = NotYet
    /\ line = [t \in BusTalkers |->
                 [state |-> "Linked", module |-> "M", call |-> t, stream |-> 0]]
    /\ said = [t \in BusTalkers |-> [talk |-> 0, next |-> 0, over |-> TRUE]]
    /\ heldBy = [e \in Endpoints |-> NoTrack] /\ inbox = [e \in Endpoints |-> << >>]
    /\ missed = {} /\ dueEnds = {} /\ relay = [e \in Endpoints |-> Quiet]

(***************************************************************************)
(* First talker wins, for talkers of every endpoint.                       *)
(***************************************************************************)
Takes(entry, talker, stream, starts) ==
    IF entry = NoTrack THEN starts ELSE entry.from = talker /\ entry.stream = stream

Entry(talker, stream) == [from |-> talker, stream |-> stream, age |-> 0]
HeaderOf(entry) == IF entry = NoTrack THEN NoHeader ELSE <<entry.from, entry.stream>>

(* The members of an endpoint are sent a packet: the header (rank 0), a frame (1) or
   the end (2) of a talk. *)
Relayed(r, talker, stream, number, rank) ==
    LET who == <<talker, stream>>  order == 3 * number + rank
    IN [who |-> who, order |-> order, over |-> rank = 2,
        age |-> IF rank = 2 THEN SilenceLimit ELSE 0,
        again |-> r.who = who /\ order <= r.order,
        header |-> IF rank = 0 THEN who ELSE r.header]

(***************************************************************************)
(* A datagram of a talker at its own endpoint.                             *)
(***************************************************************************)
Packet(t, last) ==
    LET stream == said[t].talk
    IN IF HomeOf[t] = "Dcs" THEN [type |-> "Voice", stream |-> stream, isEnd |-> last]
       ELSE [type |-> IF said[t].next = 0 THEN "VoiceHeader"
                      ELSE IF last THEN "VoiceEot" ELSE "VoiceData", stream |-> stream]

EndsTalk(pkt) == pkt.type = "VoiceEot" \/ (pkt.type = "Voice" /\ pkt.isEnd)

Rank(event) == CASE event = "StreamStarted" -> 0 [] event = "StreamFrame" -> 1
                 [] event = "StreamEnded" -> 2

(* publish_voice_events. *)
PublishedHeader(before, after) == IF after = NoTrack THEN HeaderOf(before) ELSE HeaderOf(after)

(* voice_event_from_server_event: a sequence out of range (odd) goes no further. *)
Published(t, reports, before, after, odd) ==
    LET fit == SelectSeq(reports, LAMBDA r : odd => r = "StreamStarted")
    IN [i \in DOMAIN fit |->
          [from |-> t, stream |-> said[t].talk, number |-> said[t].next, rank |-> Rank(fit[i]),
           header |-> PublishedHeader(before, after)]]

Newest(queue) ==
    IF Len(queue) > BusSlots THEN SubSeq(queue, Len(queue) - BusSlots + 1, Len(queue)) ELSE queue
PutOnBus(batch) ==
    /\ inbox' = [e \in Endpoints |-> IF e \in UpEnds THEN Newest(inbox[e] \o batch) ELSE << >>]
    /\ missed' = missed \cup {e \in UpEnds : Len(inbox[e]) + Len(batch) > BusSlots}

(* A datagram that is not forwarded is not published either. *)
Inbound(t, pkt, odd) ==
    LET e == HomeOf[t]
        out == Server(e)!SessionInput(line[t], pkt)
        after == IF EndsTalk(pkt) THEN NoTrack ELSE Entry(t, pkt.stream)
        rank == IF EndsTalk(pkt) THEN 2 ELSE IF pkt.type = "VoiceHeader" THEN 0 ELSE 1
    IN /\ line' = [line EXCEPT ![t] = out.session]
       /\ IF out.events # << >> /\ Takes(heldBy[e], t, pkt.stream, out.events[1] = "StreamStarted")
          THEN /\ heldBy' = [heldBy EXCEPT ![e] = after]
               /\ relay' = [relay EXCEPT ![e] =
                               Relayed(@, t, pkt.stream, said[t].next, rank)]
               /\ PutOnBus(Published(t, out.events, heldBy[e], after, odd))
          ELSE UNCHANGED <<heldBy, relay, inbox, missed>>

StartTalk(t) ==
    /\ said[t].over /\ said[t].talk < MaxTalks
    /\ said' = [said EXCEPT ![t] = [talk |-> @.talk + 1, next |-> 0, over |-> FALSE]]
    /\ UNCHANGED <<endTaskVars, line, heldBy, inbox, missed, dueEnds, relay>>

Say(t) ==
    /\ ~said[t].over
    /\ \E last \in BOOLEAN, odd \in OddSequences :
         /\ said[t].next = MaxPackets => last
         /\ HomeOf[t] # "Dcs" /\ said[t].next = 0 => ~last
         /\ said' = [said EXCEPT ![t] = [@ EXCEPT !.next = @ + 1, !.over = last]]
         /\ \/ UNCHANGED <<line, heldBy, inbox, missed, relay>>        \* lost on the way
            \/ HomeOf[t] \in Serving \ dueEnds /\ Inbound(t, Packet(t, last), odd)
    /\ UNCHANGED <<endTaskVars, dueEnds>>

(***************************************************************************)
(* An event of the bus at an endpoint.                                     *)
(***************************************************************************)
(* transcode_voice: DCS has no packet for a start and needs the header for the rest. *)
Encodes(e, event) == e = "Dcs" => event.rank # 0 /\ event.header # NoHeader

(* handle_cross_protocol_event. *)
Foreign(e, event) == HomeOf[event.from] # e

(* Mutant: the identifier alone names a stream. *)
TakesEventByStream(entry, event) ==
    IF entry = NoTrack THEN event.rank = 0 ELSE entry.stream = event.stream
TakesEvent(entry, event) == Takes(entry, event.from, event.stream, event.rank = 0)

CrossProtocol(e, event) ==
    IF Foreign(e, event) /\ TakesEvent(heldBy[e], event)
    THEN /\ heldBy' = [heldBy EXCEPT ![e] =
                         IF event.rank = 2 THEN NoTrack ELSE Entry(event.from, event.stream)]
         /\ relay' = IF Encodes(e, event)
                     THEN [relay EXCEPT ![e] =
                              Relayed(@, event.from, event.stream, event.number, event.rank)]
                     ELSE relay
    ELSE UNCHANGED <<heldBy, relay>>

TakeEvent(e) ==
    /\ e \in Serving \ dueEnds
    /\ \/ /\ e \in missed /\ missed' = missed \ {e}
          /\ UNCHANGED <<heldBy, inbox, relay>>
       \/ /\ e \notin missed /\ inbox[e] # << >>
          /\ inbox' = [inbox EXCEPT ![e] = Tail(@)]
          /\ CrossProtocol(e, Head(inbox[e])) /\ UNCHANGED missed
    /\ UNCHANGED <<endTaskVars, line, said, dueEnds>>

(***************************************************************************)
(* Maintenance.                                                            *)
(***************************************************************************)
Age(age) == IF age < SilenceLimit THEN age + 1 ELSE age
PassTime ==
    /\ dueEnds' = UpEnds
    /\ heldBy' = [e \in Endpoints |-> IF heldBy[e] = NoTrack THEN NoTrack
                                ELSE [heldBy[e] EXCEPT !.age = Age(@)]]
    /\ relay' = [e \in Endpoints |-> [relay[e] EXCEPT !.age = Age(@)]]
    /\ UNCHANGED <<endTaskVars, line, said, inbox, missed>>
Maintain(e) ==
    /\ e \in Serving \cap dueEnds /\ dueEnds' = dueEnds \ {e}
    /\ heldBy' = [heldBy EXCEPT ![e] = IF @.age >= SilenceLimit THEN NoTrack ELSE @]
    /\ UNCHANGED <<endTaskVars, line, said, inbox, missed, relay>>

(***************************************************************************)
(* Reflector::run: one task for each endpoint, all of them joined.         *)
(***************************************************************************)
(* An endpoint subscribes to the bus when its task first runs. *)
FirstPoll(e) ==
    /\ endTasks[e] = "spawned"
    /\ endTasks' = [endTasks EXCEPT ![e] = IF stop THEN "ok" ELSE "running"]
    /\ UNCHANGED <<collected, stop, returned, voiceVars, dueEnds>>

Leave(e, how) ==
    /\ e \in UpEnds /\ endTasks' = [endTasks EXCEPT ![e] = how]
    /\ inbox' = [inbox EXCEPT ![e] = << >>] /\ missed' = missed \ {e} /\ dueEnds' = dueEnds \ {e}
    /\ UNCHANGED <<collected, stop, returned, line, said, heldBy, relay>>
HearStop(e) == stop /\ Leave(e, "ok")
SocketFails(e) == e \in Serving \ dueEnds /\ Leave(e, "failed")

(* Mutant: a failure ends the reflector without the other endpoints. *)
DoneAtFailure == collected = Endpoints \/ (\E e \in collected : endTasks[e] = "failed")
Done == collected = Endpoints

JoinNext(e) ==
    /\ endTasks[e] \in {"ok", "failed"} /\ e \notin collected /\ returned = NotYet
    /\ collected' = collected \cup {e} /\ stop' = (stop \/ endTasks[e] = "failed")
    /\ UNCHANGED <<endTasks, returned, voiceVars, dueEnds>>
ReturnFromRun ==
    /\ Done /\ returned = NotYet /\ returned' = {e \in collected : endTasks[e] = "failed"}
    /\ UNCHANGED <<endTasks, collected, stop, voiceVars, dueEnds>>
AskShutdown ==
    /\ ~stop /\ stop' = TRUE
    /\ UNCHANGED <<endTasks, collected, returned, voiceVars, dueEnds>>

VoiceNext ==
    \/ \E t \in BusTalkers : StartTalk(t) \/ Say(t)
    \/ \E e \in Endpoints : TakeEvent(e) \/ Maintain(e) \/ FirstPoll(e)
    \/ PassTime
BusNext ==
    \/ VoiceNext
    \/ \E e \in Endpoints : HearStop(e) \/ SocketFails(e) \/ JoinNext(e)
    \/ ReturnFromRun \/ AskShutdown
BusSpec == BusInit /\ [][BusNext]_busVars

(***************************************************************************)
(* Properties                                                              *)
(***************************************************************************)
(* The members of an endpoint hear one talker of all endpoints at a time, another one
   only when the first has ended or was silent for the timeout, although talkers share
   stream identifiers and ends are lost on the way and on a lagging bus
   (select_voice_hint, handle_cross_protocol_event). *)
Members(e) == INSTANCE TalkChannel WITH
    Streams <- BusTalkers \X (1..MaxTalks), NoStream <- NoHeader,
    holder <- IF relay[e].over THEN NoHeader ELSE relay[e].who,
    quiet <- relay[e].age >= SilenceLimit
MembersHearOneTalker ==
    [][relay' = relay
         \/ \A e \in Endpoints : [Members(e)!ChannelNext]_(Members(e)!channelVars)]_busVars

(* Nothing is relayed twice or behind what came after it: not by the bus either, which
   brings every endpoint its own events back (handle_cross_protocol_event). *)
RelayedOnceInOrder == \A e \in Endpoints : ~relay[e].again

(* Members of DPlus and DExtra endpoints are sent frames and the end of a talk only after
   its header, also when the bus lost events in between. *)
HeaderComesFirst ==
    \A e \in Endpoints \ {"Dcs"} : relay[e].who # NoHeader => relay[e].header = relay[e].who

(* Every event that a DCS endpoint has to encode carries the header of its own stream,
   the end of the stream included, after which the cache is empty
   (publish_voice_events, MissingCachedHeader). *)
EventsCarryTheirHeader ==
    \A e \in Endpoints : \A i \in DOMAIN inbox[e] :
        LET event == inbox[e][i]
        IN event.header = <<event.from, event.stream>>
             \/ (HomeOf[event.from] = "Dcs" /\ event.header = NoHeader)

(* run returns when every endpoint has ended, with all failures; one failure has stopped
   the others (Reflector::run). *)
ReturnsWhole ==
    returned # NotYet =>
        /\ \A e \in Endpoints : endTasks[e] \in {"ok", "failed"}
        /\ returned = {e \in Endpoints : endTasks[e] = "failed"}

(* What an endpoint relays from the bus: one talker at a time, each event once and in order,
   after its header and with the header a DCS endpoint needs to encode it. *)
TalksAreRelayedWhole ==
    /\ [](RelayedOnceInOrder /\ HeaderComesFirst /\ EventsCarryTheirHeader)
    /\ MembersHearOneTalker
================================================================================
