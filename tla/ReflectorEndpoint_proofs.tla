------------------------ MODULE ReflectorEndpoint_proofs ------------------------
(***************************************************************************)
(* Theorems about an endpoint of the reflector, for the three protocols,   *)
(* any peers, callsigns, modules and streams, and any limits and timeouts. *)
(***************************************************************************)
EXTENDS ReflectorEndpoint, FiniteSetTheorems, SequenceTheorems, TLAPS

Packets == LinkPackets \cup ControlPackets \cup VoicePackets
LinkTypes == {"Link", "Link2"}
VoiceTypes == {"VoiceHeader", "VoiceData", "VoiceEot", "Voice"}

Says(reports, e) == \E i \in DOMAIN reports : reports[i] = e

(* What a datagram may do to a session, as far as the pool depends on it. *)
Sound(s, pkt, out) ==
  /\ out.session \in [state : {"Unknown", "Link1Received", "Linked", "Streaming", "Closed"},
                      module : Modules, call : Calls \cup {NoCall}, stream : Streams \cup {NoStream}]
  /\ out.session.module = s.module
  /\ Says(out.events, "Linked") =>
       /\ Up(out.session) /\ pkt.type \in LinkTypes /\ out.session.call = pkt.call
       /\ pkt.type = "Link" => pkt.module = s.module
  /\ Says(out.events, "Linked") /\ Kind = "DPlus" => Says(out.replies, "Link2Accept")
  /\ Says(out.replies, "Link2Accept") =>
       Up(out.session) /\ pkt.type \in LinkTypes /\ out.session.call = pkt.call
  /\ Says(out.events, "Unlinked") => out.session.state = "Closed"
  /\ ~Says(out.events, "Linked") /\ out.session.state # "Closed" =>
       /\ Up(out.session) <=> Up(s)
       /\ Up(s) => out.session.call = s.call
  /\ out.events # << >> /\ out.events[1] \in Voice =>
       /\ pkt.type \in VoiceTypes /\ Up(s) /\ out.session.state # "Closed"
       /\ ~Says(out.events, "Linked")
       /\ out.events[1] = "StreamStarted" => pkt.type \in {"VoiceHeader", "Voice"}

(* The datagrams an endpoint of each protocol is given. *)
LEMMA PacketFields ==
  ASSUME EndpointAssumption, NEW pkt \in Packets
  PROVE  /\ pkt.type \in {"Link", "Unlink", "Link1", "Link2", "Poll"} \cup VoiceTypes
         /\ pkt.type = "Link" => pkt.call \in Calls /\ pkt.module \in Modules \cup OtherModules /\ Kind # "DPlus"
         /\ pkt.type = "Link2" => pkt.call \in Calls /\ Kind = "DPlus"
         /\ pkt.type \in VoiceTypes => pkt.stream \in Streams
         /\ pkt.type = "Voice" => pkt.isEnd \in BOOLEAN
BY DEF Packets, LinkPackets, ControlPackets, VoicePackets, VoiceTypes

LEMMA ShortReports ==
  /\ \A e : ~Says(<< >>, e)
  /\ \A a, e : Says(<<a>>, e) <=> a = e
BY DEF Says

LEMMA IgnoredIsSound ==
  ASSUME NEW s \in Sessions, NEW pkt
  PROVE  Sound(s, pkt, Ignored(s))
BY ShortReports DEF Sound, Ignored, Outcome, Sessions

LEMMA OutcomeFields ==
  \A a, b, c : Outcome(a, b, c).session = a /\ Outcome(a, b, c).replies = b /\ Outcome(a, b, c).events = c
BY DEF Outcome

(* A LINK that is accepted, and a voice packet of a linked client. *)
LEMMA LinkedIsSound ==
  ASSUME NEW s \in Sessions, NEW n \in Sessions, Up(n), n.module = s.module, NEW pkt, n.call = pkt.call,
         pkt.type \in LinkTypes, pkt.type = "Link" => pkt.module = s.module,
         NEW r, r = "Link2Accept" \/ Kind # "DPlus"
  PROVE  Sound(s, pkt, Outcome(n, <<r>>, <<"Linked">>))
<1>1. n.state # "Closed"
  BY DEF Sessions
<1> QED
  BY <1>1, ShortReports, OutcomeFields DEF Sound, Sessions, Voice

LEMMA TalkIsSound ==
  ASSUME NEW s \in Sessions, NEW n \in Sessions, Up(s), Up(n), n.module = s.module, n.call = s.call,
         NEW pkt, pkt.type \in VoiceTypes, NEW e \in Voice, e = "StreamStarted" => pkt.type = "VoiceHeader"
  PROVE  Sound(s, pkt, Outcome(n, << >>, <<e>>))
<1>1. n.state # "Closed" /\ e \notin {"Linked", "Unlinked"}
  BY DEF Sessions, Voice
<1> QED
  BY <1>1, ShortReports, OutcomeFields DEF Sound, Sessions

LEMMA ClosedIsSound ==
  ASSUME NEW s \in Sessions, NEW pkt, NEW r, ~Says(r, "Link2Accept")
  PROVE  Sound(s, pkt, Outcome(Closed(s), r, <<"Unlinked">>))
<1> DEFINE n == Closed(s)
<1>1. /\ n \in [state : {"Unknown", "Link1Received", "Linked", "Streaming", "Closed"},
                module : Modules, call : Calls \cup {NoCall}, stream : Streams \cup {NoStream}]
      /\ n.module = s.module /\ n.state = "Closed"
  BY DEF Closed, Sessions
<1> HIDE DEF n
<1>2. Sound(s, pkt, Outcome(n, r, <<"Unlinked">>))
  BY <1>1, ShortReports, OutcomeFields DEF Sound, Voice
<1> QED
  BY <1>2 DEF n

LEMMA LinksAreSound ==
  ASSUME EndpointAssumption, NEW s \in Sessions, NEW pkt \in Packets, pkt.type \in {"Link", "Link1", "Link2"}
  PROVE  /\ pkt.type = "Link" => Sound(s, pkt, OnLink(s, pkt))
         /\ pkt.type = "Link1" => Sound(s, pkt, OnLink1(s))
         /\ pkt.type = "Link2" => Sound(s, pkt, OnLink2(s, pkt))
<1>1. CASE pkt.type = "Link"
  <2>1. Kind # "DPlus" /\ pkt.call \in Calls /\ pkt.type \in LinkTypes
    BY <1>1, PacketFields DEF LinkTypes
  <2> DEFINE fits == /\ s.state \in {"Unknown", "Linked", "Streaming"} /\ pkt.module = s.module
                     /\ s.call \in {NoCall, pkt.call}
             n == [s EXCEPT !.call = pkt.call, !.state = IF @ = "Streaming" THEN @ ELSE "Linked"]
  <2>2. CASE fits
    <3>1. OnLink(s, pkt) = Outcome(n, <<"ConnectAck">>, <<"Linked">>)
      BY <2>2 DEF OnLink
    <3>2. n \in Sessions /\ Up(n) /\ n.module = s.module /\ n.call = pkt.call
      BY <2>1 DEF Sessions, Up
    <3> HIDE DEF n
    <3> QED
      BY <1>1, <2>1, <2>2, <3>1, <3>2, LinkedIsSound
  <2>3. CASE ~fits
    <3>1. OnLink(s, pkt) = Ignored(s)
      BY <2>3 DEF OnLink
    <3> QED
      BY <1>1, <3>1, IgnoredIsSound
  <2> QED
    BY <1>1, <2>2, <2>3
<1>2. CASE pkt.type = "Link1"
  BY <1>2, IgnoredIsSound, ShortReports DEF OnLink1, Sound, Outcome, Sessions, Up, LinkTypes, Voice
<1>3. CASE pkt.type = "Link2"
  <2>1. pkt.call \in Calls /\ pkt.type \in LinkTypes
    BY <1>3, PacketFields DEF LinkTypes
  <2>2. CASE s.state = "Link1Received"
    <3> DEFINE n == [s EXCEPT !.call = pkt.call, !.state = "Linked"]
    <3>1. OnLink2(s, pkt) = Outcome(n, <<"Link2Accept">>, <<"Linked">>)
      BY <2>2 DEF OnLink2, Up
    <3>2. n \in Sessions /\ Up(n) /\ n.module = s.module /\ n.call = pkt.call
      BY <2>1 DEF Sessions, Up
    <3> HIDE DEF n
    <3> QED
      BY <1>3, <2>1, <3>1, <3>2, LinkedIsSound
  <2>3. CASE Up(s)
    <3> DEFINE r == IF s.call = pkt.call THEN "Link2Accept" ELSE "Link2Busy"
    <3>1. OnLink2(s, pkt) = Outcome(s, <<r>>, << >>)
      BY <2>3 DEF OnLink2, Up
    <3>2. r = "Link2Accept" => s.call = pkt.call
      OBVIOUS
    <3> HIDE DEF r
    <3> QED
      BY <1>3, <2>1, <2>3, <3>1, <3>2, ShortReports, OutcomeFields DEF Sound, Sessions
  <2>4. CASE s.state # "Link1Received" /\ ~Up(s)
    <3>1. OnLink2(s, pkt) = Ignored(s)
      BY <2>4 DEF OnLink2
    <3> QED
      BY <1>3, <3>1, IgnoredIsSound
  <2> QED
    BY <1>3, <2>2, <2>3, <2>4
<1> QED
  BY <1>1, <1>2, <1>3

LEMMA ControlIsSound ==
  ASSUME EndpointAssumption, NEW s \in Sessions, NEW pkt
  PROVE  /\ Sound(s, pkt, OnUnlink(s, pkt))
         /\ Sound(s, pkt, OnDPlusUnlink(s))
         /\ Sound(s, pkt, OnPoll(s, pkt))
<1>1. Sound(s, pkt, OnUnlink(s, pkt))
  BY IgnoredIsSound, ClosedIsSound, ShortReports DEF OnUnlink
<1>2. Sound(s, pkt, OnDPlusUnlink(s))
  BY IgnoredIsSound, ClosedIsSound, ShortReports DEF OnDPlusUnlink
<1>3. Sound(s, pkt, OnPoll(s, pkt))
  BY IgnoredIsSound, ShortReports DEF OnPoll, Sound, Outcome, Sessions, Up, LinkTypes, Voice
<1> QED
  BY <1>1, <1>2, <1>3

LEMMA VoiceIsSound ==
  ASSUME EndpointAssumption, NEW s \in Sessions, NEW pkt \in Packets, pkt.type \in VoiceTypes
  PROVE  /\ pkt.type = "VoiceHeader" => Sound(s, pkt, OnVoiceHeader(s, pkt))
         /\ pkt.type = "VoiceData" => Sound(s, pkt, OnVoiceData(s, pkt))
         /\ pkt.type = "VoiceEot" => Sound(s, pkt, OnVoiceEot(s, pkt))
<1>0. pkt.stream \in Streams
  BY PacketFields
<1>1. CASE pkt.type = "VoiceHeader"
  <2>1. CASE s.state = "Linked"
    <3> DEFINE n == [s EXCEPT !.state = "Streaming", !.stream = pkt.stream]
    <3>1. OnVoiceHeader(s, pkt) = Outcome(n, << >>, <<"StreamStarted">>)
      BY <2>1 DEF OnVoiceHeader
    <3>2. n \in Sessions /\ Up(n) /\ Up(s) /\ n.module = s.module /\ n.call = s.call
      BY <1>0, <2>1 DEF Sessions, Up
    <3> HIDE DEF n
    <3> QED
      BY <1>1, <3>1, <3>2, TalkIsSound DEF Voice
  <2> QED
    BY <1>1, <2>1, IgnoredIsSound DEF OnVoiceHeader
<1>2. CASE pkt.type = "VoiceData"
  <2>1. CASE s.state = "Streaming" /\ s.stream = pkt.stream
    BY <1>2, <2>1, TalkIsSound DEF OnVoiceData, Up, Voice
  <2> QED
    BY <1>2, <2>1, IgnoredIsSound DEF OnVoiceData
<1>3. CASE pkt.type = "VoiceEot"
  <2>1. CASE s.state = "Streaming" /\ s.stream = pkt.stream
    <3> DEFINE n == [s EXCEPT !.state = "Linked", !.stream = NoStream]
    <3>1. OnVoiceEot(s, pkt) = Outcome(n, << >>, <<"StreamEnded">>)
      BY <2>1 DEF OnVoiceEot
    <3>2. n \in Sessions /\ Up(n) /\ Up(s) /\ n.module = s.module /\ n.call = s.call
      BY <2>1 DEF Sessions, Up
    <3> HIDE DEF n
    <3> QED
      BY <1>3, <3>1, <3>2, TalkIsSound DEF Voice
  <2> QED
    BY <1>3, <2>1, IgnoredIsSound DEF OnVoiceEot
<1> QED
  BY <1>1, <1>2, <1>3

(* The events of a DCS voice packet are voice events, the first a start exactly when the
   packet opens the stream. *)
DcsEvents(s, pkt) ==
  (IF s.stream = NoStream THEN <<"StreamStarted">> ELSE << >>)
     \o <<"StreamFrame">> \o (IF pkt.isEnd THEN <<"StreamEnded">> ELSE << >>)
LEMMA DcsEventsAreVoice ==
  ASSUME NEW s, NEW pkt
  PROVE  /\ DcsEvents(s, pkt) \in Seq(Voice)
         /\ \A e : Says(DcsEvents(s, pkt), e) => e \in Voice
<1> DEFINE a == IF s.stream = NoStream THEN <<"StreamStarted">> ELSE << >>
           z == IF pkt.isEnd THEN <<"StreamEnded">> ELSE << >>
<1>1. a \in Seq(Voice) /\ z \in Seq(Voice) /\ <<"StreamFrame">> \in Seq(Voice)
  <2>1. \A e \in Voice : <<e>> \in Seq(Voice)
    OBVIOUS
  <2>2. << >> \in Seq(Voice)
    OBVIOUS
  <2> QED
    BY <2>1, <2>2 DEF Voice
<1>2. (a \o <<"StreamFrame">>) \o z \in Seq(Voice)
  <2> HIDE DEF a, z
  <2> QED
    BY <1>1
<1>3. DcsEvents(s, pkt) \in Seq(Voice)
  BY <1>2 DEF DcsEvents
<1> QED
  BY <1>3 DEF Says

LEMMA DcsVoiceIsSound ==
  ASSUME EndpointAssumption, NEW s \in Sessions, NEW pkt \in Packets, pkt.type = "Voice"
  PROVE  Sound(s, pkt, OnDcsVoice(s, pkt))
<1>0. pkt.stream \in Streams
  BY PacketFields DEF VoiceTypes
<1>1. CASE ~(Up(s) /\ s.stream \in {NoStream, pkt.stream})
  BY <1>1, IgnoredIsSound DEF OnDcsVoice
<1>2. CASE Up(s) /\ s.stream \in {NoStream, pkt.stream}
  <2> DEFINE next == IF pkt.isEnd THEN [s EXCEPT !.state = "Linked", !.stream = NoStream]
                     ELSE [s EXCEPT !.state = "Streaming", !.stream = pkt.stream]
  <2>1. OnDcsVoice(s, pkt) = [session |-> next, replies |-> << >>, events |-> DcsEvents(s, pkt)]
    BY <1>2 DEF OnDcsVoice, Outcome, DcsEvents
  <2>2. /\ next \in Sessions /\ Up(next) /\ next.module = s.module /\ next.call = s.call
        /\ next.state # "Closed"
    BY <1>0 DEF Sessions, Up
  <2>3. \A e \in {"Linked", "Unlinked"} : ~Says(DcsEvents(s, pkt), e)
    BY DcsEventsAreVoice DEF Voice
  <2> HIDE DEF next
  <2>4. /\ OnDcsVoice(s, pkt).session = next /\ OnDcsVoice(s, pkt).replies = << >>
        /\ OnDcsVoice(s, pkt).events = DcsEvents(s, pkt)
    BY <2>1
  <2> QED
    BY <1>2, <2>2, <2>3, <2>4, ShortReports DEF Sound, Sessions, VoiceTypes
<1> QED
  BY <1>1, <1>2

LEMMA InputIsSound ==
  ASSUME EndpointAssumption, NEW s \in Sessions, NEW pkt \in Packets
  PROVE  Sound(s, pkt, SessionInput(s, pkt))
<1>0. s.state # "Closed"
  BY DEF Sessions
<1>1. CASE pkt.type \in {"Link", "Link1", "Link2"}
  BY <1>0, <1>1, LinksAreSound DEF SessionInput
<1>2. CASE pkt.type \in {"Unlink", "Poll"}
  BY <1>0, <1>2, ControlIsSound DEF SessionInput
<1>3. CASE pkt.type \in {"VoiceHeader", "VoiceData", "VoiceEot"}
  BY <1>0, <1>3, VoiceIsSound DEF SessionInput, VoiceTypes
<1>4. CASE pkt.type = "Voice"
  BY <1>0, <1>4, DcsVoiceIsSound DEF SessionInput
<1> QED
  BY <1>1, <1>2, <1>3, <1>4, PacketFields DEF VoiceTypes

-----------------------------------------------------------------------------
(* The pool.                                                               *)

(* A DPlus link is to the default module, whatever step of the handshake it is in. *)
HomeInv == Kind = "DPlus" => \A p \in Clients : pool[p].session.module = DefaultModule

PoolInv ==
  /\ pool \in [Peers -> Handles \cup {NoClient}]
  /\ PoolIndexed /\ AccessFollowsCallsign /\ HomeInv
  /\ IsFiniteSet(Clients) /\ CapacityHeld

(* What drive_core computes before it writes anything back. *)
HandleFor(peer, initial) == IF Present(peer) THEN pool[peer] ELSE NewHandle(initial)
OutFor(peer, pkt, initial) == SessionInput(HandleFor(peer, initial).session, pkt)
HandleAfter(peer, pkt, initial, pending) ==
  Updated(HandleFor(peer, initial), OutFor(peer, pkt, initial), pending)
GoneAfter(peer, pkt, initial) == OutFor(peer, pkt, initial).session.state = "Closed"
ModuleAfter(peer, pkt, initial, pending) ==
  IF GoneAfter(peer, pkt, initial) THEN NoModule ELSE HandleAfter(peer, pkt, initial, pending).module

(* The handlers give drive_core the verdict on a LINK that was not rejected, and none on
   anything else that could be accepted. *)
Admissible(peer, pkt, initial, pending) ==
  /\ initial \in Modules /\ (Kind = "DPlus" => initial = DefaultModule)
  /\ pkt.type \in LinkTypes => pending = Policy[pkt.call] /\ pending # "Reject"

LEMMA HandleBefore ==
  ASSUME EndpointAssumption, PoolInv, NEW peer \in Peers, NEW initial \in Modules
  PROVE  LET handle == HandleFor(peer, initial)
         IN /\ handle \in Handles
            /\ handle.module = IF Up(handle.session) THEN handle.session.module ELSE NoModule
            /\ Up(handle.session) => handle.access = Policy[handle.session.call]
            /\ (Kind = "DPlus" /\ initial = DefaultModule) => handle.session.module = DefaultModule
            /\ ~Present(peer) => handle.module = NoModule /\ handle.session.module = initial
            /\ Present(peer) => handle = pool[peer]
<1>1. CASE Present(peer)
  <2>1. peer \in Clients /\ pool[peer] \in Handles /\ HandleFor(peer, initial) = pool[peer]
    BY <1>1 DEF PoolInv, Present, Clients, HandleFor
  <2> QED
    BY <1>1, <2>1 DEF PoolInv, PoolIndexed, AccessFollowsCallsign, HomeInv
<1>2. CASE ~Present(peer)
  <2>1. HandleFor(peer, initial) = NewHandle(initial)
    BY <1>2 DEF HandleFor
  <2>2. NewSession(initial) \in Sessions /\ ~Up(NewSession(initial)) /\ NewSession(initial).module = initial
    BY DEF NewSession, Sessions, Up
  <2>3. /\ NewHandle(initial) \in Handles /\ NewHandle(initial).session = NewSession(initial)
        /\ NewHandle(initial).module = NoModule
    BY <2>2 DEF NewHandle, Handles
  <2> QED
    BY <1>2, <2>1, <2>2, <2>3
<1> QED
  BY <1>1, <1>2

LEMMA RangeSays == ASSUME NEW r, NEW e PROVE (e \in Range(r)) <=> Says(r, e)
BY DEF Range, Says

(* The handle that is written back fits its session. *)
Fits(peer, pkt, initial, pending) ==
  LET before == HandleFor(peer, initial)
      handle == HandleAfter(peer, pkt, initial, pending)
  IN /\ handle \in Handles /\ handle # NoClient
     /\ handle.session = OutFor(peer, pkt, initial).session
     /\ handle.session.module = before.session.module
     /\ handle.module = IF Up(handle.session) THEN handle.session.module ELSE NoModule
     /\ Up(handle.session) => handle.access = Policy[handle.session.call]
     /\ handle.module \notin {NoModule, before.module} =>
          /\ pkt.type \in LinkTypes /\ before.module = NoModule
          /\ pkt.type = "Link" => handle.module = pkt.module
     /\ pending = NoAccess => handle.access = before.access

LEMMA HandleWritten ==
  ASSUME EndpointAssumption, PoolInv, NEW peer \in Peers, NEW pkt \in Packets, NEW initial, NEW pending,
         Admissible(peer, pkt, initial, pending), ~GoneAfter(peer, pkt, initial)
  PROVE  Fits(peer, pkt, initial, pending)
<1> DEFINE before == HandleFor(peer, initial)
           out == OutFor(peer, pkt, initial)
           handle == HandleAfter(peer, pkt, initial, pending)
           linked == Says(out.events, "Linked")
           accepted == Says(out.replies, "Link2Accept")
<1>0. initial \in Modules
  BY DEF Admissible
<1>1. /\ before \in Handles /\ before.session \in Sessions
      /\ before.module = IF Up(before.session) THEN before.session.module ELSE NoModule
      /\ Up(before.session) => before.access = Policy[before.session.call]
  BY <1>0, HandleBefore DEF Handles
<1>2. Sound(before.session, pkt, out) /\ out.session.state # "Closed"
  BY <1>1, InputIsSound DEF OutFor, GoneAfter
<1>3. out.session \in Sessions
  BY <1>2 DEF Sound, Sessions
<1>4. Accepted(out) <=> IF Kind = "DPlus" THEN accepted ELSE linked
  BY RangeSays DEF Accepted
<1>5. ~Says(out.events, "Unlinked")
  BY <1>2 DEF Sound
<1>6. /\ handle = [before EXCEPT !.session = out.session, !.module = handle.module, !.age = 0,
                                 !.access = handle.access]
      /\ handle.session = out.session
      /\ handle.module = IF linked THEN out.session.module ELSE before.module
      /\ handle.access = IF pending # NoAccess /\ Accepted(out) THEN pending ELSE before.access
  <2> DEFINE a == IF pending # NoAccess /\ Accepted(out) THEN pending ELSE before.access
             m == IF linked THEN out.session.module ELSE before.module
  <2>1. ("Linked" \in Range(out.events) <=> linked) /\ "Unlinked" \notin Range(out.events)
    BY <1>5, RangeSays
  <2>2. handle = [before EXCEPT !.session = out.session, !.module = m, !.age = 0, !.access = a]
    <3>1. CASE linked
      BY <2>1, <3>1 DEF HandleAfter, Updated
    <3>2. CASE ~linked
      BY <2>1, <3>2 DEF HandleAfter, Updated
    <3> QED
      BY <3>1, <3>2
  <2> HIDE DEF before, out, handle, a, m
  <2>3. handle.session = out.session /\ handle.module = m /\ handle.access = a
    BY <1>1, <2>2 DEF Handles
  <2> QED
    BY <2>2, <2>3 DEF a, m
<1>7. Accepted(out) => /\ Up(out.session) /\ out.session.call = pkt.call
                       /\ pending = Policy[pkt.call] /\ pending \in {"ReadOnly", "ReadWrite"}
                       /\ pending # NoAccess
  <2> SUFFICES ASSUME Accepted(out)
               PROVE  /\ Up(out.session) /\ out.session.call = pkt.call
                      /\ pending = Policy[pkt.call] /\ pending \in {"ReadOnly", "ReadWrite"}
                      /\ pending # NoAccess
    OBVIOUS
  <2>1. Up(out.session) /\ out.session.call = pkt.call /\ pkt.type \in LinkTypes
    BY <1>2, <1>4 DEF Sound
  <2>2. pkt.call \in Calls
    BY <2>1, PacketFields DEF LinkTypes
  <2>3. Policy[pkt.call] \in {"Reject", "ReadOnly", "ReadWrite"}
    BY <2>2 DEF EndpointAssumption
  <2> QED
    BY <2>1, <2>3 DEF Admissible, EndpointAssumption
<1>8. linked => Accepted(out)
  BY <1>2, <1>4 DEF Sound
<1> HIDE DEF before, out, handle, linked, accepted
<1>9. handle.access = IF Accepted(out) THEN pending ELSE before.access
  BY <1>6, <1>7
<1>10. /\ out.session.module = before.session.module
       /\ linked => Up(out.session) /\ pkt.type \in LinkTypes /\ (pkt.type = "Link" => pkt.module = before.session.module)
       /\ ~linked => /\ Up(out.session) <=> Up(before.session)
                     /\ Up(before.session) => out.session.call = before.session.call
  BY <1>2 DEF Sound, linked
<1>11. handle \in Handles
  <2>1. handle.module \in Modules \cup {NoModule} /\ handle.access \in {"ReadOnly", "ReadWrite"}
    BY <1>1, <1>3, <1>6, <1>7, <1>9 DEF Handles, Sessions
  <2> DEFINE a == handle.access
             m == handle.module
  <2>2. handle = [before EXCEPT !.session = out.session, !.module = m, !.age = 0, !.access = a]
    BY <1>6
  <2>3. m \in Modules \cup {NoModule} /\ a \in {"ReadOnly", "ReadWrite"}
    BY <2>1
  <2> HIDE DEF a, m
  <2> QED
    BY <1>1, <1>3, <2>2, <2>3 DEF Handles
<1>12. handle # NoClient
  BY <1>11 DEF EndpointAssumption
<1>13. handle.module = IF Up(handle.session) THEN handle.session.module ELSE NoModule
  BY <1>1, <1>6, <1>10
<1>14. Up(handle.session) => handle.access = Policy[handle.session.call]
  BY <1>1, <1>6, <1>7, <1>8, <1>9, <1>10
<1>15. pending = NoAccess => handle.access = before.access
  BY <1>6
<1>16. ASSUME handle.module \notin {NoModule, before.module}
       PROVE  /\ pkt.type \in LinkTypes /\ before.module = NoModule
              /\ pkt.type = "Link" => handle.module = pkt.module
  BY <1>1, <1>6, <1>10, <1>16
<1> QED
  BY <1>6, <1>10, <1>11, <1>12, <1>13, <1>14, <1>15, <1>16 DEF Fits, before, out, handle

(* Sets with at most one member more, or none. *)
LEMMA Grows ==
  ASSUME NEW S, IsFiniteSet(S), NEW x, NEW T, T \subseteq S \cup {x}, NEW limit \in Nat,
         Cardinality(S) <= limit, T \subseteq S \/ Cardinality(S) < limit
  PROVE  IsFiniteSet(T) /\ Cardinality(T) <= limit
<1>1. Cardinality(S) \in Nat
  BY FS_CardinalityType
<1>2. CASE T \subseteq S
  <2>1. IsFiniteSet(T) /\ Cardinality(T) <= Cardinality(S)
    BY <1>2, FS_Subset
  <2>2. Cardinality(T) \in Nat
    BY <2>1, FS_CardinalityType
  <2> QED
    BY <1>1, <2>1, <2>2
<1>3. CASE Cardinality(S) < limit
  <2>1. IsFiniteSet(S \cup {x}) /\ Cardinality(S \cup {x}) <= Cardinality(S) + 1
    BY <1>1, FS_AddElement
  <2>2. IsFiniteSet(T) /\ Cardinality(T) <= Cardinality(S \cup {x})
    BY <2>1, FS_Subset
  <2>3. Cardinality(T) \in Nat /\ Cardinality(S \cup {x}) \in Nat
    BY <2>1, <2>2, FS_CardinalityType
  <2> QED
    BY <1>1, <1>3, <2>1, <2>2, <2>3
<1> QED
  BY <1>2, <1>3

(* The members of a module are clients. *)
LEMMA MembersFinite ==
  ASSUME PoolInv, NEW m \in Modules
  PROVE  IsFiniteSet(byModule[m]) /\ Cardinality(byModule[m]) <= MaxPerModule
<1>1. byModule[m] \in SUBSET Clients
  BY DEF PoolInv, PoolIndexed
<1> QED
  BY <1>1, FS_Subset DEF PoolInv, CapacityHeld

(* What drive_core writes to the pool, and the room it needs there. *)
Driven(peer, pkt, initial, pending) ==
  /\ pool' = [pool EXCEPT ![peer] = IF GoneAfter(peer, pkt, initial) THEN NoClient
                                    ELSE HandleAfter(peer, pkt, initial, pending)]
  /\ byModule' = Moved(peer, HandleFor(peer, initial).module, ModuleAfter(peer, pkt, initial, pending))
Room(peer, pkt, initial, pending) ==
  /\ ~Present(peer) => Cardinality(Clients) < MaxTotal
  /\ ModuleAfter(peer, pkt, initial, pending) \notin {NoModule, HandleFor(peer, initial).module} =>
       Cardinality(byModule[ModuleAfter(peer, pkt, initial, pending)]) < MaxPerModule

LEMMA DriveKeepsPool ==
  ASSUME EndpointAssumption, PoolInv, NEW peer \in Peers, NEW pkt \in Packets, NEW initial, NEW pending,
         Admissible(peer, pkt, initial, pending), Driven(peer, pkt, initial, pending),
         Room(peer, pkt, initial, pending)
  PROVE  PoolInv'
<1> DEFINE before == HandleFor(peer, initial)
           gone == GoneAfter(peer, pkt, initial)
           handle == HandleAfter(peer, pkt, initial, pending)
           cur == ModuleAfter(peer, pkt, initial, pending)
<1>0. initial \in Modules /\ (Kind = "DPlus" => initial = DefaultModule)
  BY DEF Admissible
<1>1. /\ before.module = IF Present(peer) THEN pool[peer].module ELSE NoModule
      /\ Kind = "DPlus" => before.session.module = DefaultModule
  BY <1>0, HandleBefore
<1>2. ~gone => /\ handle \in Handles /\ handle # NoClient
               /\ handle.session.module = before.session.module
               /\ handle.module = IF Up(handle.session) THEN handle.session.module ELSE NoModule
               /\ Up(handle.session) => handle.access = Policy[handle.session.call]
  <2>1. ~gone => Fits(peer, pkt, initial, pending)
    BY HandleWritten
  <2> QED
    BY <2>1 DEF Fits
<1>3. cur = IF gone THEN NoModule ELSE handle.module
  BY DEF ModuleAfter
<1>4. /\ pool' = [pool EXCEPT ![peer] = IF gone THEN NoClient ELSE handle]
      /\ byModule' = Moved(peer, before.module, cur)
      /\ ~Present(peer) => Cardinality(Clients) < MaxTotal
      /\ cur \notin {NoModule, before.module} => Cardinality(byModule[cur]) < MaxPerModule
  BY DEF Driven, Room
<1>5. pool \in [Peers -> Handles \cup {NoClient}] /\ NoModule \notin Modules
  BY DEF PoolInv, EndpointAssumption
<1> HIDE DEF before, gone, handle, cur
<1>6. /\ pool' \in [Peers -> Handles \cup {NoClient}]
      /\ pool'[peer] = IF gone THEN NoClient ELSE handle
      /\ \A p \in Peers \ {peer} : pool'[p] = pool[p]
  BY <1>2, <1>4, <1>5
<1>7. /\ \A p \in Peers \ {peer} : p \in Clients' <=> p \in Clients
      /\ peer \in Clients' <=> ~gone
      /\ peer \in Clients <=> Present(peer)
      /\ Clients \subseteq Peers /\ Clients' \subseteq Peers
  BY <1>2, <1>6 DEF Clients, Present
<1>8. ASSUME NEW m \in Modules
      PROVE  byModule'[m] = {p \in Clients' : pool'[p].module = m}
  <2>1. byModule[m] = {p \in Clients : pool[p].module = m}
    BY DEF PoolInv, PoolIndexed
  <2>2. byModule'[m] = (IF m = before.module THEN byModule[m] \ {peer} ELSE byModule[m])
                         \cup (IF m = cur THEN {peer} ELSE {})
    BY <1>4 DEF Moved
  <2>3. ASSUME NEW p, p # peer
        PROVE  p \in byModule'[m] <=> p \in Clients' /\ pool'[p].module = m
    <3>1. p \in byModule'[m] <=> p \in byModule[m]
      BY <2>2, <2>3
    <3> QED
      BY <1>6, <1>7, <2>1, <2>3, <3>1
  <2>4. peer \in byModule'[m] <=> peer \in Clients' /\ pool'[peer].module = m
    <3>1. peer \in byModule'[m] <=> m = cur
      BY <1>1, <1>5, <1>7, <2>1, <2>2
    <3> QED
      BY <1>3, <1>5, <1>6, <1>7, <3>1
  <2> QED
    BY <2>3, <2>4
<1>9. \A p \in Clients' :
        /\ pool'[p].module = IF Up(pool'[p].session) THEN pool'[p].session.module ELSE NoModule
        /\ Up(pool'[p].session) => pool'[p].access = Policy[pool'[p].session.call]
        /\ Kind = "DPlus" => pool'[p].session.module = DefaultModule
  <2> SUFFICES ASSUME NEW p \in Clients'
               PROVE  /\ pool'[p].module = IF Up(pool'[p].session) THEN pool'[p].session.module ELSE NoModule
                      /\ Up(pool'[p].session) => pool'[p].access = Policy[pool'[p].session.call]
                      /\ Kind = "DPlus" => pool'[p].session.module = DefaultModule
    OBVIOUS
  <2>1. CASE p = peer
    BY <1>1, <1>2, <1>6, <1>7, <2>1
  <2>2. CASE p # peer
    <3>1. p \in Clients /\ pool'[p] = pool[p]
      BY <1>6, <1>7, <2>2
    <3> QED
      BY <3>1 DEF PoolInv, PoolIndexed, AccessFollowsCallsign, HomeInv
  <2> QED
    BY <2>1, <2>2
<1>10. IsFiniteSet(Clients') /\ Cardinality(Clients') <= MaxTotal
  <2>1. Clients' \subseteq Clients \cup {peer} /\ (Present(peer) => Clients' \subseteq Clients)
    BY <1>7
  <2> QED
    BY <1>4, <2>1, Grows DEF PoolInv, CapacityHeld, EndpointAssumption
<1>11. ASSUME NEW m \in Modules PROVE Cardinality(byModule'[m]) <= MaxPerModule
  <2>1. IsFiniteSet(byModule[m]) /\ Cardinality(byModule[m]) <= MaxPerModule
    BY MembersFinite
  <2>2. byModule'[m] \subseteq byModule[m] \cup {peer}
    BY <1>4 DEF Moved
  <2>3. byModule'[m] \subseteq byModule[m] \/ Cardinality(byModule[m]) < MaxPerModule
    <3>1. CASE m # cur
      BY <1>4, <3>1 DEF Moved
    <3>2. CASE m = cur /\ cur = before.module
      <4>1. peer \in byModule[m]
        BY <1>1, <1>5, <1>7, <3>2 DEF PoolInv, PoolIndexed
      <4> QED
        BY <2>2, <4>1
    <3>3. CASE m = cur /\ cur # before.module
      BY <1>4, <1>5, <3>3
    <3> QED
      BY <3>1, <3>2, <3>3
  <2> QED
    BY <2>1, <2>2, <2>3, Grows DEF EndpointAssumption
<1>12. PoolIndexed' /\ AccessFollowsCallsign' /\ HomeInv'
  BY <1>8, <1>9 DEF PoolIndexed, AccessFollowsCallsign, HomeInv
<1>13. CapacityHeld'
  BY <1>10, <1>11 DEF CapacityHeld
<1> QED
  BY <1>6, <1>10, <1>12, <1>13 DEF PoolInv

(* Clients are removed with their memberships. *)
LEMMA PoolShrinks ==
  ASSUME EndpointAssumption, PoolInv, NEW gone, Remove(gone)
  PROVE  PoolInv'
<1>1. /\ pool' = [p \in Peers |-> IF p \in gone THEN NoClient ELSE pool[p]]
      /\ \A m \in Modules : byModule'[m] = byModule[m] \ {p \in gone : Present(p) /\ pool[p].module = m}
  BY DEF Remove
<1>2. pool' \in [Peers -> Handles \cup {NoClient}]
  BY <1>1 DEF PoolInv
<1>3. \A p : p \in Clients' <=> p \in Clients /\ p \notin gone
  BY <1>1 DEF Clients, Present
<1>4. \A p \in Clients' : p \in Clients /\ pool'[p] = pool[p]
  BY <1>1, <1>3 DEF Clients
<1>5. ASSUME NEW m \in Modules
      PROVE  byModule'[m] = {p \in Clients' : pool'[p].module = m} /\ byModule'[m] \subseteq byModule[m]
  <2>1. byModule[m] = {p \in Clients : pool[p].module = m}
    BY DEF PoolInv, PoolIndexed
  <2>2. \A p \in Clients : Present(p)
    BY DEF Clients
  <2>3. \A p : p \in byModule'[m] <=> p \in Clients' /\ pool'[p].module = m
    BY <1>1, <1>3, <1>4, <2>1, <2>2
  <2> QED
    BY <1>1, <1>3, <2>3
<1>6. PoolIndexed' /\ AccessFollowsCallsign' /\ HomeInv'
  BY <1>4, <1>5 DEF PoolInv, PoolIndexed, AccessFollowsCallsign, HomeInv
<1>7. IsFiniteSet(Clients') /\ Cardinality(Clients') <= MaxTotal
  BY <1>3, Grows DEF PoolInv, CapacityHeld, EndpointAssumption
<1>8. \A m \in Modules : Cardinality(byModule'[m]) <= MaxPerModule
  BY <1>5, MembersFinite, Grows DEF EndpointAssumption
<1> QED
  BY <1>2, <1>6, <1>7, <1>8 DEF PoolInv, CapacityHeld

(* Ages and failure counts are nothing to the invariant. *)
LEMMA PoolTouched ==
  ASSUME PoolInv, pool' \in [Peers -> Handles \cup {NoClient}], byModule' = byModule,
         \A p \in Peers : Present(p)' <=> Present(p),
         \A p \in Clients : /\ pool'[p].session = pool[p].session /\ pool'[p].module = pool[p].module
                            /\ pool'[p].access = pool[p].access
  PROVE  PoolInv'
<1>1. Clients' = Clients
  BY DEF Clients
<1>2. PoolIndexed'
  BY <1>1 DEF PoolInv, PoolIndexed
<1>3. AccessFollowsCallsign' /\ HomeInv'
  BY <1>1 DEF PoolInv, AccessFollowsCallsign, HomeInv
<1>4. IsFiniteSet(Clients') /\ CapacityHeld'
  BY <1>1 DEF PoolInv, CapacityHeld
<1> QED
  BY <1>2, <1>3, <1>4 DEF PoolInv

-----------------------------------------------------------------------------
(* The streams.                                                            *)

Feeds == [stream : (Peers \X Streams) \cup {NoStream}, call : Calls \cup {NoCall}, age : Nat]

(* The stream cache remembers what was last forwarded, until that has been silent too long. *)
Follows(m) ==
  IF cache[m] = NoEntry THEN feed[m].stream = NoStream \/ feed[m].age >= VoiceTimeout
  ELSE feed[m].stream = <<cache[m].peer, cache[m].stream>> /\ feed[m].age = cache[m].age

TalkInv ==
  /\ cache \in [Modules -> Entries \cup {NoEntry}] /\ feed \in [Modules -> Feeds]
  /\ OnlyWritersHeard
  /\ \A m \in Modules : Follows(m)

EndpointInv == PoolInv /\ TalkInv

(* Steps of a module's channel. *)
Quiet(m) == feed[m].age >= VoiceTimeout
Channels == \A m \in Modules : [Module(m)!ChannelNext]_(Module(m)!channelVars)

LEMMA ModuleSteps ==
  ASSUME NEW m \in Modules
  PROVE  /\ feed'[m] = feed[m] => [Module(m)!ChannelNext]_(Module(m)!channelVars)
         /\ feed'[m].stream = feed[m].stream /\ (Quiet(m)' = TRUE) => [Module(m)!ChannelNext]_(Module(m)!channelVars)
         /\ feed[m].stream # NoStream /\ feed'[m].stream = NoStream =>
              [Module(m)!ChannelNext]_(Module(m)!channelVars)
         /\ \A s \in Peers \X Streams :
              /\ feed'[m].stream = s /\ Quiet(m)' = FALSE
              /\ feed[m].stream \in {NoStream, s} \/ Quiet(m)
              => [Module(m)!ChannelNext]_(Module(m)!channelVars)
<1> USE DEF Quiet
<1>1. feed'[m] = feed[m] => [Module(m)!ChannelNext]_(Module(m)!channelVars)
  BY DEF Module!channelVars
<1>2. feed'[m].stream = feed[m].stream /\ (Quiet(m)' = TRUE) => [Module(m)!ChannelNext]_(Module(m)!channelVars)
  BY DEF Module!ChannelNext, Module!GoQuiet
<1>3. feed[m].stream # NoStream /\ feed'[m].stream = NoStream =>
              [Module(m)!ChannelNext]_(Module(m)!channelVars)
  BY DEF Module!ChannelNext, Module!Release
<1>4. ASSUME NEW s \in Peers \X Streams, feed'[m].stream = s, Quiet(m)' = FALSE,
             feed[m].stream \in {NoStream, s} \/ Quiet(m)
      PROVE  Module(m)!ChannelNext
  BY <1>4, Zenon DEF Module!ChannelNext, Module!Claim, Module!Talk, Module!Preempt
<1> QED
  BY <1>1, <1>2, <1>3, <1>4

(* The entry and the feed after a packet that select_voice_hint selected. *)
Ending(pkt) == pkt.type = "VoiceEot" \/ (pkt.type = "Voice" /\ pkt.isEnd)
Traced(entry, peer, pkt, call) ==
  /\ Ending(pkt) => Tracked(entry, peer, pkt) = NoEntry /\ Heard(peer, call, pkt) = Silence
  /\ ~Ending(pkt) =>
       /\ Tracked(entry, peer, pkt) \in Entries /\ Tracked(entry, peer, pkt) # NoEntry
       /\ Tracked(entry, peer, pkt).peer = peer /\ Tracked(entry, peer, pkt).stream = pkt.stream
       /\ Tracked(entry, peer, pkt).age = 0
       /\ Heard(peer, call, pkt) = [stream |-> <<peer, pkt.stream>>, call |-> call, age |-> 0]
LEMMA TrackedFacts ==
  ASSUME EndpointAssumption, NEW entry \in Entries \cup {NoEntry}, NEW peer \in Peers, NEW pkt \in Packets,
         pkt.type \in VoiceTypes, entry = NoEntry => pkt.type \in {"VoiceHeader", "Voice"},
         entry # NoEntry => Matches(entry, peer, pkt.stream), NEW call
  PROVE  Traced(entry, peer, pkt, call)
<1>0. pkt.stream \in Streams /\ (pkt.type = "Voice" => pkt.isEnd \in BOOLEAN)
  BY PacketFields
<1>1. CASE Ending(pkt)
  BY <1>1 DEF Traced, Ending, Tracked, Heard
<1>2. CASE ~Ending(pkt)
  <2>1. Heard(peer, call, pkt) = [stream |-> <<peer, pkt.stream>>, call |-> call, age |-> 0]
    BY <1>2 DEF Ending, Heard
  <2>2. /\ NewEntry(peer, pkt) \in Entries /\ NewEntry(peer, pkt).peer = peer
        /\ NewEntry(peer, pkt).stream = pkt.stream /\ NewEntry(peer, pkt).age = 0
    BY <1>0 DEF NewEntry, Entries
  <2>3. ASSUME entry # NoEntry
        PROVE  /\ RecordFrame(entry) \in Entries /\ RecordFrame(entry).peer = peer
               /\ RecordFrame(entry).stream = pkt.stream /\ RecordFrame(entry).age = 0
    <3>1. entry \in Entries /\ entry.peer = peer /\ entry.stream = pkt.stream /\ entry.frames \in Nat
      BY <2>3 DEF Matches, Entries
    <3>2. (entry.frames + 1) % Cadence \in Nat
      BY <3>1 DEF EndpointAssumption
    <3> DEFINE f == (entry.frames + 1) % Cadence
               e == [entry EXCEPT !.frames = f, !.age = 0]
    <3>3. RecordFrame(entry) = e
      BY DEF RecordFrame
    <3>4. f \in Nat
      BY <3>2
    <3> HIDE DEF f
    <3>5. e \in Entries /\ e.age = 0
      BY <3>1, <3>4 DEF Entries
    <3>6. e.peer = entry.peer /\ e.stream = entry.stream
      BY <3>1 DEF Entries
    <3> HIDE DEF e
    <3> QED
      BY <3>1, <3>3, <3>5, <3>6
  <2>4. Tracked(entry, peer, pkt) = NewEntry(peer, pkt)
          \/ (entry # NoEntry /\ Tracked(entry, peer, pkt) = RecordFrame(entry))
    <3>1. CASE pkt.type = "VoiceHeader"
      BY <3>1 DEF Tracked
    <3>2. CASE pkt.type = "VoiceData"
      BY <3>2 DEF Tracked
    <3>3. CASE pkt.type = "Voice"
      BY <1>2, <3>3 DEF Tracked, Ending
    <3> QED
      BY <1>2, <3>1, <3>2, <3>3 DEF VoiceTypes, Ending
  <2>5. NoEntry \notin Entries
    BY DEF EndpointAssumption
  <2> QED
    BY <1>2, <2>1, <2>2, <2>3, <2>4, <2>5 DEF Traced
<1> QED
  BY <1>1, <1>2

(* A selected packet, as the cache and the listeners of its module see it. *)
LEMMA DriveTalks ==
  ASSUME EndpointAssumption, EndpointInv, NEW peer \in Peers, NEW pkt \in Packets, NEW initial, NEW pending,
         Admissible(peer, pkt, initial, pending),
         pkt.type \in VoiceTypes => HandleFor(peer, initial).access = "ReadWrite" /\ pending = NoAccess,
         NEW module, module = ModuleAfter(peer, pkt, initial, pending),
         Selected(module, peer, pkt, OutFor(peer, pkt, initial).events),
         cache' = [cache EXCEPT ![module] = Tracked(@, peer, pkt)],
         feed' = [feed EXCEPT ![module] =
                    Heard(peer, HandleAfter(peer, pkt, initial, pending).session.call, pkt)]
  PROVE  TalkInv' /\ Channels
<1> DEFINE before == HandleFor(peer, initial)
           out == OutFor(peer, pkt, initial)
           handle == HandleAfter(peer, pkt, initial, pending)
           call == handle.session.call
<1>0. PoolInv /\ initial \in Modules
  BY DEF EndpointInv, Admissible
<1>1. /\ module # NoModule /\ out.events # << >> /\ out.events[1] \in Voice
      /\ IF cache[module] = NoEntry THEN out.events[1] = "StreamStarted"
         ELSE Matches(cache[module], peer, pkt.stream)
  BY DEF Selected
<1>2. before.session \in Sessions
  BY <1>0, HandleBefore DEF Handles
<1>3. Sound(before.session, pkt, out)
  BY <1>2, InputIsSound DEF OutFor
<1>4. /\ pkt.type \in VoiceTypes /\ ~GoneAfter(peer, pkt, initial)
      /\ out.events[1] = "StreamStarted" => pkt.type \in {"VoiceHeader", "Voice"}
  BY <1>1, <1>3 DEF Sound, GoneAfter
<1>5. /\ handle \in Handles /\ handle.access = "ReadWrite" /\ handle.module = module
      /\ handle.module = IF Up(handle.session) THEN handle.session.module ELSE NoModule
      /\ Up(handle.session) => handle.access = Policy[handle.session.call]
  <2>1. Fits(peer, pkt, initial, pending)
    BY <1>0, <1>4, HandleWritten
  <2>2. before.access = "ReadWrite" /\ pending = NoAccess /\ module = handle.module
    BY <1>4 DEF ModuleAfter
  <2> QED
    BY <2>1, <2>2 DEF Fits
<1>6. Policy[call] = "ReadWrite" /\ module \in Modules /\ call \in Calls \cup {NoCall}
  BY <1>1, <1>5 DEF Handles, Sessions
<1>7. pkt.stream \in Streams
  BY <1>4, PacketFields
<1> HIDE DEF before, out, handle, call
<1>8. cache[module] \in Entries \cup {NoEntry} /\ cache \in [Modules -> Entries \cup {NoEntry}] /\ feed \in [Modules -> Feeds]
  BY <1>6 DEF EndpointInv, TalkInv
<1> DEFINE entry == Tracked(cache[module], peer, pkt)
           said == Heard(peer, call, pkt)
           talk == <<peer, pkt.stream>>
<1>9. /\ cache' = [cache EXCEPT ![module] = entry] /\ feed' = [feed EXCEPT ![module] = said]
      /\ cache'[module] = entry /\ feed'[module] = said
      /\ \A m \in Modules \ {module} : cache'[m] = cache[m] /\ feed'[m] = feed[m]
  BY <1>6, <1>8 DEF call, handle
<1>10. /\ Ending(pkt) => entry = NoEntry /\ said = Silence
       /\ ~Ending(pkt) =>
            /\ entry \in Entries /\ entry # NoEntry /\ entry.peer = peer /\ entry.stream = pkt.stream
            /\ entry.age = 0
            /\ said = [stream |-> talk, call |-> call, age |-> 0]
  <2>1. /\ cache[module] = NoEntry => pkt.type \in {"VoiceHeader", "Voice"}
        /\ cache[module] # NoEntry => Matches(cache[module], peer, pkt.stream)
    BY <1>1, <1>4
  <2>2. Traced(cache[module], peer, pkt, call)
    BY <1>4, <1>8, <2>1, TrackedFacts
  <2> QED
    BY <2>2 DEF Traced
<1>11. VoiceTimeout \in Nat \ {0} /\ talk \in Peers \X Streams /\ talk # NoStream
  BY <1>7 DEF EndpointAssumption
<1> HIDE DEF entry, said
<1>12. /\ said \in Feeds
       /\ Ending(pkt) => said.stream = NoStream /\ said.age = VoiceTimeout
       /\ ~Ending(pkt) => said.stream = talk /\ said.age = 0 /\ said.call = call
  <2> HIDE DEF talk
  <2>1. CASE Ending(pkt)
    BY <1>10, <1>11, <2>1 DEF Feeds, Silence
  <2>2. CASE ~Ending(pkt)
    <3>1. said = [stream |-> talk, call |-> call, age |-> 0] /\ talk \in (Peers \X Streams) \cup {NoStream}
      BY <1>10, <1>11, <2>2
    <3>2. said.stream = talk /\ said.age = 0 /\ said.call = call
      BY <3>1
    <3>3. said \in Feeds
      BY <1>6, <3>1 DEF Feeds
    <3> QED
      BY <2>2, <3>2, <3>3
  <2> QED
    BY <2>1, <2>2
<1>13. cache' \in [Modules -> Entries \cup {NoEntry}] /\ feed' \in [Modules -> Feeds]
  <2>1. entry \in Entries \cup {NoEntry}
    BY <1>10
  <2>2. cache' \in [Modules -> Entries \cup {NoEntry}]
    BY <1>8, <1>9, <2>1
  <2> QED
    BY <1>8, <1>9, <1>12, <2>2
<1>14. /\ Ending(pkt) => feed'[module].stream = NoStream /\ feed'[module].age = VoiceTimeout
       /\ ~Ending(pkt) => /\ feed'[module].stream = talk /\ feed'[module].age = 0
                          /\ feed'[module].call = call
  BY <1>9, <1>12
<1>15. ASSUME NEW m \in Modules
       PROVE  Follows(m)' /\ (feed'[m].stream # NoStream => Policy[feed'[m].call] = "ReadWrite")
  <2>1. CASE m # module
    <3>1. cache'[m] = cache[m] /\ feed'[m] = feed[m]
      BY <1>9, <2>1
    <3>2. Follows(m) /\ (feed[m].stream # NoStream => Policy[feed[m].call] = "ReadWrite")
      BY DEF EndpointInv, TalkInv, OnlyWritersHeard
    <3> QED
      BY <3>1, <3>2 DEF Follows
  <2>2. CASE m = module
    <3>1. CASE Ending(pkt)
      BY <1>9, <1>10, <1>14, <2>2, <3>1 DEF Follows
    <3>2. CASE ~Ending(pkt)
      BY <1>6, <1>9, <1>10, <1>14, <2>2, <3>2 DEF Follows
    <3> QED
      BY <3>1, <3>2
  <2> QED
    BY <2>1, <2>2
<1>16. ASSUME NEW m \in Modules PROVE [Module(m)!ChannelNext]_(Module(m)!channelVars)
  <2>1. CASE m # module
    BY <1>9, <2>1, ModuleSteps
  <2>2. CASE m = module /\ Ending(pkt)
    <3>1. feed'[m].stream = NoStream /\ Quiet(m)' = TRUE
      BY <1>11, <1>14, <2>2 DEF Quiet
    <3> QED
      BY <3>1, ModuleSteps
  <2>3. CASE m = module /\ ~Ending(pkt)
    <3>1. feed'[m].stream = talk /\ feed'[m].age = 0
      BY <1>14, <2>3
    <3>2. Quiet(m)' = FALSE
      <4>1. ~(0 >= VoiceTimeout)
        BY <1>11
      <4> QED
        BY <3>1, <4>1 DEF Quiet
    <3>3. feed[m].stream \in {NoStream, talk} \/ Quiet(m)
      <4>1. Follows(m)
        BY DEF EndpointInv, TalkInv
      <4> QED
        BY <1>1, <2>3, <4>1 DEF Follows, Matches, Quiet
    <3> HIDE DEF talk
    <3> QED
      BY <1>11, <3>1, <3>2, <3>3, ModuleSteps
  <2> QED
    BY <2>1, <2>2, <2>3
<1> QED
  BY <1>13, <1>15, <1>16 DEF TalkInv, OnlyWritersHeard, Channels

-----------------------------------------------------------------------------
(* The steps of the loop.                                                  *)

Kept == EndpointInv' /\ (feed' = feed \/ Channels)

LEMMA DriveStep ==
  ASSUME EndpointAssumption, EndpointInv, NEW peer \in Peers, NEW pkt \in Packets, NEW initial, NEW pending,
         Admissible(peer, pkt, initial, pending), Room(peer, pkt, initial, pending),
         pkt.type \in VoiceTypes => HandleFor(peer, initial).access = "ReadWrite" /\ pending = NoAccess,
         DriveCore(peer, pkt, initial, pending)
  PROVE  Kept
<1> DEFINE module == ModuleAfter(peer, pkt, initial, pending)
           reports == OutFor(peer, pkt, initial).events
           call == HandleAfter(peer, pkt, initial, pending).session.call
<1>1. /\ Driven(peer, pkt, initial, pending)
      /\ \/ cache' = cache /\ feed' = feed
         \/ /\ Selected(module, peer, pkt, reports)
            /\ cache' = [cache EXCEPT ![module] = Tracked(@, peer, pkt)]
            /\ feed' = [feed EXCEPT ![module] = Heard(peer, call, pkt)]
  BY Zenon DEF DriveCore, Driven, ModuleAfter, GoneAfter, HandleAfter, OutFor, HandleFor
<1>2. PoolInv'
  BY <1>1, DriveKeepsPool DEF EndpointInv
<1>3. CASE cache' = cache /\ feed' = feed
  BY <1>2, <1>3 DEF Kept, EndpointInv, TalkInv, OnlyWritersHeard, Follows
<1>4. CASE /\ Selected(module, peer, pkt, reports)
           /\ cache' = [cache EXCEPT ![module] = Tracked(@, peer, pkt)]
           /\ feed' = [feed EXCEPT ![module] = Heard(peer, call, pkt)]
  <2>1. TalkInv' /\ Channels
    BY <1>4, DriveTalks
  <2> QED
    BY <1>2, <2>1 DEF Kept, EndpointInv
<1> QED
  BY <1>1, <1>3, <1>4

(* A step that leaves the cache and the feed alone need only keep the pool. *)
LEMMA PoolOnly ==
  ASSUME EndpointInv, PoolInv', UNCHANGED <<cache, feed>>
  PROVE  Kept
BY DEF Kept, EndpointInv, TalkInv, OnlyWritersHeard, Follows

(* Who joins a module: one that was in none, by a LINK, to the module the LINK names or, in
   DPlus, to the default one. *)
LEMMA Joins ==
  ASSUME EndpointAssumption, PoolInv, NEW peer \in Peers, NEW pkt \in Packets, NEW initial, NEW pending,
         Admissible(peer, pkt, initial, pending),
         ModuleAfter(peer, pkt, initial, pending) \notin {NoModule, HandleFor(peer, initial).module}
  PROVE  /\ pkt.type \in LinkTypes /\ HandleFor(peer, initial).module = NoModule
         /\ pkt.type = "Link" => ModuleAfter(peer, pkt, initial, pending) = pkt.module
         /\ Kind = "DPlus" => ModuleAfter(peer, pkt, initial, pending) = DefaultModule
<1>1. ~GoneAfter(peer, pkt, initial) /\ ModuleAfter(peer, pkt, initial, pending) = HandleAfter(peer, pkt, initial, pending).module
  BY DEF ModuleAfter
<1>2. initial \in Modules /\ (Kind = "DPlus" => initial = DefaultModule)
  BY DEF Admissible
<1>3. Kind = "DPlus" => HandleFor(peer, initial).session.module = DefaultModule
  <2>1. (Kind = "DPlus" => initial = DefaultModule) /\ initial \in Modules
    BY <1>2
  <2> QED
    BY <2>1, HandleBefore, SMTT(30)
<1>4. Fits(peer, pkt, initial, pending)
  BY <1>1, HandleWritten
<1> QED
  BY <1>1, <1>3, <1>4 DEF Fits

LEMMA LinkStep ==
  ASSUME EndpointAssumption, EndpointInv, NEW peer \in Peers, NEW pkt \in Packets, Link(peer, pkt)
  PROVE  Kept
<1>0. PoolInv /\ pkt.type = "Link" /\ pkt.call \in Calls /\ Kind # "DPlus"
  BY PacketFields DEF EndpointInv, Link
<1>1. CASE Refused(peer, pkt)
  <2>1. UNCHANGED <<pool, byModule, cache, feed>>
    BY <1>1 DEF Link, Refuse
  <2>2. PoolInv'
    BY <1>0, <2>1 DEF PoolInv, PoolIndexed, AccessFollowsCallsign, HomeInv, CapacityHeld, Clients, Present
  <2> QED
    BY <2>1, <2>2, PoolOnly
<1>2. CASE ~Refused(peer, pkt)
  <2> DEFINE pending == Policy[pkt.call]
  <2>1. /\ DriveCore(peer, pkt, pkt.module, pending)
        /\ pkt.module \in Modules /\ pending # "Reject" /\ ~Full(peer, pkt.module)
    BY <1>2 DEF Link, Refused
  <2>2. Admissible(peer, pkt, pkt.module, pending)
    BY <1>0, <2>1 DEF Admissible
  <2> HIDE DEF pending
  <2>3. MaxTotal \in Nat /\ MaxPerModule \in Nat /\ NoModule # pkt.module
    BY <2>1 DEF EndpointAssumption
  <2>4. /\ IsFiniteSet(Clients) /\ Cardinality(Clients) \in Nat
        /\ IsFiniteSet(byModule[pkt.module]) /\ Cardinality(byModule[pkt.module]) \in Nat
    BY <1>0, <2>1, MembersFinite, FS_CardinalityType DEF PoolInv
  <2>5. ModuleOf(peer) = NoModule =>
          /\ ~Present(peer) => Cardinality(Clients) < MaxTotal
          /\ Cardinality(byModule[pkt.module]) < MaxPerModule
    BY <2>1, <2>3, <2>4 DEF Full
  <2>6. HandleFor(peer, pkt.module).module = ModuleOf(peer)
    BY DEF HandleFor, ModuleOf, NewHandle
  <2>7. Room(peer, pkt, pkt.module, pending)
    <3>1. ~Present(peer) => Cardinality(Clients) < MaxTotal
      BY <2>5 DEF ModuleOf
    <3>2. ASSUME ModuleAfter(peer, pkt, pkt.module, pending) \notin {NoModule, HandleFor(peer, pkt.module).module}
          PROVE  Cardinality(byModule[ModuleAfter(peer, pkt, pkt.module, pending)]) < MaxPerModule
      <4>1. /\ ModuleOf(peer) = NoModule
            /\ ModuleAfter(peer, pkt, pkt.module, pending) = pkt.module
        BY <1>0, <2>2, <2>6, <3>2, Joins
      <4> QED
        BY <2>5, <4>1
    <3> QED
      BY <3>1, <3>2 DEF Room
  <2> QED
    BY <1>0, <2>1, <2>2, <2>7, DriveStep DEF VoiceTypes
<1> QED
  BY <1>1, <1>2

LEMMA Link1Step ==
  ASSUME EndpointAssumption, EndpointInv, NEW peer \in Peers, NEW pkt \in Packets, Link1(peer, pkt)
  PROVE  Kept
<1>0. PoolInv /\ pkt.type = "Link1" /\ DefaultModule \in Modules
  BY DEF EndpointInv, Link1, EndpointAssumption
<1>1. CASE Refuse(peer)
  <2>1. UNCHANGED <<pool, byModule, cache, feed>>
    BY <1>1 DEF Refuse
  <2>2. PoolInv'
    BY <1>0, <2>1 DEF PoolInv, PoolIndexed, AccessFollowsCallsign, HomeInv, CapacityHeld, Clients, Present
  <2> QED
    BY <2>1, <2>2, PoolOnly
<1>2. CASE /\ Present(peer) \/ Cardinality(Clients) < MaxTotal
           /\ DriveCore(peer, pkt, DefaultModule, NoAccess)
  <2>1. Admissible(peer, pkt, DefaultModule, NoAccess)
    BY <1>0 DEF Admissible, LinkTypes
  <2>2. Room(peer, pkt, DefaultModule, NoAccess)
    BY <1>0, <1>2, <2>1, Joins DEF Room, LinkTypes
  <2> QED
    BY <1>0, <1>2, <2>1, <2>2, DriveStep DEF VoiceTypes
<1> QED
  BY <1>1, <1>2 DEF Link1

LEMMA Link2Step ==
  ASSUME EndpointAssumption, EndpointInv, NEW peer \in Peers, NEW pkt \in Packets, Link2(peer, pkt)
  PROVE  Kept
<1>0. PoolInv /\ pkt.type = "Link2" /\ DefaultModule \in Modules /\ Present(peer) /\ Kind = "DPlus"
  BY PacketFields DEF EndpointInv, Link2, EndpointAssumption
<1>1. CASE Refused2(peer, pkt)
  BY <1>0, <1>1, PoolShrinks, PoolOnly DEF Link2
<1>2. CASE ~Refused2(peer, pkt)
  <2> DEFINE pending == Policy[pkt.call]
  <2>1. /\ DriveCore(peer, pkt, DefaultModule, pending) /\ pending # "Reject"
        /\ ModuleOf(peer) = NoModule => ~(Cardinality(byModule[DefaultModule]) >= MaxPerModule)
    BY <1>2 DEF Link2, Refused2
  <2>2. Admissible(peer, pkt, DefaultModule, pending)
    BY <1>0, <2>1 DEF Admissible
  <2> HIDE DEF pending
  <2>3. MaxPerModule \in Nat /\ Cardinality(byModule[DefaultModule]) \in Nat
    BY <1>0, MembersFinite, FS_CardinalityType DEF EndpointAssumption
  <2>4. HandleFor(peer, DefaultModule).module = ModuleOf(peer)
    BY <1>0 DEF HandleFor, ModuleOf
  <2>5. ASSUME ModuleAfter(peer, pkt, DefaultModule, pending) \notin {NoModule, HandleFor(peer, DefaultModule).module}
        PROVE  Cardinality(byModule[ModuleAfter(peer, pkt, DefaultModule, pending)]) < MaxPerModule
    <3>1. ModuleOf(peer) = NoModule /\ ModuleAfter(peer, pkt, DefaultModule, pending) = DefaultModule
      BY <1>0, <2>2, <2>4, <2>5, Joins
    <3> QED
      BY <2>1, <2>3, <3>1
  <2>6. Room(peer, pkt, DefaultModule, pending)
    BY <1>0, <2>5 DEF Room
  <2> QED
    BY <1>0, <2>1, <2>2, <2>6, DriveStep DEF VoiceTypes
<1> QED
  BY <1>1, <1>2

(* Nothing but a LINK of a client in the pool needs room there. *)
LEMMA PresentStep ==
  ASSUME EndpointAssumption, EndpointInv, NEW peer \in Peers, NEW pkt \in Packets, Present(peer),
         pkt.type \notin LinkTypes, pkt.type \in VoiceTypes => pool[peer].access = "ReadWrite",
         DriveCore(peer, pkt, DefaultModule, NoAccess)
  PROVE  Kept
<1>1. PoolInv /\ DefaultModule \in Modules
  BY DEF EndpointInv, EndpointAssumption
<1>2. Admissible(peer, pkt, DefaultModule, NoAccess)
  BY <1>1 DEF Admissible
<1>3. Room(peer, pkt, DefaultModule, NoAccess)
  BY <1>1, <1>2, Joins DEF Room
<1>4. HandleFor(peer, DefaultModule) = pool[peer]
  BY DEF HandleFor
<1> QED
  BY <1>2, <1>3, <1>4, DriveStep

LEMMA ControlStep ==
  ASSUME EndpointAssumption, EndpointInv, NEW peer \in Peers, NEW pkt \in Packets, Control(peer, pkt)
  PROVE  Kept
<1>1. pkt.type \in {"Unlink", "Poll"} /\ Present(peer)
  BY DEF Control, ControlPackets
<1> QED
  BY <1>1, PresentStep DEF Control, LinkTypes, VoiceTypes

LEMMA VoiceStep ==
  ASSUME EndpointAssumption, EndpointInv, NEW peer \in Peers, NEW pkt \in Packets, VoiceIn(peer, pkt)
  PROVE  Kept
<1>1. pkt.type \in VoiceTypes /\ Present(peer) /\ pkt.type \notin LinkTypes
  BY DEF VoiceIn, VoicePackets, VoiceTypes, LinkTypes
<1>2. pool \in [Peers -> Handles \cup {NoClient}] /\ pool[peer] \in Handles /\ PoolInv
  BY <1>1 DEF EndpointInv, PoolInv, Present
<1>3. CASE pool' = [pool EXCEPT ![peer].age = 0] /\ UNCHANGED <<byModule, cache, outgoing, feed>>
  <2> DEFINE h == [pool[peer] EXCEPT !.age = 0]
  <2>1. /\ h \in Handles /\ h.session = pool[peer].session /\ h.module = pool[peer].module
        /\ h.access = pool[peer].access
    BY <1>2 DEF Handles
  <2>2. pool' = [pool EXCEPT ![peer] = h]
    BY <1>3
  <2> HIDE DEF h
  <2>3. h # NoClient
    BY <2>1 DEF EndpointAssumption
  <2>4. PoolInv'
    BY <1>1, <1>2, <1>3, <2>1, <2>2, <2>3, PoolTouched DEF Present, Clients
  <2> QED
    BY <1>3, <2>4, PoolOnly
<1>4. CASE MayTalk(peer) /\ DriveCore(peer, pkt, DefaultModule, NoAccess)
  <2>1. pool[peer].access = "ReadWrite"
    BY <1>2, <1>4 DEF MayTalk, Handles
  <2> QED
    BY <1>1, <1>4, <2>1, PresentStep
<1> QED
  BY <1>3, <1>4 DEF VoiceIn

LEMMA SendStep ==
  ASSUME EndpointAssumption, EndpointInv, Sending
  PROVE  Kept
<1>1. PICK p \in Peers : SendReply(p) \/ SendVoice(p) \/ SendHeader(p)
  BY DEF Sending
<1>2. UNCHANGED <<byModule, cache, feed>> /\ (SendSucceeds(p) \/ SendFails(p) \/ RateLimited)
  BY <1>1 DEF SendReply, SendVoice, SendHeader
<1>3. PoolInv /\ pool \in [Peers -> Handles \cup {NoClient}]
  BY DEF EndpointInv, PoolInv
<1>4. CASE pool' = pool
  <2>1. PoolInv'
    BY <1>2, <1>3, <1>4, PoolTouched DEF Present
  <2> QED
    BY <1>2, <2>1, PoolOnly
<1>5. CASE Present(p) /\ \E n \in Nat : pool' = [pool EXCEPT ![p].failures = n]
  <2>1. PICK n \in Nat : pool' = [pool EXCEPT ![p].failures = n]
    BY <1>5
  <2>2. pool[p] \in Handles
    BY <1>3, <1>5 DEF Present
  <2> DEFINE h == [pool[p] EXCEPT !.failures = n]
  <2>3. /\ h \in Handles /\ h.session = pool[p].session /\ h.module = pool[p].module
        /\ h.access = pool[p].access
    BY <2>2 DEF Handles
  <2>4. pool' = [pool EXCEPT ![p] = h]
    BY <2>1
  <2> HIDE DEF h
  <2>5. h # NoClient
    BY <2>3 DEF EndpointAssumption
  <2>6. PoolInv'
    BY <1>2, <1>3, <1>5, <2>3, <2>4, <2>5, PoolTouched DEF Present, Clients
  <2> QED
    BY <1>2, <2>6, PoolOnly
<1>6. Present(p) => pool[p].failures + 1 \in Nat
  BY <1>3 DEF Present, Handles
<1>7. pool' = pool \/ (Present(p) /\ \E n \in Nat : pool' = [pool EXCEPT ![p].failures = n])
  BY <1>2, <1>6 DEF SendSucceeds, SendFails, RateLimited
<1> QED
  BY <1>4, <1>5, <1>7

LEMMA TickStep ==
  ASSUME EndpointAssumption, EndpointInv, HandleTick
  PROVE  Kept
<1>1. PoolInv'
  BY PoolShrinks DEF HandleTick, EndpointInv
<1>2. feed' = feed /\ \A m \in Modules : cache'[m] = IF cache[m] # NoEntry /\ Stale(cache[m]) THEN NoEntry ELSE cache[m]
  BY DEF HandleTick
<1>3. cache' \in [Modules -> Entries \cup {NoEntry}]
  BY DEF HandleTick, EndpointInv, TalkInv
<1>4. ASSUME NEW m \in Modules PROVE Follows(m)'
  <2>1. Follows(m)
    BY DEF EndpointInv, TalkInv
  <2> QED
    BY <1>2, <2>1 DEF Follows, Stale
<1>5. feed' \in [Modules -> Feeds] /\ OnlyWritersHeard'
  BY <1>2 DEF EndpointInv, TalkInv, OnlyWritersHeard
<1> QED
  BY <1>1, <1>2, <1>3, <1>4, <1>5 DEF Kept, EndpointInv, TalkInv

LEMMA ElapseStep ==
  ASSUME EndpointAssumption, EndpointInv, Elapse
  PROVE  Kept
<1>0. /\ PoolInv /\ pool \in [Peers -> Handles \cup {NoClient}]
      /\ cache \in [Modules -> Entries \cup {NoEntry}] /\ feed \in [Modules -> Feeds]
      /\ VoiceTimeout \in Nat /\ KeepaliveTimeout \in Nat
  BY DEF EndpointInv, PoolInv, TalkInv, EndpointAssumption
<1>1. \A a, l \in Nat : Older(a, l) \in Nat /\ Older(a, l) >= a
  BY DEF Older
<1>2. PoolInv'
  <2>1. ASSUME NEW p \in Peers, Present(p)
        PROVE  /\ pool'[p] \in Handles /\ pool'[p].session = pool[p].session
               /\ pool'[p].module = pool[p].module /\ pool'[p].access = pool[p].access
    <3>1. pool[p] \in Handles /\ pool[p].age \in Nat
      BY <1>0, <2>1 DEF Present, Handles
    <3> DEFINE a == Older(pool[p].age, KeepaliveTimeout)
    <3>2. a \in Nat
      BY <1>0, <1>1, <3>1
    <3>3. pool'[p] = [pool[p] EXCEPT !.age = a]
      BY <2>1 DEF Elapse
    <3> HIDE DEF a
    <3> QED
      BY <3>1, <3>2, <3>3 DEF Handles
  <2>2. \A p \in Peers : ~Present(p) => pool'[p] = NoClient
    BY DEF Elapse
  <2>3. pool' \in [Peers -> Handles \cup {NoClient}]
    <3>1. pool' = [p \in Peers |-> pool'[p]]
      BY DEF Elapse
    <3> QED
      BY <2>1, <2>2, <3>1
  <2>4. \A p \in Peers : Present(p)' <=> Present(p)
    BY <2>1, <2>2 DEF Present, EndpointAssumption
  <2>5. byModule' = byModule
    BY DEF Elapse
  <2> QED
    BY <1>0, <2>1, <2>3, <2>4, <2>5, PoolTouched DEF Clients
<1>3. ASSUME NEW m \in Modules
      PROVE  /\ feed'[m] \in Feeds /\ feed'[m].stream = feed[m].stream /\ feed'[m].call = feed[m].call
             /\ feed'[m].age = Older(feed[m].age, VoiceTimeout)
  <2>1. feed[m] \in Feeds /\ feed[m].age \in Nat
    BY <1>0 DEF Feeds
  <2> DEFINE a == Older(feed[m].age, VoiceTimeout)
  <2>2. a \in Nat
    BY <1>0, <1>1, <2>1
  <2>3. feed'[m] = [feed[m] EXCEPT !.age = a]
    BY DEF Elapse
  <2> HIDE DEF a
  <2> QED
    BY <2>1, <2>2, <2>3 DEF Feeds, a
<1>4. ASSUME NEW m \in Modules, cache[m] # NoEntry
      PROVE  /\ cache'[m] \in Entries /\ cache'[m].peer = cache[m].peer /\ cache'[m].stream = cache[m].stream
             /\ cache'[m].age = Older(cache[m].age, VoiceTimeout)
  <2>1. cache[m] \in Entries /\ cache[m].age \in Nat
    BY <1>0, <1>4 DEF Entries
  <2> DEFINE a == Older(cache[m].age, VoiceTimeout)
  <2>2. a \in Nat
    BY <1>0, <1>1, <2>1
  <2>3. cache'[m] = [cache[m] EXCEPT !.age = a]
    BY <1>4 DEF Elapse
  <2> HIDE DEF a
  <2> QED
    BY <2>1, <2>2, <2>3 DEF Entries, a
<1>5. \A m \in Modules : cache[m] = NoEntry => cache'[m] = NoEntry
  BY DEF Elapse
<1>6. cache' \in [Modules -> Entries \cup {NoEntry}] /\ feed' \in [Modules -> Feeds]
  <2>1. cache' = [m \in Modules |-> cache'[m]] /\ feed' = [m \in Modules |-> feed'[m]]
    BY DEF Elapse
  <2> QED
    BY <1>3, <1>4, <1>5, <2>1
<1>7. ASSUME NEW m \in Modules PROVE Follows(m)'
  <2>1. Follows(m) /\ feed[m].age \in Nat /\ feed'[m].age \in Nat
    BY <1>0, <1>3 DEF EndpointInv, TalkInv, Feeds
  <2>2. NoEntry \notin Entries
    BY DEF EndpointAssumption
  <2>3. feed'[m].age >= feed[m].age
    BY <1>0, <1>1, <1>3, <2>1
  <2>4. CASE cache[m] = NoEntry
    BY <1>0, <1>3, <1>5, <2>1, <2>3, <2>4 DEF Follows
  <2>5. CASE cache[m] # NoEntry
    <3>1. cache'[m] # NoEntry
      BY <1>4, <2>2, <2>5
    <3> QED
      BY <1>3, <1>4, <2>1, <2>5, <3>1 DEF Follows
  <2> QED
    BY <2>4, <2>5
<1>8. OnlyWritersHeard'
  BY <1>3 DEF EndpointInv, TalkInv, OnlyWritersHeard
<1>9. ASSUME NEW m \in Modules PROVE [Module(m)!ChannelNext]_(Module(m)!channelVars)
  <2>1. feed[m].age \in Nat
    BY <1>0 DEF Feeds
  <2>2. CASE feed'[m].age >= VoiceTimeout
    BY <1>3, <2>2, ModuleSteps DEF Quiet
  <2>3. CASE ~(feed'[m].age >= VoiceTimeout)
    <3>1. ~(feed[m].age >= VoiceTimeout)
      BY <1>0, <1>1, <1>3, <2>1, <2>3
    <3> QED
      BY <1>3, <2>3, <3>1 DEF Module!channelVars
  <2> QED
    BY <2>2, <2>3
<1> QED
  BY <1>2, <1>6, <1>7, <1>8, <1>9 DEF Kept, EndpointInv, TalkInv, Channels

LEMMA StepsAreKept ==
  ASSUME EndpointAssumption, EndpointInv, Next
  PROVE  Kept
<1>1. ASSUME NEW p \in Peers, Receive(p) PROVE Kept
  <2>1. PICK pkt \in Packets : \/ Link(p, pkt) \/ Link1(p, pkt) \/ Link2(p, pkt)
                               \/ Control(p, pkt) \/ VoiceIn(p, pkt)
    BY <1>1 DEF Receive, Packets
  <2> QED
    BY <2>1, LinkStep, Link1Step, Link2Step, ControlStep, VoiceStep
<1>2. CASE EvictDoomed
  BY <1>2, PoolShrinks, PoolOnly DEF EvictDoomed, EndpointInv
<1> QED
  BY <1>1, <1>2, SendStep, TickStep, ElapseStep DEF Next

LEMMA EndpointInitial ==
  ASSUME EndpointAssumption, Init
  PROVE  EndpointInv /\ \A m \in Modules : Module(m)!ChannelInit
<1>1. \A p \in Peers : pool[p] = NoClient
  BY DEF Init
<1>2. Clients = {}
  BY <1>1 DEF Clients, Present
<1>3. IsFiniteSet({}) /\ Cardinality({}) = 0
  BY FS_EmptySet
<1>4. \A m \in Modules : byModule[m] = {}
  BY DEF Init
<1>5. PoolInv
  BY <1>2, <1>3, <1>4 DEF PoolInv, PoolIndexed, AccessFollowsCallsign, HomeInv, CapacityHeld, Init,
     EndpointAssumption
<1>6. VoiceTimeout \in Nat /\ VoiceTimeout >= VoiceTimeout
  BY DEF EndpointAssumption
<1>7. Silence \in Feeds /\ Silence.stream = NoStream /\ Silence.age = VoiceTimeout
  BY <1>6 DEF Silence, Feeds
<1>8. \A m \in Modules : feed[m] = Silence /\ cache[m] = NoEntry
  BY DEF Init
<1>9. cache \in [Modules -> Entries \cup {NoEntry}] /\ feed \in [Modules -> Feeds]
  BY <1>7 DEF Init
<1>10. TalkInv
  BY <1>7, <1>8, <1>9 DEF TalkInv, OnlyWritersHeard, Follows
<1>11. \A m \in Modules : Module(m)!ChannelInit
  BY <1>6, <1>7, <1>8 DEF Module!ChannelInit
<1> QED
  BY <1>5, <1>10, <1>11 DEF EndpointInv

LEMMA EndpointKept ==
  ASSUME EndpointAssumption, EndpointInv, [Next]_vars
  PROVE  EndpointInv' /\ (feed' = feed \/ Channels)
<1>1. CASE Next
  BY <1>1, StepsAreKept DEF Kept
<1>2. CASE UNCHANGED vars
  <2>1. PoolInv'
    BY <1>2 DEF vars, EndpointInv, PoolInv, PoolIndexed, AccessFollowsCallsign, HomeInv, CapacityHeld,
       Clients, Present
  <2> QED
    BY <1>2, <2>1, PoolOnly DEF vars, Kept
<1> QED
  BY <1>1, <1>2

(* The invariant the results below rest on: the pool and its index agree and keep to the limits,
   and the stream cache remembers what was last forwarded (drive_core, handle_tick). *)
THEOREM EndpointInvariant == Spec => []EndpointInv
<1>1. Init => EndpointInv
  BY EndpointAssumption, EndpointInitial
<1>2. EndpointInv /\ [Next]_vars => EndpointInv'
  BY EndpointAssumption, EndpointKept
<1> QED
  BY <1>1, <1>2, PTL DEF Spec

(* by_module is the inverse of the handles' modules after any sequence of links, refusals,
   unlinks, failed sends, evictions and timeouts (get_or_try_update, remove). *)
THEOREM PoolStaysIndexed == Spec => []PoolIndexed
<1>1. EndpointInv => PoolIndexed
  BY DEF EndpointInv, PoolInv
<1> QED
  BY <1>1, EndpointInvariant, PTL

(* The limits on clients hold whichever protocol's handshake fills the pool
   (link_capacity_reject, handle_inbound_dplus). *)
THEOREM CapacityIsHeld == Spec => []CapacityHeld
<1>1. EndpointInv => CapacityHeld
  BY DEF EndpointInv, PoolInv
<1> QED
  BY <1>1, EndpointInvariant, PTL

(* Only a callsign the authorizer lets write is ever heard on a module (drive_core,
   handle_inbound_dextra, _dplus and _dcs). *)
THEOREM AccessEnforced == Spec => []AccessIsEnforced
<1>1. EndpointInv => AccessIsEnforced
  BY DEF EndpointInv, PoolInv, TalkInv, AccessIsEnforced
<1> QED
  BY <1>1, EndpointInvariant, PTL

(* First talker wins: on every module the endpoint implements the abstract talk channel
   (select_voice_hint, update_stream_cache_dextra, _dplus and _dcs, handle_tick). *)
THEOREM EndpointImplementsChannel == Spec => OneTalkerPerModule
<1>1. Init => \A m \in Modules : Module(m)!ChannelInit
  BY EndpointAssumption, EndpointInitial
<1> DEFINE Steps == feed' = feed \/ Channels
<1>2. EndpointInv /\ [Next]_vars => [Steps]_vars
  BY EndpointAssumption, EndpointKept
<1>3. Spec => [][Steps]_vars
  BY <1>2, EndpointInvariant, PTL DEF Spec
<1>4. Spec => [][feed' = feed
            \/ \A m \in Modules : [Module(m)!ChannelNext]_(Module(m)!channelVars)]_vars
  BY <1>3 DEF Channels
<1> QED
  BY <1>1, <1>4 DEF Spec, OneTalkerPerModule
==============================================================================
