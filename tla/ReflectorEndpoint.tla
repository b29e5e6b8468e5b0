--------------------------- MODULE ReflectorEndpoint ---------------------------
(***************************************************************************)
(* One protocol endpoint of the reflector: the client pool, the            *)
(* first-talker-wins stream cache and the run loop                         *)
(* (dstar-gateway-server: tokio_shell/endpoint.rs, client_pool/pool.rs,    *)
(* reflector/stream_cache.rs, tokio_shell/fanout.rs).                      *)
(*                                                                         *)
(* The loop is one task: it takes a datagram or a maintenance tick through *)
(* the transaction, then sends what came of it, then evicts the peers that *)
(* failed too often.  Ages are maintenance periods since last_heard and    *)
(* last_activity.  Datagrams that do not decode change nothing and are     *)
(* left out.  ReflectorBus models the voice bus between endpoints.         *)
(***************************************************************************)
EXTENDS ServerCore, FiniteSets, Naturals, Functions

CONSTANTS
    Peers,                \* client socket addresses
    Calls, Streams,
    Modules,              \* configured_modules
    DefaultModule,        \* default_reflector_module
    OtherModules,         \* modules a LINK may ask for that are not configured
    Policy,               \* the authorizer: Calls -> Reject, ReadOnly, ReadWrite
    NoModule, NoClient, NoEntry, NoAccess,
    MaxTotal, MaxPerModule,          \* EndpointSettings
    KeepaliveTimeout, VoiceTimeout,  \* in ticks
    FailureLimit,                    \* DEFAULT_UNHEALTHY_THRESHOLD
    Cadence                          \* frames between header retransmits

(* ServerSessionCore while it is not closed, ClientHandle and StreamCache. *)
Sessions == [state : {"Unknown", "Link1Received", "Linked", "Streaming"},
             module : Modules, call : Calls \cup {NoCall}, stream : Streams \cup {NoStream}]
Handles == [session : Sessions, module : Modules \cup {NoModule},
            access : {"ReadOnly", "ReadWrite"}, age : Nat, failures : Nat]
Entries == [peer : Peers, stream : Streams, frames : Nat, age : Nat]

ASSUME EndpointAssumption ==
    /\ Kind \in {"DPlus", "DExtra", "Dcs"}
    /\ DefaultModule \in Modules
    /\ OtherModules \cap Modules = {}
    /\ NoModule \notin Modules /\ NoCall \notin Calls /\ NoStream \notin Streams
    /\ NoClient \notin Handles /\ NoEntry \notin Entries /\ NoStream \notin Peers \X Streams
    /\ NoAccess \notin {"Reject", "ReadOnly", "ReadWrite"}
    /\ Policy \in [Calls -> {"Reject", "ReadOnly", "ReadWrite"}]
    /\ MaxTotal \in Nat /\ MaxPerModule \in Nat
    /\ KeepaliveTimeout \in Nat \ {0} /\ VoiceTimeout \in Nat \ {0}
    /\ FailureLimit \in Nat \ {0} /\ Cadence \in Nat \ {0}

VARIABLES
    pool,       \* clients: a handle or NoClient for every peer
    byModule,   \* by_module
    cache,      \* stream_cache: an entry or NoEntry for every module
    outgoing,   \* what the loop still has to send
    doomed,     \* evicted_peers
    due,        \* maintenance.tick() is ready
    feed        \* history: what was last forwarded to a module, and how long ago

vars == <<pool, byModule, cache, outgoing, doomed, due, feed>>

LinkPackets ==
    IF Kind = "DPlus" THEN [type : {"Link1"}] \cup [type : {"Link2"}, call : Calls]
    ELSE [type : {"Link"}, call : Calls, module : Modules \cup OtherModules]
ControlPackets ==
    IF Kind = "DPlus" THEN [type : {"Unlink", "Poll"}]
    ELSE [type : {"Unlink", "Poll"}, call : Calls]
VoicePackets ==
    IF Kind = "Dcs" THEN [type : {"Voice"}, stream : Streams, isEnd : BOOLEAN]
    ELSE [type : {"VoiceHeader", "VoiceData", "VoiceEot"}, stream : Streams]

NewHandle(module) ==
    [session |-> NewSession(module), module |-> NoModule, access |-> "ReadOnly",
     age |-> 0, failures |-> 0]
Present(p) == pool[p] # NoClient
ModuleOf(p) == IF Present(p) THEN pool[p].module ELSE NoModule
Clients == {p \in Peers : Present(p)}

Silence == [stream |-> NoStream, call |-> NoCall, age |-> VoiceTimeout]
Nothing == [reply |-> {}, voice |-> {}, header |-> {}]
Idle == outgoing = Nothing /\ doomed = {}

Init ==
    /\ pool = [p \in Peers |-> NoClient]
    /\ byModule = [m \in Modules |-> {}]
    /\ cache = [m \in Modules |-> NoEntry]
    /\ outgoing = Nothing
    /\ doomed = {}
    /\ due = FALSE
    /\ feed = [m \in Modules |-> Silence]

(***************************************************************************)
(* The pool keeps the index beside the handles.                            *)
(***************************************************************************)
(* Mutant: remove_membership is forgotten when a client moves. *)
MovedNowhere(peer, previous, current) ==
    [m \in Modules |-> byModule[m] \cup (IF m = current THEN {peer} ELSE {})]
Moved(peer, previous, current) ==
    [m \in Modules |-> (IF m = previous THEN byModule[m] \ {peer} ELSE byModule[m])
                            \cup (IF m = current THEN {peer} ELSE {})]
Remove(peers) ==
    /\ pool' = [p \in Peers |-> IF p \in peers THEN NoClient ELSE pool[p]]
    /\ byModule' = [m \in Modules |->
                        byModule[m] \ {p \in peers : Present(p) /\ pool[p].module = m}]

(***************************************************************************)
(* First talker wins.                                                      *)
(***************************************************************************)
Matches(entry, peer, stream) == entry.peer = peer /\ entry.stream = stream

(* select_voice_hint: the first voice event of the datagram decides.  Mutant: the
   stream id alone identifies the talker. *)
Voice == {"StreamStarted", "StreamFrame", "StreamEnded"}
SelectedByStream(module, peer, pkt, reports) ==
    /\ module # NoModule /\ reports # << >> /\ reports[1] \in Voice
    /\ IF cache[module] = NoEntry THEN reports[1] = "StreamStarted"
       ELSE cache[module].stream = pkt.stream
Selected(module, peer, pkt, reports) ==
    /\ module # NoModule /\ reports # << >> /\ reports[1] \in Voice
    /\ IF cache[module] = NoEntry THEN reports[1] = "StreamStarted"
       ELSE Matches(cache[module], peer, pkt.stream)

NewEntry(peer, pkt) == [peer |-> peer, stream |-> pkt.stream, frames |-> 0, age |-> 0]
RecordFrame(entry) == [entry EXCEPT !.frames = (@ + 1) % Cadence, !.age = 0]

(* update_stream_cache_dextra, _dplus and _dcs, for a selected datagram. *)
Tracked(entry, peer, pkt) ==
    CASE pkt.type = "VoiceHeader" -> NewEntry(peer, pkt)
      [] pkt.type = "VoiceData" -> RecordFrame(entry)
      [] pkt.type = "VoiceEot" -> NoEntry
      [] pkt.type = "Voice" /\ pkt.isEnd -> NoEntry
      [] pkt.type = "Voice" /\ ~pkt.isEnd ->
            IF entry = NoEntry THEN NewEntry(peer, pkt) ELSE RecordFrame(entry)
Rebroadcasts(entry, pkt) ==
    pkt.type = "VoiceData" /\ RecordFrame(entry).frames + 1 = Cadence

(* What the listeners of a module hear of it. *)
Heard(peer, call, pkt) ==
    IF pkt.type = "VoiceEot" \/ (pkt.type = "Voice" /\ pkt.isEnd) THEN Silence
    ELSE [stream |-> <<peer, pkt.stream>>, call |-> call, age |-> 0]

(***************************************************************************)
(* drive_core under the pool's lock, then the stream cache and what is to  *)
(* be sent.  `pending' is the verdict of the authorizer on a LINK.         *)
(***************************************************************************)
Accepted(out) ==
    IF Kind = "DPlus" THEN "Link2Accept" \in Range(out.replies)
    ELSE "Linked" \in Range(out.events)

Updated(handle, out, pending) ==
    [handle EXCEPT
        !.session = out.session,
        !.module = CASE "Linked" \in Range(out.events) -> out.session.module
                     [] "Unlinked" \in Range(out.events) -> NoModule
                     [] OTHER -> @,
        !.age = 0,
        !.access = IF pending # NoAccess /\ Accepted(out) THEN pending ELSE @]

DriveCore(peer, pkt, initial, pending) ==
    LET handle == IF Present(peer) THEN pool[peer] ELSE NewHandle(initial)
        out == SessionInput(handle.session, pkt)
        updated == Updated(handle, out, pending)
        gone == out.session.state = "Closed"
        module == IF gone THEN NoModule ELSE updated.module
        others == byModule'[module] \ {peer}
        replies == IF out.replies = << >> THEN {} ELSE {peer}
    IN  /\ pool' = [pool EXCEPT ![peer] = IF gone THEN NoClient ELSE updated]
        /\ byModule' = Moved(peer, handle.module, module)
        /\ \/ /\ ~Selected(module, peer, pkt, out.events)
              /\ outgoing' = [Nothing EXCEPT !.reply = replies]
              /\ UNCHANGED <<cache, feed>>
           \/ /\ Selected(module, peer, pkt, out.events)
              /\ cache' = [cache EXCEPT ![module] = Tracked(@, peer, pkt)]
              /\ feed' = [feed EXCEPT ![module] = Heard(peer, updated.session.call, pkt)]
              /\ outgoing' = [reply |-> replies, voice |-> others,
                              header |-> IF Rebroadcasts(cache[module], pkt)
                                         THEN others ELSE {}]

Reply(peer) == outgoing' = [Nothing EXCEPT !.reply = {peer}]
Refuse(peer) == Reply(peer) /\ UNCHANGED <<pool, byModule, cache, feed>>

(***************************************************************************)
(* handle_inbound, one disjunct per kind of datagram.                      *)
(***************************************************************************)
Full(peer, module) ==
    /\ ModuleOf(peer) # module
    /\ \/ ~Present(peer) /\ Cardinality(Clients) >= MaxTotal
       \/ Cardinality(byModule[module]) >= MaxPerModule

Refused(peer, pkt) ==
    \/ pkt.module \notin Modules
    \/ Policy[pkt.call] = "Reject"
    \/ Full(peer, pkt.module)

Link(peer, pkt) ==
    /\ pkt.type = "Link"
    /\ IF Refused(peer, pkt) THEN Refuse(peer)
       ELSE DriveCore(peer, pkt, pkt.module, Policy[pkt.call])

Link1(peer, pkt) ==
    /\ pkt.type = "Link1"
    /\ \/ /\ ~Present(peer) /\ Cardinality(Clients) >= MaxTotal
          /\ Refuse(peer)
       \/ /\ Present(peer) \/ Cardinality(Clients) < MaxTotal
          /\ DriveCore(peer, pkt, DefaultModule, NoAccess)

(* A refused LINK2 also discards the handle that LINK1 created.  Mutant: off by one. *)
Refused2Above(peer, pkt) ==
    \/ Policy[pkt.call] = "Reject"
    \/ /\ ModuleOf(peer) = NoModule
       /\ Cardinality(byModule[DefaultModule]) > MaxPerModule
Refused2(peer, pkt) ==
    \/ Policy[pkt.call] = "Reject"
    \/ /\ ModuleOf(peer) = NoModule
       /\ Cardinality(byModule[DefaultModule]) >= MaxPerModule
Link2(peer, pkt) ==
    /\ pkt.type = "Link2" /\ Present(peer)
    /\ IF Refused2(peer, pkt)
       THEN Remove({peer}) /\ Reply(peer) /\ UNCHANGED <<cache, feed>>
       ELSE DriveCore(peer, pkt, DefaultModule, Policy[pkt.call])

Control(peer, pkt) ==
    /\ pkt \in ControlPackets /\ Present(peer)
    /\ DriveCore(peer, pkt, DefaultModule, NoAccess)

(* Voice of a read-only client never reaches the core.  Mutant: the gate is open. *)
MayTalkAlways(peer) == TRUE
MayTalk(peer) == pool[peer].access # "ReadOnly"
VoiceIn(peer, pkt) ==
    /\ pkt \in VoicePackets /\ Present(peer)
    /\ \/ /\ ~MayTalk(peer)
          /\ pool' = [pool EXCEPT ![peer].age = 0]
          /\ UNCHANGED <<byModule, cache, outgoing, feed>>
       \/ /\ MayTalk(peer)
          /\ DriveCore(peer, pkt, DefaultModule, NoAccess)

(* select! is biased: a datagram waits for a maintenance tick that is ready. *)
Receive(peer) ==
    /\ Idle /\ ~due
    /\ \E pkt \in LinkPackets \cup ControlPackets \cup VoicePackets :
          \/ Link(peer, pkt) \/ Link1(peer, pkt) \/ Link2(peer, pkt)
          \/ Control(peer, pkt) \/ VoiceIn(peer, pkt)
    /\ UNCHANGED <<doomed, due>>

(***************************************************************************)
(* Sending: replies and keepalives, then the frame, then a cached header.  *)
(* Voice may also be skipped for a recipient whose token bucket is empty.  *)
(***************************************************************************)
SendSucceeds(p) ==
    /\ pool' = IF Present(p) THEN [pool EXCEPT ![p].failures = 0] ELSE pool
    /\ UNCHANGED doomed
SendFails(p) ==
    IF Present(p)
    THEN /\ pool' = [pool EXCEPT ![p].failures = @ + 1]
         /\ doomed' = IF pool[p].failures + 1 >= FailureLimit THEN doomed \cup {p} ELSE doomed
    ELSE UNCHANGED <<pool, doomed>>
RateLimited == UNCHANGED <<pool, doomed>>

SendReply(p) ==
    /\ p \in outgoing.reply
    /\ outgoing' = [outgoing EXCEPT !.reply = @ \ {p}]
    /\ SendSucceeds(p) \/ SendFails(p)
    /\ UNCHANGED <<byModule, cache, due, feed>>
SendVoice(p) ==
    /\ outgoing.reply = {} /\ p \in outgoing.voice
    /\ outgoing' = [outgoing EXCEPT !.voice = @ \ {p}]
    /\ SendSucceeds(p) \/ SendFails(p) \/ RateLimited
    /\ UNCHANGED <<byModule, cache, due, feed>>
SendHeader(p) ==
    /\ outgoing.reply = {} /\ outgoing.voice = {} /\ p \in outgoing.header
    /\ outgoing' = [outgoing EXCEPT !.header = @ \ {p}]
    /\ SendSucceeds(p) \/ SendFails(p) \/ RateLimited
    /\ UNCHANGED <<byModule, cache, due, feed>>

EvictDoomed ==
    /\ outgoing = Nothing /\ doomed # {}
    /\ Remove(doomed)
    /\ doomed' = {}
    /\ UNCHANGED <<cache, outgoing, due, feed>>

(***************************************************************************)
(* Maintenance (handle_tick).  Keepalives go out when keepalive_interval   *)
(* has passed since the last ones: on a tick a moment early, they do not.  *)
(***************************************************************************)
Stale(entry) == entry.age >= VoiceTimeout
(* Mutant: a client is only silent when past its timeout. *)
SilentAbove(handle) == handle.age > KeepaliveTimeout
Silent(handle) == handle.age >= KeepaliveTimeout

HandleTick ==
    /\ Idle /\ due
    /\ due' = FALSE
    /\ Remove({p \in Clients : Silent(pool[p])})
    /\ cache' = [m \in Modules |->
                    IF cache[m] # NoEntry /\ Stale(cache[m]) THEN NoEntry ELSE cache[m]]
    /\ \/ outgoing' = Nothing
       \/ outgoing' = [Nothing EXCEPT !.reply =
                          {p \in Peers : pool'[p] # NoClient /\ pool'[p].module # NoModule}]
    /\ UNCHANGED <<doomed, feed>>

(* A maintenance period passes; ages stop at the timeout they are compared with. *)
Older(age, limit) == IF age < limit THEN age + 1 ELSE age
Elapse ==
    /\ due' = TRUE
    /\ pool' = [p \in Peers |-> IF Present(p)
                                THEN [pool[p] EXCEPT !.age = Older(@, KeepaliveTimeout)]
                                ELSE NoClient]
    /\ cache' = [m \in Modules |-> IF cache[m] # NoEntry
                                   THEN [cache[m] EXCEPT !.age = Older(@, VoiceTimeout)]
                                   ELSE NoEntry]
    /\ feed' = [m \in Modules |-> [feed[m] EXCEPT !.age = Older(@, VoiceTimeout)]]
    /\ UNCHANGED <<byModule, outgoing, doomed>>

Sending == \E p \in Peers : SendReply(p) \/ SendVoice(p) \/ SendHeader(p)

Next == (\E p \in Peers : Receive(p)) \/ Sending \/ EvictDoomed \/ HandleTick \/ Elapse

Spec == Init /\ [][Next]_vars

(* The loop keeps running and time keeps passing; nothing need ever arrive. *)
FairSpec ==
    /\ Spec
    /\ WF_vars(Sending) /\ WF_vars(EvictDoomed) /\ WF_vars(HandleTick) /\ WF_vars(Elapse)

(***************************************************************************)
(* Properties                                                              *)
(***************************************************************************)
(* by_module is exactly the inverse of the handles' modules, and a handle has a
   module exactly while its session is linked: whatever the order of links,
   refusals, unlinks and evictions (get_or_try_update, remove). *)
PoolIndexed ==
    /\ \A m \in Modules : byModule[m] = {p \in Clients : pool[p].module = m}
    /\ \A p \in Clients : pool[p].module =
            IF Up(pool[p].session) THEN pool[p].session.module ELSE NoModule

(* The client limits hold on every path into the pool, the half-open DPlus
   handshake included (link_capacity_reject, handle_inbound_dplus). *)
CapacityHeld ==
    /\ Cardinality(Clients) <= MaxTotal
    /\ \A m \in Modules : Cardinality(byModule[m]) <= MaxPerModule

(* A linked client has the access the authorizer gave the callsign it is linked
   with; a LINK the session did not accept cannot change it (drive_core). *)
AccessFollowsCallsign ==
    \A p \in Clients : Up(pool[p].session) => pool[p].access = Policy[pool[p].session.call]

(* What a module hears comes from a callsign that may write. *)
OnlyWritersHeard ==
    \A m \in Modules : feed[m].stream # NoStream => Policy[feed[m].call] = "ReadWrite"

(* First talker wins: what is forwarded to the members of a module is one stream
   at a time, which another one can replace only after it was silent for
   voice_inactivity_timeout (select_voice_hint, stream_cache, handle_tick). *)
Module(m) == INSTANCE TalkChannel WITH
    Streams <- Peers \X Streams,
    holder <- feed[m].stream,
    quiet <- feed[m].age >= VoiceTimeout
OneTalkerPerModule ==
    /\ \A m \in Modules : Module(m)!ChannelInit
    /\ [][feed' = feed
            \/ \A m \in Modules : [Module(m)!ChannelNext]_(Module(m)!channelVars)]_vars

(* The stream cache does not outlive its stream: an entry that is not refreshed is
   dropped, so a lost EOT cannot keep a module busy (handle_tick). *)
ModulesAreFreed ==
    \A m \in Modules : []<>(cache[m] = NoEntry \/ cache[m].age = 0)

(* A client that falls silent is evicted (handle_tick). *)
SilentClientsLeave ==
    \A p \in Peers : []<>(~Present(p) \/ pool[p].age = 0)

(* The doc of publish_voice_events: "The collider recovers after the tracked stream
   ends (its next periodic header retransmit re-establishes it as the tracked
   stream)." *)
Retransmits(p, pkt) ==
    /\ Idle /\ ~due /\ Present(p)
    /\ pkt.type = "VoiceHeader" /\ VoiceIn(p, pkt)
    /\ pool[p].access = "ReadWrite" /\ pool[p].session.state = "Streaming"
    /\ pool[p].session.stream = pkt.stream
ColliderRecovers ==
    [][\A p \in Peers, pkt \in VoicePackets :
          (Retransmits(p, pkt) /\ feed[pool[p].module].stream = NoStream)
              => (cache'[pool[p].module] # NoEntry
                    /\ Matches(cache'[pool[p].module], p, pkt.stream))]_vars

(* The authorizer decides who is heard: a linked client holds the access of its own callsign,
   and what a module hears comes from a callsign that may write. *)
AccessIsEnforced ==
    AccessFollowsCallsign /\ OnlyWritersHeard
================================================================================
