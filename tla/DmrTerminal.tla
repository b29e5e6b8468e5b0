----------------------------- MODULE DmrTerminal -----------------------------
(***************************************************************************)
(* The receive-only DMR client of dmr-rewind/src/client.rs and the master  *)
(* it talks to over UDP: login, subscriptions installed one by one, the    *)
(* same again whenever the master issues a fresh challenge, keepalives and *)
(* deadlines, and a caller that may drop the pending call.  The client's   *)
(* caller drops it after an error.  Datagrams are ordered and lossless or  *)
(* may be lost, repeated and overtaken, as network says.                   *)
(***************************************************************************)
EXTENDS Integers, Sequences, SequencesExt, FiniteSetsExt, Functions

CONSTANTS
  Plans,            \* subscription lists a client may be configured with
  Timeout,          \* the packet timeout, longer than
  KeepaliveInterval,
  MaxPendingEvents,
  MaxMedia, MaxChallenges, MaxDatagramFaults,  \* bounds: media packets, challenges, datagram faults
  MaxFlight         \* bound: datagrams under way while time passes

ASSUME DmrConstants ==
  /\ {Timeout, KeepaliveInterval, MaxPendingEvents} \subseteq Nat \ {0}
  /\ KeepaliveInterval < Timeout
  /\ \A p \in Plans : Range(p) \subseteq Nat \ {0}
  /\ {MaxMedia, MaxChallenges, MaxDatagramFaults, MaxFlight} \subseteq Nat

VARIABLES
  network,          \* "ordered" or "lossy"
  plan,             \* subscriptions
  connecting,       \* connect has not returned yet
  phase,            \* "challenge", "authentication", "subscription" or "operational"
  index,            \* acknowledged_index
  pending,          \* queued events
  api,              \* "none", "receiving" or "sending"
  outgoing,         \* the datagram being sent
  control_pending, dmrClosed,
  ended,            \* the caller dropped the client, and why
  silence, phaseAge, keepaliveAge,   \* ages of last_valid_packet, the phase, the keepalive
  toMaster, toClient,                \* datagrams under way
  master,           \* [known, challenge, subs]
  media, dmrFaults, \* bounds used up
  reached, events,  \* history: media received and media returned, in order
  answered          \* history: the challenge answered last

clientVars == <<connecting, phase, index, pending, api, outgoing, control_pending, dmrClosed,
                ended, silence, phaseAge, keepaliveAge, reached, events, answered>>
dmrVars == <<network, plan, clientVars, toMaster, toClient, master, media, dmrFaults>>

Msg(kind, n) == [kind |-> kind, n |-> n]
Nothing == Msg("none", 0)
NoBody == 0             \* of an acknowledgement; subscriptions have positive numbers

DmrInit ==
  /\ network \in {"ordered", "lossy"} /\ plan \in Plans
  /\ connecting = TRUE /\ phase = "challenge" /\ index = 0 /\ pending = <<>>
  /\ api = "sending" /\ outgoing = Msg("keepalive", 0)
  /\ control_pending = TRUE /\ dmrClosed = FALSE /\ ended = "no"
  /\ silence = 0 /\ phaseAge = 0 /\ keepaliveAge = 0
  /\ toMaster = <<>> /\ toClient = <<>>
  /\ master = [known |-> FALSE, challenge |-> 0, subs |-> {}]
  /\ media = 0 /\ dmrFaults = 0
  /\ reached = <<>> /\ events = <<>> /\ answered = 0

\* The caller has a client and is_closed is false (it is not called during a send).
Usable == ended = "no" /\ ~dmrClosed /\ (control_pending => api = "sending")

-----------------------------------------------------------------------------
(* The pieces of the receive path: each says what becomes of the phase, the *)
(* call and the queue, one disjunct of ReceivePacket uses one of them.      *)

Send(what) == api' = "sending" /\ outgoing' = what /\ control_pending' = TRUE
KeepReceiving == UNCHANGED <<api, outgoing, control_pending>>
Return == api' = "none" /\ UNCHANGED <<outgoing, control_pending>>

\* begin_runtime_authentication, or finish_authentication: a challenge that replaces one
\* within the phase keeps its deadline.
Authenticate(n) ==
  /\ phase' = "authentication" /\ index' = 0 /\ answered' = n
  /\ phaseAge' = IF phase = "authentication" THEN phaseAge ELSE 0
  /\ Send(Msg("auth", n))
  /\ UNCHANGED <<connecting, pending, events, keepaliveAge>>

SubscriptionsLeft(i) == i <= Len(plan)

\* Subscription number i is requested, or the recovery is over and the oldest queued
\* event is returned (connect returns the client instead).
Subscribe(i) ==
  IF SubscriptionsLeft(i)
  THEN /\ phase' = "subscription" /\ index' = i /\ phaseAge' = 0
       /\ Send(Msg("sub", plan[i]))
       /\ UNCHANGED <<connecting, pending, events, answered, keepaliveAge>>
  ELSE /\ phase' = "operational" /\ index' = 0 /\ phaseAge' = 0 /\ keepaliveAge' = 0
       /\ connecting' = FALSE
       /\ IF connecting THEN Return /\ UNCHANGED <<pending, events>>
          ELSE IF pending # <<>>
          THEN Return /\ events' = Append(events, Head(pending)) /\ pending' = Tail(pending)
          ELSE KeepReceiving /\ UNCHANGED <<pending, events>>
       /\ UNCHANGED answered

Ignore ==
  KeepReceiving /\ UNCHANGED <<connecting, phase, index, pending, events, answered, phaseAge,
                               keepaliveAge>>

\* PendingEvents::push: the limit on events; the one on bytes is left out.
PendingFull == Len(pending) + 1 > MaxPendingEvents

\* Mutant: an event of a recovery is dropped.
QueuePendingDropping(n) == pending' = pending

\* queue_pending below its limit.
QueuePending(n) == pending' = Append(pending, n)

Fails(why) ==
  /\ ended' = why /\ api' = "none"
  /\ UNCHANGED <<connecting, phase, index, pending, outgoing, control_pending, dmrClosed,
                 phaseAge, keepaliveAge, events, answered>>

OnMedia(n) ==
  IF phase = "operational"
  THEN /\ events' = Append(events, n) /\ Return
       /\ UNCHANGED <<connecting, phase, index, pending, answered, phaseAge, keepaliveAge>>
  ELSE /\ QueuePending(n) /\ KeepReceiving
       /\ UNCHANGED <<connecting, phase, index, events, answered, phaseAge, keepaliveAge>>

\* subscription_acknowledges: an acknowledgement without a body counts for any request.
Acknowledges(m) == phase = "subscription" /\ m.n \in {NoBody, plan[index]}

Rejects(m) ==
  \/ m.kind = "failure" /\ phase # "operational"
  \/ m.kind = "close" /\ connecting

\* receive, then the handler of the phase.
ReceivePacket(m) ==
  /\ api = "receiving"
  /\ silence' = 0
  /\ reached' = IF m.kind = "media" THEN Append(reached, m.n) ELSE reached
  /\ \/ m.kind = "media" /\ (phase = "operational" \/ ~PendingFull)
        /\ OnMedia(m.n) /\ UNCHANGED <<dmrClosed, ended>>
     \/ m.kind = "media" /\ phase # "operational" /\ PendingFull
        /\ Fails("overflow")
     \/ m.kind = "challenge" /\ Authenticate(m.n) /\ UNCHANGED <<dmrClosed, ended>>
     \/ m.kind = "keepalive" /\ phase = "authentication" /\ Subscribe(1)
        /\ UNCHANGED <<dmrClosed, ended>>
     \/ m.kind = "keepalive" /\ phase \in {"subscription", "operational"} /\ Ignore
        /\ UNCHANGED <<dmrClosed, ended>>
     \/ m.kind = "ack" /\ Acknowledges(m) /\ Subscribe(index + 1)
        /\ UNCHANGED <<dmrClosed, ended>>
     \/ m.kind = "ack" /\ phase = "subscription" /\ ~Acknowledges(m) /\ Ignore
        /\ UNCHANGED <<dmrClosed, ended>>
     \/ m.kind \in {"ack", "failure"} /\ phase = "operational" /\ Return
        /\ UNCHANGED <<connecting, phase, index, pending, events, answered, phaseAge,
                       keepaliveAge, dmrClosed, ended>>
     \/ m.kind = "ack" /\ phase \in {"challenge", "authentication"} /\ Fails("unexpected")
     \/ m.kind = "keepalive" /\ phase = "challenge" /\ Fails("unexpected")
     \/ Rejects(m) /\ Fails("rejected")
     \/ /\ m.kind = "close" /\ ~connecting
        /\ dmrClosed' = TRUE /\ Return
        /\ UNCHANGED <<connecting, phase, index, pending, events, answered, phaseAge,
                       keepaliveAge, ended>>
  /\ UNCHANGED <<network, plan, toMaster, master, media>>

-----------------------------------------------------------------------------

\* ensure_usable: "no" when the client may be used, otherwise the error.
EnsureUsable == IF control_pending THEN "interrupted" ELSE IF dmrClosed THEN "closed" ELSE "no"

\* next_event_for: an event queued during a recovery comes first, once it is over.
NextEvent ==
  /\ ended = "no" /\ api = "none" /\ ~connecting
  /\ IF EnsureUsable # "no"
     THEN /\ ended' = EnsureUsable /\ dmrClosed' = TRUE
          /\ UNCHANGED <<api, pending, events>>
     ELSE IF phase = "operational" /\ pending # <<>>
     THEN /\ events' = Append(events, Head(pending)) /\ pending' = Tail(pending)
          /\ UNCHANGED <<api, ended, dmrClosed>>
     ELSE api' = "receiving" /\ UNCHANGED <<pending, events, ended, dmrClosed>>
  /\ UNCHANGED <<network, plan, connecting, phase, index, outgoing, control_pending, silence,
                 phaseAge, keepaliveAge, reached, answered, toMaster, toClient, master, media,
                 dmrFaults>>

\* The caller's own deadline passes while receiving: the recovery state stays.
WaitEnds ==
  /\ api = "receiving" /\ ~connecting /\ api' = "none"
  /\ UNCHANGED <<network, plan, connecting, phase, index, pending, outgoing, control_pending,
                 dmrClosed, ended, silence, phaseAge, keepaliveAge, reached, events, answered,
                 toMaster, toClient, master, media, dmrFaults>>

SessionExpired == ~connecting /\ silence >= Timeout

PhaseExpired == phase # "operational" /\ phaseAge >= Timeout
KeepaliveDue == phase = "operational" /\ keepaliveAge >= KeepaliveInterval

\* A deadline of the protocol passes: the call fails, or a keepalive goes out.
Deadline ==
  /\ api = "receiving"
  /\ \/ (SessionExpired \/ PhaseExpired) /\ Fails("timeout")
     \/ /\ ~SessionExpired /\ KeepaliveDue
        /\ Send(Msg("keepalive", 0)) /\ keepaliveAge' = 0
        /\ UNCHANGED <<connecting, phase, index, pending, dmrClosed, ended, phaseAge, events,
                       answered>>
  /\ UNCHANGED <<network, plan, silence, reached, toMaster, toClient, master, media, dmrFaults>>

\* complete_control_send ends: the loop goes on, or the client is closed for good.  connect
\* starts the deadline of a challenge and of a subscription after the send.
SendEnds(ok) ==
  /\ api = "sending" /\ control_pending' = FALSE /\ outgoing' = Nothing
  /\ IF ok THEN /\ api' = IF outgoing.kind = "close" THEN "none" ELSE "receiving"
                /\ dmrClosed' = (outgoing.kind = "close") /\ UNCHANGED ended
                /\ toMaster' = Append(toMaster, outgoing)
     ELSE api' = "none" /\ dmrClosed' = TRUE /\ ended' = "send" /\ UNCHANGED toMaster
  /\ phaseAge' = IF connecting /\ phase # "authentication" THEN 0 ELSE phaseAge
  /\ UNCHANGED <<network, plan, connecting, phase, index, pending, silence, keepaliveAge,
                 reached, events, answered, toClient, master, media, dmrFaults>>

\* The caller drops the pending call; a datagram being sent may be on the wire or not.
DropCall(sent) ==
  /\ api # "none" /\ api' = "none" /\ outgoing' = Nothing
  /\ ended' = IF connecting THEN "dropped" ELSE ended
  /\ toMaster' = IF api = "sending" /\ sent THEN Append(toMaster, outgoing) ELSE toMaster
  /\ UNCHANGED <<network, plan, connecting, phase, index, pending, control_pending,
                 dmrClosed, silence, phaseAge, keepaliveAge, reached, events, answered,
                 toClient, master, media, dmrFaults>>

\* close, when nothing is in progress.
Close ==
  /\ ended = "no" /\ ~dmrClosed /\ api = "none" /\ ~connecting
  /\ IF control_pending
     THEN dmrClosed' = TRUE /\ ended' = "interrupted"
          /\ UNCHANGED <<api, outgoing, control_pending>>
     ELSE Send(Msg("close", 0)) /\ UNCHANGED <<dmrClosed, ended>>
  /\ UNCHANGED <<network, plan, connecting, phase, index, pending, silence, phaseAge,
                 keepaliveAge, reached, events, answered, toMaster, toClient, master, media,
                 dmrFaults>>

\* Time passes; a client that is waiting meets its deadlines.  An age that the phase does
\* not look at, and that is reset before it does, stays 0.
DmrTick ==
  /\ ended = "no" /\ Len(toMaster) + Len(toClient) < MaxFlight
  /\ api = "receiving" => ~SessionExpired /\ ~PhaseExpired /\ ~KeepaliveDue
  /\ silence' = IF connecting THEN 0 ELSE Min({silence + 1, Timeout})
  /\ phaseAge' = IF phase = "operational" THEN 0 ELSE Min({phaseAge + 1, Timeout})
  /\ keepaliveAge' = IF phase = "operational" THEN Min({keepaliveAge + 1, KeepaliveInterval}) ELSE 0
  /\ UNCHANGED <<network, plan, connecting, phase, index, pending, api, outgoing,
                 control_pending, dmrClosed, ended, reached, events, answered, toMaster,
                 toClient, master, media, dmrFaults>>

-----------------------------------------------------------------------------
(* The master, as the client uses it, and the network between them.        *)

\* Datagram i of a queue may be taken: the first one, or on a lossy network any, against the
\* bound on faults.
Take(i) ==
  /\ i > 1 => network = "lossy" /\ dmrFaults < MaxDatagramFaults
  /\ dmrFaults' = IF i = 1 THEN dmrFaults ELSE dmrFaults + 1

ClientGets(i) ==
  /\ Take(i)
  /\ toClient' = RemoveAt(toClient, i)
  /\ ReceivePacket(toClient[i])

Issue == master' = [known |-> FALSE, challenge |-> master.challenge + 1, subs |-> {}]

\* The master answers a keepalive or, to a terminal it does not know, issues a challenge;
\* it accepts only the answer to the newest one, and acknowledges subscriptions with or
\* without naming them.
MasterGets(i) ==
  LET m == toMaster[i] IN
  /\ Take(i)
  /\ toMaster' = RemoveAt(toMaster, i)
  /\ \/ /\ m.kind = "keepalive" /\ ~master.known /\ master.challenge < MaxChallenges
        /\ Issue /\ toClient' = Append(toClient, Msg("challenge", master.challenge + 1))
     \/ /\ m.kind = "keepalive" /\ master.known
        /\ toClient' = Append(toClient, Msg("keepalive", 0)) /\ UNCHANGED master
     \/ /\ m.kind = "auth" /\ m.n = master.challenge
        /\ master' = [master EXCEPT !.known = TRUE]
        /\ toClient' = Append(toClient, Msg("keepalive", 0))
     \/ /\ m.kind = "sub" /\ master.known
        /\ master' = [master EXCEPT !.subs = @ \cup {m.n}]
        /\ \E name \in {m.n, NoBody} : toClient' = Append(toClient, Msg("ack", name))
     \/ /\ m.kind = "close"
        /\ master' = [master EXCEPT !.known = FALSE, !.subs = {}] /\ UNCHANGED toClient
     \/ /\ \/ m.kind = "keepalive" /\ ~master.known /\ master.challenge >= MaxChallenges
           \/ m.kind = "auth" /\ m.n # master.challenge
           \/ m.kind = "sub" /\ ~master.known
        /\ UNCHANGED <<master, toClient>>
  /\ UNCHANGED <<network, plan, clientVars, media>>

\* The master loses the session and challenges the terminal again.
MasterForgets ==
  /\ master.known /\ master.challenge < MaxChallenges
  /\ Issue /\ toClient' = Append(toClient, Msg("challenge", master.challenge + 1))
  /\ UNCHANGED <<network, plan, clientVars, toMaster, media, dmrFaults>>

MasterSendsMedia ==
  /\ master.known /\ media < MaxMedia /\ media' = media + 1
  /\ toClient' = Append(toClient, Msg("media", media + 1))
  /\ UNCHANGED <<network, plan, clientVars, toMaster, master, dmrFaults>>

\* The master turns the terminal away; this uses up the bound on challenges.
MasterEnds(kind) ==
  /\ master.challenge \in 1 .. MaxChallenges
  /\ master' = [known |-> FALSE, challenge |-> MaxChallenges + 1, subs |-> {}]
  /\ toClient' = Append(toClient, Msg(kind, 0))
  /\ UNCHANGED <<network, plan, clientVars, toMaster, media, dmrFaults>>

\* A lossy network loses or repeats a datagram.
NetworkFault ==
  /\ network = "lossy" /\ dmrFaults < MaxDatagramFaults /\ dmrFaults' = dmrFaults + 1
  /\ \/ /\ UNCHANGED toMaster
        /\ \E i \in DOMAIN toClient :
             toClient' \in {RemoveAt(toClient, i), Append(toClient, toClient[i])}
     \/ /\ UNCHANGED toClient
        /\ \E i \in DOMAIN toMaster :
             toMaster' \in {RemoveAt(toMaster, i), Append(toMaster, toMaster[i])}
  /\ UNCHANGED <<network, plan, clientVars, master, media>>

\* Once the client is closed or interrupted, only the next use of it matters.
DmrNext ==
  \/ NextEvent \/ Close
  \/ /\ Usable \/ (ended = "no" /\ api # "none")
     /\ \/ WaitEnds \/ Deadline \/ DmrTick
        \/ \E ok \in BOOLEAN : SendEnds(ok)
        \/ \E sent \in BOOLEAN : DropCall(sent)
        \/ \E i \in DOMAIN toClient : ClientGets(i)
        \/ \E i \in DOMAIN toMaster : MasterGets(i)
        \/ MasterForgets \/ MasterSendsMedia \/ NetworkFault
        \/ \E kind \in {"close", "failure"} : MasterEnds(kind)

DmrSpec == DmrInit /\ [][DmrNext]_dmrVars

-----------------------------------------------------------------------------

\* Every event that reached the client is returned once and in the order of arrival,
\* however many recoveries it arrived in and however the caller's waits ended: what was
\* returned followed by what is queued is what arrived (pending_event_if_recovered and the
\* head of next_event_until drain the queue before anything newer is received).
EventsInOrder ==
  /\ IsPrefix(events, reached)
  /\ Usable => events \o pending = reached

\* On a network that neither loses nor reorders, a client that is operational towards the
\* login the master last asked for has every subscription of its list installed, through
\* any number of challenges in the middle of a login or of a recovery (doc of next_event:
\* "all subscriptions are reinstalled before normal delivery resumes").
OperationalMeansSubscribed ==
  (network = "ordered" /\ Usable /\ phase = "operational" /\ answered = master.challenge)
    => /\ master.known
       /\ master.subs = Range(plan)

\* Logging in and recovering end: the client becomes operational again or the caller is
\* told, even when every datagram is lost and however short the caller's own waits are.
RecoveryEnds == []<>(phase = "operational" \/ ~Usable)

\* The caller is given what arrived, in order, and an operational client is one to the master.
ClientIsTruthful ==
  EventsInOrder /\ OperationalMeansSubscribed
=============================================================================
