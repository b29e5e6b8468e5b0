------------------------------ MODULE AprsClient ------------------------------
(***************************************************************************)
(* APRS clients on one radio channel (thd75/src/aprs/client.rs): each      *)
(* runs next_event in a loop, which retries queued messages, relays what   *)
(* its digipeater released, receives one frame, relays it or answers it.   *)
(* The channel loses what it likes.  A KISS write that fails, times out or *)
(* is cancelled may still have reached the air, and leaves the session     *)
(* refusing all further I/O.  A foreign station sends acknowledgements of  *)
(* its own.  Messages are numbered; the number stands for the text.        *)
(***************************************************************************)
EXTENDS Messenger, Digipeater

CONSTANTS
  Stations,      \* the clients
  Foreign,       \* a station that runs other software
  Setups,        \* what varies between behaviours: [digis, delay, path,
                 \* senders, messages, foreign, faults]
  MaxMessages,   \* bound: messages queued in all; setup.messages of them
  InboxCap       \* bound: frames waiting in a TNC

ASSUME AprsClientConstants ==
  /\ Foreign \notin Stations /\ IsFiniteSet(Stations)
  /\ {MaxMessages, InboxCap} \subseteq Nat \ {0}
  /\ DedupWindow > MaxRetries * RetryInterval

VARIABLES
  setup,         \* the configuration, which never changes
  msgr, digi,    \* the messenger and the digipeater of each client
  relays,        \* pending_viscous of the client: released, not yet transmitted
  eventQueue,    \* pending_events
  step,          \* where next_event is: "idle", "relay" or "receive"
  ambiguous,     \* write_ambiguous of the KISS session
  inbox,         \* frames its TNC holds
  strangers,     \* frames the foreign station has sent
  from, dest,    \* history: sender and addressee of each message, "" before it is queued
  outcome,       \* history: what its sender was told: "", an event name, or "twice"
  received,      \* history: how often its addressee's application was given it
  sends,         \* history: how often its sender transmitted it
  heard,         \* history: messages read off the air by their addressee
  relayAge       \* history: time since each client last relayed each packet

aprsClientVars == <<setup, msgr, digi, relays, eventQueue, step, ambiguous, inbox, strangers,
  from, dest, outcome, received, sends, heard, relayAge>>

Messages == 1..MaxMessages
Queued == {n \in Messages : from[n] # ""}

AprsClientInit ==
  /\ setup \in Setups
  /\ msgr = [s \in Stations |-> NewMessenger]
  /\ digi = [s \in Stations |-> NewDigipeater]
  /\ relays = [s \in Stations |-> {}]
  /\ eventQueue = [s \in Stations |-> <<>>]
  /\ step = [s \in Stations |-> "idle"]
  /\ ambiguous = [s \in Stations |-> FALSE]
  /\ inbox = [s \in Stations |-> <<>>]
  /\ strangers = 0
  /\ from = [n \in Messages |-> ""] /\ dest = [n \in Messages |-> ""]
  /\ outcome = [n \in Messages |-> ""]
  /\ received = [n \in Messages |-> 0] /\ sends = [n \in Messages |-> 0]
  /\ heard = {} /\ relayAge = [s \in Stations |-> <<>>]

\* A frame; what the digipeater takes for the identity of a packet is all but the path.
Frame(kind, src, to, id, n) ==
  [kind |-> kind, src |-> src, to |-> to, id |-> id, reply |-> 0, n |-> n,
   path |-> setup.path]

IdentityOf(f) == <<f.src, f.kind, f.to, f.id, f.n>>

-----------------------------------------------------------------------------
(* Writing to the TNC, and what the application is told.                   *)

Taken(s) == IF step[s] = "receive" /\ inbox[s] # <<>> THEN [inbox EXCEPT ![s] = Tail(@)]
            ELSE inbox

\* The frame reaches the other stations of hears whose TNC has room; Taken: the frame
\* this step has read is gone from the sender's own.
OnAir(s, f, hears) ==
  inbox' = [t \in Stations |->
              IF t \in hears \ {s} /\ Len(inbox[t]) < InboxCap
              THEN Append(inbox[t], f) ELSE Taken(s)[t]]

\* write_wire: ok, or a failure that leaves the session refusing I/O.
KissWrite(s, f, ok) ==
  /\ ok \/ setup.faults
  /\ \E hears \in SUBSET (Stations \ {s}) : OnAir(s, f, hears)
  /\ ambiguous' = [ambiguous EXCEPT ![s] = ~ok]

NoKissWrite(s) == inbox' = Taken(s) /\ UNCHANGED ambiguous

\* The application is handed the events in the set told: <<event, message>>.
Surface(told) ==
  LET Outcomes(n) == {e[1] : e \in {x \in told : x[2] = n}} \ {"MessageReceived"} IN
  /\ outcome' = [n \in Messages |->
       IF Outcomes(n) = {} THEN outcome[n]
       ELSE IF outcome[n] = "" THEN CHOOSE e \in Outcomes(n) : TRUE ELSE "twice"]
  /\ received' = [n \in Messages |->
       received[n] + IF <<"MessageReceived", n>> \in told THEN 1 ELSE 0]

\* next_event returns the oldest of the events q; or goes on at step next.
ReturnOrGoOn(s, q, next) ==
  IF q # <<>>
  THEN /\ eventQueue' = [eventQueue EXCEPT ![s] = Tail(q)] /\ step' = [step EXCEPT ![s] = "idle"]
       /\ Surface({Head(q)})
  ELSE /\ eventQueue' = [eventQueue EXCEPT ![s] = q] /\ step' = [step EXCEPT ![s] = next]
       /\ Surface({})

\* next_event returns an error or nothing, keeping the events q.
ReturnQuietly(s, q) ==
  /\ eventQueue' = [eventQueue EXCEPT ![s] = q] /\ step' = [step EXCEPT ![s] = "idle"] /\ Surface({})

-----------------------------------------------------------------------------
(* Calls of the application.                                               *)

\* A message number comes back only after 65535 others, which take far longer than an
\* incoming number is remembered and a frame can be under way.
NumberIsFresh(s, id) ==
  /\ \A t \in Stations : <<s, id>> \notin FreshSightings(msgr[t])
  /\ \A t \in Stations : \A i \in DOMAIN inbox[t] : inbox[t][i].id # id

CallQueue(s, to) ==
  /\ s \in setup.senders /\ step[s] = "idle" /\ ~ambiguous[s] /\ CanQueue(msgr[s])
  /\ Cardinality(Queued) < setup.messages
  /\ NumberIsFresh(s, NextFreeId(msgr[s]))
  /\ LET n == Min(Messages \ Queued) IN
     /\ msgr' = [msgr EXCEPT ![s] = QueueMessage(@, to, n)]
     /\ from' = [from EXCEPT ![n] = s] /\ dest' = [dest EXCEPT ![n] = to]
  /\ UNCHANGED <<setup, digi, relays, eventQueue, step, ambiguous, inbox, strangers, outcome,
                 received, sends, heard, relayAge>>

-----------------------------------------------------------------------------
(* One cycle of next_event.                                                *)

ReturnEvent(s) ==
  /\ step[s] = "idle" /\ ~ambiguous[s] /\ eventQueue[s] # <<>>
  /\ ReturnOrGoOn(s, eventQueue[s], "idle")
  /\ UNCHANGED <<setup, msgr, digi, relays, ambiguous, inbox, strangers, from, dest,
                 sends, heard, relayAge>>

\* A cycle that finds nothing to do changes nothing.
HasWork(s) ==
  \/ FrameToSend(msgr[s]) # 0 \/ ExpiredMessages(msgr[s]) # <<>>
  \/ inbox[s] # <<>> \/ relays[s] # {} \/ eventQueue[s] # <<>>
  \/ s \in setup.digis /\ DrainReadyViscous(digi[s], setup.delay) # digi[s]

\* What follows a committed retry: expiry, whose events end the cycle, or the drain of
\* the digipeater.
AfterRetries(s, m) ==
  LET gone == ExpiredMessages(m)
      out == Released(digi[s], setup.delay)
      drains == gone = <<>> /\ s \in setup.digis /\ relays[s] = {} IN
  /\ msgr' = [msgr EXCEPT ![s] = CleanupExpired(m)]
  /\ ReturnOrGoOn(s, [i \in DOMAIN gone |-> <<"MessageExpired", gone[i].n>>], "relay")
  /\ digi' = IF drains THEN [digi EXCEPT ![s] = DrainReadyViscous(@, setup.delay)]
             ELSE digi
  /\ relays' = IF drains THEN [relays EXCEPT ![s] = {digi[s].held[k].packet : k \in out}]
               ELSE relays

\* process_retries: an attempt is committed only after its write.
StartCycle(s) ==
  LET m == msgr[s]
      i == FrameToSend(m) IN
  /\ step[s] = "idle" /\ ~ambiguous[s] /\ eventQueue[s] = <<>> /\ HasWork(s)
  /\ IF i = 0
     THEN AfterRetries(s, m) /\ NoKissWrite(s) /\ UNCHANGED sends
     ELSE LET p == m.pending[i] IN
          /\ sends' = [sends EXCEPT ![p.n] = @ + 1]
          /\ \E ok \in BOOLEAN :
               /\ KissWrite(s, Frame("msg", s, p.to, p.id, p.n), ok)
               /\ IF ok THEN AfterRetries(s, CommitSend(m, i))
                  ELSE ReturnQuietly(s, <<>>) /\ UNCHANGED <<msgr, digi, relays>>
  /\ UNCHANGED <<setup, strangers, from, dest, heard, relayAge>>

\* A relay within the time the packet is remembered leaves its mark for ever.
Again == -1
RelayNoted(s, f) ==
  LET k == IdentityOf(f)
      early == k \in DOMAIN relayAge[s] /\ relayAge[s][k] < DedupTtl IN
  relayAge' = [relayAge EXCEPT ![s] = [x \in DOMAIN @ \cup {k} |->
                 IF x # k THEN @[x] ELSE IF early THEN Again ELSE 0]]

\* process_viscous_digipeater: a relay leaves the queue once its write is complete.
Relay(s) ==
  /\ step[s] = "relay"
  /\ IF relays[s] = {}
     THEN /\ ReturnOrGoOn(s, eventQueue[s], "receive") /\ NoKissWrite(s)
          /\ UNCHANGED <<relays, relayAge>>
     ELSE \E f \in relays[s], ok \in BOOLEAN :
          /\ KissWrite(s, f, ok) /\ RelayNoted(s, f)
          /\ IF ok
             THEN /\ relays' = [relays EXCEPT ![s] = @ \ {f}]
                  /\ eventQueue' = [eventQueue EXCEPT ![s] = Append(@, <<"PacketDigipeated", 0>>)]
                  /\ Surface({}) /\ UNCHANGED step
             ELSE ReturnQuietly(s, eventQueue[s]) /\ UNCHANGED relays
  /\ UNCHANGED <<setup, msgr, digi, strangers, from, dest, sends, heard>>

ReceiveNothing(s) ==
  /\ step[s] = "receive" /\ inbox[s] = <<>> /\ step' = [step EXCEPT ![s] = "idle"]
  /\ UNCHANGED <<setup, msgr, digi, relays, eventQueue, ambiguous, inbox, strangers, from,
                 dest, outcome, received, sends, heard, relayAge>>

Ack(s, f) == Frame("ack", s, f.src, f.id, 0)

\* handle_packet for a message or control frame addressed to this station: a repeat is
\* acknowledged again but not delivered; a new message is acknowledged, delivered and
\* remembered in this order, and nothing of it when there is no room to remember it.
HandleMessage(s, f) ==
  LET m == msgr[s]
      key == <<f.src, f.id>>
      settled == SettledBy(m, f)
      after == ProcessIncoming(m, f)
      confirmed == SetToSeq({<<"MessageDelivered", p.n>> : p \in settled}) IN
  IF IsDuplicateIncoming(m, key)
  THEN /\ \E ok \in BOOLEAN :
            /\ KissWrite(s, Ack(s, f), ok)
            /\ msgr' = IF ok THEN [msgr EXCEPT ![s] = MarkIncomingSeen(m, key)] ELSE msgr
       /\ ReturnQuietly(s, eventQueue[s])
  ELSE IF ~HasIncomingCapacity(m, key)
  THEN ReturnQuietly(s, eventQueue[s]) /\ NoKissWrite(s) /\ UNCHANGED msgr
  ELSE \E ok \in BOOLEAN :
       /\ KissWrite(s, Ack(s, f), ok)
       /\ IF ok
          THEN /\ msgr' = [msgr EXCEPT ![s] = MarkIncomingSeen(after, key)]
               /\ Surface({<<"MessageReceived", f.n>>})
               /\ eventQueue' = [eventQueue EXCEPT ![s] = @ \o confirmed]
               /\ step' = [step EXCEPT ![s] = "idle"]
          ELSE /\ msgr' = [msgr EXCEPT ![s] = after]
               /\ ReturnQuietly(s, eventQueue[s] \o confirmed)

HandleControl(s, f) ==
  LET name == IF f.kind = "ack" THEN "MessageDelivered" ELSE "MessageRejected" IN
  /\ msgr' = [msgr EXCEPT ![s] = ProcessIncoming(@, f)]
  /\ Surface({<<name, p.n>> : p \in SettledBy(msgr[s], f)})
  /\ step' = [step EXCEPT ![s] = "idle"]
  /\ NoKissWrite(s) /\ UNCHANGED eventQueue

HandlePacket(s, f) ==
  IF f.to # s THEN ReturnQuietly(s, eventQueue[s]) /\ NoKissWrite(s) /\ UNCHANGED msgr
  ELSE IF f.kind = "msg" THEN HandleMessage(s, f) ELSE HandleControl(s, f)

\* A packet the digipeater relays, or has no room to, is not looked at further.
Receive(s) ==
  /\ step[s] = "receive" /\ inbox[s] # <<>>
  /\ LET f == Head(inbox[s])
         r == IF s \in setup.digis
              THEN ProcessPacket(digi[s], s, setup.delay > 0, IdentityOf(f), f)
              ELSE [digi |-> digi[s], action |-> "Drop", packet |-> f] IN
     /\ heard' = IF f.kind = "msg" /\ f.to = s THEN heard \cup {f.n} ELSE heard
     /\ digi' = [digi EXCEPT ![s] = r.digi]
     /\ \/ /\ r.action = "Relay" /\ RelayNoted(s, r.packet)
           /\ \E ok \in BOOLEAN :
                /\ KissWrite(s, r.packet, ok)
                /\ relays' = IF ok THEN relays
                             ELSE [relays EXCEPT ![s] = @ \cup {r.packet}]
           /\ ReturnQuietly(s, eventQueue[s]) /\ UNCHANGED msgr
        \/ /\ r.action = "CapacityExceeded"
           /\ ReturnQuietly(s, eventQueue[s]) /\ NoKissWrite(s)
           /\ UNCHANGED <<msgr, relays, relayAge>>
        \/ /\ r.action \notin {"Relay", "CapacityExceeded"}
           /\ HandlePacket(s, f) /\ UNCHANGED <<relays, relayAge>>
  /\ UNCHANGED <<setup, strangers, from, dest, sends>>

-----------------------------------------------------------------------------
(* The channel and time.                                                   *)

\* The foreign station acknowledges or rejects a message, or sends one of its own that
\* may carry a reply-ack.
Stranger(s) ==
  /\ strangers < setup.foreign /\ ~ambiguous[s] /\ Len(inbox[s]) < InboxCap
  /\ \E kind \in {"ack", "rej", "msg"}, id \in 1..MaxId, reply \in 0..MaxId :
       /\ kind # "msg" => reply = 0
       /\ inbox' = [inbox EXCEPT ![s] =
            Append(@, [Frame(kind, Foreign, s, id, 0) EXCEPT !.reply = reply])]
  /\ strangers' = strangers + 1
  /\ UNCHANGED <<setup, msgr, digi, relays, eventQueue, step, ambiguous, from, dest, outcome,
                 received, sends, heard, relayAge>>

\* A tick is much longer than a cycle: an application that loops on next_event has done
\* all that is due.
AprsTick ==
  /\ \A s \in Stations : ambiguous[s] \/ (step[s] = "idle" /\ ~HasWork(s))
  /\ msgr' = [s \in Stations |-> AgedMessenger(msgr[s])]
  /\ digi' = [s \in Stations |-> AgedDigipeater(digi[s], setup.delay)]
  /\ relayAge' = [s \in Stations |-> [k \in DOMAIN relayAge[s] |->
       IF relayAge[s][k] = Again THEN Again ELSE Min({relayAge[s][k] + 1, DedupTtl})]]
  /\ UNCHANGED <<setup, relays, eventQueue, step, ambiguous, inbox, strangers, from, dest,
                 outcome, received, sends, heard>>

CycleStep(s) ==
  ReturnEvent(s) \/ StartCycle(s) \/ Relay(s) \/ ReceiveNothing(s) \/ Receive(s)

AprsClientNext ==
  \/ \E s \in Stations : CycleStep(s) \/ Stranger(s)
  \/ \E s \in Stations, to \in Stations \cup {Foreign} : s # to /\ CallQueue(s, to)
  \/ AprsTick

AprsClientSpec == AprsClientInit /\ [][AprsClientNext]_aprsClientVars

-----------------------------------------------------------------------------
(* Properties.                                                             *)

\* However numbers wrap and are skipped, two messages that await an answer never share
\* one, so an acknowledgement is never taken for that of another message.
PendingIdsAreUnique ==
  \A s \in Stations : Cardinality(OccupiedIds(msgr[s])) = Len(msgr[s].pending)

\* The application at the addressee is given a message at most once, however often it
\* was retried, relayed or acknowledged in vain.
DeliveredOnce == \A n \in Messages : received[n] <= 1

\* A sender is told that a client has its message only when that client's application
\* was given it, or its KISS session broke while it wrote the acknowledgement.
AckedMeansReceived ==
  \A n \in Messages :
    outcome[n] = "MessageDelivered" /\ dest[n] \in Stations
      => received[n] > 0 \/ ambiguous[dest[n]]

\* The sender is told one outcome, and a message it was told about is not pending.
OneOutcome ==
  \A n \in Messages :
    /\ outcome[n] # "twice"
    /\ outcome[n] # "" => \A s \in Stations : \A i \in DOMAIN msgr[s].pending :
                            msgr[s].pending[i].n # n

\* A message is transmitted at most max_retries times, and expires only after all of
\* them; a write that broke the session may be one that was not counted.
AttemptsAreBounded ==
  \A n \in Queued :
    /\ sends[n] <= MaxRetries
    /\ outcome[n] = "MessageExpired" => sends[n] = MaxRetries

\* A digipeater does not transmit the same packet twice while it should remember it,
\* immediately or after a viscous delay, even when its memory is full.
RelaysOncePerWindow ==
  \A s \in Stations : \A k \in DOMAIN relayAge[s] : relayAge[s][k] # Again

\* Every queued message is delivered, rejected or expires, unless the KISS session of its
\* sender broke.
MessagesResolve ==
  []<>(\A n \in Queued : outcome[n] # "" \/ ambiguous[from[n]])

\* "If it is a message addressed to the local station and auto_ack is on, send ack": a
\* message its addressee read off the air does not expire unanswered at its sender.
HeardMessagesAreHandled ==
  \A n \in heard \ {0} :
    outcome[n] = "MessageExpired" => received[n] > 0 \/ ambiguous[dest[n]]

\* A queued message ends once and as it was: an acknowledgement settles the one message of
\* its number and means that the addressee has it, and expiry follows every attempt.
OutcomesAreTrue ==
  /\ PendingIdsAreUnique /\ AckedMeansReceived /\ OneOutcome /\ AttemptsAreBounded
==============================================================================
