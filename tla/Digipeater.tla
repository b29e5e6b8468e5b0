------------------------------ MODULE Digipeater ------------------------------
(***************************************************************************)
(* The APRS digipeater (aprs/src/digipeater.rs) as operators on its state: *)
(* the memory of relayed packets, the relays a viscous delay holds back,   *)
(* and the throttled sweep of the memory.  A packet carries its path as a  *)
(* sequence of [call, hops, used]; what hash_packet_identity hashes is one *)
(* value.  An alias is matched by name: the digit that the New-N form puts *)
(* behind the base is not modelled.  Instants are ages, as in Messenger.   *)
(***************************************************************************)
EXTENDS Integers, Sequences, SequencesExt, FiniteSetsExt

CONSTANTS
  DedupTtl,        \* dedup_ttl, in ticks
  MaxRelays,       \* limits.pending_relays
  MaxDedup,        \* limits.dedup_entries
  MaxPath          \* MAX_DIGIPEATERS

ASSUME DigipeaterConstants ==
  {DedupTtl, MaxRelays, MaxDedup, MaxPath} \subseteq Nat \ {0}

NeverPruned == -1

\* dedup maps identities to the age of their relay, held maps them to [age, packet].
NewDigipeater == [dedup |-> <<>>, held |-> <<>>, pruned |-> NeverPruned]

Known(d) == {k \in DOMAIN d.dedup : d.dedup[k] < DedupTtl}

PruneDedup(d) ==
  IF d.pruned = NeverPruned \/ d.pruned >= DedupTtl
  THEN [d EXCEPT !.dedup = [k \in Known(d) |-> d.dedup[k]], !.pruned = 0]
  ELSE d

WithDedup(d, id) ==
  [d EXCEPT !.dedup = [k \in DOMAIN @ \cup {id} |-> IF k = id THEN 0 ELSE @[k]]]

WithoutHeld(d, ids) ==
  [d EXCEPT !.held = [k \in DOMAIN @ \ ids |-> @[k]]]

OwnCallsignRelayed(own, path) ==
  \E i \in DOMAIN path : path[i].used /\ path[i].call = own

FirstUnused(path) == SelectInSeq(path, LAMBDA e : ~e.used)

HopTaken(e) == [e EXCEPT !.hops = @ - 1, !.used = (e.hops = 1)]

\* The path a relay by station own leaves: <<>> when it does not relay.  "DIGI" is a
\* UIdigipeat alias, "WIDE" the UIflood alias, "TRACE" the UItrace alias.
RelayedPath(own, path) ==
  LET i == FirstUnused(path)
      me == [call |-> own, hops |-> 0, used |-> TRUE] IN
  IF i = 0 THEN <<>>
  ELSE LET e == path[i] IN
    CASE e.call = "DIGI" -> [path EXCEPT ![i] = me]
      [] e.call = "WIDE" /\ e.hops > 0 -> [path EXCEPT ![i] = HopTaken(e)]
      [] e.call = "TRACE" /\ e.hops > 0 /\ Len(path) < MaxPath ->
           SubSeq(path, 1, i - 1) \o <<me, HopTaken(e)>> \o SubSeq(path, i + 1, Len(path))
      [] OTHER -> <<>>

Reserved(d) == Cardinality(DOMAIN d.dedup) + Cardinality(DOMAIN d.held)

\* has_dedup_capacity: a full cache is swept out of turn before it refuses.
Reclaimed(d) ==
  IF Reserved(d) < MaxDedup THEN d ELSE PruneDedup([d EXCEPT !.pruned = NeverPruned])

\* record_relay; delayed says that a viscous delay is configured.
RecordRelay(d, delayed, id, packet) ==
  LET r == Reclaimed(d)
      Result(digi, action) == [digi |-> digi, action |-> action, packet |-> packet] IN
  IF delayed /\ Cardinality(DOMAIN d.held) >= MaxRelays
  THEN Result(d, "CapacityExceeded")
  ELSE IF Reserved(r) >= MaxDedup
  THEN Result(r, "CapacityExceeded")
  ELSE IF delayed
  THEN Result([r EXCEPT !.held = [k \in DOMAIN @ \cup {id} |->
                 IF k = id THEN [age |-> 0, packet |-> packet] ELSE @[k]]], "Drop")
  ELSE Result(WithDedup(r, id), "Relay")

\* DigipeaterConfig::process: the new state, what to do, and the packet to relay.
ProcessPacket(d, own, delayed, id, packet) ==
  LET p == PruneDedup(d)
      path == RelayedPath(own, packet.path)
      Result(digi, action) == [digi |-> digi, action |-> action, packet |-> packet] IN
  IF OwnCallsignRelayed(own, packet.path) THEN Result(d, "LoopDetected")
  ELSE IF id \in Known(p) THEN Result(p, "Duplicate")
  ELSE IF delayed /\ id \in DOMAIN p.held
  THEN Result(WithDedup(WithoutHeld(p, {id}), id), "Duplicate")
  ELSE IF path = <<>> THEN Result(p, "Drop")
  ELSE RecordRelay(p, delayed, id, [packet EXCEPT !.path = path])

Released(d, delay) == {k \in DOMAIN d.held : d.held[k].age >= delay}

\* Mutant: a released packet is not remembered.
DrainReadyViscousForgetting(d, delay) ==
  WithoutHeld(PruneDedup(d), Released(d, delay))

\* drain_ready_viscous: what it releases is remembered as relayed.
DrainReadyViscous(d, delay) ==
  LET out == Released(d, delay)
      p == WithoutHeld(PruneDedup(d), out) IN
  [p EXCEPT !.dedup = [k \in DOMAIN @ \cup out |-> IF k \in out THEN 0 ELSE @[k]]]

\* One tick passes; delay caps the age of what is held.
AgedDigipeater(d, delay) ==
  [dedup |-> [k \in DOMAIN d.dedup |-> Min({d.dedup[k] + 1, DedupTtl})],
   held |-> [k \in DOMAIN d.held |->
               [d.held[k] EXCEPT !.age = Min({@ + 1, delay})]],
   pruned |-> IF d.pruned = NeverPruned THEN NeverPruned ELSE Min({d.pruned + 1, DedupTtl})]
==============================================================================
