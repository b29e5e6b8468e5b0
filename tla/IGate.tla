-------------------------------- MODULE IGate --------------------------------
(***************************************************************************)
(* The Internet-to-RF gateway of an APRS client (thd75/src/aprs/client.rs):*)
(* three bounded memories of who was heard where decide whether a message  *)
(* from APRS-IS goes on the air, and the next position of its sender may   *)
(* follow.  The memory of local receivers forgets its oldest entry when it *)
(* is full; the two that forbid gating instead match everyone until all    *)
(* they refused to store has expired.                                      *)
(***************************************************************************)
EXTENDS Integers, FiniteSetsExt

CONSTANTS
  Identities,
  MaxEntries,        \* max_stations, the capacity of each memory
  RfMaxAge,          \* receiver_rf_max_age
  SenderQuiet,       \* sender_rf_quiet_period
  InternetQuiet      \* receiver_internet_quiet_period

ASSUME IGateConstants ==
  /\ IsFiniteSet(Identities)
  /\ {MaxEntries, RfMaxAge, SenderQuiet, InternetQuiet} \subseteq Nat \ {0}

VARIABLES
  rfHeard, directRfHeard, internetHeard,   \* RecentIdentities
  positions,        \* pending_positions: sender to [receivers, age]
  broken,           \* a transmission failed and the session refuses I/O
  truth,            \* history: time since each identity was really heard, per memory
  owed,             \* history: senders whose message was gated, no position seen since
  onAir             \* history: the line the last step transmitted

igateVars == <<rfHeard, directRfHeard, internetHeard, positions, broken, truth, owed,
               onAir>>

NoLine == [kind |-> "none"]
NotSet == -1
Longest == Max({RfMaxAge, SenderQuiet, InternetQuiet})

IGateInit ==
  /\ rfHeard = [last |-> <<>>, all |-> NotSet]
  /\ directRfHeard = [last |-> <<>>, all |-> NotSet]
  /\ internetHeard = [last |-> <<>>, all |-> NotSet]
  /\ positions = <<>> /\ broken = FALSE
  /\ truth = [m \in {"rf", "direct", "internet"} |-> [i \in Identities |-> Longest]]
  /\ owed = {} /\ onAir = NoLine

-----------------------------------------------------------------------------
(* RecentIdentities: last maps an identity to its age, all is the age of   *)
(* match_all_since.                                                        *)

PurgeExpired(h, maxAge) ==
  [last |-> [i \in {x \in DOMAIN h.last : h.last[x] < maxAge} |-> h.last[i]],
   all |-> IF h.all >= maxAge THEN NotSet ELSE h.all]

Put(f, i, v) == [x \in DOMAIN f \cup {i} |-> IF x = i THEN v ELSE f[x]]
Drop(f, i) == [x \in DOMAIN f \ {i} |-> f[x]]

\* The entries an eviction may take: all of the greatest age.
OldestOf(f) == {i \in DOMAIN f : \A j \in DOMAIN f : f[j] <= f[i]}

\* The memories a record may leave behind.
RecordEvicting(h, maxAge, i) ==
  LET p == PurgeExpired(h, maxAge) IN
  IF i \in DOMAIN p.last \/ Cardinality(DOMAIN p.last) < MaxEntries
  THEN {[p EXCEPT !.last = Put(@, i, 0)]}
  ELSE {[p EXCEPT !.last = Put(Drop(@, old), i, 0)] : old \in OldestOf(p.last)}

\* Mutant: the summary of what was evicted is dropped.
RecordMatchingForgetful(h, maxAge, i) == RecordEvicting(h, maxAge, i)

RecordMatching(h, maxAge, i) ==
  LET p == PurgeExpired(h, maxAge) IN
  IF i \in DOMAIN p.last \/ Cardinality(DOMAIN p.last) < MaxEntries
  THEN {[p EXCEPT !.last = Put(@, i, 0)]}
  ELSE {[p EXCEPT !.all = 0]}

ContainsAt(h, maxAge, i) ==
  \/ h.all # NotSet /\ h.all < maxAge
  \/ i \in DOMAIN h.last /\ h.last[i] < maxAge

-----------------------------------------------------------------------------

\* next_event purges the memories, then record_rf_igate_observation notes the frame.
HearRf(src, local, thirdParty) ==
  /\ ~broken
  /\ rfHeard' \in IF local THEN RecordEvicting(rfHeard, RfMaxAge, src)
                  ELSE {PurgeExpired(rfHeard, RfMaxAge)}
  /\ directRfHeard' \in IF thirdParty THEN {PurgeExpired(directRfHeard, SenderQuiet)}
                        ELSE RecordMatching(directRfHeard, SenderQuiet, src)
  /\ internetHeard' \in IF thirdParty THEN RecordMatching(internetHeard, InternetQuiet, src)
                        ELSE {PurgeExpired(internetHeard, InternetQuiet)}
  /\ truth' = [truth EXCEPT !["rf"][src] = IF local THEN 0 ELSE @,
                            !["direct"][src] = IF thirdParty THEN @ ELSE 0,
                            !["internet"][src] = IF thirdParty THEN 0 ELSE @]
  /\ onAir' = NoLine
  /\ UNCHANGED <<positions, broken, owed>>

\* remember_associated_position: the oldest association gives way when there are too many.
Remembered(sender, receiver) ==
  LET kept == IF sender \in DOMAIN positions THEN positions[sender].receivers ELSE {}
      p == Put(positions, sender, [receivers |-> kept \cup {receiver}, age |-> 0])
      ages == [i \in DOMAIN p |-> p[i].age] IN
  IF Cardinality(DOMAIN p) <= MaxEntries THEN {p}
  ELSE {Drop(p, old) : old \in OldestOf(ages)}

\* gate_from_is starts by noting an Internet-heard source.
NoteInternet(src, marker) ==
  /\ internetHeard' \in IF marker THEN RecordMatching(internetHeard, InternetQuiet, src)
                        ELSE {internetHeard}
  /\ truth' = IF marker THEN [truth EXCEPT !["internet"][src] = 0] ELSE truth

MayReceive(receiver) ==
  /\ ContainsAt(rfHeard, RfMaxAge, receiver)
  /\ ~ContainsAt(internetHeard', InternetQuiet, receiver)

\* gate_from_is for a message; blocked: the line carries an opt-out marker.
GateMessage(src, to, marker, blocked) ==
  /\ ~broken /\ NoteInternet(src, marker)
  /\ IF blocked \/ ~MayReceive(to) \/ ContainsAt(directRfHeard, SenderQuiet, src)
     THEN onAir' = NoLine /\ UNCHANGED <<positions, broken, owed>>
     ELSE \E ok \in BOOLEAN :
          /\ broken' = ~ok
          /\ onAir' = [kind |-> "message", src |-> src, to |-> to]
          /\ positions' \in IF ok THEN Remembered(src, to) ELSE {positions}
          /\ owed' = IF ok THEN owed \cup {src} ELSE owed
  /\ UNCHANGED <<rfHeard, directRfHeard>>

\* take_associated_receivers: the next position uses the association up, eligible or not.
TakenAssociation(src) == Drop(positions, src)

GatePosition(src, marker, blocked) ==
  /\ ~broken /\ NoteInternet(src, marker)
  /\ owed' = owed \ {src}
  /\ positions' = TakenAssociation(src)
  /\ IF \/ src \notin DOMAIN positions \/ blocked
        \/ ContainsAt(directRfHeard, SenderQuiet, src)
        \/ \A r \in positions[src].receivers : ~MayReceive(r)
     THEN onAir' = NoLine /\ UNCHANGED broken
     ELSE \E ok \in BOOLEAN :
          /\ broken' = ~ok
          /\ onAir' = [kind |-> "position", src |-> src, to |-> positions[src].receivers,
                       owed |-> src \in owed]
  /\ UNCHANGED <<rfHeard, directRfHeard>>

AgedMemory(h, maxAge) ==
  [last |-> [i \in DOMAIN h.last |-> Min({h.last[i] + 1, maxAge})],
   all |-> IF h.all = NotSet THEN NotSet ELSE Min({h.all + 1, maxAge})]

IGateTick ==
  /\ ~broken
  /\ rfHeard' = AgedMemory(rfHeard, RfMaxAge)
  /\ directRfHeard' = AgedMemory(directRfHeard, SenderQuiet)
  /\ internetHeard' = AgedMemory(internetHeard, InternetQuiet)
  /\ positions' = [s \in DOMAIN positions |->
                     [positions[s] EXCEPT !.age = Min({@ + 1, Longest})]]
  /\ truth' = [m \in DOMAIN truth |->
                 [i \in Identities |-> Min({truth[m][i] + 1, Longest})]]
  /\ onAir' = NoLine
  /\ UNCHANGED <<broken, owed>>

IGateNext ==
  \/ \E src \in Identities, local, thirdParty \in BOOLEAN : HearRf(src, local, thirdParty)
  \/ \E src, to \in Identities, marker, blocked \in BOOLEAN :
       GateMessage(src, to, marker, blocked)
  \/ \E src \in Identities, marker, blocked \in BOOLEAN : GatePosition(src, marker, blocked)
  \/ IGateTick

IGateSpec == IGateInit /\ [][IGateNext]_igateVars

-----------------------------------------------------------------------------

\* Whatever the bounded memories forgot: a message goes on the air only for a receiver
\* really heard locally and not through the Internet, from a sender really not heard
\* directly, all within their periods.
GatedMessagesAreEligible ==
  onAir.kind = "message" =>
    /\ truth["rf"][onAir.to] < RfMaxAge
    /\ truth["internet"][onAir.to] >= InternetQuiet
    /\ truth["direct"][onAir.src] >= SenderQuiet

\* A position goes on the air only as the first of its sender after a gated message, and
\* for a receiver who was then heard locally and not through the Internet.
GatedPositionsFollowMessages ==
  onAir.kind = "position" =>
    /\ onAir.owed
    /\ \E r \in onAir.to :
         truth["rf"][r] < RfMaxAge /\ truth["internet"][r] >= InternetQuiet
    /\ truth["direct"][onAir.src] >= SenderQuiet

\* Whatever goes on the air from the internet was eligible when it did.
GatedTrafficIsEligible ==
  GatedMessagesAreEligible /\ GatedPositionsFollowMessages
==============================================================================
