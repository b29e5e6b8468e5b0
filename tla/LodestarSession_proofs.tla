------------------------ MODULE LodestarSession_proofs ------------------------
(***************************************************************************)
(* Theorems about the session handle that lodestar shares between threads, *)
(* for any number of callers, of calls and of events of the session below. *)
(***************************************************************************)
EXTENDS LodestarSession, FiniteSetTheorems, TLAPS

Places == {"idle", "sender", "push", "reply", "disconnect", "join"}

LodestarTypes ==
  /\ asked \in [Callers -> [at : Places, id : Nat, late : BOOLEAN]]
  /\ count \in Nat /\ txRequests \in Seq(Nat) /\ observed \in Seq({"event", "Ended"})
  /\ task \in [at : {"select", "sending", "leaving", "done"}, id : Nat,
               result : {"none", "Ok", "Shell"}]
  /\ backend \in [kept : BOOLEAN, armed : BOOLEAN, held : BOOLEAN]

(* Requests that the queue accepted and that were not refused since. *)
Underway(id) ==
  \/ id \in radiated
  \/ \E i \in DOMAIN txRequests : txRequests[i] = id
  \/ task.at = "sending" /\ task.id = id

(* A call has an id of its own, which no call has had before. *)
IdInv ==
  /\ \A c \in Callers : asked[c].at # "idle" => asked[c].id <= count
  /\ \A c, d \in Callers : c # d /\ asked[c].at # "idle" /\ asked[d].at # "idle" =>
       asked[c].id # asked[d].id
  /\ \A v \in verdicts : v.id \in Nat /\ v.id <= count
  /\ \A v \in verdicts, c \in Callers : asked[c].at # "idle" => asked[c].id # v.id
  /\ \A id \in Nat : Underway(id) => id <= count

(* A request is under way only once the queue has accepted it, and what the task answered
   is what it did. *)
FlowInv ==
  /\ \A c \in Callers : asked[c].at \in {"sender", "push", "disconnect", "join"} =>
       ~Underway(asked[c].id)
  /\ \A c \in Callers : asked[c].late => asked[c].at \in {"sender", "disconnect", "join"} /\ ~backend.armed
  /\ \A a \in answers : a.is \in {"Ok", "Shell"} /\ (a.is = "Ok" => a.id \in radiated)
  /\ \A id \in radiated : \E a \in answers : a.id = id
  /\ ~Live => txRequests = <<>>

(* Verdicts stay true because what was refused is never under way again. *)
VerdictInv ==
  \A v \in verdicts :
    /\ v.is = "Ok" /\ v.at = "reply" => v.id \in radiated
    /\ v.is = "AlreadyDisconnected" \/ (v.is = "cancelled" /\ v.at \in {"sender", "push"}) =>
         ~Underway(v.id)
    /\ v.late => ~Underway(v.id)

(* The mutex is with the disconnect that waits for the task, which finds the result there;
   after it there is none to be found. *)
JoinInv ==
  /\ \A c \in Callers : asked[c].at = "join" => guard = c /\ backend.kept /\ ~backend.armed
  /\ Live => backend.kept
  /\ ~Live => task.result \in {"Ok", "Shell"}
  /\ backend.kept => \A v \in verdicts : v.at = "join" => v.is = "cancelled"
  /\ ~backend.kept =>
       \E v \in verdicts : /\ v.at = "join" /\ v.is = task.result
                           /\ \A u \in verdicts : u.at = "join" /\ u.is # "cancelled" => u = v

EndInv ==
  /\ ~Live => observed # <<>>
  /\ \A i \in DOMAIN observed : (observed[i] = "Ended") <=> (i = Len(observed) /\ ~Live)

LodestarInv == LodestarTypes /\ IdInv /\ FlowInv /\ VerdictInv /\ JoinInv /\ EndInv

-----------------------------------------------------------------------------
(* A sequence that grows at its end.                                     *)
LEMMA AppendParts ==
  ASSUME NEW S, NEW s \in Seq(S), NEW x \in S
  PROVE  /\ Len(Append(s, x)) = Len(s) + 1 /\ Len(s) \in Nat
         /\ DOMAIN Append(s, x) = 1..(Len(s) + 1) /\ DOMAIN s = 1..Len(s)
         /\ Append(s, x)[Len(s) + 1] = x
         /\ \A i \in 1..Len(s) : Append(s, x)[i] = s[i]
OBVIOUS

-----------------------------------------------------------------------------
(* The callers.                                                            *)

(* A call returns: its verdict is true now, and joins the others. *)
LEMMA ReturnStep ==
  ASSUME LodestarInv, NEW c \in Callers, asked[c].at # "idle", NEW result,
         Returns(c, asked[c].id, result),
         UNCHANGED <<count, txRequests, task, answers, radiated, observed>>,
         backend' \in [kept : BOOLEAN, armed : BOOLEAN, held : BOOLEAN], backend'.armed => backend.armed,
         result = "Ok" /\ asked[c].at = "reply" => asked[c].id \in radiated,
         result = "AlreadyDisconnected" => ~Underway(asked[c].id)
  PROVE  LodestarTypes' /\ IdInv' /\ FlowInv' /\ VerdictInv' /\ EndInv'
<1>0. LodestarTypes /\ IdInv /\ FlowInv /\ VerdictInv /\ EndInv
  BY DEF LodestarInv
<1>1. /\ asked' = [asked EXCEPT ![c] = Resting]
      /\ asked'[c].at = "idle" /\ ~asked'[c].late
      /\ \A d \in Callers : d # c => asked'[d] = asked[d]
  BY <1>0 DEF Returns, Resting, LodestarTypes
<1>2. asked' \in [Callers -> [at : Places, id : Nat, late : BOOLEAN]]
  <2>1. Resting \in [at : Places, id : Nat, late : BOOLEAN]
    BY DEF Resting, Places
  <2> QED
    BY <1>0, <1>1, <2>1 DEF LodestarTypes
<1>3. \A id : Underway(id)' <=> Underway(id)
  BY DEF Underway
<1>4. PICK new : /\ verdicts' = verdicts \cup {new} /\ new.id = asked[c].id /\ new.is = result
                 /\ (new.late <=> asked[c].late) /\ new.at = asked[c].at
  <2> DEFINE r == [id |-> asked[c].id, late |-> asked[c].late, at |-> asked[c].at, is |-> result]
  <2>1. verdicts' = verdicts \cup {r}
    BY DEF Returns
  <2>2. r.id = asked[c].id /\ r.is = result /\ (r.late <=> asked[c].late) /\ r.at = asked[c].at
    OBVIOUS
  <2> HIDE DEF r
  <2> QED
    BY <2>1, <2>2
<1>5. asked[c].id \in Nat /\ asked[c].id <= count
  BY <1>0 DEF LodestarTypes, IdInv
<1>6. LodestarTypes'
  BY <1>0, <1>2 DEF LodestarTypes
<1>7. IdInv'
  BY <1>0, <1>1, <1>3, <1>4, <1>5 DEF IdInv
<1>8. FlowInv'
  BY <1>0, <1>1, <1>3 DEF FlowInv, Live
<1>9. VerdictInv'
  <2>1. asked[c].at \in {"sender", "push"} => ~Underway(asked[c].id)
    BY <1>0 DEF FlowInv
  <2>2. asked[c].late => ~Underway(asked[c].id)
    BY <1>0 DEF FlowInv
  <2> QED
    BY <1>0, <1>3, <1>4, <2>1, <2>2 DEF VerdictInv
<1>10. EndInv'
  BY <1>0 DEF EndInv, Live
<1> QED
  BY <1>6, <1>7, <1>8, <1>9, <1>10

(* A return of anything but the task's result leaves the teardown as it is. *)
LEMMA ReturnKeepsJoin ==
  ASSUME LodestarInv, NEW c \in Callers, NEW result,
         Returns(c, asked[c].id, result), asked[c].at = "join" => result = "cancelled",
         UNCHANGED <<task, backend>>, guard' = guard \/ (guard = c /\ guard' = Nobody)
  PROVE  JoinInv'
<1>0. LodestarTypes /\ JoinInv
  BY DEF LodestarInv
<1>1. /\ asked'[c].at = "idle" /\ \A d \in Callers : d # c => asked'[d] = asked[d]
  BY <1>0 DEF Returns, Resting, LodestarTypes
<1>2. PICK new : verdicts' = verdicts \cup {new} /\ new.is = result /\ new.at = asked[c].at
  <2> DEFINE r == [id |-> asked[c].id, late |-> asked[c].late, at |-> asked[c].at, is |-> result]
  <2>1. verdicts' = verdicts \cup {r}
    BY DEF Returns
  <2>2. r.is = result /\ r.at = asked[c].at
    OBVIOUS
  <2> HIDE DEF r
  <2> QED
    BY <2>1, <2>2
<1>3. \A d \in Callers : asked'[d].at = "join" => guard' = d /\ backend'.kept /\ ~backend'.armed
  BY <1>0, <1>1 DEF JoinInv
<1>4. backend.kept => \A v \in verdicts' : v.at = "join" => v.is = "cancelled"
  BY <1>0, <1>2 DEF JoinInv
<1>5. ~backend.kept =>
        \E v \in verdicts' : /\ v.at = "join" /\ v.is = task.result
                             /\ \A u \in verdicts' : u.at = "join" /\ u.is # "cancelled" => u = v
  BY <1>0, <1>2 DEF JoinInv
<1> QED
  BY <1>0, <1>3, <1>4, <1>5 DEF JoinInv, Live

(* A call goes on to another place, with the same id. *)
LEMMA PlaceStep ==
  ASSUME LodestarTypes, NEW c \in Callers, NEW at \in Places, asked' = [asked EXCEPT ![c].at = at]
  PROVE  /\ asked' \in [Callers -> [at : Places, id : Nat, late : BOOLEAN]]
         /\ asked'[c].at = at /\ asked'[c].id = asked[c].id /\ (asked'[c].late <=> asked[c].late)
         /\ \A d \in Callers : d # c => asked'[d] = asked[d]
BY DEF LodestarTypes

LEMMA CallInStep ==
  ASSUME LodestarInv, NEW c \in Callers, CallIn(c)
  PROVE  LodestarInv'
<1>0. LodestarTypes /\ IdInv /\ FlowInv /\ VerdictInv /\ JoinInv /\ EndInv
  BY DEF LodestarInv
<1>1. /\ asked[c].at = "idle" /\ count' = count + 1
      /\ UNCHANGED <<backend, guard, signal, verdicts, taskVars>>
  BY DEF CallIn
<1>2. PICK at \in {"sender", "disconnect"} :
        asked' = [asked EXCEPT ![c] = [at |-> at, id |-> count + 1, late |-> ~backend.armed]]
  BY DEF CallIn
<1>3. /\ asked'[c].at = at /\ asked'[c].id = count + 1 /\ (asked'[c].late <=> ~backend.armed)
      /\ \A d \in Callers : d # c => asked'[d] = asked[d]
  BY <1>0, <1>2 DEF LodestarTypes
<1>4. LodestarTypes'
  <2>1. [at |-> at, id |-> count + 1, late |-> ~backend.armed] \in [at : Places, id : Nat, late : BOOLEAN]
    BY <1>0 DEF LodestarTypes, Places
  <2>2. asked' \in [Callers -> [at : Places, id : Nat, late : BOOLEAN]]
    BY <1>0, <1>2, <2>1 DEF LodestarTypes
  <2> QED
    BY <1>0, <1>1, <2>2 DEF LodestarTypes, taskVars
<1>5. \A id : Underway(id)' <=> Underway(id)
  BY <1>1 DEF Underway, taskVars
<1>6. count \in Nat /\ \A d \in Callers : asked[d].id \in Nat
  BY <1>0 DEF LodestarTypes
<1>7. IdInv'
  <2>1. \A d \in Callers : asked'[d].at # "idle" => asked'[d].id <= count'
    BY <1>0, <1>1, <1>3, <1>6 DEF IdInv
  <2>2. \A d, e \in Callers : d # e /\ asked'[d].at # "idle" /\ asked'[e].at # "idle" =>
          asked'[d].id # asked'[e].id
    BY <1>0, <1>1, <1>3, <1>6 DEF IdInv
  <2>3. \A v \in verdicts' : v.id \in Nat /\ v.id <= count'
    BY <1>0, <1>1, <1>6 DEF IdInv
  <2>4. \A v \in verdicts', d \in Callers : asked'[d].at # "idle" => asked'[d].id # v.id
    BY <1>0, <1>1, <1>3, <1>6 DEF IdInv
  <2>5. \A id \in Nat : Underway(id)' => id <= count'
    BY <1>0, <1>1, <1>5, <1>6 DEF IdInv
  <2> QED
    BY <2>1, <2>2, <2>3, <2>4, <2>5 DEF IdInv
<1>8. FlowInv'
  <2>1. ~Underway(count + 1)
    BY <1>0, <1>6 DEF IdInv
  <2>2. at \in {"sender", "disconnect"}
    BY <1>2
  <2> QED
    BY <1>0, <1>1, <1>3, <1>5, <2>1, <2>2 DEF FlowInv, Live, taskVars
<1>9. VerdictInv'
  BY <1>0, <1>1, <1>5 DEF VerdictInv, taskVars
<1>10. JoinInv'
  BY <1>0, <1>1, <1>2, <1>3 DEF JoinInv, Live, taskVars
<1>11. EndInv'
  BY <1>0, <1>1 DEF EndInv, Live, taskVars
<1> QED
  BY <1>4, <1>7, <1>8, <1>9, <1>10, <1>11 DEF LodestarInv

LEMMA SenderStep ==
  ASSUME LodestarInv, NEW c \in Callers, Sender(c)
  PROVE  LodestarInv'
<1>0. LodestarTypes /\ IdInv /\ FlowInv /\ VerdictInv /\ JoinInv /\ EndInv
  BY DEF LodestarInv
<1>1. asked[c].at = "sender" /\ UNCHANGED <<backend, guard, signal, count, taskVars>>
  BY DEF Sender
<1>2. CASE Returns(c, asked[c].id, "AlreadyDisconnected")
  <2>1. ~Underway(asked[c].id)
    BY <1>0, <1>1 DEF FlowInv
  <2>2. LodestarTypes' /\ IdInv' /\ FlowInv' /\ VerdictInv' /\ EndInv'
    BY <1>0, <1>1, <1>2, <2>1, ReturnStep DEF LodestarTypes, taskVars
  <2>3. JoinInv'
    BY <1>1, <1>2, ReturnKeepsJoin DEF taskVars
  <2> QED
    BY <2>2, <2>3 DEF LodestarInv
<1>3. CASE MaySend /\ asked' = [asked EXCEPT ![c].at = "push"] /\ verdicts' = verdicts
  <2>1. /\ asked' \in [Callers -> [at : Places, id : Nat, late : BOOLEAN]]
        /\ asked'[c].at = "push" /\ asked'[c].id = asked[c].id /\ (asked'[c].late <=> asked[c].late)
        /\ \A d \in Callers : d # c => asked'[d] = asked[d]
    BY <1>0, <1>3, PlaceStep DEF Places
  <2>2. \A id : Underway(id)' <=> Underway(id)
    BY <1>1 DEF Underway, taskVars
  <2>3. ~asked[c].late
    BY <1>0, <1>3 DEF FlowInv, MaySend
  <2>4. LodestarTypes'
    BY <1>0, <1>1, <2>1 DEF LodestarTypes, taskVars
  <2>5. IdInv'
    BY <1>0, <1>1, <1>3, <2>1, <2>2 DEF IdInv
  <2>6. FlowInv'
    BY <1>0, <1>1, <2>1, <2>2, <2>3 DEF FlowInv, Live, taskVars
  <2>7. VerdictInv'
    BY <1>0, <1>1, <1>3, <2>2 DEF VerdictInv, taskVars
  <2>8. JoinInv'
    BY <1>0, <1>1, <1>3, <2>1 DEF JoinInv, Live, taskVars
  <2>9. EndInv'
    BY <1>0, <1>1 DEF EndInv, Live, taskVars
  <2> QED
    BY <2>4, <2>5, <2>6, <2>7, <2>8, <2>9 DEF LodestarInv
<1> QED
  BY <1>2, <1>3 DEF Sender

LEMMA PushStep ==
  ASSUME LodestarInv, NEW c \in Callers, PushRequest(c)
  PROVE  LodestarInv'
<1>0. LodestarTypes /\ IdInv /\ FlowInv /\ VerdictInv /\ JoinInv /\ EndInv
  BY DEF LodestarInv
<1>1. /\ asked[c].at = "push" /\ asked[c].id \in Nat
      /\ UNCHANGED <<backend, guard, signal, count, task, answers, radiated, observed, shell>>
  BY <1>0 DEF PushRequest, LodestarTypes
<1>2. CASE Returns(c, asked[c].id, "AlreadyDisconnected") /\ txRequests' = txRequests
  <2>1. ~Underway(asked[c].id)
    BY <1>0, <1>1 DEF FlowInv
  <2>2. LodestarTypes' /\ IdInv' /\ FlowInv' /\ VerdictInv' /\ EndInv'
    BY <1>0, <1>1, <1>2, <2>1, ReturnStep DEF LodestarTypes
  <2>3. JoinInv'
    BY <1>1, <1>2, ReturnKeepsJoin
  <2> QED
    BY <2>2, <2>3 DEF LodestarInv
<1>3. CASE /\ Live /\ txRequests' = Append(txRequests, asked[c].id) /\ verdicts' = verdicts
           /\ asked' = [asked EXCEPT ![c].at = "reply"]
  <2>1. /\ asked' \in [Callers -> [at : Places, id : Nat, late : BOOLEAN]]
        /\ asked'[c].at = "reply" /\ asked'[c].id = asked[c].id /\ (asked'[c].late <=> asked[c].late)
        /\ \A d \in Callers : d # c => asked'[d] = asked[d]
    BY <1>0, <1>3, PlaceStep DEF Places
  <2>2. \A id : Underway(id)' <=> (Underway(id) \/ id = asked[c].id)
    <3>1. \A id : (\E i \in DOMAIN txRequests' : txRequests'[i] = id)
                    <=> ((\E i \in DOMAIN txRequests : txRequests[i] = id) \/ id = asked[c].id)
      <4>1. /\ DOMAIN txRequests' = 1..(Len(txRequests) + 1) /\ DOMAIN txRequests = 1..Len(txRequests)
            /\ Len(txRequests) \in Nat /\ txRequests'[Len(txRequests) + 1] = asked[c].id
            /\ \A i \in 1..Len(txRequests) : txRequests'[i] = txRequests[i]
        BY <1>0, <1>1, <1>3, AppendParts DEF LodestarTypes
      <4>2. DOMAIN txRequests' = DOMAIN txRequests \cup {Len(txRequests) + 1}
        BY <4>1
      <4> QED
        BY <4>1, <4>2
    <3> QED
      BY <1>1, <3>1 DEF Underway
  <2>3. LodestarTypes'
    BY <1>0, <1>1, <1>3, <2>1 DEF LodestarTypes
  <2>4. IdInv'
    BY <1>0, <1>1, <1>3, <2>1, <2>2 DEF IdInv
  <2>5. FlowInv'
    <3>1. \A d \in Callers : asked'[d].at \in {"sender", "push", "disconnect", "join"} =>
            ~Underway(asked[d].id)' /\ asked'[d] = asked[d]
      BY <1>0, <1>1, <2>1, <2>2 DEF FlowInv, IdInv
    <3> QED
      BY <1>0, <1>1, <1>3, <2>1, <3>1 DEF FlowInv, Live
  <2>6. VerdictInv'
    BY <1>0, <1>1, <1>3, <2>2 DEF VerdictInv, IdInv
  <2>7. JoinInv'
    BY <1>0, <1>1, <1>3, <2>1 DEF JoinInv, Live
  <2>8. EndInv'
    BY <1>0, <1>1 DEF EndInv, Live
  <2> QED
    BY <2>3, <2>4, <2>5, <2>6, <2>7, <2>8 DEF LodestarInv
<1> QED
  BY <1>2, <1>3 DEF PushRequest

LEMMA ReplyStep ==
  ASSUME LodestarInv, NEW c \in Callers, AwaitReply(c)
  PROVE  LodestarInv'
<1>0. LodestarTypes /\ FlowInv
  BY DEF LodestarInv
<1>1. asked[c].at = "reply" /\ UNCHANGED <<backend, guard, signal, count, taskVars>>
  BY DEF AwaitReply
<1>2. PICK result : /\ Returns(c, asked[c].id, result)
                    /\ result = "Ok" => asked[c].id \in radiated
                    /\ result = "AlreadyDisconnected" => ~Underway(asked[c].id)
  <2>1. CASE \E a \in answers : a.id = asked[c].id /\ Returns(c, a.id, a.is)
    BY <1>0, <2>1 DEF FlowInv
  <2>2. CASE /\ ~Live /\ \A a \in answers : a.id # asked[c].id
             /\ Returns(c, asked[c].id, "AlreadyDisconnected")
    <3>1. ~Underway(asked[c].id)
      BY <1>0, <2>2 DEF FlowInv, Underway, Live
    <3> QED
      BY <2>2, <3>1
  <2> QED
    BY <2>1, <2>2 DEF AwaitReply
<1>3. LodestarTypes' /\ IdInv' /\ FlowInv' /\ VerdictInv' /\ EndInv'
  BY <1>0, <1>1, <1>2, ReturnStep DEF LodestarTypes, taskVars
<1>4. JoinInv'
  BY <1>1, <1>2, ReturnKeepsJoin DEF taskVars
<1> QED
  BY <1>3, <1>4 DEF LodestarInv

LEMMA DisconnectStep ==
  ASSUME LodestarInv, NEW c \in Callers, StartDisconnect(c)
  PROVE  LodestarInv'
<1>0. LodestarTypes /\ IdInv /\ FlowInv /\ VerdictInv /\ JoinInv /\ EndInv
  BY DEF LodestarInv
<1>1. asked[c].at = "disconnect" /\ guard = Nobody /\ UNCHANGED <<count, taskVars>>
  BY DEF StartDisconnect
<1>2. CASE Returns(c, asked[c].id, "AlreadyDisconnected") /\ UNCHANGED <<backend, guard>>
  <2>1. ~Underway(asked[c].id)
    BY <1>0, <1>1 DEF FlowInv
  <2>2. LodestarTypes' /\ IdInv' /\ FlowInv' /\ VerdictInv' /\ EndInv'
    BY <1>0, <1>1, <1>2, <2>1, ReturnStep DEF LodestarTypes, taskVars
  <2>3. JoinInv'
    BY <1>1, <1>2, ReturnKeepsJoin DEF taskVars
  <2> QED
    BY <2>2, <2>3 DEF LodestarInv
<1>3. CASE /\ backend.kept /\ backend' = [backend EXCEPT !.armed = FALSE] /\ guard' = c
           /\ asked' = [asked EXCEPT ![c].at = "join"] /\ verdicts' = verdicts
  <2>1. /\ asked' \in [Callers -> [at : Places, id : Nat, late : BOOLEAN]]
        /\ asked'[c].at = "join" /\ asked'[c].id = asked[c].id /\ (asked'[c].late <=> asked[c].late)
        /\ \A d \in Callers : d # c => asked'[d] = asked[d]
    BY <1>0, <1>3, PlaceStep DEF Places
  <2>2. \A id : Underway(id)' <=> Underway(id)
    BY <1>1 DEF Underway, taskVars
  <2>3. /\ backend' \in [kept : BOOLEAN, armed : BOOLEAN, held : BOOLEAN]
        /\ ~backend'.armed /\ backend'.kept
    BY <1>0, <1>3 DEF LodestarTypes
  <2>4. LodestarTypes'
    BY <1>0, <1>1, <2>1, <2>3 DEF LodestarTypes, taskVars
  <2>5. IdInv'
    BY <1>0, <1>1, <1>3, <2>1, <2>2 DEF IdInv
  <2>6. FlowInv'
    BY <1>0, <1>1, <2>1, <2>2, <2>3 DEF FlowInv, Live, taskVars
  <2>7. VerdictInv'
    BY <1>0, <1>1, <1>3, <2>2 DEF VerdictInv, taskVars
  <2>8. JoinInv'
    <3>1. \A d \in Callers : d # c => asked[d].at # "join"
      BY <1>0, <1>1, LodestarConstants DEF JoinInv, Nobody
    <3> QED
      BY <1>0, <1>1, <1>3, <2>1, <2>3, <3>1 DEF JoinInv, Live, taskVars
  <2>9. EndInv'
    BY <1>0, <1>1 DEF EndInv, Live, taskVars
  <2> QED
    BY <2>4, <2>5, <2>6, <2>7, <2>8, <2>9 DEF LodestarInv
<1> QED
  BY <1>2, <1>3 DEF StartDisconnect

LEMMA JoinStep ==
  ASSUME LodestarInv, NEW c \in Callers, JoinTask(c)
  PROVE  LodestarInv'
<1>0. LodestarTypes /\ JoinInv
  BY DEF LodestarInv
<1>1. /\ asked[c].at = "join" /\ ~Live /\ Returns(c, asked[c].id, task.result)
      /\ backend' = [backend EXCEPT !.kept = FALSE] /\ UNCHANGED <<signal, count, taskVars>>
      /\ guard = c /\ backend.kept /\ task.result \in {"Ok", "Shell"}
  BY <1>0 DEF JoinTask, JoinInv
<1>2. /\ backend' \in [kept : BOOLEAN, armed : BOOLEAN, held : BOOLEAN]
      /\ (backend'.armed <=> backend.armed) /\ ~backend'.kept
  BY <1>0, <1>1 DEF LodestarTypes
<1>3. LodestarTypes' /\ IdInv' /\ FlowInv' /\ VerdictInv' /\ EndInv'
  BY <1>0, <1>1, <1>2, ReturnStep DEF LodestarTypes, taskVars
<1>4. JoinInv'
  <2>1. /\ asked'[c].at = "idle" /\ \A d \in Callers : d # c => asked'[d] = asked[d]
    BY <1>0, <1>1 DEF Returns, Resting, LodestarTypes
  <2>2. \A d \in Callers : asked'[d].at # "join"
    BY <1>0, <1>1, <2>1 DEF JoinInv
  <2>3. PICK new : verdicts' = verdicts \cup {new} /\ new.is = task.result /\ new.at = "join"
    <3> DEFINE r == [id |-> asked[c].id, late |-> asked[c].late, at |-> asked[c].at, is |-> task.result]
    <3>1. verdicts' = verdicts \cup {r}
      BY <1>1 DEF Returns
    <3>2. r.is = task.result /\ r.at = asked[c].at
      OBVIOUS
    <3> HIDE DEF r
    <3> QED
      BY <1>1, <3>1, <3>2
  <2>4. \A u \in verdicts' : u.at = "join" /\ u.is # "cancelled" => u = new
    BY <1>0, <1>1, <2>3 DEF JoinInv
  <2>5. ~Live' /\ task' = task
    BY <1>1 DEF Live, taskVars
  <2> QED
    BY <1>1, <1>2, <2>2, <2>3, <2>4, <2>5 DEF JoinInv
<1> QED
  BY <1>3, <1>4 DEF LodestarInv

LEMMA AbandonStep ==
  ASSUME LodestarInv, NEW c \in Callers, AbandonCall(c)
  PROVE  LodestarInv'
<1>1. /\ asked[c].at # "idle" /\ Returns(c, asked[c].id, "cancelled")
      /\ UNCHANGED <<backend, signal, count, taskVars>>
      /\ guard' = guard \/ (guard = c /\ guard' = Nobody)
  BY DEF AbandonCall
<1>2. LodestarTypes' /\ IdInv' /\ FlowInv' /\ VerdictInv' /\ EndInv'
  BY <1>1, ReturnStep DEF LodestarInv, LodestarTypes, taskVars
<1>3. JoinInv'
  BY <1>1, ReturnKeepsJoin DEF taskVars
<1> QED
  BY <1>2, <1>3 DEF LodestarInv

-----------------------------------------------------------------------------
(* The task.                                                               *)

(* The callers are left alone, and what is under way can only become less or be sent. *)
LEMMA TaskKeepsCalls ==
  ASSUME LodestarInv, LodestarTypes', UNCHANGED <<backend, guard, asked, verdicts, count>>,
         \A id : Underway(id)' => Underway(id), radiated \subseteq radiated'
  PROVE  /\ IdInv' /\ VerdictInv'
         /\ \A c \in Callers : asked'[c].at \in {"sender", "push", "disconnect", "join"} =>
              ~Underway(asked[c].id)'
         /\ \A c \in Callers : asked'[c].late =>
              asked'[c].at \in {"sender", "disconnect", "join"} /\ ~backend'.armed
<1>0. IdInv /\ VerdictInv /\ FlowInv
  BY DEF LodestarInv
<1>1. IdInv'
  BY <1>0 DEF IdInv
<1>2. VerdictInv'
  BY <1>0 DEF VerdictInv
<1>3. /\ \A c \in Callers : asked'[c].at \in {"sender", "push", "disconnect", "join"} =>
           ~Underway(asked[c].id)'
      /\ \A c \in Callers : asked'[c].late =>
           asked'[c].at \in {"sender", "disconnect", "join"} /\ ~backend'.armed
  BY <1>0 DEF FlowInv
<1> QED
  BY <1>1, <1>2, <1>3

LEMMA TaskRuns ==
  ASSUME LodestarInv, ShutdownBranch \/ RequestBranch \/ EventBranch \/ \E ok \in BOOLEAN : SendOver(ok),
         UNCHANGED <<backend, guard, asked, signal, verdicts, count>>
  PROVE  LodestarInv'
<1>0. LodestarTypes /\ IdInv /\ FlowInv /\ VerdictInv /\ JoinInv /\ EndInv
  BY DEF LodestarInv
<1>1. Live /\ Live' /\ task'.result = task.result
  BY <1>0 DEF ShutdownBranch, RequestBranch, EventBranch, SendOver, Live, LodestarTypes
<1>2. LodestarTypes'
  <2>1. CASE ShutdownBranch
    BY <1>0, <2>1 DEF ShutdownBranch, LodestarTypes
  <2>2. CASE RequestBranch
    <3>1. Head(txRequests) \in Nat /\ Tail(txRequests) \in Seq(Nat)
      BY <1>0, <2>2 DEF RequestBranch, LodestarTypes
    <3> QED
      BY <1>0, <2>2, <3>1 DEF RequestBranch, LodestarTypes
  <2>3. CASE EventBranch
    <3>1. Append(observed, "event") \in Seq({"event", "Ended"})
      BY <1>0 DEF LodestarTypes
    <3> QED
      BY <1>0, <2>3, <3>1 DEF EventBranch, LodestarTypes
  <2>4. CASE \E ok \in BOOLEAN : SendOver(ok)
    BY <1>0, <2>4 DEF SendOver, LodestarTypes
  <2> QED
    BY <2>1, <2>2, <2>3, <2>4
<1>3. /\ \A id : Underway(id)' => Underway(id)
      /\ radiated \subseteq radiated'
      /\ \A a \in answers' : a.is \in {"Ok", "Shell"} /\ (a.is = "Ok" => a.id \in radiated')
      /\ \A id \in radiated' : \E a \in answers' : a.id = id
  <2>1. CASE ShutdownBranch
    BY <1>0, <2>1 DEF ShutdownBranch, Underway, FlowInv, LodestarTypes
  <2>2. CASE RequestBranch
    <3>1. /\ task'.at = "sending" /\ task'.id = Head(txRequests) /\ txRequests' = Tail(txRequests)
          /\ txRequests # <<>> /\ UNCHANGED <<answers, radiated>>
      BY <1>0, <2>2 DEF RequestBranch, LodestarTypes
    <3>2. \A id : (\E i \in DOMAIN txRequests' : txRequests'[i] = id)
                     => \E i \in DOMAIN txRequests : txRequests[i] = id
      BY <1>0, <3>1 DEF LodestarTypes
    <3>3. \E i \in DOMAIN txRequests : txRequests[i] = Head(txRequests)
      BY <1>0, <3>1 DEF LodestarTypes
    <3> QED
      BY <1>0, <3>1, <3>2, <3>3 DEF Underway, FlowInv
  <2>3. CASE EventBranch
    BY <1>0, <2>3 DEF EventBranch, Underway, FlowInv
  <2>4. ASSUME NEW ok \in BOOLEAN, SendOver(ok)
        PROVE  /\ \A id : Underway(id)' => Underway(id)
               /\ radiated \subseteq radiated'
               /\ \A a \in answers' : a.is \in {"Ok", "Shell"} /\ (a.is = "Ok" => a.id \in radiated')
               /\ \A id \in radiated' : \E a \in answers' : a.id = id
    <3>1. /\ task.at = "sending" /\ task'.at = "select" /\ txRequests' = txRequests
          /\ radiated' = IF ok THEN radiated \cup {task.id} ELSE radiated
      BY <1>0, <2>4 DEF SendOver, LodestarTypes
    <3>2. PICK new : /\ answers' = answers \cup {new} /\ new.id = task.id
                     /\ new.is = IF ok THEN "Ok" ELSE "Shell"
      <4> DEFINE r == [id |-> task.id, is |-> Outcome(ok)]
      <4>1. answers' = answers \cup {r}
        BY <2>4 DEF SendOver
      <4>2. r.id = task.id /\ r.is = IF ok THEN "Ok" ELSE "Shell"
        BY DEF Outcome
      <4> HIDE DEF r
      <4> QED
        BY <4>1, <4>2
    <3>3. \A id : Underway(id)' => Underway(id)
      BY <3>1 DEF Underway
    <3> QED
      BY <1>0, <3>1, <3>2, <3>3 DEF FlowInv
  <2> QED
    BY <2>1, <2>2, <2>3, <2>4
<1>4. IdInv' /\ VerdictInv'
  BY <1>2, <1>3, TaskKeepsCalls
<1>5. FlowInv'
  BY <1>1, <1>2, <1>3, TaskKeepsCalls DEF FlowInv
<1>6. JoinInv'
  BY <1>0, <1>1 DEF JoinInv
<1>7. EndInv'
  <2>1. CASE EventBranch
    <3>1. observed' = Append(observed, "event")
      BY <2>1 DEF EventBranch
    <3> QED
      BY <1>0, <1>1, <3>1 DEF EndInv, LodestarTypes
  <2>2. CASE observed' = observed
    BY <1>0, <1>1, <2>2 DEF EndInv
  <2> QED
    BY <2>1, <2>2 DEF ShutdownBranch, RequestBranch, SendOver
<1> QED
  BY <1>2, <1>4, <1>5, <1>6, <1>7 DEF LodestarInv

LEMMA TaskEnding ==
  ASSUME LodestarInv, Live, NEW result \in {"Ok", "Shell"}, TaskEnds(result),
         UNCHANGED <<backend, guard, asked, signal, verdicts, count>>
  PROVE  LodestarInv'
<1>0. LodestarTypes /\ IdInv /\ FlowInv /\ VerdictInv /\ JoinInv /\ EndInv
  BY DEF LodestarInv
<1>1. /\ task'.at = "done" /\ task'.result = result /\ observed' = Append(observed, "Ended")
      /\ txRequests' = <<>> /\ UNCHANGED <<answers, radiated>>
  BY <1>0 DEF TaskEnds, LodestarTypes
<1>2. LodestarTypes'
  <2>1. Append(observed, "Ended") \in Seq({"event", "Ended"}) /\ <<>> \in Seq(Nat)
    BY <1>0 DEF LodestarTypes
  <2>2. task' \in [at : {"select", "sending", "leaving", "done"}, id : Nat,
                   result : {"none", "Ok", "Shell"}]
    BY <1>0 DEF TaskEnds, LodestarTypes
  <2> QED
    BY <1>0, <1>1, <2>1, <2>2 DEF LodestarTypes
<1>3. \A id : Underway(id)' => Underway(id)
  BY <1>1 DEF Underway
<1>4. IdInv' /\ VerdictInv'
  BY <1>1, <1>2, <1>3, TaskKeepsCalls
<1>5. FlowInv'
  BY <1>0, <1>1, <1>2, <1>3, TaskKeepsCalls DEF FlowInv
<1>6. JoinInv'
  BY <1>0, <1>1 DEF JoinInv, Live
<1>7. EndInv'
  <2>1. /\ Len(observed') = Len(observed) + 1 /\ Len(observed) \in Nat
        /\ DOMAIN observed' = 1..(Len(observed) + 1) /\ DOMAIN observed = 1..Len(observed)
        /\ observed'[Len(observed) + 1] = "Ended"
        /\ \A i \in 1..Len(observed) : observed'[i] = observed[i]
    BY <1>0, <1>1, AppendParts DEF LodestarTypes
  <2>2. \A i \in DOMAIN observed : observed[i] # "Ended"
    BY <1>0 DEF EndInv
  <2>3. \A i \in DOMAIN observed' : (observed'[i] = "Ended") <=> i = Len(observed')
    BY <2>1, <2>2
  <2> QED
    BY <1>1, <2>1, <2>3 DEF EndInv, Live
<1> QED
  BY <1>2, <1>4, <1>5, <1>6, <1>7 DEF LodestarInv

LEMMA LodestarStarts == LodestarInit => LodestarInv
<1> SUFFICES ASSUME LodestarInit PROVE LodestarInv
  OBVIOUS
<1>1. LodestarTypes
  BY DEF LodestarInit, LodestarTypes, Resting, Places
<1>2. \A id : ~Underway(id)
  BY DEF LodestarInit, Underway
<1>3. \A c \in Callers : asked[c].at = "idle" /\ ~asked[c].late
  BY DEF LodestarInit, Resting
<1>4. IdInv /\ FlowInv /\ VerdictInv
  BY <1>2, <1>3 DEF LodestarInit, IdInv, FlowInv, VerdictInv, Live
<1>5. JoinInv /\ EndInv
  BY <1>3 DEF LodestarInit, JoinInv, EndInv, Live
<1> QED
  BY <1>1, <1>4, <1>5 DEF LodestarInv

LEMMA LodestarKeeps == LodestarInv /\ [LodestarNext]_lodestarVars => LodestarInv'
<1> SUFFICES ASSUME LodestarInv, [LodestarNext]_lodestarVars PROVE LodestarInv'
  OBVIOUS
<1>0. LodestarTypes
  BY DEF LodestarInv
<1>1. ASSUME NEW c \in Callers, CallIn(c) \/ CallGoesOn(c) \/ AbandonCall(c) PROVE LodestarInv'
  BY <1>1, CallInStep, SenderStep, PushStep, ReplyStep, DisconnectStep, JoinStep, AbandonStep
     DEF CallGoesOn
<1>2. ASSUME TaskStep PROVE LodestarInv'
  <2>1. UNCHANGED <<backend, guard, asked, signal, verdicts, count>>
    BY <1>2 DEF TaskStep
  <2>2. CASE EndBranch
    BY <2>1, <2>2, TaskEnding DEF EndBranch, Live
  <2>3. CASE \E ok \in BOOLEAN : LeaveOver(ok)
    BY <2>1, <2>3, TaskEnding DEF LeaveOver, Outcome, Live
  <2> QED
    BY <1>2, <2>1, <2>2, <2>3, TaskRuns DEF TaskStep
<1>3. ASSUME \/ DropSession \/ ShellStep \/ UNCHANGED lodestarVars PROVE LodestarInv'
  <2>1. /\ UNCHANGED <<guard, asked, verdicts, count, txRequests, task, answers, radiated, observed>>
        /\ backend' \in [kept : BOOLEAN, armed : BOOLEAN, held : BOOLEAN]
        /\ (backend'.kept <=> backend.kept) /\ (backend'.armed <=> backend.armed)
    BY <1>0, <1>3 DEF DropSession, ShellStep, lodestarVars, taskVars, LodestarTypes
  <2>2. LodestarTypes'
    BY <1>0, <2>1 DEF LodestarTypes
  <2>3. IdInv' /\ VerdictInv' /\ FlowInv'
    BY <2>1 DEF LodestarInv, IdInv, VerdictInv, FlowInv, Underway, Live
  <2>4. JoinInv' /\ EndInv'
    BY <2>1 DEF LodestarInv, JoinInv, EndInv, Live
  <2> QED
    BY <2>2, <2>3, <2>4 DEF LodestarInv
<1> QED
  BY <1>1, <1>2, <1>3 DEF LodestarNext

LEMMA LodestarSafe == LodestarSpec => []LodestarInv
  BY LodestarStarts, LodestarKeeps, PTL DEF LodestarSpec

(* What a foreign caller is told of a send is true whatever the other threads, the task and
   a dropped future do in between, and nothing asked for after shutdown began is sent. *)
THEOREM SendsTold == LodestarSpec => []SendsAreTruthful
<1>1. LodestarInv => SendsAreTruthful
  BY DEF LodestarInv, SendsAreTruthful, VerdictsAreTrue, ShutdownRefusesSends, VerdictInv, FlowInv,
         Underway
<1> QED
  BY <1>1, LodestarSafe, PTL

(* Ended is the observer's last event and comes with the end of the task, and exactly one
   disconnect gets the task's result, although disconnects compete and are cancelled. *)
THEOREM TeardownOnce == LodestarSpec => []TeardownIsWhole
<1>1. LodestarInv => EndedIsLast
  BY DEF LodestarInv, EndInv, EndedIsLast
<1>2. LodestarInv => OneTeardownResult
  <2> SUFFICES ASSUME LodestarInv PROVE OneTeardownResult
    OBVIOUS
  <2> DEFINE results == {v \in verdicts : v.at = "join" /\ v.is # "cancelled"}
  <2>1. CASE backend.kept
    <3>1. results = {}
      BY <2>1 DEF LodestarInv, JoinInv
    <3> QED
      BY <2>1, <3>1, FS_EmptySet DEF OneTeardownResult
  <2>2. CASE ~backend.kept
    <3>1. task.result \in {"Ok", "Shell"}
      BY <2>2 DEF LodestarInv, JoinInv
    <3>2. PICK v \in verdicts : /\ v.at = "join" /\ v.is = task.result
                                /\ \A u \in verdicts : u.at = "join" /\ u.is # "cancelled" => u = v
      BY <2>2 DEF LodestarInv, JoinInv
    <3>3. results = {v}
      BY <3>1, <3>2
    <3>4. Cardinality({v}) = 1
      BY FS_Singleton
    <3> HIDE DEF results
    <3>5. Cardinality(results) = 1 /\ \A u \in results : u.is = task.result
      BY <3>2, <3>3, <3>4
    <3> QED
      BY <2>2, <3>5 DEF OneTeardownResult, results
  <2> QED
    BY <2>1, <2>2
<1> QED
  BY <1>1, <1>2, LodestarSafe, PTL DEF TeardownIsWhole
==============================================================================
