--------------------------- MODULE LodestarSession ---------------------------
(***************************************************************************)
(* The reflector session that lodestar-core gives to its foreign callers   *)
(* (lodestar-core/src/session.rs, ReflectorSession and run_session_task).  *)
(* Callers on several threads send frames and disconnect; the backend is   *)
(* behind one asynchronous mutex, the work is done by one task that owns   *)
(* an AsyncSession.  A caller may drop its future at any await.  The       *)
(* AsyncSession is external here: its calls end, with either result, and   *)
(* its events end when it does; a transmission reached the socket when its *)
(* call says so.                                                           *)
(***************************************************************************)
EXTENDS Integers, Sequences, FiniteSets

CONSTANTS
  Callers,          \* threads that use the handle
  TxSlots64,        \* the capacity of the command queue, 64
  MaxRequests,      \* bound: calls
  MaxShellEvents    \* bound: events of the AsyncSession

ASSUME LodestarConstants ==
  /\ IsFiniteSet(Callers) /\ "nobody" \notin Callers
  /\ TxSlots64 \in Nat \ {0} /\ {MaxRequests, MaxShellEvents} \subseteq Nat

VARIABLES
  backend,       \* kept: Option<Backend>; armed: its shutdown sender is still there
  guard,         \* who holds the mutex
  asked,         \* the call of each caller
  txRequests,    \* the command queue
  task,          \* run_session_task: where it is, its command, its result
  signal,        \* the shutdown channel was used or dropped
  verdicts,      \* the result of every call that returned
  answers,       \* replies sent by the task
  radiated,      \* ghost: requests the AsyncSession transmitted
  observed,      \* what the observer was told
  shell,         \* the AsyncSession: events to come, whether it has ended
  count          \* calls made

taskVars == <<txRequests, task, answers, radiated, observed, shell>>
lodestarVars == <<backend, guard, asked, signal, verdicts, count, taskVars>>

Nobody == "nobody"
Resting == [at |-> "idle", id |-> 0, late |-> FALSE]
Live == task.at # "done"
Returns(c, id, result) ==
  /\ asked' = [asked EXCEPT ![c] = Resting]
  /\ verdicts' = verdicts \cup {[id |-> id, late |-> asked[c].late, at |-> asked[c].at, is |-> result]}

(***************************************************************************)
(* The callers.                                                            *)
(***************************************************************************)
\* send_header, send_voice, send_eot; disconnect.  late: shutdown had begun.
CallIn(c) ==
  /\ asked[c].at = "idle" /\ count < MaxRequests /\ backend.held
  /\ count' = count + 1
  /\ \E at \in {"sender", "disconnect"} :
       asked' = [asked EXCEPT ![c] = [at |-> at, id |-> count + 1, late |-> ~backend.armed]]
  /\ UNCHANGED <<backend, guard, signal, verdicts, taskVars>>

\* The filter of sender.
MaySend == backend.kept /\ backend.armed /\ Live

\* sender: the mutex is released again at once.
Sender(c) ==
  /\ asked[c].at = "sender" /\ guard = Nobody
  /\ IF MaySend
     THEN asked' = [asked EXCEPT ![c].at = "push"] /\ UNCHANGED verdicts
     ELSE Returns(c, asked[c].id, "AlreadyDisconnected")
  /\ UNCHANGED <<backend, guard, signal, count, taskVars>>

Room == Len(txRequests) < TxSlots64

\* The queue accepts the request, or its receiver is gone.
PushRequest(c) ==
  /\ asked[c].at = "push"
  /\ \/ /\ Live /\ Room
        /\ txRequests' = Append(txRequests, asked[c].id)
        /\ asked' = [asked EXCEPT ![c].at = "reply"] /\ UNCHANGED verdicts
     \/ ~Live /\ Returns(c, asked[c].id, "AlreadyDisconnected") /\ UNCHANGED txRequests
  /\ UNCHANGED <<backend, guard, signal, count, task, answers, radiated, observed, shell>>

\* reply_rx: answered, or its sender was dropped with the task.
AwaitReply(c) ==
  /\ asked[c].at = "reply"
  /\ \/ \E a \in answers : a.id = asked[c].id /\ Returns(c, a.id, a.is)
     \/ /\ ~Live /\ \A a \in answers : a.id # asked[c].id
        /\ Returns(c, asked[c].id, "AlreadyDisconnected")
  /\ UNCHANGED <<backend, guard, signal, count, taskVars>>

\* Mutant: the backend is taken before the task has ended.
StartDisconnectTaking(c) ==
  /\ asked[c].at = "disconnect" /\ guard = Nobody
  /\ IF backend.kept
     THEN /\ backend' = [backend EXCEPT !.kept = FALSE, !.armed = FALSE] /\ signal' = TRUE /\ guard' = c
          /\ asked' = [asked EXCEPT ![c].at = "join"] /\ UNCHANGED verdicts
     ELSE Returns(c, asked[c].id, "AlreadyDisconnected") /\ UNCHANGED <<backend, signal, guard>>
  /\ UNCHANGED <<count, taskVars>>
\* disconnect, which keeps the mutex while it waits for the task.
StartDisconnect(c) ==
  /\ asked[c].at = "disconnect" /\ guard = Nobody
  /\ IF backend.kept
     THEN /\ backend' = [backend EXCEPT !.armed = FALSE] /\ signal' = TRUE /\ guard' = c
          /\ asked' = [asked EXCEPT ![c].at = "join"] /\ UNCHANGED verdicts
     ELSE Returns(c, asked[c].id, "AlreadyDisconnected") /\ UNCHANGED <<backend, signal, guard>>
  /\ UNCHANGED <<count, taskVars>>

JoinTask(c) ==
  /\ asked[c].at = "join" /\ ~Live
  /\ Returns(c, asked[c].id, task.result)
  /\ backend' = [backend EXCEPT !.kept = FALSE] /\ guard' = Nobody
  /\ UNCHANGED <<signal, count, taskVars>>

\* A future is dropped; a guard it holds is released.
AbandonCall(c) ==
  /\ asked[c].at # "idle" /\ Returns(c, asked[c].id, "cancelled")
  /\ guard' = IF guard = c THEN Nobody ELSE guard
  /\ UNCHANGED <<backend, signal, count, taskVars>>

\* The last reference goes: the shutdown sender is dropped with it.
DropSession ==
  /\ backend.held /\ \A c \in Callers : asked[c].at = "idle"
  /\ backend' = [backend EXCEPT !.held = FALSE] /\ signal' = TRUE
  /\ UNCHANGED <<guard, asked, verdicts, count, taskVars>>

(***************************************************************************)
(* run_session_task.                                                       *)
(***************************************************************************)
SignalHeard == signal

ShutdownBranch ==
  /\ task.at = "select" /\ SignalHeard /\ task' = [task EXCEPT !.at = "leaving"]
  /\ UNCHANGED <<txRequests, answers, radiated, observed, shell>>
RequestBranch ==
  /\ task.at = "select" /\ txRequests # <<>>
  /\ task' = [task EXCEPT !.at = "sending", !.id = Head(txRequests)] /\ txRequests' = Tail(txRequests)
  /\ UNCHANGED <<answers, radiated, observed, shell>>
EventBranch ==
  /\ task.at = "select" /\ shell.events > 0
  /\ shell' = [shell EXCEPT !.events = @ - 1] /\ observed' = Append(observed, "event")
  /\ UNCHANGED <<txRequests, task, answers, radiated>>

\* The loop is left: Ended is the observer's last event, and the queue goes.
TaskEnds(result) ==
  /\ task' = [task EXCEPT !.at = "done", !.result = result]
  /\ observed' = Append(observed, "Ended") /\ txRequests' = <<>>
  /\ UNCHANGED <<answers, radiated, shell>>
EndBranch == task.at = "select" /\ shell.events = 0 /\ shell.over /\ TaskEnds("Ok")

\* Mutant: the answer does not depend on the outcome.
AnswerFor(ok) == "Ok"
Outcome(ok) == IF ok THEN "Ok" ELSE "Shell"

\* The AsyncSession's send returns.
SendOver(ok) ==
  /\ task.at = "sending" /\ (ok => ~shell.over)
  /\ task' = [task EXCEPT !.at = "select"]
  /\ radiated' = IF ok THEN radiated \cup {task.id} ELSE radiated
  /\ answers' = answers \cup {[id |-> task.id, is |-> Outcome(ok)]}
  /\ UNCHANGED <<txRequests, observed, shell>>
\* Its disconnect returns.
LeaveOver(ok) == task.at = "leaving" /\ TaskEnds(Outcome(ok))

TaskStep ==
  /\ \/ ShutdownBranch \/ RequestBranch \/ EventBranch \/ EndBranch
     \/ \E ok \in BOOLEAN : SendOver(ok) \/ LeaveOver(ok)
  /\ UNCHANGED <<backend, guard, asked, signal, verdicts, count>>

\* The AsyncSession has an event for the task, or has ended.
ShellStep ==
  /\ ~shell.over
  /\ \/ shell.made < MaxShellEvents
        /\ shell' = [shell EXCEPT !.made = @ + 1, !.events = @ + 1]
     \/ shell' = [shell EXCEPT !.over = TRUE]
  /\ UNCHANGED <<backend, guard, asked, signal, verdicts, count,
                 txRequests, task, answers, radiated, observed>>

CallGoesOn(c) == Sender(c) \/ PushRequest(c) \/ AwaitReply(c) \/ StartDisconnect(c) \/ JoinTask(c)

LodestarInit ==
  /\ backend = [kept |-> TRUE, armed |-> TRUE, held |-> TRUE] /\ guard = Nobody
  /\ asked = [c \in Callers |-> Resting] /\ txRequests = <<>> /\ signal = FALSE
  /\ task = [at |-> "select", id |-> 0, result |-> "none"]
  /\ verdicts = {} /\ answers = {} /\ radiated = {} /\ observed = <<>> /\ count = 0
  /\ shell = [events |-> 0, made |-> 0, over |-> FALSE]
LodestarNext ==
  \/ \E c \in Callers : CallIn(c) \/ CallGoesOn(c) \/ AbandonCall(c)
  \/ DropSession \/ TaskStep \/ ShellStep
LodestarSpec == LodestarInit /\ [][LodestarNext]_lodestarVars

(* The observer hears Ended once, as the last thing, and when the task has ended: a       *)
(* foreign caller can free the observer then (run_session_task, on_event after the loop). *)
EndedIsLast ==
  /\ ~Live => observed # <<>>
  /\ \A i \in DOMAIN observed : (observed[i] = "Ended") <=> (i = Len(observed) /\ ~Live)

(* A verdict on a send is true, whatever happens to the task, the mutex and the queue in  *)
(* between: Ok means that the datagram was sent, AlreadyDisconnected that it was not and  *)
(* never will be, and a call dropped before the queue accepted it sends nothing (the      *)
(* paragraph on cancellation and completion of send_header).                              *)
VerdictsAreTrue ==
  \A v \in verdicts :
    /\ v.is = "Ok" /\ v.at = "reply" => v.id \in radiated
    /\ v.is = "AlreadyDisconnected" \/ (v.is = "cancelled" /\ v.at \in {"sender", "push"}) =>
         v.id \notin radiated \cup {txRequests[i] : i \in DOMAIN txRequests}

(* A send that is called once shutdown has begun never reaches the reflector, also when   *)
(* the disconnect that began it was dropped (disconnect: New sends are refused once       *)
(* shutdown starts).                                                                      *)
ShutdownRefusesSends ==
  /\ \A v \in verdicts : v.late => v.id \notin radiated
  /\ \A c \in Callers : asked[c].late => asked[c].id \notin radiated

(* The task's own result is handed to exactly one disconnect, and none is dropped: a      *)
(* disconnect that is cancelled leaves it for the next (disconnect).                      *)
OneTeardownResult ==
  LET results == {v \in verdicts : v.at = "join" /\ v.is # "cancelled"}
  IN /\ Cardinality(results) = IF backend.kept THEN 0 ELSE 1
     /\ \A v \in results : v.is = task.result

(* Every call returns, and the task of a dropped session ends. *)
LodestarCallsReturn ==
  /\ \A c \in Callers : []<>(asked[c].at = "idle")
  /\ []<>(backend.held \/ ~Live)

(* What a caller is told of a send is what happened to it, also once shutdown has begun. *)
SendsAreTruthful ==
  VerdictsAreTrue /\ ShutdownRefusesSends

(* The end of a session is reported once to the observer, as its last event, and once, with
   the task's own result, to a disconnect. *)
TeardownIsWhole ==
  EndedIsLast /\ OneTeardownResult
==============================================================================
