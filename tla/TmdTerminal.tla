----------------------------- MODULE TmdTerminal -----------------------------
(***************************************************************************)
(* Programming sessions of the TM-D750 (tmd750/src/radio): the Terminal    *)
(* lifecycle (prepare, finish), which rewrites the Gateway pages of the    *)
(* active PM slot and owes their restoration, and the ordinary backup and  *)
(* write_pages sessions.  One process drives one radio over a control      *)
(* endpoint and a modem link; exchanges are lost, the operator edits       *)
(* settings or switches the radio off and on, and the process may crash:   *)
(* the journal of intended writes is then all that is left.                   *)
(* A page image is one of a few names; images of other fields are equal.   *)
(***************************************************************************)
EXTENDS Integers, Sequences, SequencesExt, FiniteSets, Functions

CONSTANTS
  SettleQuiet,   \* SETTLE_QUIET, in enumerations that show the endpoint
  MaxOpens,      \* MAXIMUM_OPEN_ATTEMPTS
  Beginnings,    \* the images of the active slot's pages at first, as <<route, gateway>>
  Allowances     \* bounds: losses (exchanges, closes and journal records that fail), edits (what
                 \* the operator does), prepares (0 or 1), finishes and
                 \* sessions (calls)

ASSUME TmdConstants ==
  /\ SettleQuiet \in Nat /\ MaxOpens \in Nat \ {0}
  /\ Allowances \subseteq [losses : Nat, edits : Nat, finishes : Nat, sessions : Nat, prepares : Nat]

\* Pages in address order: PM control, an ordinary settings page, and the Gateway route
\* and the Gateway mode with its subtype, of each of two slots.
PageOrder == <<"pm", "menu", "route0", "gw0", "route1", "gw1">>
PageNames == ToSet(PageOrder)
Images ==
  [pm : {"0", "1"}, menu : {"old", "new", "own"}, route0 : {"usb", "bt"}, route1 : {"usb", "bt"},
   gw0 : {"off", "offRepeater", "term", "termRepeater"},
   gw1 : {"off", "offRepeater", "term", "termRepeater"}]

VARIABLES
  cell,          \* the radio's pages
  mode,          \* "cat", "mcp", or "inside" an incomplete frame
  enumerated,    \* the control endpoint is there
  at,            \* where the process is: "rest" between calls, "dead" after a crash
  job,           \* the call: "prepare", "finish", "write", "backup" or "none"
  pass,          \* the programming session of that call
  waiting,       \* of the current wait: budget spent, opens tried, quiet enumerations
  stop,          \* the caller's cancellation flag
  startup,       \* TerminalStartup
  recovery,      \* TerminalRecovery
  report,        \* what the last backup or write_pages session reported
  baseline,      \* the pages of a complete backup, <<>> for none
  handles,       \* connections open, and those whose close was not confirmed
  intents,       \* the journal: <<phase, page>>
  history,       \* ghost: pages written, who wrote each page last, an exit sent inside a frame
  allowed           \* what the bounds still allow

radioSide == <<cell, mode, enumerated>>
results == <<startup, recovery, report, baseline>>
tmdVars == <<radioSide, at, job, pass, waiting, stop, results, handles, intents, history, allowed>>

NoPlan == [exp |-> <<>>, rep |-> <<>>]
AtRest == [link |-> "control", gateway |-> "Off", plan |-> NoPlan, todo |-> <<>>, started |-> FALSE,
         ok |-> FALSE, exited |-> FALSE, uncertain |-> FALSE, image |-> <<>>]
Fresh == [spent |-> FALSE, tries |-> 0, quiet |-> 0]

(***************************************************************************)
(* The radio.                                                              *)
(***************************************************************************)
RoutePage(pages) == IF pages.pm = "0" THEN "route0" ELSE "route1"
GatewayPage(pages) == IF pages.pm = "0" THEN "gw0" ELSE "gw1"
GatewayOf(image) == IF image \in {"off", "offRepeater"} THEN "Off" ELSE "Terminal"
CatGateway == GatewayOf(cell[GatewayPage(cell)])
\* The modem link carries MMDVM.
Routed == CatGateway = "Terminal" /\ cell[RoutePage(cell)] = "bt"
AnswersCat(link) ==
  mode = "cat" /\ IF link = "control" THEN enumerated ELSE ~Routed

\* The endpoint comes back after an exit or a power cycle.
Reenumerate == ~enumerated /\ enumerated' = TRUE
  /\ UNCHANGED <<cell, mode, at, job, pass, waiting, stop, results, handles, intents, history, allowed>>

Acts == allowed.edits > 0 /\ allowed' = [allowed EXCEPT !.edits = @ - 1]

\* In programming mode the panel is locked.
PanelEdit ==
  /\ mode = "cat" /\ Acts
  /\ \E p \in {"pm", "menu", RoutePage(cell), GatewayPage(cell)} : \E pages \in {[cell EXCEPT ![p] = i] :
        i \in {"0", "1", "own", "usb", "bt", "off", "term"}} \cap Images :
       /\ pages # cell /\ cell' = pages
       /\ history' = [history EXCEPT !.writer[p] = "panel"]
  /\ UNCHANGED <<mode, enumerated, at, job, pass, waiting, stop, results, handles, intents>>

\* The operator restores normal operation.
SwitchOff ==
  /\ mode # "cat" /\ Acts /\ mode' = "cat" /\ enumerated' = FALSE
  /\ UNCHANGED <<cell, at, job, pass, waiting, stop, results, handles, intents, history>>

(***************************************************************************)
(* What may fail, and what a failed call leads to.                         *)
(***************************************************************************)
Lost == allowed.losses > 0 /\ allowed' = [allowed EXCEPT !.losses = @ - 1]
Fine == UNCHANGED allowed

Held(link) == [handles EXCEPT !.open = @ \cup {link}]
Closed(link) == [handles EXCEPT !.open = @ \ {link}]
Stuck(link) == [open |-> handles.open \ {link}, stuck |-> handles.stuck \cup {link}]
\* host.close or retire: confirmed or not.
Closes(link, ok) ==
  IF ok THEN Fine /\ handles' = Closed(link) ELSE Lost /\ handles' = Stuck(link)

\* TerminalStartup::fail, or the return with a proof.
EndStartup(s) ==
  /\ startup' = [s EXCEPT !.done = TRUE] /\ at' = "rest" /\ job' = "none"
  /\ recovery' =
       IF s.error # "none" /\ recovery.state = "Owed"
            /\ (s.cleanup \/ s.controlCleanup \/ s.error = "ControlClose")
       THEN [recovery EXCEPT !.state = "Blocked"] ELSE recovery

\* A step of prepare fails while the modem connection is held: it is retired next.
FailStartup(e) ==
  /\ at' = "retire" /\ startup' = [startup EXCEPT !.error = e]
  /\ UNCHANGED <<job, recovery, report, baseline>>

\* The call ends without success: prepare retires its modem link, finish still owes.
Abandon(e) ==
  IF job = "prepare" THEN FailStartup(e)
  ELSE /\ at' = "rest" /\ job' = "none" /\ UNCHANGED <<startup, report, baseline>>
       /\ recovery' = IF job = "finish" THEN [recovery EXCEPT !.state = "Owed"] ELSE recovery

GoOn(next) == at' = next /\ UNCHANGED <<job, results>>

(***************************************************************************)
(* The start of prepare.                                                   *)
(***************************************************************************)
\* observe_control: one connection, identity and Gateway, closed again.  The flag may be
\* raised while it runs, so a connection may have been opened for nothing.
Preflight ==
  /\ at = "preflight"
  /\ \/ /\ ~stop /\ AnswersCat("control") /\ Fine
        /\ pass' = [AtRest EXCEPT !.gateway = CatGateway] /\ GoOn("modemOpen") /\ UNCHANGED handles
     \/ /\ (stop \/ ~AnswersCat("control")) /\ Fine /\ UNCHANGED <<pass, handles, report, baseline>>
        /\ EndStartup([startup EXCEPT !.error = "ControlPreflight"])
     \/ /\ Lost /\ UNCHANGED <<pass, report, baseline>>
        /\ handles' \in {handles, Stuck("control")}
        /\ EndStartup([startup EXCEPT !.error = "ControlPreflight"])
  /\ UNCHANGED <<radioSide, waiting, stop, intents, history>>

\* modem.open; with Gateway Off the pass runs on the modem link itself.
ModemOpen ==
  /\ at = "modemOpen"
  /\ \/ /\ ~stop /\ Fine /\ handles' = Held("modem") /\ waiting' = Fresh
        /\ pass' = [pass EXCEPT !.link = IF pass.gateway = "Off" THEN "modem" ELSE "control"]
        /\ GoOn(IF pass.gateway = "Off" THEN "check" ELSE "settle")
     \/ /\ stop /\ Fine /\ UNCHANGED <<handles, pass, waiting, report, baseline>>
        /\ EndStartup([startup EXCEPT !.error = "ModemOpen"])
     \/ /\ Lost /\ handles' \in {handles, Stuck("modem")} /\ UNCHANGED <<pass, waiting, report, baseline>>
        /\ EndStartup([startup EXCEPT !.error = IF handles' = handles THEN "ModemOpen"
                                                ELSE "ModemOpenHeld"])
  /\ UNCHANGED <<radioSide, stop, intents, history>>

(***************************************************************************)
(* Waiting for the control endpoint and opening it.                        *)
(***************************************************************************)
\* SETTLE_BUDGET, READINESS_BUDGET or WINDOW runs out.
BudgetSpent ==
  /\ at \in {"settle", "readyBefore", "readyAfter", "acquire", "probe"} /\ ~waiting.spent
  /\ waiting' = [waiting EXCEPT !.spent = TRUE]
  /\ UNCHANGED <<radioSide, at, job, pass, stop, results, handles, intents, history, allowed>>

\* One enumeration of await_settled.
AwaitSettled ==
  /\ at = "settle" /\ Fine
  /\ IF stop \/ waiting.spent THEN Abandon("ControlNotSettled") /\ UNCHANGED waiting
     ELSE IF ~enumerated
     THEN /\ waiting.quiet > 0 /\ waiting' = [waiting EXCEPT !.quiet = 0]
          /\ UNCHANGED <<at, job, results>>
     ELSE /\ waiting' = [waiting EXCEPT !.quiet = IF @ = SettleQuiet THEN 0 ELSE @ + 1]
          /\ GoOn(IF waiting.quiet = SettleQuiet THEN "open" ELSE "settle")
  /\ UNCHANGED <<radioSide, pass, stop, handles, intents, history>>

\* host.open of the control endpoint; backup and write_pages look at the flag first.
Open ==
  /\ at = "open" /\ UNCHANGED <<radioSide, pass, waiting, stop, intents, history>>
  /\ \/ /\ enumerated /\ ~(stop /\ job \in {"write", "backup"}) /\ Fine
        /\ handles' = Held("control") /\ GoOn("check")
     \/ /\ ~enumerated \/ (stop /\ job \in {"write", "backup"})
        /\ Fine /\ UNCHANGED handles /\ Abandon("ControlOpen")
     \/ Lost /\ UNCHANGED handles /\ Abandon("ControlOpen")

(***************************************************************************)
(* The programming session: program_terminal, program of session.rs and    *)
(* backup_mcp_checked_until_exit.                                          *)
(***************************************************************************)
\* The pass is over before programming mode was entered.
Refused ==
  IF pass.link = "modem" THEN FailStartup("Program") ELSE GoOn("close")

\* Identity and Gateway over CAT; the flag is looked at before and after.
Check ==
  /\ at = "check" /\ UNCHANGED <<radioSide, pass, waiting, stop, handles, intents, history>>
  /\ \/ Fine /\ ~stop /\ AnswersCat(pass.link) /\ CatGateway = pass.gateway /\ GoOn("enter")
     \/ Fine /\ (stop \/ ~AnswersCat(pass.link) \/ CatGateway # pass.gateway) /\ Refused
     \/ Lost /\ Refused

\* enter_mcp.  After a lost exchange the radio may be in programming mode.
Enter ==
  /\ at = "enter" /\ UNCHANGED <<cell, enumerated, pass, waiting, stop, handles, intents, history>>
  /\ \/ /\ Fine /\ ~stop /\ AnswersCat(pass.link) /\ mode' = "mcp"
        /\ GoOn(IF job \in {"prepare", "backup"} THEN "capture" ELSE "compare")
     \/ Fine /\ (stop \/ ~AnswersCat(pass.link)) /\ UNCHANGED mode /\ Refused
     \/ Lost /\ mode' \in {mode, IF mode = "cat" THEN "mcp" ELSE mode} /\ Refused

\* An operation inside programming mode fails at a known boundary, or inside an exchange.
FailsReady == pass' = [pass EXCEPT !.ok = FALSE] /\ GoOn("exit")
Uncertain ==
  /\ mode' \in {mode, IF mode = "mcp" THEN "inside" ELSE mode}
  /\ pass' = [pass EXCEPT !.ok = FALSE, !.uncertain = TRUE] /\ GoOn("exit")

\* TerminalPlan::for_route from captured images: the route and Reflector Terminal, the
\* other guarded pages as they are; an active Terminal must be Reflector.
PlanPages(image) == {"pm", RoutePage(image), GatewayPage(image)}
EntryPlan(image) ==
  [exp |-> Restrict(image, PlanPages(image)),
   rep |-> [Restrict(image, PlanPages(image)) EXCEPT
              ![RoutePage(image)] = "bt", ![GatewayPage(image)] = "term"]]
Plannable(image) == image[GatewayPage(image)] # "termRepeater"
\* TerminalPlan::restoration.
Restoration(plan) == [exp |-> plan.rep, rep |-> plan.exp]
\* The plan of an ordinary settings update, with its PM and Gateway guards.
MenuPlan(image) ==
  LET exp == Restrict(image, {"pm", "menu", GatewayPage(image)})
  IN [exp |-> exp, rep |-> [exp EXCEPT !.menu = "new"]]

\* read_backup and prepare_plan, or the pages of a backup; the flag is looked at before
\* every page.
Capture ==
  /\ at = "capture" /\ UNCHANGED <<cell, enumerated, waiting, stop, handles, intents, history>>
  /\ \/ /\ mode = "mcp" /\ ~stop /\ Fine /\ UNCHANGED mode
        /\ IF job = "backup"
           THEN pass' = [pass EXCEPT !.ok = TRUE, !.image = cell] /\ GoOn("exit")
           ELSE IF Plannable(cell) /\ GatewayOf(cell[GatewayPage(cell)]) = pass.gateway
           THEN pass' = [pass EXCEPT !.plan = EntryPlan(cell)] /\ GoOn("compare")
           ELSE FailsReady
     \/ mode = "mcp" /\ job = "prepare" /\ ((stop /\ Fine) \/ Lost) /\ UNCHANGED mode /\ FailsReady
     \/ /\ mode = "mcp" /\ job = "backup" /\ stop /\ Fine /\ UNCHANGED mode
        /\ \E n \in 0..Len(PageOrder) :
             pass' = [pass EXCEPT !.ok = FALSE, !.image = Restrict(cell, ToSet(SubSeq(PageOrder, 1, n)))]
        /\ GoOn("exit")
     \/ ((mode # "mcp" /\ Fine) \/ Lost) /\ Uncertain

Changed(plan) == SelectSeq(PageOrder, LAMBDA p : p \in DOMAIN plan.exp /\ plan.exp[p] # plan.rep[p])

\* compare_exchange_validated: every page of the plan is compared before the first write.
Compare ==
  /\ at = "compare" /\ UNCHANGED <<cell, enumerated, waiting, stop, handles, intents, history>>
  /\ \/ /\ mode = "mcp" /\ Fine /\ UNCHANGED mode
        /\ IF \E p \in DOMAIN pass.plan.exp : cell[p] # pass.plan.exp[p] THEN FailsReady
           ELSE /\ pass' = [pass EXCEPT !.todo = Changed(pass.plan), !.ok = TRUE]
                /\ GoOn(IF Changed(pass.plan) = <<>> THEN "exit" ELSE "intent")
     \/ ((mode # "mcp" /\ Fine) \/ Lost) /\ Uncertain

\* record_before_write, and before_write of write_pages, which has no look at the flag.
Intent ==
  /\ at = "intent" /\ UNCHANGED <<radioSide, waiting, stop, handles, history>>
  /\ \/ /\ Fine /\ (~stop \/ pass.started \/ job = "write")
        /\ intents' = intents \cup {<<job, Head(pass.todo)>>}
        /\ pass' = [pass EXCEPT !.started = TRUE] /\ GoOn("frame")
     \/ /\ (stop /\ ~pass.started /\ job # "write" /\ Fine) \/ Lost
        /\ UNCHANGED intents /\ FailsReady

\* The radio takes the page in hand.
Takes ==
  LET p == Head(pass.todo)
  IN /\ cell' = [cell EXCEPT ![p] = pass.plan.rep[p]]
     /\ history' = [history EXCEPT !.written = @ \cup {<<job, p>>}, !.writer[p] = job]

\* The W frame: acknowledged; acknowledged and not stored; or its answer is lost.
WriteFrame ==
  /\ at = "frame" /\ UNCHANGED <<enumerated, waiting, stop, handles, intents>>
  /\ \/ mode = "mcp" /\ Fine /\ Takes /\ GoOn("readback") /\ UNCHANGED <<mode, pass>>
     \/ mode = "mcp" /\ Lost /\ GoOn("readback") /\ UNCHANGED <<cell, mode, pass, history>>
     \/ mode = "mcp" /\ Lost /\ Takes /\ Uncertain
     \/ ((mode # "mcp" /\ Fine) \/ Lost) /\ Uncertain /\ UNCHANGED <<cell, history>>

\* write_data_verified reads the page again.
Readback ==
  /\ at = "readback" /\ UNCHANGED <<cell, enumerated, waiting, stop, handles, intents, history>>
  /\ \/ /\ mode = "mcp" /\ Fine /\ UNCHANGED mode
        /\ IF cell[Head(pass.todo)] # pass.plan.rep[Head(pass.todo)] THEN FailsReady
           ELSE /\ pass' = [pass EXCEPT !.todo = Tail(@)]
                /\ GoOn(IF Tail(pass.todo) = <<>> THEN "exit" ELSE "intent")
     \/ ((mode # "mcp" /\ Fine) \/ Lost) /\ Uncertain

\* The exit byte reaches the radio, which leaves programming mode and re-enumerates.
Leaves ==
  /\ mode' = IF mode = "mcp" THEN "cat" ELSE mode
  /\ enumerated' = (enumerated /\ mode # "mcp")
  /\ history' = [history EXCEPT !.spoiled = @ \/ mode = "inside"]
Exited == IF job \in {"prepare", "finish"} THEN "checkpoint" ELSE "close"

\* McpSession::exit, only at a known boundary and once; its acknowledgement may be lost.
ExitMcp ==
  /\ at = "exit" /\ GoOn(Exited)
  /\ \/ /\ pass.uncertain /\ Fine /\ UNCHANGED <<pass, mode, enumerated, history>>
     \/ /\ ~pass.uncertain /\ mode = "mcp" /\ Fine /\ Leaves
        /\ pass' = [pass EXCEPT !.exited = TRUE]
     \/ /\ ~pass.uncertain /\ mode # "mcp" /\ Fine /\ Leaves /\ UNCHANGED pass
     \/ /\ ~pass.uncertain /\ Lost /\ UNCHANGED pass
        /\ Leaves \/ UNCHANGED <<mode, enumerated, history>>
  /\ UNCHANGED <<cell, waiting, stop, handles, intents>>

\* Mutant: a failed pass leaves nothing to restore.
RecordProgramOk(ok) ==
  recovery' = IF job = "prepare" /\ ok /\ pass.started
              THEN [state |-> "Owed", plan |-> Restoration(pass.plan)] ELSE recovery

\* record_program: the reverse plan is kept whenever a write may have reached the radio.
RecordProgram(ok) ==
  recovery' = IF job = "prepare" /\ pass.started
              THEN [state |-> "Owed", plan |-> Restoration(pass.plan)] ELSE recovery

\* journal.checkpoint, and the outcome of program_terminal.
Checkpoint ==
  /\ at = "checkpoint"
  /\ \E recorded \in BOOLEAN :
       LET ok == pass.ok /\ pass.exited /\ recorded
       IN /\ IF recorded THEN Fine ELSE Lost
          /\ RecordProgram(ok) /\ pass' = [pass EXCEPT !.ok = ok]
          /\ at' = IF pass.link = "control" THEN "close" ELSE IF ok THEN "acquire" ELSE "retire"
          /\ startup' = IF job = "prepare" /\ ~ok THEN [startup EXCEPT !.error = "Program"] ELSE startup
  /\ waiting' = Fresh
  /\ UNCHANGED <<radioSide, job, stop, report, baseline, handles, intents, history>>

\* The control connection is closed, whatever the pass came to.
CloseControl ==
  /\ at = "close" /\ waiting' = Fresh
  /\ \E ok \in BOOLEAN :
       /\ Closes("control", ok)
       /\ IF job = "prepare"
          THEN LET error == IF ~pass.ok THEN "Program" ELSE IF ok THEN "none" ELSE "ControlClose"
               IN /\ startup' = [startup EXCEPT !.error = error, !.controlCleanup = ~pass.ok /\ ~ok]
                  /\ at' = IF error = "none" THEN "acquire" ELSE "retire"
                  /\ UNCHANGED <<job, recovery, report, baseline>>
          ELSE IF ok /\ IF job = "finish" THEN pass.ok ELSE pass.exited
          THEN GoOn("readyAfter") ELSE Abandon("ControlClose")
  /\ UNCHANGED <<radioSide, pass, stop, intents, history>>

(***************************************************************************)
(* acquire_modem_within.                                                   *)
(***************************************************************************)
Stopped == stop \/ waiting.spent

\* The outcomes of host.reopen: a connection, a refusal that permits another attempt, or one
\* that does not; the last may keep a connection that is not released.
ReopenModem ==
  \/ Fine /\ handles' = Held("modem") /\ GoOn("acquire")
  \/ Lost /\ UNCHANGED handles /\ GoOn("acquire")
  \/ /\ Lost /\ handles' \in {handles, Stuck("modem")} /\ at' = "retire"
     /\ startup' = [startup EXCEPT !.error = "Transition", !.attemptHeld = @ \/ handles' # handles]
     /\ UNCHANGED <<job, recovery, report, baseline>>

\* The stop checks and the silent wait before every step; then reopen or probe.
Acquire ==
  /\ at = "acquire"
  /\ IF Stopped THEN Fine /\ FailStartup("Transition") /\ UNCHANGED handles
     ELSE IF "modem" \in handles.open THEN Fine /\ GoOn("probe") /\ UNCHANGED handles
     ELSE ReopenModem
  /\ UNCHANGED <<radioSide, pass, waiting, stop, intents, history>>

\* ProvenModem::probe: the version frame is read, or the connection is retired; without a
\* confirmed close nothing is opened any more.
Probe ==
  /\ at = "probe"
  /\ \/ /\ Routed /\ mode = "cat" /\ Fine /\ UNCHANGED handles
        /\ IF Stopped THEN FailStartup("Transition")
           ELSE EndStartup([startup EXCEPT !.proof = TRUE]) /\ UNCHANGED <<report, baseline>>
     \/ /\ (~(Routed /\ mode = "cat") /\ Fine) \/ Lost
        /\ handles' = Closed("modem") /\ GoOn("acquire")
     \/ /\ Lost /\ handles' = Stuck("modem") /\ at' = "retire"
        /\ startup' = [startup EXCEPT !.error = "Transition", !.attemptHeld = TRUE]
        /\ UNCHANGED <<job, recovery, report, baseline>>
  /\ UNCHANGED <<radioSide, pass, waiting, stop, intents, history>>

\* A connection still held when prepare fails.
Retire ==
  /\ at = "retire"
  /\ IF "modem" \in handles.open
     THEN \E ok \in BOOLEAN : Closes("modem", ok) /\ EndStartup([startup EXCEPT !.cleanup = ~ok])
     ELSE Fine /\ UNCHANGED handles /\ EndStartup(startup)
  /\ UNCHANGED <<radioSide, pass, waiting, stop, report, baseline, intents, history>>

(***************************************************************************)
(* verify_readiness, before and after a restoration and after a session.   *)
(***************************************************************************)
HasCompleteConfiguration == pass.ok /\ DOMAIN pass.image = PageNames
\* BackupSession::succeeded and SessionReport::succeeded, after readiness matched.
SessionSucceeded == IF job = "backup" THEN HasCompleteConfiguration ELSE pass.ok

\* The Gateway is required only after the session.
ReadyExpects(gateway) == at = "readyAfter" => CatGateway = gateway

\* Readiness matched: the session opens next, or the call succeeds.
Matched ==
  IF at = "readyBefore" THEN GoOn("settle")
  ELSE /\ at' = "rest" /\ job' = "none" /\ UNCHANGED startup
       /\ recovery' = IF job = "finish" THEN [state |-> "Verified", plan |-> NoPlan] ELSE recovery
       /\ report' = IF job = "finish" THEN report ELSE [report EXCEPT !.ok = SessionSucceeded]
       /\ baseline' = IF job = "backup" /\ SessionSucceeded THEN pass.image ELSE baseline

\* The Gateway readiness requires after the session: what the plan leaves.
VerifyRestored == IF job = "finish" THEN GatewayOf(pass.plan.rep[GatewayPage(pass.plan.rep)]) ELSE "Off"

\* One attempt: silence with a confirmed close may be tried again, everything else ends it.
\* The checks after backup and write_pages ignore the flag.
Readiness ==
  /\ at \in {"readyBefore", "readyAfter"}
  /\ LET quit == waiting.spent \/ (stop /\ job = "finish")
         heard == enumerated /\ AnswersCat("control")
     IN \/ /\ quit /\ Fine /\ Abandon("none") /\ UNCHANGED <<waiting, handles>>
        \/ /\ ~quit /\ heard /\ Fine /\ UNCHANGED handles /\ waiting' = Fresh
           /\ IF ReadyExpects(VerifyRestored) THEN Matched ELSE Abandon("none")
        \/ /\ ~quit /\ enumerated /\ ((~heard /\ Fine) \/ (heard /\ Lost)) /\ UNCHANGED handles
           /\ waiting' = [waiting EXCEPT !.tries = @ + 1]
           /\ IF waiting.tries + 1 = MaxOpens THEN Abandon("none") ELSE UNCHANGED <<at, job, results>>
        \/ /\ ~quit /\ enumerated /\ Lost /\ handles' \in {handles, Stuck("control")}
           /\ Abandon("none") /\ UNCHANGED waiting
  /\ UNCHANGED <<radioSide, pass, stop, intents, history>>

(***************************************************************************)
(* The caller, who passes a flag that is down and may raise it at any      *)
(* time; the process may end between any two steps.                        *)
(***************************************************************************)
Call(kind, next, p) ==
  /\ at = "rest" /\ at' = next /\ job' = kind /\ pass' = p
  /\ stop' = FALSE /\ waiting' = Fresh /\ UNCHANGED <<radioSide, handles, intents, history>>

Prepare ==
  /\ allowed.prepares > 0 /\ allowed' = [allowed EXCEPT !.prepares = @ - 1]
  /\ ~startup.done /\ Call("prepare", "preflight", AtRest) /\ UNCHANGED results

\* The modem session is over: its connection is closed.
CloseProof ==
  /\ at = "rest" /\ startup.proof /\ "modem" \in handles.open
  /\ \E ok \in BOOLEAN : Closes("modem", ok)
  /\ UNCHANGED <<radioSide, at, job, pass, waiting, stop, results, intents, history>>

StartupReleased ==
  /\ ~startup.cleanup /\ ~startup.controlCleanup /\ ~startup.attemptHeld
  /\ startup.error \notin {"ControlClose", "ModemOpenHeld"}

Finish ==
  /\ startup.done /\ "modem" \notin handles.open /\ allowed.finishes > 0
  /\ allowed' = [allowed EXCEPT !.finishes = @ - 1] /\ UNCHANGED <<startup, report, baseline>>
  /\ LET released == StartupReleased /\ (startup.proof => "modem" \notin handles.stuck)
     IN IF recovery.plan = NoPlan
        THEN Call("none", "rest", pass) /\ recovery' = [recovery EXCEPT !.state = "Verified"]
        ELSE IF ~released
        THEN Call("none", "rest", pass) /\ recovery' = [recovery EXCEPT !.state = "Blocked"]
        ELSE /\ Call("finish", "readyBefore", [AtRest EXCEPT !.plan = recovery.plan, !.gateway = "Terminal"])
             /\ UNCHANGED recovery

\* backup, or write_pages of a plan made from a complete backup.
Session ==
  /\ "modem" \notin handles.open /\ allowed.sessions > 0
  /\ allowed' = [allowed EXCEPT !.sessions = @ - 1] /\ UNCHANGED <<startup, recovery, baseline>>
  /\ \/ Call("backup", "settle", AtRest) /\ report' = [job |-> "backup", ok |-> FALSE]
     \/ /\ baseline # <<>> /\ report' = [job |-> "write", ok |-> FALSE]
        /\ Call("write", "settle", [AtRest EXCEPT !.plan = MenuPlan(baseline)])

Interrupt ==
  /\ at \notin {"rest", "dead"} /\ ~stop /\ stop' = TRUE
  /\ UNCHANGED <<radioSide, at, job, pass, waiting, results, handles, intents, history, allowed>>

Crash ==
  /\ at \notin {"rest", "dead"} /\ at' = "dead" /\ job' = "none" /\ pass' = AtRest
  /\ handles' = [open |-> {}, stuck |-> {}]
  /\ UNCHANGED <<radioSide, waiting, stop, results, intents, history, allowed>>

(***************************************************************************)
(* The specification.                                                      *)
(***************************************************************************)
TmdInit ==
  /\ \E b \in Beginnings :
       cell = [pm |-> "0", menu |-> "old", route0 |-> b[1], gw0 |-> b[2], route1 |-> "usb", gw1 |-> "off"]
  /\ mode = "cat" /\ enumerated = TRUE /\ at = "rest" /\ job = "none" /\ pass = AtRest
  /\ waiting = Fresh /\ stop = FALSE /\ baseline = <<>> /\ intents = {}
  /\ startup = [done |-> FALSE, proof |-> FALSE, error |-> "none", cleanup |-> FALSE,
                controlCleanup |-> FALSE, attemptHeld |-> FALSE]
  /\ recovery = [state |-> "NotRequired", plan |-> NoPlan]
  /\ report = [job |-> "none", ok |-> FALSE]
  /\ handles = [open |-> {}, stuck |-> {}]
  /\ history = [written |-> {}, writer |-> [p \in PageNames |-> "none"], spoiled |-> FALSE]
  /\ allowed \in Allowances

TmdStep ==
  \/ Preflight \/ ModemOpen \/ AwaitSettled \/ Open \/ Check \/ Enter \/ Capture \/ Compare \/ Intent
  \/ WriteFrame \/ Readback \/ ExitMcp \/ Checkpoint \/ CloseControl \/ Acquire \/ Probe \/ Retire \/ Readiness
TmdNext ==
  \/ TmdStep \/ BudgetSpent \/ Reenumerate \/ PanelEdit \/ SwitchOff
  \/ Prepare \/ CloseProof \/ Finish \/ Session \/ Interrupt \/ Crash
TmdSpec == TmdInit /\ [][TmdNext]_tmdVars

(***************************************************************************)
(* What must hold.                                                         *)
(***************************************************************************)

(* Between two calls, a recovery that says NotRequired or Verified (lifecycle.rs,         *)
(* RestorationState) leaves no page as the entry wrote it: whatever exchanges were lost,  *)
(* the original images are back, or the operator has since stored another.               *)
RestorationIsTruthful ==
  at = "rest" /\ recovery.state \in {"NotRequired", "Verified"} =>
    \A p \in PageNames : history.writer[p] # "prepare"

(* A page is in the synchronized journal before the radio can hold it (record_before_write *)
(* and before_write): after a crash at any point the journal names every page written.   *)
IntentPrecedesWrite == history.written \subseteq intents

(* No exit byte is sent to a radio that waits for the rest of a frame (is_ready before   *)
(* exit): a session left inside an exchange stays silent.                                *)
SilentInsideFrame == ~history.spoiled

(* finish touches the control endpoint only when the modem connection of the startup is  *)
(* closed and confirmed closed, however often it was reopened (TerminalStartup::released, *)
(* lifecycle.rs finish).                                                                 *)
ModemReleasedFirst ==
  job = "finish" => "modem" \notin handles.open \cup handles.stuck

(* A write_pages session that reports success has stored its page, and a backup that      *)
(* reports success holds every page (SessionReport::succeeded, has_complete_configuration).*)
SuccessIsWhole ==
  /\ report.job = "write" /\ report.ok => history.writer["menu"] \in {"write", "panel"}
  /\ baseline # <<>> => DOMAIN baseline = PageNames

(* A page is replaced only while every page of the plan is what the plan expects, those   *)
(* already replaced and the guards included (compare_exchange_validated): no write lands  *)
(* on another slot or over an edit the plan has not seen.                                *)
WritesMatchThePlan ==
  [][at = "frame" /\ cell' # cell =>
       \A p \in DOMAIN pass.plan.exp :
         cell[p] = IF p \in ToSet(Changed(pass.plan)) \ ToSet(pass.todo)
                   THEN pass.plan.rep[p] ELSE pass.plan.exp[p]]_tmdVars

(* A call ends: every wait has a budget and no retry goes on for ever.                    *)
TmdCallsEnd == []<>(at \in {"rest", "dead"})

(* A terminal session leaves the radio as it reports: restored or owed, every write
   announced, planned and compared first, and silence where a byte could be misread. *)
TerminalIsSafe ==
  /\ [](/\ RestorationIsTruthful /\ IntentPrecedesWrite /\ SilentInsideFrame
        /\ ModemReleasedFirst /\ SuccessIsWhole)
  /\ WritesMatchThePlan
==============================================================================
