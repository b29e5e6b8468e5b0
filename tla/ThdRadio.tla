------------------------------- MODULE ThdRadio ------------------------------
(***************************************************************************)
(* The TH-D75 controller of thd75/src/radio: the CAT exchange, the MCP     *)
(* programming session with its page exchanges, the exit and the recovery, *)
(* and the radio at the other end.  A job is one public call; its future   *)
(* is parked at future.at, may fail there and may be dropped there.        *)
(* A write and the wait for its answer are one step: a write that fails,   *)
(* or is dropped half way, is a lost or partial one followed by a failure  *)
(* or a drop of the wait.                                                  *)
(***************************************************************************)
EXTENDS Integers, Sequences, FiniteSets, SequencesExt

CONSTANTS
  Pages,           \* MCP pages, numbered in ascending order
  Jobs,            \* the calls made: kind, full (a whole-image call), expected
                   \* and wants (the contents compared with and written)
  MaxJobs,         \* bound: calls in a behaviour
  MaxDeviceFaults  \* bound: lost, cut or wrong exchanges and power cycles

ASSUME ThdConstants ==
  /\ Pages \subseteq Nat /\ IsFiniteSet(Pages)
  /\ MaxJobs \in Nat /\ MaxDeviceFaults \in Nat

VARIABLES
  profile,   \* streaming settings to restore, AE identity observed; never changes
  radio,     \* the fields of Radio
  future,    \* the call in progress
  device,    \* the radio: its mode and what its MCP parser expects next
  memory,    \* the radio's pages
  toHost,    \* answers on their way
  open,      \* the transport is connected
  jobs, deviceFaults,
  snapshot,  \* history: memory when the call started
  exits,     \* history: exit bytes sent since the last entry
  misframed, \* history: a byte reached the radio in the middle of a frame
  stale      \* history: a CAT answer was taken for another command

radioVars == <<profile, radio, future, device, memory, toHost, open, jobs,
               deviceFaults, snapshot, exits, misframed, stale>>

McpKinds == {"read", "write", "unverified", "exchange", "modify", "detached", "session"}
CatKinds == {"cat", "gm", "reconnect", "restoreCat", "recover"}
Job(k) == [kind |-> k, full |-> FALSE, expected |-> [p \in Pages |-> 0],
           wants |-> [p \in Pages |-> 0]]
Ascending(S) == SetToSortSeq(S, <)
NoFuture == [at |-> "idle", job |-> Job("none"), stage |-> "none", queue |-> <<>>, retried |-> FALSE,
         answered |-> [page |-> 0, data |-> 0], live |-> [p \in Pages |-> 0], possibly |-> {}, verified |-> {},
         body |-> "none", result |-> "none", guard |-> "none"]

RadioInit ==
  /\ profile \in {s \in [streaming : BOOLEAN, observed : BOOLEAN] : s.observed => s.streaming}
  /\ radio = [phase |-> "Inactive", boundary |-> "Quiescent", cat |-> "Ready",
              gm |-> FALSE, desynced |-> FALSE, saved |-> "none", timeout |-> "t1",
              exitError |-> FALSE, link |-> "Up"]
  /\ future = NoFuture
  /\ device = [mode |-> "cat", expects |-> "command"]
  /\ memory = [p \in Pages |-> 0] /\ snapshot = memory
  /\ toHost = <<>> /\ open = TRUE
  /\ jobs = 0 /\ deviceFaults = 0 /\ exits = 0
  /\ misframed = FALSE /\ stale = FALSE

(***************************************************************************)
(* External: what the radio makes of the bytes the host sends.             *)
(***************************************************************************)
Cmd(k, p, d) == [k |-> k, page |-> p, data |-> d]
Reply(k, p, d) == <<[k |-> k, page |-> p, data |-> d]>>
Same == [device |-> device, memory |-> memory, reply |-> <<>>, cost |-> 0, bad |-> FALSE]

InCat(c) ==
  CASE c.k = "Entry" ->
         {[Same EXCEPT !.device = [mode |-> "mcp", expects |-> "command"], !.reply = Reply("0M", 0, 0)],
          [Same EXCEPT !.reply = Reply("?", 0, 0), !.cost = 1],
          [Same EXCEPT !.cost = 1]}
    [] c.k = "Cat" -> {[Same EXCEPT !.reply = Reply("Cat", 0, c.data)]}
    [] OTHER -> {Same}

InMcp(c) ==
  CASE device.expects = "frame" \/ (device.expects = "ack" /\ c.k # "Ack") ->
         {[Same EXCEPT !.bad = TRUE]}
    [] c.k = "Ack" -> {[Same EXCEPT !.device.expects = "command", !.reply = Reply("Ack", 0, 0)]}
    [] c.k = "R" -> {[Same EXCEPT !.device.expects = "ack", !.reply = Reply("W", q, memory[q]),
                                  !.cost = IF q = c.page THEN 0 ELSE 1] : q \in Pages}
    [] c.k = "W" -> {[Same EXCEPT !.memory[c.page] = c.data, !.reply = Reply("Ack", 0, 0)],
                     [Same EXCEPT !.reply = Reply("Ack", 0, 0), !.cost = 1],
                     [Same EXCEPT !.reply = Reply("Nak", 0, 0), !.cost = 1],
                     [Same EXCEPT !.device.expects = "frame", !.cost = 1]}
    [] c.k = "E" -> {[Same EXCEPT !.device = [mode |-> "reset", expects |-> "command"],
                                  !.reply = Reply("Ack", 0, 0)],
                     [Same EXCEPT !.reply = Reply("Nak", 0, 0), !.cost = 1]}
    [] OTHER -> {Same}

Reactions(c) ==
  (CASE device.mode = "cat" -> InCat(c) [] device.mode = "mcp" -> InMcp(c) [] OTHER -> {Same})
    \cup {[Same EXCEPT !.cost = 1]}

\* The transport, connected or not, carries a command out: on a dead link
\* nothing arrives.  Answers not yet read are kept.
Carry(c, connected, kept) ==
  \E x \in (IF connected THEN Reactions(c) ELSE {Same}) :
    /\ deviceFaults' = deviceFaults + x.cost /\ deviceFaults' <= MaxDeviceFaults
    /\ device' = x.device /\ memory' = x.memory
    /\ toHost' = kept \o x.reply
    /\ misframed' = (misframed \/ x.bad)
    /\ open' = connected

Put(c, kept) == Carry(c, open, kept)
\* Closing and reopening the transport leaves behind what was in flight.
PutOnFreshLink(c) == Carry(c, TRUE, <<>>)

wire == <<device, memory, toHost, open, deviceFaults, misframed>>
ghosts == <<snapshot, exits, stale>>

PowerCycle ==
  /\ deviceFaults < MaxDeviceFaults /\ deviceFaults' = deviceFaults + 1
  /\ device' = [mode |-> "cat", expects |-> "command"]
  /\ open' = FALSE /\ toHost' = <<>>
  /\ UNCHANGED <<profile, radio, future, memory, jobs, ghosts, misframed>>

\* The radio leaves programming mode; the link may drop while it resets.
Boot ==
  /\ device.mode = "reset"
  /\ device' = [device EXCEPT !.mode = "cat"]
  /\ open' \in {open, FALSE} /\ toHost' = (IF open' THEN toHost ELSE <<>>)
  /\ UNCHANGED <<profile, radio, future, memory, deviceFaults, jobs, ghosts, misframed>>

(***************************************************************************)
(* The end of a call.                                                      *)
(***************************************************************************)
CatReady(r) == ~r.gm /\ r.cat = "Ready"

RestoreTimeout(r) ==
  IF r.saved = "none" THEN r ELSE [r EXCEPT !.timeout = r.saved, !.saved = "none"]

\* finish_mcp_operation: an operation is a success only if its clean-up was,
\* and a retained exit error is handed over once.
Return(f, r, ok) ==
  LET mcp == f.job.kind \in McpKinds \cup {"recover"}
  IN  /\ future' = [NoFuture EXCEPT !.job = f.job, !.possibly = f.possibly, !.verified = f.verified,
                      !.result = IF ok /\ f.body = "ok" /\ ~(mcp /\ r.exitError)
                                 THEN "ok" ELSE "err"]
      /\ LET r1 == IF mcp THEN [r EXCEPT !.exitError = FALSE] ELSE r
         IN  radio' = IF f.job.full \/ f.job.kind = "recover" THEN RestoreTimeout(r1) ELSE r1

Refuse(j, r) ==
  /\ future' = [NoFuture EXCEPT !.job = j, !.result = "err"] /\ radio' = r
  /\ UNCHANGED <<wire, exits>>

(***************************************************************************)
(* The MCP programming session.                                            *)
(***************************************************************************)
BeginFull(r) ==
  [r EXCEPT !.saved = IF @ = "none" THEN r.timeout ELSE @, !.timeout = "full"]

BeginMcp(j) ==
  LET r == IF j.full THEN BeginFull(radio) ELSE radio
      unresolved == r.phase # "Inactive"
      back(x) == IF j.full THEN RestoreTimeout(x) ELSE x
  IN  IF j.full /\ unresolved THEN Refuse(j, radio)
      ELSE IF ~CatReady(r) \/ unresolved THEN Refuse(j, back(r))
      ELSE IF r.exitError THEN Refuse(j, back([r EXCEPT !.exitError = FALSE]))
      ELSE /\ future' = [NoFuture EXCEPT !.at = "drain", !.job = j]
           /\ radio' = r
           /\ UNCHANGED <<wire, exits>>

\* The phase is set before the first byte: from here on a drop may leave the
\* radio in programming mode.
\* Mutant: it is not set.
DrainedUnmarked ==
  /\ future.at = "drain" /\ open
  /\ radio' = [radio EXCEPT !.boundary = "Ambiguous"]
  /\ future' = [future EXCEPT !.at = "entry"]
  /\ exits' = 0
  /\ Put(Cmd("Entry", 0, 0), <<>>)
Drained ==
  /\ future.at = "drain" /\ open
  /\ radio' = [radio EXCEPT !.phase = "Active", !.boundary = "Ambiguous"]
  /\ future' = [future EXCEPT !.at = "entry"]
  /\ exits' = 0
  /\ Put(Cmd("Entry", 0, 0), <<>>)

\* close_ambiguous_mcp_boundary: not one more byte into a partial exchange.
CloseAmbiguous(f, r) ==
  /\ Return(f, [r EXCEPT !.desynced = TRUE, !.link = "Down"], FALSE)
  /\ open' = FALSE /\ toHost' = <<>>
  /\ UNCHANGED <<device, memory, deviceFaults, misframed, exits>>

\* Mutant: the exit byte is sent without proof of a frame boundary.
ExitUnproved(r) == FALSE
ExitBarred(r) == r.boundary = "Ambiguous"

\* exit_programming_mode up to the wait for the acknowledgement.
Leave(f, r, rest) ==
  IF ExitBarred(r) THEN CloseAmbiguous(f, r)
  ELSE /\ radio' = [r EXCEPT !.phase = "ExitSent", !.boundary = "Ambiguous", !.desynced = TRUE]
       /\ future' = [f EXCEPT !.at = "exit"]
       /\ exits' = exits + 1
       /\ Put(Cmd("E", 0, 0), rest)

AnyBoundary(r) == TRUE
PageBoundary(r) == r.phase = "Active" /\ r.boundary = "Quiescent"

\* The next page command, or the end of the operation.
NextExchange(f, r, rest) ==
  IF f.queue = <<>> THEN Leave([f EXCEPT !.body = IF @ = "none" THEN "ok" ELSE @], r, rest)
  ELSE IF ~PageBoundary(r) THEN Leave([f EXCEPT !.body = "err"], r, rest)
  ELSE LET p == Head(f.queue)
           writes == f.stage = "writes"
       IN  /\ radio' = [r EXCEPT !.boundary = "Ambiguous"]
           /\ future' = [f EXCEPT !.at = IF writes THEN "write" ELSE "page",
                                  !.possibly = IF writes THEN @ \cup {p} ELSE @]
           /\ Put(IF writes THEN Cmd("W", p, f.job.wants[p]) ELSE Cmd("R", p, 0), rest)
           /\ UNCHANGED exits

\* What the pages read lead to: a rejection, or the pages to write.
Decide(f) ==
  LET rejected == f.job.kind \in {"exchange", "detached"} /\ f.live # f.job.expected
  IN  [f EXCEPT !.stage = "writes", !.body = IF rejected THEN "err" ELSE @,
                !.queue = IF rejected \/ f.job.kind = "read" THEN <<>>
                          ELSE Ascending({p \in Pages : f.live[p] # f.job.wants[p]})]

Entered(answer, rest) ==
  /\ future.at = "entry"
  /\ IF answer.k = "0M"
     THEN NextExchange([future EXCEPT
            !.queue = Ascending(Pages),
            !.stage = IF future.job.kind \in {"write", "unverified"} THEN "writes" ELSE "reads"],
            [radio EXCEPT !.boundary = "Quiescent"], rest)
     ELSE Leave([future EXCEPT !.body = "err"], radio, rest)

\* A complete page frame is acknowledged whatever page it is for.
PageArrived(answer, rest) ==
  /\ future.at = "page"
  /\ IF answer.k = "W"
     THEN /\ future' = [future EXCEPT !.at = "pageAck", 
                                      !.answered = [page |-> answer.page, data |-> answer.data]]
          /\ Put(Cmd("Ack", 0, 0), rest)
          /\ UNCHANGED <<radio, exits>>
     ELSE Leave([future EXCEPT !.body = "err"], radio, rest)

\* Mutant: the page in the answer is not compared.
PageDoneUnaddressed(f, r, rest) ==
  LET p == Head(f.queue)
      f1 == [f EXCEPT !.queue = Tail(@), !.retried = FALSE]
  IN  IF f.stage = "reads"
      THEN LET f2 == [f1 EXCEPT !.live[p] = f.answered.data]
           IN  NextExchange(IF f2.queue = <<>> THEN Decide(f2) ELSE f2, r, rest)
      ELSE NextExchange([f1 EXCEPT !.verified = @ \cup {p}, !.stage = "writes"], r, rest)

\* A page for the wrong address is asked for once more.
PageDone(f, r, rest) ==
  LET p == Head(f.queue)
      f1 == [f EXCEPT !.queue = Tail(@), !.retried = FALSE]
  IN  CASE f.answered.page # p /\ ~f.retried -> NextExchange([f EXCEPT !.retried = TRUE], r, rest)
        [] f.answered.page # p /\ f.retried -> Leave([f EXCEPT !.body = "err"], r, rest)
        [] f.answered.page = p /\ f.stage = "reads" ->
             LET f2 == [f1 EXCEPT !.live[p] = f.answered.data]
             IN  NextExchange(IF f2.queue = <<>> THEN Decide(f2) ELSE f2, r, rest)
        [] f.answered.page = p /\ f.stage = "readback" ->
             IF f.answered.data # f.job.wants[p] THEN Leave([f EXCEPT !.body = "err"], r, rest)
             ELSE NextExchange([f1 EXCEPT !.verified = @ \cup {p}, !.stage = "writes"], r, rest)

PageAcknowledged(answer, rest) ==
  /\ future.at = "pageAck"
  /\ IF answer.k = "Ack"
     THEN PageDone(future, [radio EXCEPT !.boundary = "Quiescent"], rest)
     ELSE Leave([future EXCEPT !.body = "err"], radio, rest)

WriteAcknowledged(answer, rest) ==
  /\ future.at = "write"
  /\ LET r == [radio EXCEPT !.boundary = "Quiescent"]
     IN  IF answer.k # "Ack" THEN Leave([future EXCEPT !.body = "err"], radio, rest)
         ELSE IF future.job.kind = "unverified"
              THEN NextExchange([future EXCEPT !.queue = Tail(@)], r, rest)
              ELSE NextExchange([future EXCEPT !.stage = "readback"], r, rest)

\* The holder of an McpSession may try another page after one failed.
ExchangeFails ==
  /\ future.at \in {"entry", "page", "pageAck", "write"}
  /\ \/ Leave([future EXCEPT !.body = "err"], radio, toHost)
     \/ future.job.kind = "session" /\ future.at # "entry" /\ NextExchange(future, radio, toHost)

Detaches(f) == f.job.kind = "detached" /\ f.body = "ok" /\ f.possibly # {}

\* An exit error is retained before the next await.
ExitEnds(ok, rest) ==
  LET r == IF ok THEN [radio EXCEPT !.boundary = "Quiescent"] ELSE radio
  IN  /\ future.at = "exit"
      /\ IF Detaches(future) /\ ~ok THEN Return(future, r, FALSE)
         ELSE /\ future' = [future EXCEPT !.at = "settle"]
              /\ radio' = [r EXCEPT !.exitError = @ \/ ~ok]
      /\ toHost' = rest
      /\ UNCHANGED <<device, memory, open, deviceFaults, misframed, exits>>

(***************************************************************************)
(* Reopening the transport and proving that it speaks CAT.                 *)
(***************************************************************************)
Number == IF future.at = "idle" THEN jobs + 1 ELSE jobs
Id(f) == <<Number, f.at>>
Reopening(r) ==
  [r EXCEPT !.gm = TRUE, !.desynced = TRUE, !.cat = "RecoveryRequired", !.link = "Down"]

\* reopen_and_identify.  guard is the phase an unfinished proof puts back.
Reopen(f, r) ==
  /\ radio' = [Reopening(r) EXCEPT !.phase = "Inactive", !.desynced = FALSE]
  /\ future' = [f EXCEPT !.at = "identify", !.guard = r.phase]
  /\ PutOnFreshLink(Cmd("Cat", 0, Id(future')))
  /\ UNCHANGED exits

\* Drop of ReconnectGuard.
Guarded(f, r) ==
  IF f.guard = "Inactive" THEN r ELSE [r EXCEPT !.phase = f.guard, !.desynced = TRUE]

ReopenFails(f, r) ==
  /\ Return(f, Guarded([f EXCEPT !.guard = r.phase], Reopening(r)), FALSE)
  /\ open' = FALSE /\ toHost' = <<>>
  /\ UNCHANGED <<device, memory, deviceFaults, misframed, exits>>

Settled ==
  /\ future.at = "settle"
  /\ IF Detaches(future)
     THEN /\ Return(future, [radio EXCEPT !.phase = "Inactive", !.boundary = "Quiescent"], TRUE)
          /\ UNCHANGED <<wire, exits>>
     ELSE Reopen(future, radio) \/ ReopenFails(future, radio)

Restored(r) == [r EXCEPT !.link = "Up"]
ReplaySettings(f, r, rest) ==
  IF profile.streaming
  THEN /\ radio' = [r EXCEPT !.cat = "RecoveryRequired"]
       /\ future' = [f EXCEPT !.at = "restore"]
       /\ Put(Cmd("Cat", 0, Id(future')), rest)
       /\ UNCHANGED exits
  ELSE /\ Return(f, Restored(r), TRUE)
       /\ toHost' = rest
       /\ UNCHANGED <<device, memory, open, deviceFaults, misframed, exits>>

ProofFails(f, r, rest) ==
  /\ Return(f, Guarded(f, r), FALSE)
  /\ toHost' = rest
  /\ UNCHANGED <<device, memory, open, deviceFaults, misframed, exits>>

Identified(answer, rest) ==
  /\ future.at = "identify"
  /\ IF answer.k # "Cat" \/ (profile.streaming /\ ~profile.observed)
     THEN ProofFails(future, radio, rest)
     ELSE ReplaySettings(future, [radio EXCEPT !.desynced = FALSE, !.gm = FALSE,
                                               !.cat = "Ready", !.boundary = "Quiescent"], rest)

SettingsReplayed(answer, rest) ==
  /\ future.at = "restore"
  /\ IF answer.k = "Cat" THEN Return(future, Restored([radio EXCEPT !.cat = "Ready"]), TRUE)
     ELSE Return(future, radio, FALSE)
  /\ toHost' = rest
  /\ UNCHANGED <<device, memory, open, deviceFaults, misframed, exits>>

\* recover_from_interrupted_mcp: an exit byte that may have been sent is not
\* sent again.
Recover(j) ==
  LET f == [NoFuture EXCEPT !.job = j, !.body = "ok"]
  IN  CASE radio.phase = "Inactive" -> Return(f, radio, TRUE) /\ UNCHANGED <<wire, exits>>
        [] radio.phase = "ExitSent" -> /\ future' = [f EXCEPT !.at = "settle"]
                                       /\ UNCHANGED <<radio, wire, exits>>
        [] radio.phase = "Active" -> Leave(f, radio, toHost)

Reconnect(j) ==
  IF radio.phase # "Inactive" THEN Refuse(j, radio)
  ELSE LET f == [NoFuture EXCEPT !.job = j, !.body = "ok"]
       IN  Reopen(f, radio) \/ ReopenFails(f, radio)

(***************************************************************************)
(* The CAT exchange, the strict memory reader, and CAT restoration.        *)
(***************************************************************************)
\* execute: CAT is blocked before the first byte goes out.
Armed(r) == [r EXCEPT !.cat = "RecoveryRequired", !.desynced = FALSE]

Execute(j) ==
  IF radio.phase # "Inactive" \/ ~CatReady(radio) THEN Refuse(j, radio)
  ELSE IF radio.desynced /\ ~open THEN Refuse(j, [radio EXCEPT !.link = "Down"])
  ELSE /\ radio' = Armed(radio)
       /\ future' = [NoFuture EXCEPT !.at = "cat", !.job = j, !.body = "ok"]
       /\ Put(Cmd("Cat", 0, Id(future')), IF radio.desynced THEN <<>> ELSE toHost)
       /\ UNCHANGED exits

\* read_bytes of the qualified memory reader.
ReadMemory(j) ==
  IF ~CatReady(radio) \/ radio.phase # "Inactive" \/ radio.desynced \/ toHost # <<>>
  THEN Refuse(j, radio)
  ELSE /\ radio' = [radio EXCEPT !.gm = TRUE, !.desynced = TRUE]
       /\ future' = [NoFuture EXCEPT !.at = "gm", !.job = j, !.body = "ok"]
       /\ Put(Cmd("Cat", 0, Id(future')), toHost)
       /\ UNCHANGED exits

\* restore_cat_after_mode_exit: the proof starts on a line found quiet.
RestoreCat(j) ==
  IF radio.phase # "Inactive" \/ radio.gm THEN Refuse(j, radio)
  ELSE /\ radio' = [radio EXCEPT !.cat = "RecoveryRequired", !.desynced = TRUE, !.link = "Down"]
       /\ future' = [NoFuture EXCEPT !.at = "inplace", !.job = j, !.body = "ok"]
       /\ Put(Cmd("Cat", 0, Id(future')), <<>>)
       /\ UNCHANGED exits

Proved(r) == [r EXCEPT !.desynced = FALSE, !.cat = "Ready"]

CatAnswered(answer, rest) ==
  /\ future.at \in {"cat", "gm", "inplace", "reproof"}
  /\ Return(future, CASE future.at = "cat" -> [radio EXCEPT !.cat = "Ready"]
                      [] future.at = "gm" -> [radio EXCEPT !.gm = FALSE, !.desynced = FALSE]
                      [] OTHER -> Restored(Proved(radio)), TRUE)
  /\ toHost' = rest
  /\ UNCHANGED <<device, memory, open, deviceFaults, misframed, exits>>

ReproofAfterReopen ==
  /\ future.at = "inplace"
  /\ future' = [future EXCEPT !.at = "reproof"]
  /\ PutOnFreshLink(Cmd("Cat", 0, Id(future')))
  /\ UNCHANGED <<radio, exits>>

\* CatExchangeGuard: the watchers of the link learn of an unfinished exchange.
LinkGuard(r) == [r EXCEPT !.link = "Down"]

\* A wait that ends with an error.
WaitFails ==
  \/ /\ future.at = "drain"
     /\ Return(future, radio, FALSE) /\ UNCHANGED <<wire, exits>>
  \/ ExchangeFails
  \/ ExitEnds(FALSE, toHost)
  \/ future.at = "identify" /\ ProofFails(future, radio, toHost)
  \/ /\ future.at \in {"restore", "cat"}
     /\ Return(future, LinkGuard([radio EXCEPT !.desynced = TRUE]), FALSE)
     /\ UNCHANGED <<wire, exits>>
  \/ ReproofAfterReopen
  \/ /\ future.at \in {"gm", "inplace", "reproof"}
     /\ Return(future, radio, FALSE) /\ UNCHANGED <<wire, exits>>

\* The caller drops the future.
Cancel ==
  /\ future.at # "idle"
  /\ future' = [NoFuture EXCEPT !.job = future.job, !.result = "dropped",
                            !.possibly = future.possibly, !.verified = future.verified]
  /\ radio' = CASE future.at = "identify" -> Guarded(future, radio)
                [] future.at = "restore" /\ future.guard # "Inactive" ->
                     LinkGuard([radio EXCEPT !.desynced = TRUE])
                [] future.at \in {"restore", "cat"} -> LinkGuard(radio)
                [] OTHER -> radio
  /\ UNCHANGED <<wire, exits>>

\* The wait ends with the oldest answer.  A CAT answer is correlated by its
\* mnemonic, so a late one to an earlier command would be taken for this one.
Answered ==
  /\ toHost # <<>>
  /\ LET answer == Head(toHost)
         rest == Tail(toHost)
     IN  /\ \/ Entered(answer, rest) \/ PageArrived(answer, rest)
            \/ PageAcknowledged(answer, rest) \/ WriteAcknowledged(answer, rest)
            \/ ExitEnds(answer.k = "Ack", rest)
            \/ Identified(answer, rest) \/ SettingsReplayed(answer, rest)
            \/ answer.k = "Cat" /\ CatAnswered(answer, rest)
         /\ stale' = (stale \/ (answer.k = "Cat" /\ answer.data # Id(future)))

Begin(j) ==
  /\ future.at = "idle" /\ jobs < MaxJobs
  /\ jobs' = jobs + 1 /\ snapshot' = memory
  /\ CASE j.kind \in McpKinds -> BeginMcp(j)
       [] j.kind = "recover" -> Recover(j)
       [] j.kind = "reconnect" -> Reconnect(j)
       [] j.kind = "cat" -> Execute(j)
       [] j.kind = "gm" -> ReadMemory(j)
       [] j.kind = "restoreCat" -> RestoreCat(j)

SetTimeout ==
  /\ future.at = "idle" /\ radio.timeout # "t2"
  /\ radio' = [radio EXCEPT !.timeout = "t2"]
  /\ UNCHANGED <<profile, future, wire, jobs, ghosts>>

RadioNext ==
  \/ (\E j \in Jobs : Begin(j)) /\ UNCHANGED <<profile, stale>>
  \/ SetTimeout
  \/ (Drained \/ Settled \/ WaitFails \/ Cancel) /\ UNCHANGED <<profile, jobs, snapshot, stale>>
  \/ Answered /\ UNCHANGED <<profile, jobs, snapshot>>
  \/ PowerCycle \/ Boot

RadioSpec == RadioInit /\ [][RadioNext]_radioVars
------------------------------------------------------------------------------

\* mcp_wire_boundary: whatever was lost, cut, late or dropped, no byte reaches
\* the radio while its parser is inside a frame or waits for an acknowledgement.
NoByteMidFrame == ~misframed

\* McpPhase::ExitSent: between two entries the exit byte is sent at most once,
\* through failures, drops and recoveries alike.
OneExitByte == exits <= 1

\* A handle that accepts CAT commands has no radio in programming mode behind it.
UsableMeansCat ==
  future.at = "idle" /\ radio.phase = "Inactive" /\ CatReady(radio) => device.mode # "mcp"

\* cat_state: an answer that arrives after its command was given up is never
\* taken for the answer to a later command.
AnswersAreFresh == ~stale

\* McpWriteProgress: a page outside possibly_written_pages still holds what it
\* held, and a page in verified_written_pages holds what was asked for.
ProgressIsTruthful ==
  \A p \in Pages : /\ p \notin future.possibly => memory[p] = snapshot[p]
                   /\ p \in future.verified => memory[p] = future.job.wants[p]

\* compare_exchange_memory_pages: one stale page anywhere gates every write.
ExchangeAllOrNothing ==
  future.job.kind = "exchange" /\ snapshot # future.job.expected => memory = snapshot

\* begin_full_image_operation: the timeout of a whole-image call is in force
\* only while the caller's own is kept to be restored.
LongTimeoutIsTemporary == radio.saved = "none" => radio.timeout # "full"

\* CatExchangeGuard, reopen_and_identify: while an unfinished CAT exchange
\* blocks the handle, the watchers of the link see it down.
BlockedLinkIsDown ==
  future.at = "idle" /\ radio.cat = "RecoveryRequired" => radio.link = "Down"

\* An MCP call that succeeds, other than one that detached to let the radio
\* reboot, returns with CAT proved on a radio out of programming mode.
SuccessMeansCatProved ==
  future.result = "ok" /\ future.job.kind \in McpKinds
    => \/ future.job.kind = "detached" /\ future.possibly # {}
       \/ CatReady(radio) /\ radio.phase = "Inactive" /\ device.mode = "cat"

\* Host and radio agree on where frames begin, whatever was cancelled: no byte lands inside
\* a frame, the exit byte is sent once, and no answer is taken for that of another command.
FramingIsKept ==
  NoByteMidFrame /\ OneExitByte /\ AnswersAreFresh

\* What the handle says of the radio is so: ready for CAT, in which mode, over which link,
\* and with the timeout the caller chose.
HandleIsTruthful ==
  /\ UsableMeansCat /\ BlockedLinkIsDown /\ LongTimeoutIsTemporary
  /\ SuccessMeansCatProved

\* The memory of the radio is what the progress and the result of a call say.
MemoryIsAsReported ==
  ProgressIsTruthful /\ ExchangeAllOrNothing
==============================================================================
