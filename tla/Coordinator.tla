----------------------------- MODULE Coordinator -----------------------------
(***************************************************************************)
(* The recorder's target coordinator (stargazer/src/control.rs): commands  *)
(* disable, enable and reload targets while supervisors of earlier commands*)
(* are still draining, a periodic reconciliation starts what should run,   *)
(* and the disabled set survives a restart in a file.  A supervisor is a   *)
(* task [key, version, told, done]; the version stands for the target's    *)
(* settings in the configuration.                                          *)
(***************************************************************************)
EXTENDS Integers, Sequences, SequencesExt, FiniteSets

CONSTANTS
  Keys,
  Versions,          \* settings a target may have in the configuration file
  MaxEdits, MaxRestarts, MaxCommands   \* bounds: file edits and panics, restarts, commands

ASSUME CoordinatorConstants ==
  /\ IsFiniteSet(Keys)
  /\ {MaxEdits, MaxRestarts, MaxCommands} \subseteq Nat

VARIABLES
  fileConfig,        \* the configuration file: key to version, for the configured keys
  config,            \* config.targets as loaded
  disabled, saved,   \* the disabled set, and its file
  tasks,             \* every supervisor ever spawned in this process
  current,           \* key to [id, retiring]
  stopping,
  doing,             \* "idle", "drain" or "shutdown"
  todo,              \* keys the command at hand still has to stop, in order
  reloading,         \* that command is a reload
  promised,          \* history: key to what the last command without a warning made it
  budget             \* bounds left: [edits, restarts, commands]

coordinatorVars == <<fileConfig, config, disabled, saved, tasks, current, stopping, doing, todo,
                     reloading, promised, budget>>

Configs == UNION {[ks -> Versions] : ks \in SUBSET Keys}
Task(key) == tasks[current[key].id]
Without(f, key) == [k \in DOMAIN f \ {key} |-> f[k]]
Spend(what) == budget[what] > 0 /\ budget' = [budget EXCEPT ![what] = @ - 1]

\* spawn_target for every key of a set: what is running, and the supervisors, afterwards.
Spawned(ks, cfg, off, run, list) ==
  LET new == SetToSeq({k \in ks : k \in DOMAIN cfg /\ k \notin off /\ k \notin DOMAIN run})
      task(k) == [key |-> k, version |-> cfg[k], told |-> FALSE, done |-> FALSE]
      number(k) == Len(list) + (CHOOSE i \in DOMAIN new : new[i] = k) IN
  [run |-> [k \in DOMAIN run \cup ToSet(new) |->
              IF k \in DOMAIN run THEN run[k] ELSE [id |-> number(k), retiring |-> FALSE]],
   list |-> list \o [i \in DOMAIN new |-> task(new[i])]]

\* Coordinator::new and spawn_initial.
Started(cfg, off) == Spawned(DOMAIN cfg, cfg, off, <<>>, <<>>)

CoordinatorInit ==
  /\ fileConfig \in Configs /\ config = fileConfig
  /\ disabled \in SUBSET Keys /\ saved = disabled
  /\ LET s == Started(config, disabled) IN current = s.run /\ tasks = s.list
  /\ stopping = FALSE /\ doing = "idle" /\ todo = <<>> /\ reloading = FALSE
  /\ promised = [k \in disabled |-> "disabled"]
  /\ budget = [edits |-> MaxEdits, restarts |-> MaxRestarts, commands |-> MaxCommands]

\* Mutant: nothing is started in their place.
CollectedOnly ==
  [run |-> [k \in {x \in DOMAIN current : ~Task(x).done} |-> current[k]], list |-> tasks]
\* collect_finished: finished supervisors are joined, then everything configured is started.
Collected ==
  Spawned(DOMAIN config, config, disabled,
          [k \in {x \in DOMAIN current : ~Task(x).done} |-> current[k]], tasks)

Reconcile ==
  /\ doing = "idle"
  /\ current' = Collected.run /\ tasks' = Collected.list
  /\ UNCHANGED <<fileConfig, config, disabled, saved, stopping, doing, todo, reloading, promised,
                 budget>>

-----------------------------------------------------------------------------
(* handle: a command first collects like Reconcile does.                   *)

\* persist_disabled: the file is replaced, or the reply carries a warning.
Persist(key, what) ==
  \E ok \in BOOLEAN :
    /\ saved' = IF ok THEN disabled' ELSE saved
    /\ promised' = IF ok THEN [k \in DOMAIN promised \cup {key} |->
                                 IF k = key THEN what ELSE promised[k]]
                   ELSE Without(promised, key)

\* stop_target on a set of keys begins with telling the first; the rest follows in Drain.
Tell(keys, run, list) ==
  /\ current' = [k \in DOMAIN run |-> IF k \in keys THEN [run[k] EXCEPT !.retiring = TRUE]
                                      ELSE run[k]]
  /\ tasks' = [i \in DOMAIN list |->
                 IF \E k \in keys \cap DOMAIN run : run[k].id = i
                 THEN [list[i] EXCEPT !.told = TRUE] ELSE list[i]]

\* An unknown key or a file that does not load leaves what Reconcile leaves.
Disable(key) ==
  /\ doing = "idle" /\ Spend("commands")
  /\ key \in DOMAIN config \cup DOMAIN Collected.run
  /\ disabled' = disabled \cup {key} /\ Persist(key, "disabled")
  /\ Tell({key}, Collected.run, Collected.list)
  /\ IF key \in DOMAIN Collected.run THEN doing' = "drain" /\ todo' = <<key>>
     ELSE UNCHANGED <<doing, todo>>
  /\ reloading' = FALSE
  /\ UNCHANGED <<fileConfig, config, stopping>>

Enable(key) ==
  /\ doing = "idle" /\ Spend("commands")
  /\ key \in DOMAIN config
  /\ disabled' = disabled \ {key} /\ Persist(key, "enabled")
  /\ LET s == Spawned({key}, config, disabled', Collected.run, Collected.list) IN
     current' = s.run /\ tasks' = s.list
  /\ UNCHANGED <<fileConfig, config, stopping, doing, todo, reloading>>

\* Mutant: targets missing from the file keep running.
OutdatedUnlessRemoved(c) ==
  {k \in DOMAIN c.run : k \in DOMAIN fileConfig /\ c.list[c.run[k].id].version # fileConfig[k]}

\* The running targets that the new configuration does not have as they run.
Outdated(c) ==
  {k \in DOMAIN c.run :
     k \notin DOMAIN fileConfig \/ c.list[c.run[k].id].version # fileConfig[k]}

Reload ==
  /\ doing = "idle" /\ Spend("commands")
  /\ config' = fileConfig
  /\ todo' = SetToSeq(Outdated(Collected)) /\ reloading' = TRUE /\ doing' = "drain"
  /\ Tell(IF todo' = <<>> THEN {} ELSE {Head(todo')}, Collected.run, Collected.list)
  /\ UNCHANGED <<fileConfig, disabled, saved, stopping, promised>>

\* Mutant: a supervisor is forgotten whether or not it was joined.
DrainedForgetting(key) == Without(current, key)

\* One supervisor of the list is joined, or stays when its drain times out.
Drained(key) == IF Task(key).done THEN Without(current, key) ELSE current

Drain ==
  /\ doing = "drain" /\ todo # <<>>
  /\ todo' = Tail(todo)
  /\ Tell(IF Len(todo) > 1 THEN {todo[2]} ELSE {}, Drained(Head(todo)), tasks)
  /\ UNCHANGED <<fileConfig, config, disabled, saved, stopping, doing, reloading, promised, budget>>

\* The command ends; a reload first starts what it finds missing.
EndCommand ==
  /\ doing = "drain" /\ todo = <<>> /\ doing' = "idle"
  /\ LET s == Spawned(DOMAIN config, config, disabled, current, tasks) IN
     IF reloading THEN current' = s.run /\ tasks' = s.list ELSE UNCHANGED <<current, tasks>>
  /\ UNCHANGED <<fileConfig, config, disabled, saved, stopping, todo, reloading, promised,
                 budget>>

-----------------------------------------------------------------------------

\* A supervisor ends because it was told to, or by itself (a panic).
SupervisorEnds(i) ==
  /\ i \in DOMAIN tasks /\ ~tasks[i].done
  /\ tasks' = [tasks EXCEPT ![i].done = TRUE]
  /\ IF tasks[i].told THEN UNCHANGED budget ELSE Spend("edits")
  /\ UNCHANGED <<fileConfig, config, disabled, saved, current, stopping, doing, todo, reloading,
                 promised>>

\* The operator edits the configuration file.
Edit(cfg) ==
  /\ Spend("edits") /\ cfg # fileConfig /\ fileConfig' = cfg
  /\ UNCHANGED <<config, disabled, saved, tasks, current, stopping, doing, todo, reloading,
                 promised>>

\* shutdown_all tells every supervisor and waits for each without a deadline.
Shutdown ==
  /\ doing = "idle" /\ ~stopping /\ stopping' = TRUE /\ doing' = "shutdown"
  /\ Tell(DOMAIN current, current, tasks)
  /\ UNCHANGED <<fileConfig, config, disabled, saved, todo, reloading, promised, budget>>

JoinAtShutdown(key) ==
  /\ doing = "shutdown" /\ key \in DOMAIN current /\ Task(key).done
  /\ current' = Without(current, key)
  /\ UNCHANGED <<fileConfig, config, disabled, saved, tasks, stopping, doing, todo, reloading,
                 promised, budget>>

\* The process ends, or dies at any moment, and is started again.
Restart ==
  /\ Spend("restarts")
  /\ config' = fileConfig /\ disabled' = saved
  /\ LET s == Started(config', disabled') IN current' = s.run /\ tasks' = s.list
  /\ stopping' = FALSE
  /\ doing' = "idle" /\ todo' = <<>> /\ reloading' = FALSE
  /\ UNCHANGED <<fileConfig, saved, promised>>

CoordinatorNext ==
  \/ Reconcile \/ Reload \/ Drain \/ EndCommand \/ Shutdown \/ Restart
  \/ \E k \in Keys : Disable(k) \/ Enable(k) \/ JoinAtShutdown(k)
  \/ \E i \in DOMAIN tasks : SupervisorEnds(i)
  \/ \E cfg \in Configs : Edit(cfg)

CoordinatorSpec == CoordinatorInit /\ [][CoordinatorNext]_coordinatorVars

-----------------------------------------------------------------------------

\* However commands overtake the drains of earlier ones, a target never has two live
\* supervisors: a new one waits for the old one to be joined.
OneSupervisorPerTarget ==
  \A i, j \in DOMAIN tasks :
    ~tasks[i].done /\ ~tasks[j].done /\ tasks[i].key = tasks[j].key => i = j

\* Between commands, a supervisor that is not being retired belongs to an enabled target
\* and runs with the settings of the loaded configuration.
RunningAsConfigured ==
  doing = "idle" => \A k \in DOMAIN current :
    ~current[k].retiring =>
      k \notin disabled /\ k \in DOMAIN config /\ Task(k).version = config[k]

\* What a command reported without a persistence warning still holds after a restart.
PromisesSurvive ==
  \A k \in DOMAIN promised : (k \in disabled) <=> (promised[k] = "disabled")

\* Once nobody intervenes any more, what should run is what runs.
Converges ==
  <>[](stopping \/ (/\ DOMAIN current = DOMAIN config \ disabled
                    /\ \A k \in DOMAIN current :
                         ~current[k].retiring /\ Task(k).version = config[k]))

\* What runs is what is configured, and what was reported as saved survives a restart.
CoordinatorKeepsItsWord ==
  RunningAsConfigured /\ PromisesSurvive
=============================================================================
