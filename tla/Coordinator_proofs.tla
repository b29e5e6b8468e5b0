-------------------------- MODULE Coordinator_proofs --------------------------
(***************************************************************************)
(* Theorems about the target coordinator, for every finite set of targets, *)
(* every set of settings and any number of commands, edits and restarts.   *)
(***************************************************************************)
EXTENDS Coordinator, FiniteSetTheorems, FunctionTheorems, SequenceTheorems, TLAPS

Supervisors == [key : Keys, version : Versions, told : BOOLEAN, done : BOOLEAN]
Entries == [id : Nat, retiring : BOOLEAN]

(* run is a map of running targets and list the supervisors; a target's entry is its
   supervisor's, and a supervisor that has not ended is the one its target's entry has. *)
Tracks(run, list) ==
  /\ DOMAIN run \subseteq Keys /\ run \in [DOMAIN run -> Entries] /\ list \in Seq(Supervisors)
  /\ \A k \in DOMAIN run : run[k].id \in 1..Len(list) /\ list[run[k].id].key = k
  /\ \A i \in 1..Len(list) :
       ~list[i].done => list[i].key \in DOMAIN run /\ run[list[i].key].id = i

(* A target that is not being retired is enabled, and runs as configured unless the
   command at hand has yet to stop it. *)
AsConfigured(run, list, cfg, off, pending) ==
  \A k \in DOMAIN run :
    ~run[k].retiring =>
      k \notin off /\ (k \in pending \/ (k \in DOMAIN cfg /\ list[run[k].id].version = cfg[k]))

Pending == {todo[i] : i \in 1..Len(todo)}

CoordinatorInv ==
  /\ fileConfig \in Configs /\ config \in Configs /\ todo \in Seq(Keys)
  /\ doing \in {"idle", "drain", "shutdown"}
  /\ Tracks(current, tasks)
  /\ AsConfigured(current, tasks, config, disabled, Pending)
  /\ doing # "drain" => todo = << >>
  /\ todo # << >> /\ Head(todo) \in DOMAIN current => current[Head(todo)].retiring
  /\ PromisesSurvive
  /\ \A k \in DOMAIN promised : (k \in saved) <=> (promised[k] = "disabled")

(* The keys of a finite set in some order: each of them, once. *)
LEMMA KeysInOrder ==
  ASSUME NEW S, IsFiniteSet(S)
  PROVE  LET q == SetToSeq(S)
         IN /\ q \in Seq(S)
            /\ \A i, j \in 1..Len(q) : q[i] = q[j] => i = j
            /\ \A x \in S : \E i \in 1..Len(q) : q[i] = x
<1> DEFINE n == Cardinality(S)
           q == SetToSeq(S)
           R == {q[i] : i \in 1..n}
<1>1. n \in Nat /\ ExistsBijection(1..n, S)
  BY FS_CardinalityType
<1>2. \E f \in [1..n -> S] : IsInjective(f)
  BY <1>1 DEF ExistsBijection, Bijection, Injection
<1>3. q \in [1..n -> S] /\ IsInjective(q)
  BY <1>2 DEF SetToSeq
<1> HIDE DEF q, n
<1>4. q \in Seq(S) /\ Len(q) = n
  <2>1. q \in Seq(S)
    BY <1>1, <1>3, SeqDef
  <2> QED
    BY <1>1, <1>3, <2>1, LenProperties
<1>5. R = S
  <2>1. R \in SUBSET S /\ IsFiniteSet(R)
    BY <1>3, FS_Subset
  <2>2. q \in Bijection(1..n, R)
    BY <1>3 DEF Bijection, Injection, Surjection, IsInjective
  <2>3. ExistsBijection(1..n, R)
    BY <2>2 DEF ExistsBijection
  <2>4. IsFiniteSet(1..n) /\ Cardinality(1..n) = n
    BY <1>1, FS_Interval
  <2>5. Cardinality(R) = n
    BY <2>3, <2>4, FS_Bijection
  <2> QED
    BY <2>1, <2>5, FS_Subset DEF n
<1> QED
  BY <1>3, <1>4, <1>5 DEF IsInjective, q

(* Configurations are partial maps of the targets. *)
LEMMA ConfigTypes ==
  ASSUME NEW cfg \in Configs
  PROVE  /\ DOMAIN cfg \subseteq Keys /\ IsFiniteSet(DOMAIN cfg)
         /\ \A k \in DOMAIN cfg : cfg[k] \in Versions
<1>1. PICK ks \in SUBSET Keys : cfg \in [ks -> Versions]
  BY DEF Configs
<1> QED
  BY <1>1, FS_Subset, CoordinatorConstants

(* Starting targets (spawn_target): no target that has a supervisor gets another, and what
   is started is enabled and runs as configured. *)
LEMMA Spawning ==
  ASSUME NEW run, NEW list, NEW ks, NEW cfg \in Configs, NEW off, Tracks(run, list)
  PROVE  LET s == Spawned(ks, cfg, off, run, list)
         IN /\ Tracks(s.run, s.list)
            /\ \A k \in DOMAIN run : k \in DOMAIN s.run /\ s.run[k] = run[k]
            /\ \A pending : AsConfigured(run, list, cfg, off, pending) =>
                              AsConfigured(s.run, s.list, cfg, off, pending)
<1> DEFINE new == {k \in ks : k \in DOMAIN cfg /\ k \notin off /\ k \notin DOMAIN run}
           q == SetToSeq(new)
           more == [i \in DOMAIN q |->
                      [key |-> q[i], version |-> cfg[q[i]], told |-> FALSE, done |-> FALSE]]
           s == Spawned(ks, cfg, off, run, list)
<1>0. /\ DOMAIN run \subseteq Keys /\ run \in [DOMAIN run -> Entries] /\ list \in Seq(Supervisors)
      /\ Len(list) \in Nat
      /\ \A k \in DOMAIN run : run[k].id \in 1..Len(list) /\ list[run[k].id].key = k
      /\ \A i \in 1..Len(list) :
           ~list[i].done => list[i].key \in DOMAIN run /\ run[list[i].key].id = i
  BY DEF Tracks
<1>1. new \subseteq Keys /\ IsFiniteSet(new)
  BY ConfigTypes, FS_Subset
<1>2. /\ q \in Seq(new) /\ DOMAIN q = 1..Len(q) /\ Len(q) \in Nat
      /\ \A i, j \in 1..Len(q) : q[i] = q[j] => i = j
  BY <1>1, KeysInOrder, LenProperties
<1>3. \A i \in 1..Len(q) : q[i] \in new
  BY <1>2, ElementOfSeq
<1>4. /\ DOMAIN s.run = DOMAIN run \cup {q[i] : i \in 1..Len(q)}
      /\ \A k \in DOMAIN run : s.run[k] = run[k]
      /\ \A i \in 1..Len(q) : s.run[q[i]] \in Entries /\ s.run[q[i]].id = Len(list) + i
  <2>1. s.run = [k \in DOMAIN run \cup {q[i] : i \in 1..Len(q)} |->
                   IF k \in DOMAIN run THEN run[k]
                   ELSE [id |-> Len(list) + (CHOOSE i \in DOMAIN q : q[i] = k), retiring |-> FALSE]]
    BY <1>2 DEF Spawned, ToSet
  <2>2. ASSUME NEW i \in 1..Len(q) PROVE (CHOOSE j \in DOMAIN q : q[j] = q[i]) = i
    BY <1>2
  <2>3. \A i \in 1..Len(q) : q[i] \notin DOMAIN run
    BY <1>3
  <2> HIDE DEF q, s, new
  <2>4. DOMAIN s.run = DOMAIN run \cup {q[i] : i \in 1..Len(q)}
    BY <2>1
  <2>5. \A k \in DOMAIN run : s.run[k] = run[k]
    BY <2>1
  <2>6. ASSUME NEW i \in 1..Len(q) PROVE s.run[q[i]] \in Entries /\ s.run[q[i]].id = Len(list) + i
    <3>1. q[i] \in DOMAIN run \cup {q[j] : j \in 1..Len(q)} /\ q[i] \notin DOMAIN run
      BY <2>3
    <3>2. s.run[q[i]] = [id |-> Len(list) + (CHOOSE j \in DOMAIN q : q[j] = q[i]), retiring |-> FALSE]
      BY <2>1, <3>1
    <3>3. s.run[q[i]] = [id |-> Len(list) + i, retiring |-> FALSE]
      BY <2>2, <3>2
    <3>4. Len(list) + i \in Nat
      BY <1>0, <1>2
    <3> QED
      BY <3>3, <3>4 DEF Entries
  <2> QED
    BY <2>4, <2>5, <2>6
<1>5. s.list = list \o more
  BY DEF Spawned
<1>6. /\ more \in Seq(Supervisors) /\ Len(more) = Len(q)
      /\ \A i \in 1..Len(q) : more[i].key = q[i] /\ more[i].version = cfg[q[i]]
  <2>1. \A i \in 1..Len(q) : q[i] \in Keys /\ cfg[q[i]] \in Versions
    BY <1>1, <1>3, ConfigTypes
  <2>2. more \in [1..Len(q) -> Supervisors]
    <3> HIDE DEF q
    <3> QED
      BY <1>2, <2>1 DEF Supervisors
  <2> HIDE DEF q
  <2>3. ASSUME NEW i \in 1..Len(q) PROVE more[i].key = q[i] /\ more[i].version = cfg[q[i]]
    BY <1>2
  <2> HIDE DEF more
  <2>4. more \in Seq(Supervisors)
    BY <1>2, <2>2, SeqDef
  <2> QED
    BY <1>2, <2>2, <2>3, <2>4, LenProperties
<1> HIDE DEF more
<1>7. /\ s.list \in Seq(Supervisors) /\ Len(s.list) = Len(list) + Len(q)
      /\ \A i \in 1..Len(list) : s.list[i] = list[i]
      /\ \A i \in 1..Len(q) : s.list[Len(list) + i] = more[i]
  <2> HIDE DEF q, s
  <2>0. list \in Seq(Supervisors) /\ more \in Seq(Supervisors) /\ Len(more) = Len(q)
    BY <1>0, <1>6
  <2>1. list \o more \in Seq(Supervisors) /\ Len(list \o more) = Len(list) + Len(more)
    BY <2>0, ConcatProperties, Zenon
  <2>2. \A i \in 1..(Len(list) + Len(q)) :
          (list \o more)[i] = IF i <= Len(list) THEN list[i] ELSE more[i - Len(list)]
    BY <1>0, <1>6, ConcatProperties
  <2>3. \A i \in 1..Len(q) : /\ Len(list) + i \in 1..(Len(list) + Len(q))
                             /\ ~(Len(list) + i <= Len(list)) /\ (Len(list) + i) - Len(list) = i
    BY <1>0, <1>2
  <2>4. \A i \in 1..Len(list) : i \in 1..(Len(list) + Len(q)) /\ i <= Len(list)
    BY <1>0, <1>2
  <2> QED
    BY <1>5, <2>0, <2>1, <2>2, <2>3, <2>4
<1>8. DOMAIN s.run \subseteq Keys /\ s.run \in [DOMAIN s.run -> Entries]
  <2>1. \A i \in 1..Len(q) : q[i] \in Keys
    BY <1>1, <1>3
  <2>2. s.run = [k \in DOMAIN s.run |-> s.run[k]]
    BY DEF Spawned
  <2> HIDE DEF q, s, new
  <2>3. \A k \in DOMAIN run : s.run[k] \in Entries
    BY <1>0, <1>4
  <2>5. \A k \in DOMAIN s.run : s.run[k] \in Entries
    BY <1>4, <2>3
  <2>6. DOMAIN s.run \subseteq Keys
    BY <1>0, <1>4, <2>1
  <2> QED
    BY <2>2, <2>5, <2>6
<1>9. \A k \in DOMAIN s.run : s.run[k].id \in 1..Len(s.list) /\ s.list[s.run[k].id].key = k
  <2> HIDE DEF q, s, new
  <2>1. ASSUME NEW k \in DOMAIN run
        PROVE  s.run[k].id \in 1..Len(s.list) /\ s.list[s.run[k].id].key = k
    BY <1>0, <1>2, <1>4, <1>7
  <2>2. ASSUME NEW i \in 1..Len(q)
        PROVE  s.run[q[i]].id \in 1..Len(s.list) /\ s.list[s.run[q[i]].id].key = q[i]
    <3>1. s.run[q[i]].id = Len(list) + i /\ Len(list) + i \in 1..Len(s.list)
      BY <1>0, <1>2, <1>4, <1>7
    <3>2. s.list[Len(list) + i].key = q[i]
      BY <1>6, <1>7
    <3> QED
      BY <3>1, <3>2
  <2> QED
    BY <1>4, <2>1, <2>2, SMTT(30)
<1>10. \A i \in 1..Len(s.list) :
         ~s.list[i].done => s.list[i].key \in DOMAIN s.run /\ s.run[s.list[i].key].id = i
  <2> HIDE DEF q, s, new
  <2> SUFFICES ASSUME NEW i \in 1..Len(s.list), ~s.list[i].done
               PROVE  s.list[i].key \in DOMAIN s.run /\ s.run[s.list[i].key].id = i
    OBVIOUS
  <2>1. CASE i \in 1..Len(list)
    BY <1>0, <1>4, <1>7, <2>1
  <2>2. ASSUME NEW j \in 1..Len(q), i = Len(list) + j
        PROVE  s.list[i].key \in DOMAIN s.run /\ s.run[s.list[i].key].id = i
    <3>1. s.list[i].key = q[j] /\ q[j] \in DOMAIN s.run
      BY <1>4, <1>6, <1>7, <2>2
    <3>2. s.run[q[j]].id = Len(list) + j
      BY <1>4
    <3> QED
      BY <2>2, <3>1, <3>2
  <2>3. i \in 1..Len(list) \/ \E j \in 1..Len(q) : i = Len(list) + j
    <3>1. i - Len(list) \in 1..Len(q) \/ i \in 1..Len(list)
      BY <1>0, <1>2, <1>7
    <3> QED
      BY <1>0, <1>2, <1>7, <3>1
  <2> QED
    BY <2>1, <2>2, <2>3
<1>11. ASSUME NEW pending, AsConfigured(run, list, cfg, off, pending)
       PROVE  AsConfigured(s.run, s.list, cfg, off, pending)
  <2>0. \A i \in 1..Len(q) : q[i] \in DOMAIN cfg /\ q[i] \notin off
    BY <1>3
  <2> HIDE DEF q, s, new
  <2> SUFFICES ASSUME NEW k \in DOMAIN s.run, ~s.run[k].retiring
               PROVE  /\ k \notin off
                      /\ k \in pending \/ (k \in DOMAIN cfg /\ s.list[s.run[k].id].version = cfg[k])
    BY DEF AsConfigured
  <2>1. CASE k \in DOMAIN run
    BY <1>0, <1>4, <1>7, <1>11, <2>1 DEF AsConfigured
  <2>2. ASSUME NEW i \in 1..Len(q), k = q[i]
        PROVE  k \notin off /\ k \in DOMAIN cfg /\ s.list[s.run[k].id].version = cfg[k]
    <3>1. s.run[k].id = Len(list) + i
      BY <1>4, <2>2
    <3>2. s.list[Len(list) + i].version = cfg[k]
      BY <1>6, <1>7, <2>2
    <3> QED
      BY <2>0, <2>2, <3>1, <3>2
  <2> QED
    BY <1>4, <2>1, <2>2
<1> QED
  BY <1>4, <1>7, <1>8, <1>9, <1>10, <1>11 DEF Tracks

(* Joining supervisors that have ended (collect_finished, stop_target). *)
LEMMA Joining ==
  ASSUME NEW run, NEW list, NEW kept \in SUBSET DOMAIN run, Tracks(run, list),
         \A k \in DOMAIN run \ kept : list[run[k].id].done
  PROVE  LET left == [k \in kept |-> run[k]]
         IN /\ Tracks(left, list)
            /\ \A cfg, off, pending : AsConfigured(run, list, cfg, off, pending) =>
                                        AsConfigured(left, list, cfg, off, pending)
<1> DEFINE left == [k \in kept |-> run[k]]
<1>1. /\ DOMAIN left = kept /\ kept \subseteq DOMAIN run /\ left = [k \in DOMAIN left |-> left[k]]
      /\ \A k \in kept : left[k] = run[k]
  OBVIOUS
<1> HIDE DEF left
<1>2. DOMAIN left \subseteq Keys /\ left \in [DOMAIN left -> Entries] /\ list \in Seq(Supervisors)
  BY <1>1 DEF Tracks
<1>3. \A k \in DOMAIN left : left[k].id \in 1..Len(list) /\ list[left[k].id].key = k
  BY <1>1 DEF Tracks
<1>4. ASSUME NEW i \in 1..Len(list), ~list[i].done
      PROVE  list[i].key \in DOMAIN left /\ left[list[i].key].id = i
  <2>1. list[i].key \in DOMAIN run /\ run[list[i].key].id = i
    BY <1>4 DEF Tracks
  <2>2. list[i].key \in kept
    BY <1>4, <2>1
  <2> QED
    BY <1>1, <2>1, <2>2
<1>5. ASSUME NEW cfg, NEW off, NEW pending, AsConfigured(run, list, cfg, off, pending)
      PROVE  AsConfigured(left, list, cfg, off, pending)
  BY <1>1, <1>5 DEF AsConfigured
<1> QED
  BY <1>2, <1>3, <1>4, <1>5 DEF Tracks, left

(* What every command and every reconciliation begins with (collect_finished). *)
LEMMA Collecting ==
  ASSUME Tracks(current, tasks), config \in Configs
  PROVE  /\ Tracks(Collected.run, Collected.list)
         /\ \A pending : AsConfigured(current, tasks, config, disabled, pending) =>
                           AsConfigured(Collected.run, Collected.list, config, disabled, pending)
<1> DEFINE kept == {x \in DOMAIN current : ~Task(x).done}
           left == [k \in kept |-> current[k]]
<1>1. \A k \in DOMAIN current \ kept : tasks[current[k].id].done
  BY DEF Task
<1>2. /\ Tracks(left, tasks)
      /\ \A pending : AsConfigured(current, tasks, config, disabled, pending) =>
                        AsConfigured(left, tasks, config, disabled, pending)
  <2>1. kept \in SUBSET DOMAIN current
    OBVIOUS
  <2> HIDE DEF kept
  <2> QED
    BY <1>1, <2>1, Joining
<1>3. Collected = Spawned(DOMAIN config, config, disabled, left, tasks)
  BY DEF Collected
<1> HIDE DEF left
<1> QED
  BY <1>2, <1>3, Spawning

(* Telling supervisors to stop (the first step of stop_target): their targets are being
   retired, and nothing else about them changes. *)
LEMMA Telling ==
  ASSUME NEW keys, NEW run, NEW list, Tracks(run, list), Tell(keys, run, list)
  PROVE  /\ Tracks(current', tasks')
         /\ DOMAIN current' = DOMAIN run
         /\ \A k \in keys \cap DOMAIN run : current'[k].retiring
         /\ \A cfg, off, pending : AsConfigured(run, list, cfg, off, pending) =>
                                     AsConfigured(current', tasks', cfg, off, pending)
         /\ \A k \in DOMAIN run : k \notin keys => current'[k] = run[k]
<1>0. /\ DOMAIN run \subseteq Keys /\ list \in Seq(Supervisors) /\ DOMAIN list = 1..Len(list)
      /\ Len(list) \in Nat
      /\ \A k \in DOMAIN run : run[k] \in Entries
      /\ \A i \in 1..Len(list) : list[i] \in Supervisors
  BY LenProperties, ElementOfSeq DEF Tracks
<1>1. /\ DOMAIN current' = DOMAIN run /\ current' = [k \in DOMAIN current' |-> current'[k]]
      /\ \A k \in DOMAIN run : k \notin keys => current'[k] = run[k]
  BY DEF Tell
<1>2. ASSUME NEW k \in DOMAIN run
      PROVE  /\ current'[k] \in Entries /\ current'[k].id = run[k].id
             /\ run[k].retiring \/ k \in keys => current'[k].retiring
  <2>1. current'[k] = IF k \in keys THEN [run[k] EXCEPT !.retiring = TRUE] ELSE run[k]
    BY DEF Tell
  <2> QED
    BY <1>0, <2>1 DEF Entries
<1>3. DOMAIN tasks' = 1..Len(list) /\ tasks' = [i \in DOMAIN tasks' |-> tasks'[i]]
  BY <1>0 DEF Tell
<1>4. ASSUME NEW i \in 1..Len(list)
      PROVE  /\ tasks'[i] \in Supervisors /\ tasks'[i].key = list[i].key
             /\ tasks'[i].version = list[i].version /\ tasks'[i].done = list[i].done
  <2>1. tasks'[i] = list[i] \/ tasks'[i] = [list[i] EXCEPT !.told = TRUE]
    BY <1>0 DEF Tell
  <2> QED
    BY <1>0, <2>1 DEF Supervisors
<1>5. tasks' \in Seq(Supervisors) /\ Len(tasks') = Len(list)
  <2>1. tasks' \in [1..Len(list) -> Supervisors]
    BY <1>3, <1>4
  <2>2. tasks' \in Seq(Supervisors)
    BY <1>0, <2>1, SeqDef
  <2> QED
    BY <1>0, <2>1, <2>2, LenProperties
<1>6. Tracks(current', tasks')
  <2>1. DOMAIN current' \subseteq Keys /\ current' \in [DOMAIN current' -> Entries]
    BY <1>0, <1>1, <1>2
  <2>2. \A k \in DOMAIN current' : current'[k].id \in 1..Len(tasks') /\ tasks'[current'[k].id].key = k
    BY <1>1, <1>2, <1>4, <1>5 DEF Tracks
  <2>3. \A i \in 1..Len(tasks') :
          ~tasks'[i].done => tasks'[i].key \in DOMAIN current' /\ current'[tasks'[i].key].id = i
    BY <1>1, <1>2, <1>4, <1>5 DEF Tracks
  <2> QED
    BY <1>5, <2>1, <2>2, <2>3 DEF Tracks
<1>7. ASSUME NEW cfg, NEW off, NEW pending, AsConfigured(run, list, cfg, off, pending)
      PROVE  AsConfigured(current', tasks', cfg, off, pending)
  <2>1. \A k \in DOMAIN run : run[k].id \in 1..Len(list)
    BY DEF Tracks
  <2> QED
    BY <1>1, <1>2, <1>4, <1>7, <2>1 DEF AsConfigured
<1> QED
  BY <1>1, <1>2, <1>6, <1>7

(* A process that starts has one supervisor for every target it should run. *)
LEMMA Starting ==
  ASSUME NEW cfg \in Configs, NEW off
  PROVE  LET s == Started(cfg, off)
         IN Tracks(s.run, s.list) /\ AsConfigured(s.run, s.list, cfg, off, {})
<1>1. << >> \in Seq(Supervisors) /\ Len(<< >>) = 0 /\ DOMAIN << >> = {}
  BY EmptySeq
<1>2. Tracks(<< >>, << >>)
  <2>1. << >> \in [DOMAIN << >> -> Entries]
    BY <1>1
  <2> QED
    BY <1>1, <2>1 DEF Tracks
<1>3. AsConfigured(<< >>, << >>, cfg, off, {})
  BY <1>1 DEF AsConfigured
<1> QED
  BY <1>2, <1>3, Spawning DEF Started

(* With nothing left to stop, nothing is pending. *)
LEMMA NothingPending == todo = << >> => Pending = {}
BY DEF Pending

LEMMA CoordinatorInvInit == CoordinatorInit => CoordinatorInv
<1> SUFFICES ASSUME CoordinatorInit PROVE CoordinatorInv
  OBVIOUS
<1>1. /\ fileConfig \in Configs /\ config \in Configs /\ todo = << >> /\ doing = "idle"
      /\ todo \in Seq(Keys) /\ saved = disabled /\ promised = [k \in disabled |-> "disabled"]
  BY EmptySeq DEF CoordinatorInit
<1>2. Tracks(current, tasks) /\ AsConfigured(current, tasks, config, disabled, Pending)
  BY <1>1, Starting, NothingPending DEF CoordinatorInit
<1>3. PromisesSurvive /\ \A k \in DOMAIN promised : (k \in saved) <=> (promised[k] = "disabled")
  BY <1>1 DEF PromisesSurvive
<1> QED
  BY <1>1, <1>2, <1>3 DEF CoordinatorInv

(* What was promised, in memory and in the file (persist_disabled). *)
Promised(off) == \A k \in DOMAIN promised : (k \in off) <=> (promised[k] = "disabled")

LEMMA Persisting ==
  ASSUME NEW key, NEW what, Persist(key, what), Promised(disabled), Promised(saved),
         (what = "disabled" /\ disabled' = disabled \cup {key})
           \/ (what = "enabled" /\ disabled' = disabled \ {key})
  PROVE  /\ \A k \in DOMAIN promised' : (k \in disabled') <=> (promised'[k] = "disabled")
         /\ \A k \in DOMAIN promised' : (k \in saved') <=> (promised'[k] = "disabled")
<1>1. CASE /\ saved' = disabled'
           /\ promised' = [k \in DOMAIN promised \cup {key} |-> IF k = key THEN what ELSE promised[k]]
  BY <1>1 DEF Promised
<1>2. CASE saved' = saved /\ promised' = Without(promised, key)
  BY <1>2 DEF Promised, Without
<1> QED
  BY <1>1, <1>2 DEF Persist

(* A command to disable a target, to enable one, and the periodic reconciliation. *)
LEMMA CommandKeepsInv ==
  ASSUME CoordinatorInv, Reconcile \/ \E k \in Keys : Disable(k) \/ Enable(k)
  PROVE  CoordinatorInv'
<1>0. /\ doing = "idle" /\ todo = << >> /\ todo \in Seq(Keys) /\ Pending = {}
      /\ Tracks(current, tasks) /\ AsConfigured(current, tasks, config, disabled, {})
      /\ fileConfig' = fileConfig /\ config' = config
      /\ fileConfig \in Configs /\ config \in Configs /\ Promised(disabled) /\ Promised(saved)
  BY NothingPending DEF CoordinatorInv, Reconcile, Disable, Enable, Promised, PromisesSurvive
<1>1. /\ Tracks(Collected.run, Collected.list)
      /\ AsConfigured(Collected.run, Collected.list, config, disabled, {})
  BY <1>0, Collecting
<1>2. CASE Reconcile
  <2>1. Tracks(current', tasks') /\ AsConfigured(current', tasks', config', disabled', Pending')
    BY <1>0, <1>1, <1>2 DEF Reconcile, Pending
  <2>2. todo' = << >> /\ doing' = "idle" /\ UNCHANGED <<promised, saved, disabled>>
    BY <1>0, <1>2 DEF Reconcile
  <2> QED
    BY <1>0, <2>1, <2>2 DEF CoordinatorInv, Promised, PromisesSurvive
<1>3. ASSUME NEW key \in Keys, Disable(key) PROVE CoordinatorInv'
  <2> DEFINE run == Collected.run
             list == Collected.list
  <2>1. /\ Tracks(current', tasks') /\ DOMAIN current' = DOMAIN run
        /\ key \in DOMAIN run => current'[key].retiring
        /\ AsConfigured(current', tasks', config, disabled, {})
    BY <1>1, <1>3, Telling DEF Disable
  <2>2. AsConfigured(current', tasks', config', disabled', Pending')
    <3>1. disabled' = disabled \cup {key}
      BY <1>3 DEF Disable
    <3> HIDE DEF run
    <3> QED
      BY <1>0, <2>1, <3>1 DEF AsConfigured
  <2>3. \/ doing' = "idle" /\ todo' = << >>
        \/ doing' = "drain" /\ todo' = <<key>> /\ key \in DOMAIN run
    BY <1>0, <1>3 DEF Disable
  <2>4. /\ todo' \in Seq(Keys) /\ doing' \in {"idle", "drain", "shutdown"}
        /\ doing' # "drain" => todo' = << >>
        /\ todo' # << >> /\ Head(todo') \in DOMAIN current' => current'[Head(todo')].retiring
    <3>1. <<key>> \in Seq(Keys) /\ Head(<<key>>) = key /\ << >> \in Seq(Keys)
      OBVIOUS
    <3> QED
      BY <2>1, <2>3, <3>1
  <2>5. /\ \A k \in DOMAIN promised' : (k \in disabled') <=> (promised'[k] = "disabled")
        /\ \A k \in DOMAIN promised' : (k \in saved') <=> (promised'[k] = "disabled")
    BY <1>0, <1>3, Persisting DEF Disable
  <2> QED
    BY <1>0, <2>1, <2>2, <2>4, <2>5 DEF CoordinatorInv, PromisesSurvive
<1>4. ASSUME NEW key \in Keys, Enable(key) PROVE CoordinatorInv'
  <2> DEFINE s == Spawned({key}, config, disabled', Collected.run, Collected.list)
  <2>1. current' = s.run /\ tasks' = s.list /\ disabled' = disabled \ {key}
    BY <1>4 DEF Enable
  <2>2. AsConfigured(Collected.run, Collected.list, config, disabled', {})
    BY <1>1, <2>1 DEF AsConfigured
  <2>3. Tracks(current', tasks') /\ AsConfigured(current', tasks', config, disabled', {})
    BY <1>0, <1>1, <2>1, <2>2, Spawning
  <2>4. todo' = << >> /\ doing' = "idle" /\ Pending' = {}
    BY <1>0, <1>4 DEF Enable, Pending
  <2>5. /\ \A k \in DOMAIN promised' : (k \in disabled') <=> (promised'[k] = "disabled")
        /\ \A k \in DOMAIN promised' : (k \in saved') <=> (promised'[k] = "disabled")
    BY <1>0, <1>4, Persisting DEF Enable
  <2> QED
    BY <1>0, <2>3, <2>4, <2>5 DEF CoordinatorInv, PromisesSurvive
<1> QED
  BY <1>2, <1>3, <1>4

(* A reload: what is outdated is pending until it has been told to stop. *)
LEMMA ReloadKeepsInv ==
  ASSUME CoordinatorInv, Reload
  PROVE  CoordinatorInv'
<1> DEFINE run == Collected.run
           list == Collected.list
           old == Outdated(Collected)
           first == IF todo' = << >> THEN {} ELSE {Head(todo')}
<1>0. /\ Pending = {} /\ Tracks(current, tasks)
      /\ AsConfigured(current, tasks, config, disabled, {})
      /\ fileConfig \in Configs /\ config \in Configs
      /\ config' = fileConfig /\ UNCHANGED <<fileConfig, disabled, saved, promised>>
      /\ todo' = SetToSeq(old) /\ doing' = "drain" /\ Tell(first, run, list)
  BY NothingPending DEF CoordinatorInv, Reload
<1>1. Tracks(run, list) /\ AsConfigured(run, list, config, disabled, {})
  BY <1>0, Collecting
<1>2. old \subseteq Keys /\ IsFiniteSet(old)
  <2>1. old \subseteq DOMAIN run /\ DOMAIN run \subseteq Keys
    BY <1>1 DEF Outdated, Tracks
  <2> QED
    BY <2>1, FS_Subset, CoordinatorConstants
<1>3. todo' \in Seq(Keys) /\ \A k \in old : k \in Pending'
  <2>1. todo' \in Seq(old) /\ \A x \in old : \E i \in 1..Len(todo') : todo'[i] = x
    BY <1>0, <1>2, KeysInOrder
  <2> QED
    BY <1>2, <2>1, SeqMonotonic DEF Pending
<1>4. AsConfigured(run, list, config', disabled', Pending')
  <2>1. \A k \in DOMAIN run : k \notin old => k \in DOMAIN fileConfig /\ list[run[k].id].version = fileConfig[k]
    BY DEF Outdated
  <2> HIDE DEF run, list, old
  <2> QED
    BY <1>0, <1>1, <1>3, <2>1 DEF AsConfigured
<1>5. /\ Tracks(current', tasks') /\ AsConfigured(current', tasks', config', disabled', Pending')
      /\ DOMAIN current' = DOMAIN run /\ \A k \in first \cap DOMAIN run : current'[k].retiring
  <2> HIDE DEF run, list, first
  <2> QED
    BY <1>0, <1>1, <1>4, Telling
<1>6. todo' # << >> /\ Head(todo') \in DOMAIN current' => current'[Head(todo')].retiring
  BY <1>5
<1> HIDE DEF run, list, first, old
<1> QED
  BY <1>0, <1>3, <1>5, <1>6 DEF CoordinatorInv, PromisesSurvive

(* The command at hand stops one target after the other. *)
LEMMA DrainKeepsInv ==
  ASSUME CoordinatorInv, Drain
  PROVE  CoordinatorInv'
<1> DEFINE run == Drained(Head(todo))
           next == IF Len(todo) > 1 THEN {todo[2]} ELSE {}
<1>0. /\ todo \in Seq(Keys) /\ todo # << >> /\ doing = "drain" /\ doing' = doing
      /\ Tracks(current, tasks) /\ AsConfigured(current, tasks, config, disabled, Pending)
      /\ Head(todo) \in DOMAIN current => current[Head(todo)].retiring
      /\ todo' = Tail(todo) /\ Tell(next, run, tasks)
      /\ UNCHANGED <<fileConfig, config, disabled, saved, promised>>
      /\ fileConfig \in Configs /\ config \in Configs
  BY DEF CoordinatorInv, Drain
<1>1. /\ Len(todo) \in Nat /\ Len(todo) # 0 /\ Head(todo) = todo[1] /\ Tail(todo) \in Seq(Keys)
      /\ Len(Tail(todo)) = Len(todo) - 1 /\ \A i \in 1..Len(Tail(todo)) : Tail(todo)[i] = todo[i + 1]
  BY <1>0, HeadTailProperties
<1>2. \A k \in Pending : k = Head(todo) \/ k \in Pending'
  <2>1. ASSUME NEW i \in 1..Len(todo), i # 1 PROVE todo[i] \in Pending'
    <3>1. i - 1 \in 1..Len(todo') /\ todo'[i - 1] = todo[i]
      BY <1>0, <1>1, <2>1
    <3> QED
      BY <3>1 DEF Pending
  <2> QED
    BY <1>1, <2>1 DEF Pending
<1>3. Tracks(run, tasks) /\ AsConfigured(run, tasks, config, disabled, Pending)
      /\ \A k \in DOMAIN run : k \in DOMAIN current /\ run[k] = current[k]
  <2>1. CASE ~Task(Head(todo)).done
    BY <1>0, <2>1 DEF Drained
  <2>2. CASE Task(Head(todo)).done
    <3> DEFINE kept == DOMAIN current \ {Head(todo)}
    <3>1. run = [k \in kept |-> current[k]]
      BY <2>2 DEF Drained, Without
    <3>2. kept \in SUBSET DOMAIN current /\ \A k \in DOMAIN current \ kept : tasks[current[k].id].done
      BY <2>2 DEF Task
    <3>3. DOMAIN run = kept /\ \A k \in kept : run[k] = current[k]
      BY <3>1
    <3> HIDE DEF kept, run, next
    <3>4. Tracks(run, tasks)
      BY <1>0, <3>1, <3>2, Joining
    <3>5. AsConfigured(run, tasks, config, disabled, Pending)
      BY <1>0, <3>1, <3>2, Joining
    <3> QED
      BY <3>2, <3>3, <3>4, <3>5
  <2> QED
    BY <2>1, <2>2
<1> HIDE DEF run
<1>4. AsConfigured(run, tasks, config, disabled, Pending')
  BY <1>0, <1>2, <1>3 DEF AsConfigured
<1>5. /\ Tracks(current', tasks') /\ AsConfigured(current', tasks', config, disabled, Pending')
      /\ DOMAIN current' = DOMAIN run /\ \A k \in next \cap DOMAIN run : current'[k].retiring
  <2> HIDE DEF next
  <2> QED
    BY <1>0, <1>3, <1>4, Telling
<1>6. todo' # << >> => Head(todo') \in next
  <2>1. ASSUME todo' # << >> PROVE Len(todo) > 1 /\ Head(todo') = todo[2]
    BY <1>0, <1>1, <2>1
  <2> QED
    BY <2>1
<1> HIDE DEF next
<1> QED
  BY <1>0, <1>1, <1>5, <1>6 DEF CoordinatorInv, PromisesSurvive

(* The end of a command; the steps of supervisors and of the operator; the end of the
   process and its restart. *)
LEMMA OthersKeepInv ==
  ASSUME CoordinatorInv,
         \/ EndCommand \/ Shutdown \/ Restart \/ \E k \in Keys : JoinAtShutdown(k)
         \/ \E i \in DOMAIN tasks : SupervisorEnds(i)
         \/ \E cfg \in Configs : Edit(cfg)
  PROVE  CoordinatorInv'
<1>0. /\ fileConfig \in Configs /\ config \in Configs /\ todo \in Seq(Keys)
      /\ Tracks(current, tasks) /\ AsConfigured(current, tasks, config, disabled, Pending)
      /\ doing # "drain" => todo = << >>
      /\ << >> \in Seq(Keys)
  BY EmptySeq DEF CoordinatorInv
<1>1. CASE EndCommand
  <2> DEFINE s == Spawned(DOMAIN config, config, disabled, current, tasks)
  <2>1. /\ Tracks(s.run, s.list) /\ AsConfigured(s.run, s.list, config, disabled, Pending)
    BY <1>0, Spawning
  <2>2. (current' = s.run /\ tasks' = s.list) \/ UNCHANGED <<current, tasks>>
    BY <1>1 DEF EndCommand
  <2>3. /\ todo = << >> /\ doing' = "idle"
        /\ UNCHANGED <<fileConfig, config, disabled, saved, todo, promised>>
    BY <1>1 DEF EndCommand
  <2> HIDE DEF s
  <2>4. Pending' = Pending
    BY <2>3 DEF Pending
  <2> QED
    BY <1>0, <2>1, <2>2, <2>3, <2>4 DEF CoordinatorInv, PromisesSurvive
<1>2. CASE Shutdown
  <2>1. /\ todo = << >> /\ doing' = "shutdown" /\ Tell(DOMAIN current, current, tasks)
        /\ UNCHANGED <<fileConfig, config, disabled, saved, todo, promised>>
    BY <1>0, <1>2 DEF Shutdown
  <2>2. Tracks(current', tasks') /\ AsConfigured(current', tasks', config, disabled, Pending)
    BY <1>0, <2>1, Telling
  <2>3. Pending' = Pending
    BY <2>1 DEF Pending
  <2> QED
    BY <1>0, <2>1, <2>2, <2>3 DEF CoordinatorInv, PromisesSurvive
<1>3. CASE Restart
  <2>1. /\ config' = fileConfig /\ disabled' = saved /\ doing' = "idle" /\ todo' = << >>
        /\ UNCHANGED <<fileConfig, saved, promised>>
        /\ LET s == Started(config', disabled') IN current' = s.run /\ tasks' = s.list
    BY <1>3 DEF Restart
  <2>2. Tracks(current', tasks') /\ AsConfigured(current', tasks', config', disabled', {})
    BY <1>0, <2>1, Starting
  <2>3. Pending' = {}
    BY <2>1 DEF Pending
  <2> QED
    BY <1>0, <2>1, <2>2, <2>3 DEF CoordinatorInv, PromisesSurvive
<1>4. ASSUME NEW key \in Keys, JoinAtShutdown(key) PROVE CoordinatorInv'
  <2> DEFINE kept == DOMAIN current \ {key}
  <2>1. /\ current' = [k \in kept |-> current[k]] /\ todo = << >>
        /\ UNCHANGED <<fileConfig, config, disabled, saved, tasks, doing, todo, promised>>
    BY <1>0, <1>4 DEF JoinAtShutdown, Without
  <2>2. kept \in SUBSET DOMAIN current /\ \A k \in DOMAIN current \ kept : tasks[current[k].id].done
    BY <1>4 DEF JoinAtShutdown, Task
  <2> HIDE DEF kept
  <2>3. Tracks(current', tasks)
    BY <1>0, <2>1, <2>2, Joining
  <2>4. AsConfigured(current', tasks, config, disabled, Pending)
    BY <1>0, <2>1, <2>2, Joining
  <2>5. Pending' = Pending
    BY <2>1 DEF Pending
  <2> QED
    BY <1>0, <2>1, <2>3, <2>4, <2>5 DEF CoordinatorInv, PromisesSurvive
<1>5. ASSUME NEW n \in DOMAIN tasks, SupervisorEnds(n) PROVE CoordinatorInv'
  <2>1. /\ tasks' = [tasks EXCEPT ![n].done = TRUE] /\ tasks \in Seq(Supervisors)
        /\ UNCHANGED <<fileConfig, config, disabled, saved, current, doing, todo, promised>>
    BY <1>0, <1>5 DEF SupervisorEnds, Tracks
  <2>2. /\ DOMAIN tasks = 1..Len(tasks) /\ n \in 1..Len(tasks)
        /\ \A i \in 1..Len(tasks) : tasks[i] \in Supervisors
    BY <2>1, LenProperties, ElementOfSeq
  <2>3. [tasks[n] EXCEPT !.done = TRUE] \in Supervisors
    BY <2>2 DEF Supervisors
  <2>4. tasks' \in Seq(Supervisors) /\ Len(tasks') = Len(tasks)
    BY <2>1, <2>2, <2>3, ExceptSeq
  <2>5. ASSUME NEW i \in 1..Len(tasks)
        PROVE  /\ tasks'[i].key = tasks[i].key /\ tasks'[i].version = tasks[i].version
               /\ ~tasks'[i].done => ~tasks[i].done
    <3>1. CASE i = n
      BY <2>1, <2>2, <3>1 DEF Supervisors
    <3>2. CASE i # n
      BY <2>1, <2>2, <3>2
    <3> QED
      BY <3>1, <3>2
  <2>6. Tracks(current', tasks')
    BY <1>0, <2>1, <2>4, <2>5 DEF Tracks
  <2>7. AsConfigured(current', tasks', config', disabled', Pending')
    <3>1. \A k \in DOMAIN current : current[k].id \in 1..Len(tasks)
      BY <1>0 DEF Tracks
    <3>2. Pending' = Pending
      BY <2>1 DEF Pending
    <3> QED
      BY <1>0, <2>1, <2>5, <3>1, <3>2 DEF AsConfigured
  <2> QED
    BY <2>1, <2>6, <2>7 DEF CoordinatorInv, PromisesSurvive
<1>6. ASSUME NEW cfg \in Configs, Edit(cfg) PROVE CoordinatorInv'
  BY <1>6 DEF Edit, CoordinatorInv, PromisesSurvive, Pending
<1> QED
  BY <1>1, <1>2, <1>3, <1>4, <1>5, <1>6

(* The inductive invariant, kept by every step and by stuttering. *)
LEMMA CoordinatorInvInvariant == CoordinatorSpec => []CoordinatorInv
<1>1. ASSUME CoordinatorInv, UNCHANGED coordinatorVars PROVE CoordinatorInv'
  BY <1>1 DEF coordinatorVars, CoordinatorInv, PromisesSurvive, Pending
<1>2. ASSUME CoordinatorInv, CoordinatorNext PROVE CoordinatorInv'
  BY <1>2, CommandKeepsInv, ReloadKeepsInv, DrainKeepsInv, OthersKeepInv DEF CoordinatorNext
<1> QED
  BY <1>1, <1>2, CoordinatorInvInit, PTL DEF CoordinatorSpec

(* However commands, reconciliations, drains that time out, panics and restarts
   interleave, no target ever has two supervisors that have not ended (running.contains_key
   in spawn_target, the joins of collect_finished and stop_target). *)
THEOREM NeverTwoSupervisors == CoordinatorSpec => []OneSupervisorPerTarget
<1>1. ASSUME CoordinatorInv PROVE OneSupervisorPerTarget
  <2>1. DOMAIN tasks = 1..Len(tasks)
    BY <1>1, LenProperties DEF CoordinatorInv, Tracks
  <2> QED
    BY <1>1, <2>1 DEF CoordinatorInv, Tracks, OneSupervisorPerTarget
<1> QED
  BY <1>1, CoordinatorInvInvariant, PTL

(* Between commands every supervisor that is not being retired is one the loaded
   configuration asks for, with its settings, and what a command reported without a
   warning is what memory and file say, before and after any restart (handle,
   persist_disabled, Coordinator::new). *)
THEOREM CoordinatorTruthful == CoordinatorSpec => []CoordinatorKeepsItsWord
<1>1. ASSUME CoordinatorInv PROVE CoordinatorKeepsItsWord
  <2>1. ASSUME doing = "idle"
        PROVE  \A k \in DOMAIN current : ~current[k].retiring =>
                 k \notin disabled /\ k \in DOMAIN config /\ Task(k).version = config[k]
    <3>1. Pending = {}
      BY <1>1, <2>1, NothingPending DEF CoordinatorInv
    <3> QED
      BY <1>1, <3>1 DEF CoordinatorInv, AsConfigured, Task
  <2> QED
    BY <1>1, <2>1 DEF CoordinatorInv, CoordinatorKeepsItsWord, RunningAsConfigured
<1> QED
  BY <1>1, CoordinatorInvInvariant, PTL
===============================================================================
