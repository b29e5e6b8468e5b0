------------------------ MODULE RecordingWriter_proofs ------------------------
(***************************************************************************)
(* Theorems about the recorders' files, for any number of writers and      *)
(* candidate stems, and for any number of failed operations, crashes and   *)
(* power losses.                                                           *)
(***************************************************************************)
EXTENDS RecordingWriter, TLAPS

Early == {"idle", "reserve", "check", "unreserve"}
Working == {"create", "write", "sync", "install", "remove", "sync_directory", "release"}
Artifacts == {"ambe", "wav", "json"}

RecordingFlags ==
  failed \in [Writers -> BOOLEAN] /\ wav \in [Writers -> BOOLEAN] /\ doc \in [Writers -> BOOLEAN]

RecordingTypes ==
  /\ program \in Programs
  /\ pc \in [Writers -> Early \cup Working \cup {"inspect", "returned", "dead"}]
  /\ suffix \in [Writers -> Nat] /\ file \in [Writers -> Nat]
  /\ RecordingFlags
  /\ outcome \in [Writers -> {"none", "ok", "error", "visible"}]
  /\ \A w \in Writers : file[w] >= 1 /\ file[w] <= Len(Plan)
  /\ \A n \in DOMAIN entries : n \in Nat \X (Artifacts \cup {"reserve"}) \X BOOLEAN
  /\ \A n \in DOMAIN onDisk : n \in Nat \X (Artifacts \cup {"reserve"}) \X BOOLEAN
  /\ synced \subseteq written

(* The artifact ext of w's call is installed at stem s, with its contents and its
   directory entry on disk. *)
OnDisk(s, ext, w) ==
  /\ <<s, ext, FALSE>> \in DOMAIN onDisk /\ onDisk[<<s, ext, FALSE>>] = <<w, ext>>
  /\ <<w, ext>> \in synced

(* A reservation belongs to the writer that works on its stem. *)
Owns(w) == pc[w] \in {"check", "unreserve"} \cup Working
OwnerInv(w) ==
  Owns(w) => Reserved(w) \in DOMAIN entries /\ entries[Reserved(w)] = <<w, "reserve">>

(* Artifacts that are on disk are never replaced or removed. *)
DiskInv ==
  \A s \in Nat, ext \in Artifacts : <<s, ext, FALSE>> \in DOMAIN onDisk =>
    /\ <<s, ext, FALSE>> \in DOMAIN entries
    /\ entries[<<s, ext, FALSE>>] = onDisk[<<s, ext, FALSE>>]

(* How far the artifact at hand is. *)
StepInv(w) ==
  /\ pc[w] \in {"write", "sync", "install", "remove"} =>
       Temporary(w) \in DOMAIN entries /\ entries[Temporary(w)] = Inode(w)
  /\ pc[w] = "sync" => Inode(w) \in written
  /\ pc[w] \in {"install", "remove", "sync_directory"} => Inode(w) \in synced
  /\ pc[w] \in {"remove", "sync_directory"} =>
       Final(w) \in DOMAIN entries /\ entries[Final(w)] = Inode(w)

(* What is behind a writer is on disk: artifacts before the one at hand, the WAV that it
   noted and that its metadata may speak of, and everything once the write succeeded. *)
BehindInv(w) ==
  /\ pc[w] \in Early => file[w] = 1 /\ ~wav[w] /\ outcome[w] # "ok"
  /\ file[w] > 1 => OnDisk(suffix[w], "ambe", w)
  /\ wav[w] => OnDisk(suffix[w], "wav", w)
  /\ doc[w] => wav[w]
  /\ pc[w] = "release" /\ ~failed[w] => OnDisk(suffix[w], "json", w)
  /\ outcome[w] = "ok" => OnDisk(suffix[w], "json", w)

(* Metadata is visible only at the stem of a writer that came to it. *)
MarkerInv ==
  \A s \in Nat : <<s, "json", FALSE>> \in DOMAIN entries =>
    \E w \in Writers :
      /\ entries[<<s, "json", FALSE>>] = <<w, "json">> /\ <<w, "json">> \in synced
      /\ suffix[w] = s /\ file[w] > 1 /\ pc[w] \notin Early

RecordingInv ==
  /\ RecordingTypes /\ DiskInv /\ MarkerInv
  /\ \A w \in Writers : OwnerInv(w) /\ StepInv(w) /\ BehindInv(w)

(* What a step of writer w leaves alone: the other writers, every name but the three that
   it works with, which it touches only on a stem of its own, and everything on disk. *)
Move(w) ==
  /\ program' = program
  /\ \A v \in Writers \ {w} :
       /\ pc'[v] = pc[v] /\ suffix'[v] = suffix[v] /\ file'[v] = file[v] /\ failed'[v] = failed[v]
       /\ wav'[v] = wav[v] /\ doc'[v] = doc[v] /\ outcome'[v] = outcome[v]
  /\ \A n : \/ (n \in DOMAIN entries' <=> n \in DOMAIN entries)
               /\ (n \in DOMAIN entries => entries'[n] = entries[n])
            \/ n = Reserved(w) /\ (Owns(w) \/ n \notin DOMAIN entries)
            \/ n = Temporary(w) /\ pc[w] \in Working
            \/ n = Final(w) /\ pc[w] = "install" /\ n \notin DOMAIN entries
  /\ onDisk' = onDisk \/ onDisk' = entries
  /\ written \subseteq written' /\ synced \subseteq synced' /\ synced' \subseteq written'

(* The artifacts of a call, in order: the archive first, the metadata last. *)
LEMMA PlanFacts ==
  ASSUME program \in Programs, NEW f \in Nat, f >= 1, f <= Len(Plan)
  PROVE  /\ Plan[f] \in Artifacts /\ Len(Plan) \in Nat
         /\ Plan[f] = "ambe" <=> f = 1
         /\ Plan[f] = "json" <=> f = Len(Plan)
BY DEF Plan, Programs, Artifacts

(* Names that differ in a part are different names. *)
LEMMA NamesDiffer ==
  ASSUME NEW s, NEW t, NEW e, NEW f, NEW b, NEW c, <<s, e, b>> = <<t, f, c>>
  PROVE  s = t /\ e = f /\ b = c
OBVIOUS

LEMMA Linking ==
  ASSUME NEW n, NEW i, entries' = Linked(n, i)
  PROVE  /\ n \in DOMAIN entries' /\ entries'[n] = i
         /\ \A m : m # n => (m \in DOMAIN entries' <=> m \in DOMAIN entries)
                            /\ (m \in DOMAIN entries => entries'[m] = entries[m])
BY DEF Linked

LEMMA Unlinking ==
  ASSUME NEW n, entries' = Unlinked(n)
  PROVE  \A m : m # n => (m \in DOMAIN entries' <=> m \in DOMAIN entries)
                         /\ (m \in DOMAIN entries => entries'[m] = entries[m])
BY DEF Unlinked

(* Two writers that own a reservation work on two stems. *)
LEMMA OwnStems ==
  ASSUME NEW v \in Writers, NEW w \in Writers, v # w, OwnerInv(v), OwnerInv(w), Owns(v), Owns(w)
  PROVE  suffix[v] # suffix[w]
<1>1. ASSUME suffix[v] = suffix[w] PROVE FALSE
  <2>1. Reserved(v) = Reserved(w)
    BY <1>1 DEF Reserved
  <2>2. <<v, "reserve">> = <<w, "reserve">>
    BY <2>1 DEF OwnerInv
  <2> QED
    BY <2>2
<1> QED
  BY <1>1

(* What is on disk stays there, whoever moves. *)
LEMMA MoveKeepsDisk ==
  ASSUME RecordingInv, NEW w \in Writers, Move(w)
  PROVE  /\ DiskInv'
         /\ \A s \in Nat, ext \in Artifacts, v \in Writers : OnDisk(s, ext, v) => OnDisk(s, ext, v)'
<1>1. ASSUME NEW s \in Nat, NEW ext \in Artifacts, <<s, ext, FALSE>> \in DOMAIN entries
      PROVE  /\ <<s, ext, FALSE>> \in DOMAIN entries'
             /\ entries'[<<s, ext, FALSE>>] = entries[<<s, ext, FALSE>>]
  <2>1. <<s, ext, FALSE>> # Reserved(w)
    BY NamesDiffer DEF Reserved, Artifacts
  <2>2. <<s, ext, FALSE>> # Temporary(w)
    BY NamesDiffer DEF Temporary
  <2> QED
    BY <1>1, <2>1, <2>2 DEF Move
<1>2. ASSUME NEW s \in Nat, NEW ext \in Artifacts, <<s, ext, FALSE>> \in DOMAIN onDisk
      PROVE  /\ <<s, ext, FALSE>> \in DOMAIN onDisk'
             /\ onDisk'[<<s, ext, FALSE>>] = onDisk[<<s, ext, FALSE>>]
  BY <1>2 DEF Move, RecordingInv, DiskInv
<1>3. DiskInv'
  <2>1. ASSUME NEW s \in Nat, NEW ext \in Artifacts, <<s, ext, FALSE>> \in DOMAIN onDisk'
        PROVE  /\ <<s, ext, FALSE>> \in DOMAIN entries'
               /\ entries'[<<s, ext, FALSE>>] = onDisk'[<<s, ext, FALSE>>]
    <3>1. DiskInv /\ (onDisk' = onDisk \/ onDisk' = entries)
      BY DEF Move, RecordingInv
    <3>2. CASE onDisk' = onDisk
      <4>1. /\ <<s, ext, FALSE>> \in DOMAIN entries
            /\ entries[<<s, ext, FALSE>>] = onDisk[<<s, ext, FALSE>>]
        BY <2>1, <3>1, <3>2 DEF DiskInv
      <4> QED
        BY <1>1, <3>2, <4>1
    <3>3. CASE onDisk' = entries
      BY <1>1, <2>1, <3>3
    <3> QED
      BY <3>1, <3>2, <3>3
  <2> QED
    BY <2>1 DEF DiskInv
<1>4. ASSUME NEW s \in Nat, NEW ext \in Artifacts, NEW v \in Writers, OnDisk(s, ext, v)
      PROVE  OnDisk(s, ext, v)'
  BY <1>2, <1>4 DEF OnDisk, Move
<1> QED
  BY <1>3, <1>4

(* The other writers keep what they have. *)
LEMMA MoveKeepsOthers ==
  ASSUME RecordingInv, NEW w \in Writers, Move(w), NEW v \in Writers, v # w
  PROVE  OwnerInv(v)' /\ StepInv(v)' /\ BehindInv(v)'
<1>0. /\ pc'[v] = pc[v] /\ suffix'[v] = suffix[v] /\ file'[v] = file[v] /\ failed'[v] = failed[v]
      /\ wav'[v] = wav[v] /\ doc'[v] = doc[v] /\ outcome'[v] = outcome[v] /\ program' = program
  BY DEF Move
<1>1. /\ Reserved(v)' = Reserved(v) /\ Temporary(v)' = Temporary(v) /\ Final(v)' = Final(v)
      /\ Inode(v)' = Inode(v) /\ Owns(v)' = Owns(v) /\ Plan' = Plan
  BY <1>0 DEF Reserved, Temporary, Final, Inode, Owns, Plan
<1>2. /\ OwnerInv(v) /\ StepInv(v) /\ BehindInv(v) /\ OwnerInv(w) /\ suffix[v] \in Nat
      /\ Plan[file[v]] \in Artifacts /\ Plan[file[w]] \in Artifacts
  BY PlanFacts DEF RecordingInv, RecordingTypes
<1>3. ASSUME Owns(v), Owns(w) PROVE suffix[v] # suffix[w]
  BY <1>2, <1>3, OwnStems
<1>4. ASSUME Owns(v), Reserved(v) \in DOMAIN entries
      PROVE  Reserved(v) \in DOMAIN entries' /\ entries'[Reserved(v)] = entries[Reserved(v)]
  <2>1. Reserved(v) = Reserved(w) => ~Owns(w)
    BY <1>3, <1>4, NamesDiffer DEF Reserved
  <2>2. Reserved(v) # Temporary(w) /\ Reserved(v) # Final(w)
    BY <1>2, NamesDiffer DEF Reserved, Temporary, Final, Artifacts
  <2> QED
    BY <1>4, <2>1, <2>2 DEF Move
<1>5. ASSUME pc[v] \in Working, Temporary(v) \in DOMAIN entries
      PROVE  Temporary(v) \in DOMAIN entries' /\ entries'[Temporary(v)] = entries[Temporary(v)]
  <2>1. Temporary(v) = Temporary(w) => pc[w] \notin Working
    BY <1>3, <1>5, NamesDiffer DEF Temporary, Owns
  <2>2. Temporary(v) # Reserved(w) /\ Temporary(v) # Final(w)
    BY NamesDiffer DEF Reserved, Temporary, Final
  <2> QED
    BY <1>5, <2>1, <2>2 DEF Move
<1>6. ASSUME pc[v] \in Working, Final(v) \in DOMAIN entries
      PROVE  Final(v) \in DOMAIN entries' /\ entries'[Final(v)] = entries[Final(v)]
  <2>1. Final(v) # Reserved(w) /\ Final(v) # Temporary(w)
    BY <1>2, NamesDiffer DEF Reserved, Temporary, Final, Artifacts
  <2> QED
    BY <1>6, <2>1 DEF Move
<1>7. OwnerInv(v)'
  BY <1>1, <1>2, <1>4 DEF OwnerInv
<1>8. StepInv(v)'
  BY <1>0, <1>1, <1>2, <1>5, <1>6 DEF StepInv, Working, Move
<1>9. BehindInv(v)'
  BY <1>0, <1>2, MoveKeepsDisk DEF BehindInv, Artifacts
<1> QED
  BY <1>7, <1>8, <1>9

-----------------------------------------------------------------------------
(* The mover.                                                              *)

Own(w) == OwnerInv(w) /\ StepInv(w) /\ BehindInv(w)

(* A writer past the choice of its stem keeps the stem and only goes on, and what it
   installs is the artifact at hand. *)
Onward(w) ==
  /\ pc[w] \notin Early => pc'[w] \notin Early /\ suffix'[w] = suffix[w] /\ file'[w] >= file[w]
  /\ pc[w] = "install" /\ Final(w) \in DOMAIN entries' /\ Final(w) \notin DOMAIN entries =>
       entries'[Final(w)] = Inode(w)

LEMMA MoveKeepsMarker ==
  ASSUME RecordingInv, RecordingTypes', NEW w \in Writers, Move(w), Onward(w)
  PROVE  MarkerInv'
<1>0. program \in Programs /\ file[w] \in Nat /\ file[w] >= 1 /\ file[w] <= Len(Plan)
      /\ (file'[w] >= file[w] \/ pc[w] \in Early) /\ file'[w] \in Nat
  BY DEF RecordingInv, RecordingTypes, Onward
<1>1. SUFFICES ASSUME NEW s \in Nat, <<s, "json", FALSE>> \in DOMAIN entries'
               PROVE  \E v \in Writers :
                        /\ entries'[<<s, "json", FALSE>>] = <<v, "json">> /\ <<v, "json">> \in synced'
                        /\ suffix'[v] = s /\ file'[v] > 1 /\ pc'[v] \notin Early
  BY DEF MarkerInv
<1>2. CASE <<s, "json", FALSE>> \in DOMAIN entries
  <2>1. PICK v \in Writers :
          /\ entries[<<s, "json", FALSE>>] = <<v, "json">> /\ <<v, "json">> \in synced
          /\ suffix[v] = s /\ file[v] > 1 /\ pc[v] \notin Early
    BY <1>2 DEF RecordingInv, MarkerInv
  <2>2. entries'[<<s, "json", FALSE>>] = entries[<<s, "json", FALSE>>]
    <3>1. <<s, "json", FALSE>> # Reserved(w) /\ <<s, "json", FALSE>> # Temporary(w)
      BY NamesDiffer DEF Reserved, Temporary
    <3> QED
      BY <1>2, <3>1 DEF Move
  <2>3. <<v, "json">> \in synced'
    BY <2>1 DEF Move
  <2>4. CASE v = w
    <3>1. suffix'[v] = s /\ file'[v] >= file[v] /\ pc'[v] \notin Early /\ file'[v] \in Nat
      BY <1>0, <2>1, <2>4 DEF Onward
    <3>2. file'[v] > 1
      BY <1>0, <2>1, <2>4, <3>1
    <3> QED
      BY <2>1, <2>2, <2>3, <3>1, <3>2
  <2>5. CASE v # w
    <3>1. suffix'[v] = s /\ file'[v] = file[v] /\ pc'[v] = pc[v]
      BY <2>1, <2>5 DEF Move
    <3> QED
      BY <2>1, <2>2, <2>3, <3>1
  <2> QED
    BY <2>4, <2>5
<1>3. CASE <<s, "json", FALSE>> \notin DOMAIN entries
  <2>1. <<s, "json", FALSE>> # Reserved(w) /\ <<s, "json", FALSE>> # Temporary(w)
    BY NamesDiffer DEF Reserved, Temporary
  <2>2. <<s, "json", FALSE>> = Final(w) /\ pc[w] = "install"
    BY <1>1, <1>3, <2>1 DEF Move
  <2>3. s = suffix[w] /\ Plan[file[w]] = "json"
    BY <2>2, NamesDiffer DEF Final
  <2>4. entries'[<<s, "json", FALSE>>] = <<w, "json">>
    BY <1>1, <1>3, <2>2, <2>3 DEF Onward, Inode
  <2>5. <<w, "json">> \in synced'
    BY <2>2, <2>3 DEF RecordingInv, StepInv, Inode, Move
  <2>6. file[w] > 1
    <3>1. file[w] # 1
      BY <1>0, <2>3, PlanFacts
    <3> QED
      BY <1>0, <3>1
  <2>7. pc'[w] \notin Early /\ suffix'[w] = s /\ file'[w] > 1
    BY <2>2, <2>3, <2>6, <1>0 DEF Onward, Early
  <2> QED
    BY <2>4, <2>5, <2>7
<1> QED
  BY <1>2, <1>3

LEMMA MoveKeepsInv ==
  ASSUME RecordingInv, RecordingTypes', NEW w \in Writers, Move(w), Onward(w), Own(w)'
  PROVE  RecordingInv'
<1>1. \A v \in Writers \ {w} : OwnerInv(v)' /\ StepInv(v)' /\ BehindInv(v)'
  BY MoveKeepsOthers
<1>2. DiskInv' /\ MarkerInv'
  BY MoveKeepsDisk, MoveKeepsMarker
<1> QED
  BY <1>1, <1>2 DEF RecordingInv, Own

(* What the end of an artifact does to its writer. *)
LEMMA DoneFacts ==
  ASSUME RecordingTypes, NEW w \in Writers, NEW ok \in BOOLEAN, ArtifactDone(w, ok)
  PROVE  /\ \/ /\ pc'[w] = "create" /\ (ok \/ Plan[file[w]] = "wav") /\ file[w] < Len(Plan)
               /\ file'[w] = file[w] + 1 /\ (failed'[w] <=> failed[w])
            \/ /\ pc'[w] = "release" /\ (failed'[w] <=> ~ok) /\ file'[w] = file[w]
               /\ ok => file[w] = Len(Plan)
         /\ wav'[w] <=> (wav[w] \/ (ok /\ Plan[file[w]] = "wav"))
         /\ \A v \in Writers \ {w} : /\ pc'[v] = pc[v] /\ file'[v] = file[v]
                                     /\ failed'[v] = failed[v] /\ wav'[v] = wav[v]
         /\ pc' \in [Writers -> Early \cup Working \cup {"inspect", "returned", "dead"}]
         /\ file' \in [Writers -> Nat]
         /\ \A v \in Writers : file'[v] >= 1 /\ file'[v] <= Len(Plan)
<1>0. /\ wav'[w] <=> (wav[w] \/ (ok /\ Plan[file[w]] = "wav"))
      /\ \A v \in Writers \ {w} : wav'[v] = wav[v]
  BY Zenon DEF ArtifactDone, RecordingTypes, RecordingFlags
<1>1. Len(Plan) \in Nat
  BY DEF RecordingTypes, Plan, Programs
<1>2. CASE (ok \/ Plan[file[w]] = "wav") /\ file[w] < Len(Plan)
  <2>1. pc' = [pc EXCEPT ![w] = "create"] /\ file' = [file EXCEPT ![w] = @ + 1] /\ failed' = failed
    BY <1>2 DEF ArtifactDone, GoTo
  <2> QED
    BY <1>0, <1>1, <1>2, <2>1 DEF RecordingTypes, Working
<1>3. CASE ~((ok \/ Plan[file[w]] = "wav") /\ file[w] < Len(Plan))
  <2>1. pc' = [pc EXCEPT ![w] = "release"] /\ file' = file /\ failed' = [failed EXCEPT ![w] = ~ok]
    BY <1>3 DEF ArtifactDone, GoTo
  <2>2. (failed'[w] <=> ~ok) /\ \A v \in Writers \ {w} : failed'[v] = failed[v]
    BY <2>1, Zenon DEF RecordingTypes, RecordingFlags
  <2>3. ok => file[w] = Len(Plan)
    BY <1>1, <1>3 DEF RecordingTypes
  <2>4. /\ pc'[w] = "release" /\ file'[w] = file[w]
        /\ \A v \in Writers \ {w} : pc'[v] = pc[v] /\ file'[v] = file[v]
        /\ pc' \in [Writers -> Early \cup Working \cup {"inspect", "returned", "dead"}]
        /\ file' \in [Writers -> Nat]
        /\ \A v \in Writers : file'[v] >= 1 /\ file'[v] <= Len(Plan)
    BY <2>1 DEF RecordingTypes, Working
  <2> QED
    BY <1>0, <2>2, <2>3, <2>4
<1> QED
  BY <1>2, <1>3

(* The three names a writer works with. *)
LEMMA NameTypes ==
  ASSUME RecordingTypes, NEW w \in Writers
  PROVE  /\ Reserved(w) \in Nat \X (Artifacts \cup {"reserve"}) \X BOOLEAN
         /\ Temporary(w) \in Nat \X (Artifacts \cup {"reserve"}) \X BOOLEAN
         /\ Final(w) \in Nat \X (Artifacts \cup {"reserve"}) \X BOOLEAN
         /\ Reserved(w) # Temporary(w) /\ Reserved(w) # Final(w) /\ Temporary(w) # Final(w)
         /\ Plan[file[w]] \in Artifacts
<1>1. Plan[file[w]] \in Artifacts /\ suffix[w] \in Nat
  BY PlanFacts DEF RecordingTypes
<1>2. Reserved(w) # Temporary(w) /\ Reserved(w) # Final(w) /\ Temporary(w) # Final(w)
  BY <1>1, NamesDiffer DEF Reserved, Temporary, Final, Artifacts
<1> QED
  BY <1>1, <1>2 DEF Reserved, Temporary, Final

(* An artifact that failed, at whatever step of it: the metadata follows a failed WAV, and
   any other failure releases the stem. *)
LEMMA FailureKeepsOwn ==
  ASSUME RecordingInv, NEW w \in Writers, pc[w] \in Working, Move(w), ArtifactDone(w, FALSE),
         suffix'[w] = suffix[w], outcome'[w] = outcome[w],
         (doc'[w] <=> doc[w]) \/ (doc'[w] <=> wav[w]),
         Reserved(w) \in DOMAIN entries => Reserved(w) \in DOMAIN entries' /\ entries'[Reserved(w)] = entries[Reserved(w)]
  PROVE  Own(w)'
<1>1. /\ \/ /\ pc'[w] = "create" /\ Plan[file[w]] = "wav" /\ file'[w] = file[w] + 1
         \/ pc'[w] = "release" /\ failed'[w] /\ file'[w] = file[w]
      /\ wav'[w] <=> wav[w]
  BY DoneFacts DEF RecordingInv
<1>2. /\ RecordingTypes /\ OwnerInv(w) /\ BehindInv(w) /\ suffix[w] \in Nat
      /\ program \in Programs /\ file[w] \in Nat /\ file[w] >= 1 /\ file[w] <= Len(Plan)
  BY DEF RecordingInv, RecordingTypes
<1>3. OwnerInv(w)'
  BY <1>2 DEF OwnerInv, Owns, Reserved
<1>4. StepInv(w)'
  BY <1>1 DEF StepInv
<1>5. \A ext \in Artifacts : OnDisk(suffix[w], ext, w) => OnDisk(suffix[w], ext, w)'
  BY <1>2, MoveKeepsDisk
<1>6. file'[w] > 1 => file[w] > 1
  <2>1. Plan[file[w]] = "wav" => file[w] # 1
    BY <1>2, PlanFacts
  <2> QED
    BY <1>1, <1>2, <2>1
<1>7. file'[w] > 1 => OnDisk(suffix[w], "ambe", w)'
  BY <1>2, <1>5, <1>6 DEF BehindInv, Artifacts
<1>8. BehindInv(w)'
  BY <1>1, <1>2, <1>5, <1>7 DEF BehindInv, Artifacts, Early
<1> QED
  BY <1>3, <1>4, <1>8 DEF Own

(* The flags stay flags. *)
LEMMA StepKeepsFlags ==
  ASSUME RecordingFlags, NEW w \in Writers, WriterStep(w)
  PROVE  RecordingFlags'
<1>1. ASSUME NEW ok \in BOOLEAN, ArtifactDone(w, ok)
      PROVE  failed' \in [Writers -> BOOLEAN] /\ wav' \in [Writers -> BOOLEAN]
  <2>1. wav' \in [Writers -> BOOLEAN]
    <3>1. (wav[w] \/ (ok /\ Plan[file[w]] = "wav")) \in BOOLEAN
      OBVIOUS
    <3> QED
      BY <1>1, <3>1, Zenon DEF ArtifactDone, RecordingFlags
  <2>2. failed' \in [Writers -> BOOLEAN]
    BY <1>1, Zenon DEF ArtifactDone, RecordingFlags
  <2> QED
    BY <2>1, <2>2
<1>2. \/ UNCHANGED <<failed, wav, doc>>
      \/ UNCHANGED doc /\ \E ok \in BOOLEAN : ArtifactDone(w, ok)
      \/ WriteTemporary(w)
  BY DEF WriterStep, CreateDirectories, ReserveStem, CheckStem, ReleaseCandidate, CreateTemporary,
         SyncTemporary, InstallFinal, RemoveTemporary, SyncDirectory, ReleaseReservation,
         InspectMetadata, fileVars
<1>3. ASSUME WriteTemporary(w) PROVE RecordingFlags'
  <2>1. doc' \in [Writers -> BOOLEAN]
    BY <1>3, Zenon DEF WriteTemporary, RecordingFlags
  <2>2. UNCHANGED <<failed, wav>> \/ ArtifactDone(w, FALSE)
    BY <1>3 DEF WriteTemporary
  <2> QED
    BY <1>1, <2>1, <2>2 DEF RecordingFlags
<1> QED
  BY <1>1, <1>2, <1>3 DEF RecordingFlags

(* Steps that leave the directory and the files alone. *)
LEMMA QuietStep ==
  ASSUME RecordingInv, NEW w \in Writers,
         CreateDirectories(w) \/ CheckStem(w) \/ InspectMetadata(w) \/ ProcessDies(w)
  PROVE  RecordingInv'
<1>0. /\ RecordingTypes /\ OwnerInv(w) /\ StepInv(w) /\ BehindInv(w)
      /\ UNCHANGED <<program, suffix, fileVars, diskVars>>
  BY DEF RecordingInv, CreateDirectories, CheckStem, InspectMetadata, ProcessDies
<1>1. \/ pc[w] = "idle" /\ pc'[w] \in {"reserve", "returned"}
      \/ pc[w] = "check" /\ pc'[w] \in {"create", "unreserve"}
      \/ pc[w] = "inspect" /\ pc'[w] = "returned"
      \/ pc[w] # "idle" /\ pc'[w] = "dead"
  BY <1>0 DEF CreateDirectories, CheckStem, InspectMetadata, ProcessDies, RecordingTypes, GoTo,
              Returns, Running
<1>2. outcome'[w] \in {outcome[w], "error", "visible"}
  BY <1>0 DEF CreateDirectories, CheckStem, InspectMetadata, ProcessDies, RecordingTypes, GoTo,
              Returns
<1>3. /\ pc' \in [Writers -> Early \cup Working \cup {"inspect", "returned", "dead"}]
      /\ outcome' \in [Writers -> {"none", "ok", "error", "visible"}]
      /\ \A v \in Writers \ {w} : pc'[v] = pc[v] /\ outcome'[v] = outcome[v]
  BY <1>0 DEF CreateDirectories, CheckStem, InspectMetadata, ProcessDies, RecordingTypes, GoTo,
              Returns, Early, Working
<1>4. RecordingTypes'
  BY <1>0, <1>3 DEF RecordingTypes, RecordingFlags, fileVars, diskVars, Plan
<1>5. Move(w)
  BY <1>0, <1>3 DEF Move, fileVars, diskVars, RecordingTypes
<1>6. Onward(w)
  <2>1. file[w] \in Nat
    BY <1>0 DEF RecordingTypes
  <2>2. UNCHANGED <<suffix, file, entries>>
    BY <1>0 DEF fileVars, diskVars
  <2>3. pc[w] \notin Early => pc'[w] \notin Early
    BY <1>1 DEF Early
  <2> QED
    BY <2>1, <2>2, <2>3 DEF Onward
<1>7. OwnerInv(w)' /\ StepInv(w)'
  BY <1>0, <1>1 DEF OwnerInv, StepInv, Owns, Reserved, Working, diskVars
<1>8. BehindInv(w)'
  BY <1>0, <1>1, <1>2 DEF BehindInv, OnDisk, Early, diskVars, fileVars
<1> QED
  BY <1>4, <1>5, <1>6, <1>7, <1>8, MoveKeepsInv DEF Own

(* The search for a stem. *)
LEMMA CandidateStep ==
  ASSUME RecordingInv, NEW w \in Writers, ReserveStem(w) \/ ReleaseCandidate(w)
  PROVE  RecordingInv'
<1>0. /\ RecordingTypes /\ OwnerInv(w) /\ StepInv(w) /\ BehindInv(w)
      /\ UNCHANGED <<program, fileVars, onDisk, written, synced>>
      /\ pc[w] \in {"reserve", "unreserve"}
  BY DEF RecordingInv, ReserveStem, ReleaseCandidate
<1>1. /\ \/ pc'[w] \in {"reserve", "returned"}
         \/ pc'[w] = "check" /\ entries' = Linked(Reserved(w), <<w, "reserve">>) /\ suffix' = suffix
      /\ outcome'[w] \in {outcome[w], "error"}
      /\ pc' \in [Writers -> Early \cup Working \cup {"inspect", "returned", "dead"}]
      /\ outcome' \in [Writers -> {"none", "ok", "error", "visible"}]
      /\ suffix' \in [Writers -> Nat]
      /\ \A v \in Writers \ {w} : pc'[v] = pc[v] /\ outcome'[v] = outcome[v] /\ suffix'[v] = suffix[v]
  <2>1. CASE NextCandidate(w) /\ suffix[w] < MaxSuffix
    <3>1. /\ pc' = [pc EXCEPT ![w] = "reserve"] /\ suffix' = [suffix EXCEPT ![w] = @ + 1]
          /\ outcome' = outcome
      BY <2>1 DEF NextCandidate, GoTo
    <3>2. suffix' \in [Writers -> Nat] /\ \A v \in Writers \ {w} : suffix'[v] = suffix[v]
      <4>1. suffix \in [Writers -> Nat]
        BY <1>0 DEF RecordingTypes
      <4> QED
        BY <3>1, <4>1
    <3> QED
      BY <1>0, <3>1, <3>2 DEF RecordingTypes, Early
  <2>2. CASE Returns(w, "error") /\ suffix' = suffix
    BY <1>0, <2>2 DEF RecordingTypes, GoTo, Returns
  <2>3. CASE /\ GoTo(w, "check") /\ suffix' = suffix /\ outcome' = outcome
             /\ entries' = Linked(Reserved(w), <<w, "reserve">>)
    BY <1>0, <2>3 DEF RecordingTypes, GoTo, Early
  <2> QED
    BY <2>1, <2>2, <2>3 DEF ReserveStem, ReleaseCandidate, NextCandidate
<1>2. \/ entries' = entries
      \/ entries' = Linked(Reserved(w), <<w, "reserve">>) /\ Reserved(w) \notin DOMAIN entries
      \/ entries' = Unlinked(Reserved(w)) /\ pc[w] = "unreserve"
  BY DEF ReserveStem, ReleaseCandidate, Present
<1>3. \A n : \/ (n \in DOMAIN entries' <=> n \in DOMAIN entries)
                /\ (n \in DOMAIN entries => entries'[n] = entries[n])
             \/ n = Reserved(w) /\ (Owns(w) \/ n \notin DOMAIN entries)
  BY <1>2, Linking, Unlinking DEF Owns
<1>4. RecordingTypes'
  <2>1. \A n \in DOMAIN entries' : n \in Nat \X (Artifacts \cup {"reserve"}) \X BOOLEAN
    BY <1>0, <1>3, NameTypes DEF RecordingTypes
  <2> QED
    BY <1>0, <1>1, <2>1 DEF RecordingTypes, RecordingFlags, fileVars, Plan
<1>5. Move(w)
  BY <1>0, <1>1, <1>3 DEF Move, fileVars, RecordingTypes
<1>6. Onward(w)
  BY <1>0 DEF Onward, Early
<1>7. OwnerInv(w)' /\ StepInv(w)'
  <2>1. pc'[w] = "check" => Reserved(w) \in DOMAIN entries' /\ entries'[Reserved(w)] = <<w, "reserve">>
    BY <1>1, Linking
  <2>2. pc'[w] = "check" => Reserved(w)' = Reserved(w)
    BY <1>1 DEF Reserved
  <2>3. pc'[w] \in {"reserve", "returned", "check"}
    BY <1>1
  <2> QED
    BY <2>1, <2>2, <2>3 DEF OwnerInv, StepInv, Owns, Working
<1>8. BehindInv(w)'
  <2>1. file[w] = 1 /\ ~wav[w] /\ outcome[w] # "ok" /\ ~doc[w]
    BY <1>0 DEF BehindInv, Early
  <2>2. UNCHANGED <<file, wav, doc>>
    BY <1>0 DEF fileVars
  <2>3. outcome'[w] # "ok" /\ pc'[w] # "release"
    BY <1>1, <2>1
  <2> QED
    BY <2>1, <2>2, <2>3 DEF BehindInv
<1> QED
  BY <1>4, <1>5, <1>6, <1>7, <1>8, MoveKeepsInv DEF Own

(* A step of an artifact fails. *)
LEMMA FailureStep ==
  ASSUME RecordingInv, RecordingFlags', NEW w \in Writers, pc[w] \in Working, ArtifactDone(w, FALSE),
         CleanUp(w) \/ entries' = entries,
         UNCHANGED <<program, suffix, onDisk, written, synced, outcome>>,
         (doc'[w] <=> doc[w]) \/ (doc'[w] <=> wav[w]), \A v \in Writers \ {w} : doc'[v] = doc[v]
  PROVE  RecordingInv'
<1>0. RecordingTypes
  BY DEF RecordingInv
<1>1. \A n : \/ (n \in DOMAIN entries' <=> n \in DOMAIN entries)
                /\ (n \in DOMAIN entries => entries'[n] = entries[n])
             \/ n = Temporary(w) /\ n \notin DOMAIN entries'
  <2>1. CASE entries' = entries
    BY <2>1
  <2>2. CASE entries' = Unlinked(Temporary(w))
    BY <2>2, Unlinking DEF Unlinked
  <2> QED
    BY <2>1, <2>2 DEF CleanUp
<1>2. /\ pc'[w] \in {"create", "release"} /\ file'[w] >= file[w]
      /\ \A v \in Writers \ {w} : /\ pc'[v] = pc[v] /\ file'[v] = file[v]
                                  /\ failed'[v] = failed[v] /\ wav'[v] = wav[v]
      /\ pc' \in [Writers -> Early \cup Working \cup {"inspect", "returned", "dead"}]
      /\ file' \in [Writers -> Nat]
      /\ \A v \in Writers : file'[v] >= 1 /\ file'[v] <= Len(Plan)
  <2>1. file'[w] = file[w] \/ file'[w] = file[w] + 1
    BY <1>0, DoneFacts
  <2>2. file'[w] >= file[w]
    BY <1>0, <2>1 DEF RecordingTypes
  <2> QED
    BY <1>0, <2>2, DoneFacts
<1>3. RecordingTypes'
  BY <1>0, <1>1, <1>2 DEF RecordingTypes, Plan
<1>4. Move(w)
  BY <1>0, <1>1, <1>2 DEF Move, RecordingTypes
<1>5. Onward(w)
  <2>1. Final(w) # Temporary(w)
    BY <1>0, NameTypes
  <2> QED
    BY <1>1, <1>2, <2>1 DEF Onward, Early
<1>6. Own(w)'
  <2>1. Reserved(w) # Temporary(w)
    BY <1>0, NameTypes
  <2>2. Reserved(w) \in DOMAIN entries =>
          Reserved(w) \in DOMAIN entries' /\ entries'[Reserved(w)] = entries[Reserved(w)]
    BY <1>1, <2>1
  <2>3. suffix'[w] = suffix[w] /\ outcome'[w] = outcome[w]
    OBVIOUS
  <2> QED
    BY <1>4, <2>2, <2>3, FailureKeepsOwn
<1> QED
  BY <1>3, <1>4, <1>5, <1>6, MoveKeepsInv

(* A step of an artifact succeeds, short of its last. *)
LEMMA ArtifactStep ==
  ASSUME RecordingInv, RecordingFlags', NEW w \in Writers, pc[w] \in Working,
         NEW p \in Working, p # "release", pc' = [pc EXCEPT ![w] = p],
         UNCHANGED <<program, suffix, file, failed, wav, onDisk, outcome>>,
         (doc'[w] <=> doc[w]) \/ (doc'[w] <=> wav[w]), \A v \in Writers \ {w} : doc'[v] = doc[v],
         written \subseteq written', synced \subseteq synced', synced' \subseteq written',
         \/ entries' = entries
         \/ entries' = Linked(Temporary(w), Inode(w))
         \/ entries' = Unlinked(Temporary(w))
         \/ /\ pc[w] = "install" /\ Final(w) \notin DOMAIN entries
            /\ entries' = Linked(Final(w), Inode(w)),
         StepInv(w)'
  PROVE  RecordingInv'
<1>0. RecordingTypes /\ OwnerInv(w) /\ BehindInv(w) /\ suffix[w] \in Nat
  BY DEF RecordingInv, RecordingTypes
<1>1. /\ \A n : \/ (n \in DOMAIN entries' <=> n \in DOMAIN entries)
                   /\ (n \in DOMAIN entries => entries'[n] = entries[n])
                \/ n = Temporary(w)
                \/ /\ n = Final(w) /\ pc[w] = "install" /\ n \notin DOMAIN entries
                   /\ entries'[n] = Inode(w)
  <2>1. CASE entries' = entries
    BY <2>1
  <2>2. CASE entries' = Unlinked(Temporary(w))
    BY <2>2, Unlinking
  <2>3. CASE entries' = Linked(Temporary(w), Inode(w))
    BY <2>3, Linking
  <2>4. CASE pc[w] = "install" /\ Final(w) \notin DOMAIN entries /\ entries' = Linked(Final(w), Inode(w))
    BY <2>4, Linking
  <2> QED
    BY <2>1, <2>2, <2>3, <2>4
<1>2. /\ pc'[w] = p /\ \A v \in Writers \ {w} : pc'[v] = pc[v]
      /\ pc' \in [Writers -> Early \cup Working \cup {"inspect", "returned", "dead"}]
  BY <1>0 DEF RecordingTypes
<1>3. RecordingTypes'
  <2>1. \A n \in DOMAIN entries' : n \in Nat \X (Artifacts \cup {"reserve"}) \X BOOLEAN
    <3>1. /\ Temporary(w) \in Nat \X (Artifacts \cup {"reserve"}) \X BOOLEAN
          /\ Final(w) \in Nat \X (Artifacts \cup {"reserve"}) \X BOOLEAN
      BY <1>0, NameTypes
    <3>2. \A n \in DOMAIN entries' : n \in DOMAIN entries \/ n = Temporary(w) \/ n = Final(w)
      BY <1>1
    <3> QED
      BY <1>0, <3>1, <3>2, Zenon DEF RecordingTypes
  <2> QED
    BY <1>0, <1>2, <2>1 DEF RecordingTypes, Plan
<1>4. Move(w)
  BY <1>0, <1>1, <1>2 DEF Move
<1>5. Onward(w)
  <2>1. Final(w) # Temporary(w)
    BY <1>0, NameTypes
  <2>2. p \notin Early
    BY DEF Early, Working
  <2>t. file[w] \in Nat
    BY <1>0 DEF RecordingTypes
  <2>3. pc'[w] \notin Early /\ suffix'[w] = suffix[w] /\ file'[w] >= file[w]
    BY <1>2, <2>2, <2>t
  <2>4. Final(w) \in DOMAIN entries' /\ Final(w) \notin DOMAIN entries => entries'[Final(w)] = Inode(w)
    BY <1>1, <2>1
  <2> QED
    BY <2>3, <2>4 DEF Onward
<1>6. OwnerInv(w)'
  <2>1. Reserved(w) # Temporary(w) /\ Reserved(w) # Final(w)
    BY <1>0, NameTypes
  <2> QED
    BY <1>0, <1>1, <2>1 DEF OwnerInv, Owns, Reserved
<1>7. BehindInv(w)'
  <2>1. \A ext \in Artifacts : OnDisk(suffix[w], ext, w) => OnDisk(suffix[w], ext, w)'
    BY <1>0, <1>4, MoveKeepsDisk
  <2>2. p \notin Early
    BY DEF Early, Working
  <2> QED
    BY <1>0, <1>2, <2>1, <2>2 DEF BehindInv, Artifacts
<1> QED
  BY <1>3, <1>4, <1>5, <1>6, <1>7, MoveKeepsInv DEF Own

LEMMA WritingStep ==
  ASSUME RecordingInv, RecordingFlags', NEW w \in Writers,
         \/ CreateTemporary(w) \/ WriteTemporary(w) \/ SyncTemporary(w) \/ InstallFinal(w)
         \/ RemoveTemporary(w)
  PROVE  RecordingInv'
<1>0. RecordingTypes /\ StepInv(w) /\ BehindInv(w)
  BY DEF RecordingInv
<1>1. /\ pc[w] \in Working
      /\ UNCHANGED <<program, suffix, onDisk, outcome>>
  BY DEF CreateTemporary, WriteTemporary, SyncTemporary, InstallFinal, RemoveTemporary, Working
<1>2. /\ (doc'[w] <=> doc[w]) \/ (doc'[w] <=> wav[w])
      /\ \A v \in Writers \ {w} : doc'[v] = doc[v]
  <2>1. CASE doc' = doc
    BY <2>1
  <2>2. CASE doc' = [doc EXCEPT ![w] = wav[w]]
    BY <1>0, <2>2, Zenon DEF RecordingTypes, RecordingFlags
  <2> QED
    BY <2>1, <2>2 DEF CreateTemporary, WriteTemporary, SyncTemporary, InstallFinal, RemoveTemporary
<1>3. CASE ArtifactDone(w, FALSE) /\ UNCHANGED <<written, synced>> /\ (CleanUp(w) \/ entries' = entries)
  BY <1>1, <1>2, <1>3, FailureStep
<1>4. CASE pc[w] = "create" /\ GoTo(w, "write") /\ entries' = Linked(Temporary(w), Inode(w))
           /\ UNCHANGED <<file, failed, wav, written, synced>>
  <2>1. pc'[w] = "write" /\ Temporary(w)' = Temporary(w) /\ Inode(w)' = Inode(w)
    BY <1>0, <1>1, <1>4 DEF RecordingTypes, GoTo, Temporary, Inode, Plan
  <2>2. StepInv(w)'
    BY <1>4, <2>1, Linking DEF StepInv
  <2> QED
    BY <1>0, <1>1, <1>2, <1>4, <2>2, ArtifactStep DEF GoTo, Working, RecordingTypes
<1>5. CASE pc[w] = "write" /\ GoTo(w, "sync") /\ written' = written \cup {Inode(w)}
           /\ UNCHANGED <<file, failed, wav, entries, synced>>
  <2>1. pc'[w] = "sync" /\ Temporary(w)' = Temporary(w) /\ Inode(w)' = Inode(w)
    BY <1>0, <1>1, <1>5 DEF RecordingTypes, GoTo, Temporary, Inode, Plan
  <2>2. StepInv(w)'
    BY <1>0, <1>5, <2>1 DEF StepInv
  <2> QED
    BY <1>0, <1>1, <1>2, <1>5, <2>2, ArtifactStep DEF GoTo, Working, RecordingTypes
<1>6. CASE pc[w] = "sync" /\ GoTo(w, "install") /\ synced' = synced \cup {Inode(w)}
           /\ UNCHANGED <<file, failed, wav, entries, written>>
  <2>1. pc'[w] = "install" /\ Temporary(w)' = Temporary(w) /\ Inode(w)' = Inode(w)
    BY <1>0, <1>1, <1>6 DEF RecordingTypes, GoTo, Temporary, Inode, Plan
  <2>2. StepInv(w)' /\ Inode(w) \in written
    BY <1>0, <1>6, <2>1 DEF StepInv
  <2> QED
    BY <1>0, <1>1, <1>2, <1>6, <2>2, ArtifactStep DEF GoTo, Working, RecordingTypes
<1>7. CASE pc[w] = "install" /\ ~Present(Final(w)) /\ GoTo(w, "remove")
           /\ entries' = Linked(Final(w), entries[Temporary(w)])
           /\ UNCHANGED <<file, failed, wav, written, synced>>
  <2>1. pc'[w] = "remove" /\ Temporary(w)' = Temporary(w) /\ Inode(w)' = Inode(w) /\ Final(w)' = Final(w)
    BY <1>0, <1>1, <1>7 DEF RecordingTypes, GoTo, Temporary, Inode, Final, Plan
  <2>2. /\ entries[Temporary(w)] = Inode(w) /\ Temporary(w) \in DOMAIN entries
        /\ Inode(w) \in synced /\ Temporary(w) # Final(w)
    BY <1>0, <1>7, NameTypes DEF StepInv
  <2>3. StepInv(w)'
    BY <1>7, <2>1, <2>2, Linking DEF StepInv
  <2> QED
    BY <1>0, <1>1, <1>2, <1>7, <2>2, <2>3, ArtifactStep DEF GoTo, Working, RecordingTypes, Present
<1>8. CASE pc[w] = "remove" /\ GoTo(w, "sync_directory") /\ entries' = Unlinked(Temporary(w))
           /\ UNCHANGED <<file, failed, wav, written, synced>>
  <2>1. pc'[w] = "sync_directory" /\ Inode(w)' = Inode(w) /\ Final(w)' = Final(w)
    BY <1>0, <1>1, <1>8 DEF RecordingTypes, GoTo, Inode, Final, Plan
  <2>2. Temporary(w) # Final(w)
    BY <1>0, NameTypes
  <2>3. StepInv(w)'
    BY <1>0, <1>8, <2>1, <2>2, Unlinking DEF StepInv
  <2> QED
    BY <1>0, <1>1, <1>2, <1>8, <2>3, ArtifactStep DEF GoTo, Working, RecordingTypes
<1>9. QED
  <2>1. ASSUME CreateTemporary(w) PROVE RecordingInv'
    BY <2>1, <1>3, <1>4 DEF CreateTemporary
  <2>2. ASSUME WriteTemporary(w) PROVE RecordingInv'
    BY <2>2, <1>3, <1>5 DEF WriteTemporary
  <2>3. ASSUME SyncTemporary(w) PROVE RecordingInv'
    BY <2>3, <1>3, <1>6 DEF SyncTemporary
  <2>4. ASSUME InstallFinal(w) PROVE RecordingInv'
    BY <2>4, <1>3, <1>7 DEF InstallFinal
  <2>5. ASSUME RemoveTemporary(w) PROVE RecordingInv'
    BY <2>5, <1>3, <1>8 DEF RemoveTemporary
  <2> QED
    BY <2>1, <2>2, <2>3, <2>4, <2>5

LEMMA DirectoryStep ==
  ASSUME RecordingInv, RecordingFlags', NEW w \in Writers, SyncDirectory(w)
  PROVE  RecordingInv'
<1>0. /\ RecordingTypes /\ OwnerInv(w) /\ StepInv(w) /\ BehindInv(w) /\ pc[w] = "sync_directory"
      /\ UNCHANGED <<program, suffix, doc, entries, written, synced, outcome>>
      /\ suffix[w] \in Nat /\ file[w] \in Nat /\ file[w] >= 1 /\ file[w] <= Len(Plan)
  BY DEF RecordingInv, RecordingTypes, SyncDirectory
<1>1. CASE ArtifactDone(w, FALSE) /\ onDisk' = onDisk
  BY <1>0, <1>1, FailureStep DEF Working
<1>2. CASE ArtifactDone(w, TRUE) /\ onDisk' = entries
  <2>1. /\ \/ pc'[w] = "create" /\ file'[w] = file[w] + 1
           \/ pc'[w] = "release" /\ ~failed'[w] /\ file'[w] = file[w] /\ file[w] = Len(Plan)
        /\ wav'[w] <=> (wav[w] \/ Plan[file[w]] = "wav")
        /\ \A v \in Writers \ {w} : /\ pc'[v] = pc[v] /\ file'[v] = file[v]
                                    /\ failed'[v] = failed[v] /\ wav'[v] = wav[v]
        /\ pc' \in [Writers -> Early \cup Working \cup {"inspect", "returned", "dead"}]
        /\ file' \in [Writers -> Nat]
        /\ \A v \in Writers : file'[v] >= 1 /\ file'[v] <= Len(Plan)
    BY <1>0, <1>2, DoneFacts
  <2>2. RecordingTypes'
    BY <1>0, <1>2, <2>1 DEF RecordingTypes, Plan
  <2>3. Move(w)
    BY <1>0, <1>2, <2>1 DEF Move, RecordingTypes
  <2>4. Onward(w)
    <3>1. pc'[w] \in {"create", "release"} /\ file'[w] \in {file[w], file[w] + 1}
      BY <2>1
    <3>t. file[w] \in Nat
      BY <1>0
    <3>2. pc[w] = "sync_directory" /\ suffix' = suffix
      BY <1>0
    <3> QED
      BY <3>1, <3>t, <3>2 DEF Onward, Early
  <2>5. OwnerInv(w)' /\ StepInv(w)'
    BY <1>0, <2>1 DEF OwnerInv, StepInv, Owns, Reserved, Working
  <2>6. \A ext \in Artifacts : OnDisk(suffix[w], ext, w) => OnDisk(suffix[w], ext, w)'
    BY <1>0, <2>3, MoveKeepsDisk
  <2>7. ASSUME NEW ext, ext = Plan[file[w]] PROVE OnDisk(suffix[w], ext, w)'
    BY <1>0, <1>2, <2>7 DEF StepInv, OnDisk, Final, Inode
  <2>8. /\ Plan[file[w]] = "ambe" <=> file[w] = 1
        /\ Plan[file[w]] = "json" <=> file[w] = Len(Plan)
    BY <1>0, PlanFacts DEF RecordingTypes
  <2>9. file'[w] > 1 => OnDisk(suffix[w], "ambe", w)'
    <3>1. CASE file[w] = 1
      BY <2>7, <2>8, <3>1
    <3>2. CASE file[w] > 1
      BY <1>0, <2>6, <3>2 DEF BehindInv, Artifacts
    <3>3. file[w] = 1 \/ file[w] > 1
      BY <1>0
    <3> QED
      BY <3>1, <3>2, <3>3
  <2>10. wav'[w] => OnDisk(suffix[w], "wav", w)'
    BY <1>0, <2>1, <2>6, <2>7 DEF BehindInv, Artifacts
  <2>11. pc'[w] = "release" => OnDisk(suffix[w], "json", w)'
    BY <2>1, <2>7, <2>8
  <2>12. outcome'[w] = "ok" => OnDisk(suffix[w], "json", w)'
    BY <1>0, <2>6 DEF BehindInv, Artifacts
  <2>13. pc'[w] \notin Early /\ (doc'[w] => wav'[w])
    BY <1>0, <2>1 DEF BehindInv, Early
  <2>14. BehindInv(w)'
    BY <2>9, <2>10, <2>11, <2>12, <2>13 DEF BehindInv
  <2> QED
    BY <2>2, <2>3, <2>4, <2>5, <2>14, MoveKeepsInv DEF Own
<1> QED
  BY <1>1, <1>2 DEF SyncDirectory

LEMMA ReleaseStep ==
  ASSUME RecordingInv, NEW w \in Writers, ReleaseReservation(w)
  PROVE  RecordingInv'
<1>0. /\ RecordingTypes /\ BehindInv(w) /\ pc[w] = "release" /\ suffix[w] \in Nat
      /\ UNCHANGED <<program, suffix, fileVars, onDisk, written, synced>>
  BY DEF RecordingInv, RecordingTypes, ReleaseReservation
<1>1. /\ pc'[w] \in {"returned", "inspect"}
      /\ outcome'[w] \in {outcome[w], "error"} \/ ~failed[w]
      /\ pc' \in [Writers -> Early \cup Working \cup {"inspect", "returned", "dead"}]
      /\ outcome' \in [Writers -> {"none", "ok", "error", "visible"}]
      /\ \A v \in Writers \ {w} : pc'[v] = pc[v] /\ outcome'[v] = outcome[v]
  <2>1. CASE Returns(w, "ok") /\ ~failed[w]
    BY <1>0, <2>1 DEF Returns, GoTo, RecordingTypes
  <2>2. CASE Returns(w, "error")
    BY <1>0, <2>2 DEF Returns, GoTo, RecordingTypes
  <2>3. CASE GoTo(w, "inspect") /\ outcome' = outcome
    BY <1>0, <2>3 DEF GoTo, RecordingTypes
  <2> QED
    BY <2>1, <2>2, <2>3 DEF ReleaseReservation
<1>2. entries' = entries \/ entries' = Unlinked(Reserved(w))
  BY DEF ReleaseReservation
<1>3. \A n : \/ (n \in DOMAIN entries' <=> n \in DOMAIN entries)
                /\ (n \in DOMAIN entries => entries'[n] = entries[n])
             \/ n = Reserved(w) /\ n \notin DOMAIN entries'
  <2>1. CASE entries' = entries
    BY <2>1
  <2>2. CASE entries' = Unlinked(Reserved(w))
    BY <2>2, Unlinking DEF Unlinked
  <2> QED
    BY <1>2, <2>1, <2>2
<1>4. RecordingTypes'
  BY <1>0, <1>1, <1>3 DEF RecordingTypes, RecordingFlags, fileVars, Plan
<1>5. Move(w)
  BY <1>0, <1>1, <1>3 DEF Move, fileVars, RecordingTypes, Owns, Working
<1>6. Onward(w)
  <2>1. pc'[w] \in {"returned", "inspect"} /\ pc[w] = "release" /\ suffix' = suffix
    BY <1>0, <1>1
  <2>2. file'[w] >= file[w]
    BY <1>0 DEF fileVars, RecordingTypes
  <2> QED
    BY <2>1, <2>2 DEF Onward, Early
<1>7. OwnerInv(w)' /\ StepInv(w)'
  BY <1>1 DEF OwnerInv, StepInv, Owns, Working
<1>8. \A ext \in Artifacts : OnDisk(suffix[w], ext, w) => OnDisk(suffix[w], ext, w)'
  BY <1>0, <1>5, MoveKeepsDisk
<1>9. BehindInv(w)'
  BY <1>0, <1>1, <1>8 DEF BehindInv, Artifacts, Early, fileVars
<1> QED
  BY <1>4, <1>5, <1>6, <1>7, <1>9, MoveKeepsInv DEF Own

-----------------------------------------------------------------------------
(* Power is lost: what was on disk stays, and whoever ran is dead.         *)

LEMMA PowerLossStep ==
  ASSUME RecordingInv, PowerLoss
  PROVE  RecordingInv'
<1>0. RecordingTypes /\ DiskInv /\ MarkerInv /\ UNCHANGED <<program, suffix, fileVars, synced, outcome>>
  BY DEF RecordingInv, PowerLoss
<1>1. PICK now \in SUBSET (DOMAIN entries \cup DOMAIN onDisk) :
        /\ {n \in DOMAIN entries \cap DOMAIN onDisk : entries[n] = onDisk[n]} \subseteq now
        /\ entries' = [n \in now |-> IF n \in DOMAIN entries THEN entries[n] ELSE onDisk[n]]
        /\ onDisk' = entries'
  BY DEF PowerLoss
<1>2. \A w \in Writers : pc'[w] = IF Running(w) THEN "dead" ELSE pc[w]
  BY DEF PowerLoss
<1>3. RecordingTypes'
  <2>1. \A n \in DOMAIN entries' : n \in Nat \X (Artifacts \cup {"reserve"}) \X BOOLEAN
    BY <1>0, <1>1 DEF RecordingTypes
  <2>2. pc' \in [Writers -> Early \cup Working \cup {"inspect", "returned", "dead"}]
    BY <1>0 DEF RecordingTypes, PowerLoss
  <2>3. synced' \subseteq written'
    BY <1>0 DEF PowerLoss
  <2> QED
    BY <1>0, <1>1, <2>1, <2>2, <2>3 DEF RecordingTypes, RecordingFlags, fileVars, Plan
<1>4. ASSUME NEW s \in Nat, NEW ext \in Artifacts, <<s, ext, FALSE>> \in DOMAIN onDisk
      PROVE  /\ <<s, ext, FALSE>> \in DOMAIN onDisk'
             /\ onDisk'[<<s, ext, FALSE>>] = onDisk[<<s, ext, FALSE>>]
  BY <1>0, <1>1, <1>4 DEF DiskInv
<1>5. \A s \in Nat, ext \in Artifacts, w \in Writers : OnDisk(s, ext, w) => OnDisk(s, ext, w)'
  BY <1>0, <1>4 DEF OnDisk
<1>6. DiskInv'
  BY <1>1 DEF DiskInv
<1>7. MarkerInv'
  <2>1. SUFFICES ASSUME NEW s \in Nat, <<s, "json", FALSE>> \in DOMAIN entries'
                 PROVE  \E w \in Writers :
                          /\ entries'[<<s, "json", FALSE>>] = <<w, "json">> /\ <<w, "json">> \in synced'
                          /\ suffix'[w] = s /\ file'[w] > 1 /\ pc'[w] \notin Early
    BY DEF MarkerInv
  <2>2. /\ <<s, "json", FALSE>> \in DOMAIN entries
        /\ entries'[<<s, "json", FALSE>>] = entries[<<s, "json", FALSE>>]
    BY <1>0, <1>1, <2>1 DEF DiskInv, Artifacts
  <2>3. PICK w \in Writers :
          /\ entries[<<s, "json", FALSE>>] = <<w, "json">> /\ <<w, "json">> \in synced
          /\ suffix[w] = s /\ file[w] > 1 /\ pc[w] \notin Early
    BY <1>0, <2>2 DEF MarkerInv
  <2>4. pc'[w] \notin Early
    BY <1>2, <2>3 DEF Early
  <2> QED
    BY <1>0, <2>2, <2>3, <2>4 DEF fileVars
<1>8. ASSUME NEW w \in Writers PROVE OwnerInv(w)' /\ StepInv(w)' /\ BehindInv(w)'
  <2>1. \/ pc'[w] = "dead"
        \/ pc'[w] = pc[w] /\ pc[w] \in {"idle", "returned", "dead"}
    BY <1>2 DEF Running
  <2>2. OwnerInv(w)' /\ StepInv(w)'
    BY <2>1 DEF OwnerInv, StepInv, Owns, Working
  <2>3. BehindInv(w) /\ suffix[w] \in Nat
    BY DEF RecordingInv, RecordingTypes
  <2>4. BehindInv(w)'
    BY <1>0, <1>5, <2>1, <2>3 DEF BehindInv, Artifacts, Early, fileVars
  <2> QED
    BY <2>2, <2>4
<1> QED
  BY <1>3, <1>6, <1>7, <1>8 DEF RecordingInv

LEMMA RecordingStarts == RecordingInit => RecordingInv
<1> SUFFICES ASSUME RecordingInit PROVE RecordingInv
  OBVIOUS
<1>1. RecordingTypes
  BY DEF RecordingInit, RecordingTypes, RecordingFlags, Early, Plan, Programs
<1>2. DiskInv /\ MarkerInv
  BY DEF RecordingInit, DiskInv, MarkerInv
<1>3. \A w \in Writers : OwnerInv(w) /\ StepInv(w) /\ BehindInv(w)
  BY DEF RecordingInit, OwnerInv, StepInv, BehindInv, Owns, Working
<1> QED
  BY <1>1, <1>2, <1>3 DEF RecordingInv

LEMMA RecordingStep == RecordingInv /\ [RecordingNext]_recordingVars => RecordingInv'
<1> SUFFICES ASSUME RecordingInv, [RecordingNext]_recordingVars PROVE RecordingInv'
  OBVIOUS
<1>1. ASSUME NEW w \in Writers, WriterStep(w) PROVE RecordingInv'
  <2>1. RecordingFlags'
    BY <1>1, StepKeepsFlags DEF RecordingInv, RecordingTypes
  <2> QED
    BY <1>1, <2>1, QuietStep, CandidateStep, WritingStep, DirectoryStep, ReleaseStep DEF WriterStep
<1>2. ASSUME NEW w \in Writers, ProcessDies(w) PROVE RecordingInv'
  BY <1>2, QuietStep
<1>3. ASSUME UNCHANGED recordingVars PROVE RecordingInv'
  <2>1. RecordingTypes'
    BY <1>3 DEF recordingVars, RecordingInv, RecordingTypes, RecordingFlags, Plan
  <2>2. DiskInv' /\ MarkerInv'
    BY <1>3 DEF recordingVars, RecordingInv, DiskInv, MarkerInv
  <2>3. ASSUME NEW w \in Writers PROVE OwnerInv(w)' /\ StepInv(w)' /\ BehindInv(w)'
    <3>1. OwnerInv(w) /\ StepInv(w) /\ BehindInv(w)
      BY DEF RecordingInv
    <3>2. OwnerInv(w)' /\ StepInv(w)'
      BY <1>3, <3>1 DEF recordingVars, OwnerInv, StepInv, Owns, Reserved, Temporary, Final, Inode, Plan
    <3>3. BehindInv(w)'
      BY <1>3, <3>1 DEF recordingVars, BehindInv, OnDisk
    <3> QED
      BY <3>2, <3>3
  <2> QED
    BY <2>1, <2>2, <2>3 DEF RecordingInv
<1> QED
  BY <1>1, <1>2, <1>3, PowerLossStep DEF RecordingNext

LEMMA RecordingSafe == RecordingSpec => []RecordingInv
  BY RecordingStarts, RecordingStep, PTL DEF RecordingSpec

-----------------------------------------------------------------------------

(* No two writers, of one program or of several processes, ever write the artifacts of one
   stem: the exclusive reservation (reserve_stem) outlives whatever fails or dies. *)
THEOREM StemsNeverShared == RecordingSpec => []StemsAreExclusive
<1>1. RecordingInv => StemsAreExclusive
  <2> SUFFICES ASSUME RecordingInv, NEW v \in Writers, NEW w \in Writers, v # w, suffix[v] = suffix[w],
                      pc[v] \in Working, pc[w] \in Working
               PROVE  FALSE
    BY DEF StemsAreExclusive, Working
  <2>1. Owns(v) /\ Owns(w) /\ OwnerInv(v) /\ OwnerInv(w)
    BY DEF Owns, RecordingInv
  <2> QED
    BY <2>1, OwnStems
<1> QED
  BY <1>1, RecordingSafe, PTL

(* Wherever metadata is visible, now or after a power loss, the archive of the same call is
   complete and so is the WAV that the metadata speaks of; and a call whose write returned
   Ok is there ever after. *)
THEOREM RecordingsSurvive == RecordingSpec => []RecordingsAreDurable
<1>1. RecordingInv => MarkerMeansComplete
  <2> SUFFICES ASSUME RecordingInv, NEW name \in DOMAIN entries, name[2] = "json", ~name[3]
               PROVE  LET w == entries[name][1]
                          complete(ext) == /\ Present(<<name[1], ext, FALSE>>)
                                           /\ entries[<<name[1], ext, FALSE>>] = <<w, ext>>
                                           /\ <<w, ext>> \in written IN
                      complete("json") /\ complete("ambe") /\ (doc[w] => complete("wav"))
    BY DEF MarkerMeansComplete
  <2>1. PICK stem \in Nat : name = <<stem, "json", FALSE>>
    <3>1. PICK s \in Nat, ext \in Artifacts \cup {"reserve"}, b \in BOOLEAN : name = <<s, ext, b>>
      BY DEF RecordingInv, RecordingTypes
    <3>2. name[1] = s /\ ext = "json"
      BY <3>1
    <3>3. b = FALSE
      <4>1. CASE b = TRUE
        BY <3>1, <4>1
      <4> QED
        BY <4>1
    <3> QED
      BY <3>1, <3>2, <3>3
  <2>2. PICK w \in Writers :
          /\ entries[<<stem, "json", FALSE>>] = <<w, "json">> /\ <<w, "json">> \in synced
          /\ suffix[w] = stem /\ file[w] > 1
    BY <2>1 DEF RecordingInv, MarkerInv
  <2>3. ASSUME NEW ext \in Artifacts, OnDisk(suffix[w], ext, w)
        PROVE  /\ Present(<<stem, ext, FALSE>>)
               /\ entries[<<stem, ext, FALSE>>] = <<w, ext>> /\ <<w, ext>> \in written
    BY <2>2, <2>3 DEF OnDisk, RecordingInv, RecordingTypes, DiskInv, Present
  <2>4. OnDisk(suffix[w], "ambe", w) /\ (doc[w] => OnDisk(suffix[w], "wav", w))
    BY <2>2 DEF RecordingInv, BehindInv
  <2>5. /\ Present(<<stem, "json", FALSE>>)
        /\ entries[<<stem, "json", FALSE>>] = <<w, "json">> /\ <<w, "json">> \in written
    BY <2>1, <2>2 DEF RecordingInv, RecordingTypes, Present
  <2>6. entries[name][1] = w /\ name[1] = stem
    BY <2>1, <2>2
  <2> QED
    BY <2>3, <2>4, <2>5, <2>6 DEF Artifacts
<1>2. RecordingInv => CommittedSurvives
  <2> SUFFICES ASSUME RecordingInv, NEW w \in Writers, outcome[w] = "ok"
               PROVE  LET marker == <<suffix[w], "json", FALSE>> IN
                      Present(marker) /\ entries[marker] = <<w, "json">>
    BY DEF CommittedSurvives
  <2>1. OnDisk(suffix[w], "json", w) /\ suffix[w] \in Nat
    BY DEF RecordingInv, BehindInv, RecordingTypes
  <2> QED
    BY <2>1 DEF RecordingInv, DiskInv, OnDisk, Artifacts, Present
<1> QED
  BY <1>1, <1>2, RecordingSafe, PTL DEF RecordingsAreDurable
===============================================================================
