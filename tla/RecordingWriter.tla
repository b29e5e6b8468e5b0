--------------------------- MODULE RecordingWriter ---------------------------
(***************************************************************************)
(* How the two recorders put a finished call on disk (pulsar/src/writer.rs *)
(* and stargazer/src/writer.rs): a stem is reserved with an exclusive file,*)
(* each artifact is written to a temporary file, synced, and installed by a*)
(* hard link, and the metadata comes last as the commit marker.  Writers   *)
(* are independent processes or tasks whose calls have the same base name; *)
(* any file operation may fail, a process may die between two of them, and *)
(* power may be lost.                                                      *)
(***************************************************************************)
EXTENDS Integers, Sequences, FiniteSets

CONSTANTS
  Writers,
  MaxSuffix,         \* 999
  MaxFaults          \* bound on failed operations, crashes and power losses

ASSUME RecordingConstants == IsFiniteSet(Writers) /\ {MaxSuffix, MaxFaults} \subseteq Nat

VARIABLES
  program,           \* whose writer this is: "pulsar" or "stargazer", with or without WAV
  pc, suffix, file,  \* per writer: next operation, candidate stem, artifact at hand
  failed,            \* per writer: the result so far is an error
  wav,               \* per writer: outcome.wav
  entries,           \* the directory: name to inode
  onDisk,            \* the directory as of its last sync
  written, synced,   \* inodes whose bytes are complete, and complete on disk
  doc,               \* per writer: what its metadata says, [wav]
  outcome,           \* per writer: what write returned
  faults

recordingVars == <<program, pc, suffix, file, failed, wav, entries, onDisk, written, synced,
                   doc, outcome, faults>>

Programs == {"pulsar", "stargazer", "stargazer_wav"}
Plan == IF program = "stargazer_wav" THEN <<"ambe", "wav", "json">> ELSE <<"ambe", "json">>

\* A name is a stem, an extension and whether it carries the suffix .tmp.
Final(w) == <<suffix[w], Plan[file[w]], FALSE>>
Temporary(w) == <<suffix[w], Plan[file[w]], TRUE>>
Reserved(w) == <<suffix[w], "reserve", FALSE>>
Inode(w) == <<w, Plan[file[w]]>>

Present(name) == name \in DOMAIN entries
Linked(name, inode) == [n \in DOMAIN entries \cup {name} |->
                          IF n = name THEN inode ELSE entries[n]]
Unlinked(name) == [n \in DOMAIN entries \ {name} |-> entries[n]]

RecordingInit ==
  /\ program \in Programs
  /\ pc = [w \in Writers |-> "idle"] /\ suffix = [w \in Writers |-> 0]
  /\ file = [w \in Writers |-> 1] /\ failed = [w \in Writers |-> FALSE]
  /\ wav = [w \in Writers |-> FALSE] /\ doc = [w \in Writers |-> FALSE]
  /\ entries = <<>> /\ onDisk = <<>> /\ written = {} /\ synced = {}
  /\ outcome = [w \in Writers |-> "none"] /\ faults = 0

-----------------------------------------------------------------------------

GoTo(w, where) == pc' = [pc EXCEPT ![w] = where]
Returns(w, what) == GoTo(w, "returned") /\ outcome' = [outcome EXCEPT ![w] = what]
Fault == faults < MaxFaults /\ faults' = faults + 1

diskVars == <<entries, onDisk, written, synced>>
fileVars == <<file, failed, wav, doc>>

\* create_directories: the hierarchy exists and is synced, or the call ends.
CreateDirectories(w) ==
  /\ pc[w] = "idle"
  /\ \/ GoTo(w, "reserve") /\ UNCHANGED <<outcome, faults>>
     \/ Fault /\ Returns(w, "error")
  /\ UNCHANGED <<program, suffix, fileVars, diskVars>>

\* The next candidate of reserve_stem, or NameExhausted.
NextCandidate(w) ==
  IF suffix[w] < MaxSuffix
  THEN GoTo(w, "reserve") /\ suffix' = [suffix EXCEPT ![w] = @ + 1] /\ UNCHANGED outcome
  ELSE Returns(w, "error") /\ UNCHANGED suffix

\* Mutant: the stem is not created exclusively.
ReserveStemShared(w) ==
  /\ pc[w] = "reserve" /\ GoTo(w, "check")
  /\ entries' = Linked(Reserved(w), <<w, "reserve">>)
  /\ UNCHANGED <<program, suffix, fileVars, onDisk, written, synced, outcome, faults>>

\* create_new on the reservation file.
ReserveStem(w) ==
  /\ pc[w] = "reserve"
  /\ \/ /\ Present(Reserved(w)) /\ NextCandidate(w)
        /\ UNCHANGED <<entries, faults>>
     \/ /\ ~Present(Reserved(w)) /\ GoTo(w, "check")
        /\ entries' = Linked(Reserved(w), <<w, "reserve">>)
        /\ UNCHANGED <<suffix, outcome, faults>>
     \/ Fault /\ Returns(w, "error") /\ UNCHANGED <<suffix, entries>>
  /\ UNCHANGED <<program, fileVars, onDisk, written, synced>>

\* stem_available: neither an artifact nor a temporary file of this stem exists.
StemAvailable(w) ==
  \A name \in DOMAIN entries : name[1] = suffix[w] => name = Reserved(w)

CheckStem(w) ==
  /\ pc[w] = "check"
  /\ GoTo(w, IF StemAvailable(w) THEN "create" ELSE "unreserve")
  /\ UNCHANGED <<program, suffix, fileVars, diskVars, outcome, faults>>

ReleaseCandidate(w) ==
  /\ pc[w] = "unreserve"
  /\ \/ entries' = Unlinked(Reserved(w)) /\ NextCandidate(w) /\ UNCHANGED faults
     \/ Fault /\ Returns(w, "error") /\ UNCHANGED <<entries, suffix>>
  /\ UNCHANGED <<program, fileVars, onDisk, written, synced>>

-----------------------------------------------------------------------------
(* write_atomic (publish_bytes), one operation at a time.                  *)

\* An artifact is done: the next one, or the reservation is released.  A failed WAV is
\* noted and the metadata follows; a failure of any other artifact ends the write.
ArtifactDone(w, ok) ==
  /\ IF (ok \/ Plan[file[w]] = "wav") /\ file[w] < Len(Plan)
     THEN GoTo(w, "create") /\ file' = [file EXCEPT ![w] = @ + 1] /\ UNCHANGED failed
     ELSE GoTo(w, "release") /\ failed' = [failed EXCEPT ![w] = ~ok] /\ UNCHANGED file
  /\ wav' = [wav EXCEPT ![w] = @ \/ (ok /\ Plan[file[w]] = "wav")]

CreateTemporary(w) ==
  /\ pc[w] = "create"
  /\ \/ /\ ~Present(Temporary(w)) /\ GoTo(w, "write")
        /\ entries' = Linked(Temporary(w), Inode(w))
        /\ UNCHANGED <<file, failed, wav, faults>>
     \/ Present(Temporary(w)) /\ ArtifactDone(w, FALSE) /\ UNCHANGED <<entries, faults>>
     \/ Fault /\ ArtifactDone(w, FALSE) /\ UNCHANGED entries
  /\ UNCHANGED <<program, suffix, doc, onDisk, written, synced, outcome>>

\* A failed write, sync or link removes the temporary file, or fails to.
CleanUp(w) == entries' \in {entries, Unlinked(Temporary(w))}

WriteTemporary(w) ==
  /\ pc[w] = "write"
  /\ doc' = IF Plan[file[w]] = "json" THEN [doc EXCEPT ![w] = wav[w]] ELSE doc
  /\ \/ /\ GoTo(w, "sync") /\ written' = written \cup {Inode(w)}
        /\ UNCHANGED <<file, failed, wav, entries, faults>>
     \/ Fault /\ CleanUp(w) /\ ArtifactDone(w, FALSE) /\ UNCHANGED written
  /\ UNCHANGED <<program, suffix, onDisk, synced, outcome>>

\* Mutant: the contents are not synced.
SyncTemporaryNever(w) ==
  /\ pc[w] = "sync" /\ GoTo(w, "install")
  /\ UNCHANGED <<program, suffix, fileVars, diskVars, outcome, faults>>

SyncTemporary(w) ==
  /\ pc[w] = "sync"
  /\ \/ /\ GoTo(w, "install") /\ synced' = synced \cup {Inode(w)}
        /\ UNCHANGED <<file, failed, wav, entries, faults>>
     \/ Fault /\ CleanUp(w) /\ ArtifactDone(w, FALSE) /\ UNCHANGED synced
  /\ UNCHANGED <<program, suffix, doc, onDisk, written, outcome>>

\* The hard link never replaces a file.
InstallFinal(w) ==
  /\ pc[w] = "install"
  /\ \/ /\ ~Present(Final(w)) /\ GoTo(w, "remove")
        /\ entries' = Linked(Final(w), entries[Temporary(w)])
        /\ UNCHANGED <<file, failed, wav, faults>>
     \/ Present(Final(w)) /\ CleanUp(w) /\ ArtifactDone(w, FALSE) /\ UNCHANGED faults
     \/ Fault /\ CleanUp(w) /\ ArtifactDone(w, FALSE)
  /\ UNCHANGED <<program, suffix, doc, onDisk, written, synced, outcome>>

RemoveTemporary(w) ==
  /\ pc[w] = "remove"
  /\ \/ /\ GoTo(w, "sync_directory") /\ entries' = Unlinked(Temporary(w))
        /\ UNCHANGED <<file, failed, wav, faults>>
     \/ Fault /\ ArtifactDone(w, FALSE) /\ UNCHANGED entries
  /\ UNCHANGED <<program, suffix, doc, onDisk, written, synced, outcome>>

\* On Unix the directory is synced, with all the entries it then has.
SyncDirectory(w) ==
  /\ pc[w] = "sync_directory"
  /\ \/ ArtifactDone(w, TRUE) /\ onDisk' = entries /\ UNCHANGED faults
     \/ Fault /\ ArtifactDone(w, FALSE) /\ UNCHANGED onDisk
  /\ UNCHANGED <<program, suffix, doc, entries, written, synced, outcome>>

\* Reservation::release; write then returns, or first looks whether its metadata is there.
ReleaseReservation(w) ==
  /\ pc[w] = "release"
  /\ \E ok \in BOOLEAN :
       /\ IF ok THEN entries' = Unlinked(Reserved(w)) /\ UNCHANGED faults
          ELSE Fault /\ UNCHANGED entries
       /\ IF ok /\ ~failed[w] THEN Returns(w, "ok")
          ELSE IF program = "pulsar" THEN Returns(w, "error")
          ELSE GoTo(w, "inspect") /\ UNCHANGED outcome
  /\ UNCHANGED <<program, suffix, fileVars, onDisk, written, synced>>

\* json_path.exists() decides between MetadataVisible and the error itself.
InspectMetadata(w) ==
  /\ pc[w] = "inspect"
  /\ Returns(w, IF Present(<<suffix[w], "json", FALSE>>) THEN "visible" ELSE "error")
  /\ UNCHANGED <<program, suffix, fileVars, diskVars, faults>>

-----------------------------------------------------------------------------

Running(w) == pc[w] \notin {"idle", "returned", "dead"}

ProcessDies(w) ==
  /\ Running(w) /\ Fault /\ GoTo(w, "dead")
  /\ UNCHANGED <<program, suffix, fileVars, diskVars, outcome>>

\* Every change since the last sync of the directory may survive or not, and so may the
\* bytes of a file that was not synced.  Writers not yet started run after the restart.
PowerLoss ==
  /\ Fault
  /\ pc' = [w \in Writers |-> IF Running(w) THEN "dead" ELSE pc[w]]
  /\ LET both == DOMAIN entries \cup DOMAIN onDisk
         stable == {n \in DOMAIN entries \cap DOMAIN onDisk : entries[n] = onDisk[n]} IN
     \E now \in SUBSET both :
       /\ stable \subseteq now
       /\ entries' = [n \in now |-> IF n \in DOMAIN entries THEN entries[n] ELSE onDisk[n]]
       /\ onDisk' = entries'
  /\ \E kept \in SUBSET (written \ synced) : written' = synced \cup kept
  /\ UNCHANGED <<program, suffix, fileVars, synced, outcome>>

WriterStep(w) ==
  \/ CreateDirectories(w) \/ ReserveStem(w) \/ CheckStem(w) \/ ReleaseCandidate(w)
  \/ CreateTemporary(w) \/ WriteTemporary(w) \/ SyncTemporary(w) \/ InstallFinal(w)
  \/ RemoveTemporary(w) \/ SyncDirectory(w) \/ ReleaseReservation(w) \/ InspectMetadata(w)

RecordingNext ==
  \/ \E w \in Writers : WriterStep(w) \/ ProcessDies(w)
  \/ PowerLoss

RecordingSpec == RecordingInit /\ [][RecordingNext]_recordingVars

-----------------------------------------------------------------------------

\* Two writers never work on one stem: the reservation and the check of what is left of
\* an earlier write keep them apart, whatever failed, died or was lost before.
StemsAreExclusive ==
  \A v, w \in Writers :
    v # w /\ suffix[v] = suffix[w] =>
      ~({pc[v], pc[w]} \subseteq {"create", "write", "sync", "install", "remove",
                                   "sync_directory", "release"})

\* The metadata is a commit marker: wherever it is visible, even after a power loss, it and
\* the raw archive of the same call are complete, and so is the WAV it speaks of.
MarkerMeansComplete ==
  \A name \in DOMAIN entries : name[2] = "json" /\ ~name[3] =>
    LET w == entries[name][1]
        complete(ext) == /\ Present(<<name[1], ext, FALSE>>)
                         /\ entries[<<name[1], ext, FALSE>>] = <<w, ext>>
                         /\ <<w, ext>> \in written IN
    complete("json") /\ complete("ambe") /\ (doc[w] => complete("wav"))

\* A call whose write returned Ok stays on disk, whatever other writers do or lose.
CommittedSurvives ==
  \A w \in Writers : outcome[w] = "ok" =>
    LET marker == <<suffix[w], "json", FALSE>> IN
    /\ Present(marker) /\ entries[marker] = <<w, "json">>

\* A committed recording is whole, whoever crashes and when, and stays.
RecordingsAreDurable ==
  MarkerMeansComplete /\ CommittedSurvives
=============================================================================
