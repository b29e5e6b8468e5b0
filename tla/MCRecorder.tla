------------------------------ MODULE MCRecorder ------------------------------
(***************************************************************************)
(* The network services for TLC.  part, which never changes, says which    *)
(* component a behaviour exercises: writers of recordings on one file      *)
(* system, the supervisors of stargazer, a DMR client with its master, the *)
(* DMR recorder, or the D-STAR client with a GUI.                          *)
(***************************************************************************)
EXTENDS RecordingWriter, Coordinator, DmrTerminal, PulsarRecorder, Sextant, TLC

CONSTANTS m1, m2, Parts

VARIABLE part

WriterSymmetry == Permutations(Writers)
DmrPlans == {<<>>, <<1, 2>>}
OneOrTwoMasters ==
  {[masters |-> {m1}, events |-> 2], [masters |-> {m1, m2}, events |-> 2]}

\* A component that is not exercised starts in one state.  A network that loses and reorders
\* datagrams is met by a client without subscriptions.
RecorderInit ==
  /\ part \in Parts
  /\ RecordingInit /\ CoordinatorInit /\ DmrInit /\ PulsarInit /\ SextantInit
  /\ part # "writer" => program = CHOOSE p \in Programs : TRUE
  /\ part # "coordinator" => fileConfig = <<>> /\ disabled = {}
  /\ part # "dmr" => network = "ordered" /\ plan = <<>>
  /\ network = "lossy" => plan = <<>>
  /\ part # "pulsar" => recorder = CHOOSE r \in Recorders : TRUE

RecorderNext ==
  /\ \/ /\ \/ part = "writer" /\ RecordingNext
              /\ UNCHANGED <<coordinatorVars, dmrVars, pulsarVars>>
           \/ part = "coordinator" /\ CoordinatorNext
              /\ UNCHANGED <<recordingVars, dmrVars, pulsarVars>>
           \/ part = "dmr" /\ DmrNext
              /\ UNCHANGED <<recordingVars, coordinatorVars, pulsarVars>>
           \/ part = "pulsar" /\ PulsarNext
              /\ UNCHANGED <<recordingVars, coordinatorVars, dmrVars>>
        /\ UNCHANGED sextantVars
     \/ part = "sextant" /\ SextantNext
        /\ UNCHANGED <<recordingVars, coordinatorVars, dmrVars, pulsarVars>>
  /\ UNCHANGED part

RecorderSpec ==
  /\ RecorderInit
  /\ [][RecorderNext]_<<part, recordingVars, coordinatorVars, dmrVars, pulsarVars, sextantVars>>
==============================================================================
