----------------------------- MODULE MCReflector -----------------------------
(***************************************************************************)
(* The reflector endpoint for TLC: a callsign that may talk, one that may  *)
(* only listen, one that is turned away.  part, which never changes, says  *)
(* which protocol and which settings a behaviour exercises.                *)
(***************************************************************************)
EXTENDS ReflectorEndpoint, TLC

CONSTANTS p1, p2, p3, writer, reader, denied, A, B, C, s1, s2, HeaderStreams, Parts

VARIABLE part

Verdicts == [c \in {writer, reader, denied} |->
                CASE c = writer -> "ReadWrite" [] c = reader -> "ReadOnly" [] OTHER -> "Reject"]

(* Two modules in which clients collide; the limits with half-open clients; the DCS
   voice packets of two streams. *)
DExtra == INSTANCE ReflectorEndpoint WITH Kind <- "DExtra", Streams <- HeaderStreams
DPlus == INSTANCE ReflectorEndpoint WITH
    Kind <- "DPlus", Streams <- HeaderStreams, MaxTotal <- 2, MaxPerModule <- 1,
    FailureLimit <- 2
Dcs == INSTANCE ReflectorEndpoint WITH Kind <- "Dcs", OtherModules <- {}

PeerSymmetry == Permutations(Peers)

(* In the DCS behaviours one peer and one module are not used. *)
DcsBound == Cardinality(Clients) <= 2 /\ byModule[B] = {}

ReflectorInit == part \in Parts /\ Init

ReflectorNext ==
    /\ \/ part = "DExtra" /\ DExtra!Next
       \/ part = "DPlus" /\ DPlus!Next
       \/ part = "Dcs" /\ Dcs!Next /\ DcsBound'
    /\ UNCHANGED part

ReflectorSpec == ReflectorInit /\ [][ReflectorNext]_<<part, vars>>

(* The client limits hold on every path into the pool, the half-open DPlus handshake
   included (link_capacity_reject, handle_inbound_dplus). *)
LimitsHold == IF part = "DPlus" THEN DPlus!CapacityHeld ELSE CapacityHeld
==============================================================================
