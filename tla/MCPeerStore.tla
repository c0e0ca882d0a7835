---------------------------- MODULE MCPeerStore ----------------------------
(***************************************************************************)
(* The instance of PeerStore for TLC, without symmetry: it checks liveness *)
(* and the refinement.                                                     *)
(***************************************************************************)
EXTENDS PeerStore
=============================================================================
