------------------------------ MODULE MCRelay -------------------------------
(***************************************************************************)
(* Instances of Relay for TLC.                                             *)
(*                                                                         *)
(* Alone: one job, which may be cancelled or lose its submitter at any     *)
(* moment, and a peer of one slot that loses its first session, by a       *)
(* broken link or a stalled one, and makes a second; a timer that may fire *)
(* whenever the job waits.  Other jobs would meet this one in the pool and *)
(* in take only; here its own first attempt, still at the upstream, does.  *)
(*                                                                         *)
(* Solo: two jobs that compete for the one slot of a peer that keeps its   *)
(* session.                                                                *)
(***************************************************************************)
EXTENDS Relay

CONSTANTS j1, j2, p1, p2, s1, e1

AloneService == [x \in {j1, p1, p2} |-> s1]
OneSlot == [p \in {p1, p2} |-> 1]
Equal == [p \in {p1, p2} |-> 1]
OnePeer == p1 :> e1 @@ p2 :> e1

SoloService == [x \in {j1, j2, p1} |-> s1]
SoloSlot == p1 :> 1
SoloEqual == p1 :> 1
SoloPeer == p1 :> e1
=============================================================================
