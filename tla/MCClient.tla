------------------------------ MODULE MCClient ------------------------------
(***************************************************************************)
(* Instances of Client for TLC.  In MCClient.cfg one request, whose        *)
(* application may leave, over three sessions, so that it can hold one     *)
(* that has failed while the next is attached.  In MCClientHalf.cfg one    *)
(* whose END cannot be encoded, over one session.  Requests meet only in   *)
(* the job table, which keeps them apart.  The backoff is counted in       *)
(* halves of BackoffFirst.                                                 *)
(***************************************************************************)
EXTENDS Client

CONSTANT h1
=============================================================================
