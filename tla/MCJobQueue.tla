----------------------------- MODULE MCJobQueue -----------------------------
(* JobQueue for TLC: two readers, so that a message can be gone when the one
   that was woken for it comes to look. *)
EXTENDS JobQueue

CONSTANTS r1, r2
=============================================================================
