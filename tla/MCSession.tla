----------------------------- MODULE MCSession ------------------------------
(***************************************************************************)
(* Instances of Session for TLC.                                           *)
(***************************************************************************)
EXTENDS Session

CONSTANTS s1, s2

TwoServices == <<s1, s2>>
SameTwice == <<s1, s1>>
=============================================================================
