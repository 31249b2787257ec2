----------------------------- MODULE MCPoserMem -----------------------------
(***************************************************************************)
(* Instantiates PoserMem for TLC: a memory of three bytes, so that reads   *)
(* and writes of one and two bytes overlap partly and at both ends.        *)
(***************************************************************************)
EXTENDS PoserMem

MCAddrs == 0..2
=============================================================================
