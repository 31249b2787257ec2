---------------------------- MODULE MCPoserRPC ----------------------------
(***************************************************************************)
(* Instantiates PoserRPC for TLC: two parameter names, the 'H' and 'L'     *)
(* types Test.py uses, two values, and register keys per run.              *)
(***************************************************************************)
EXTENDS PoserRPC

MCParamTypes == {[t |-> "H"], [t |-> "L"]}
MCNoRegs == {}
MCOneReg == {"D1"}
MCTwoRegs == {"D1", "A1"}
MCA0Reg == {"A0"}
=============================================================================
