--------------------------- MODULE MCPoserSocket ---------------------------
(***************************************************************************)
(* Instantiates PoserSocket for TLC: a memory-read and a memory-write      *)
(* request (Test.py's MemReadMemory / MemWriteMemory of two bytes at       *)
(* address 16), and their replies.                                         *)
(***************************************************************************)
EXTENDS PoserSocket

\* SysPacketReadMem(16, 2) and SysPacketWriteMem(16, "12", 2), marshaled.
MCRequests ==
    { [dest |-> 1, body |-> <<1, 0, 0, 0, 0, 16, 0, 2>>],
      [dest |-> 1, body |-> <<2, 0, 0, 0, 0, 16, 0, 2, 49, 50>>] }

\* A read reply carrying two bytes of memory, and a bare write reply.
MCReplyBodies == { <<1, 0, 49, 50>>, <<2, 0>> }
=============================================================================
