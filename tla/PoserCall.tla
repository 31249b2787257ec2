----------------------------- MODULE PoserCall -----------------------------
(***************************************************************************)
(* Abstract specification of Socket.call: one blocking remote call at a    *)
(* time.  A call hands the packet's marshaled body to the emulator and     *)
(* either completes, leaving the packet holding the emulator's reply to    *)
(* that very request (less the two-byte base header the packet strips) and *)
(* bumping the transaction id once, or fails: in transport with the id as  *)
(* it was, or in unmarshaling the reply after the id was bumped.           *)
(* PoserSocket is shown to implement it.                                   *)
(***************************************************************************)
EXTENDS Integers, Sequences

CONSTANTS
    Requests,      \* [dest, body] records of the packets callers send
    ReplyBodies,   \* the reply bodies the emulator may answer with
    MaxCalls       \* bound on the number of calls a caller starts

VARIABLES
    transid,  \* Socket._transid
    busy,     \* a call is in progress
    data,     \* pkt._data of the packet being called
    calls     \* calls started so far

vars == <<transid, busy, data, calls>>

\* What SysPacket._unmarshal leaves in pkt._data: the body past its header.
Stripped(body) == IF Len(body) <= 2 THEN <<>> ELSE SubSeq(body, 3, Len(body))

Init == /\ transid = 1
        /\ busy = FALSE
        /\ data = <<>>
        /\ calls = 0

\* The caller starts a call with a freshly marshaled request.
Begin == /\ ~busy
         /\ calls < MaxCalls
         /\ \E r \in Requests : data' = r.body
         /\ busy' = TRUE
         /\ calls' = calls + 1
         /\ UNCHANGED transid

\* A call refused before anything is sent (the header cannot be packed).
Refuse == /\ ~busy
          /\ calls < MaxCalls
          /\ \E r \in Requests : data' = r.body
          /\ calls' = calls + 1
          /\ UNCHANGED <<busy, transid>>

\* The call returns the emulator's reply to the request in flight.
Complete == /\ busy
            /\ \E rep \in ReplyBodies : data' = Stripped(rep)
            /\ transid' = transid + 1
            /\ busy' = FALSE
            /\ UNCHANGED calls

\* The call raises a transport error; the packet holds the request or the
\* raw reply body, and the transaction id is not bumped.
Fail == /\ busy
        /\ data' \in {data} \cup ReplyBodies
        /\ busy' = FALSE
        /\ UNCHANGED <<transid, calls>>

\* The whole reply arrived, the id was bumped, and unmarshaling it raised;
\* the packet holds the raw reply body.
FailUnmarshal == /\ busy
                 /\ data' \in ReplyBodies
                 /\ transid' = transid + 1
                 /\ busy' = FALSE
                 /\ UNCHANGED calls

Next == Begin \/ Refuse \/ Complete \/ Fail \/ FailUnmarshal

\* A call in progress always ends (the emulator answers, the caller reads).
Spec == Init /\ [][Next]_vars /\ WF_vars(Complete \/ Fail \/ FailUnmarshal)
=============================================================================
