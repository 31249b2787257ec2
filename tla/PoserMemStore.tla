--------------------------- MODULE PoserMemStore ---------------------------
(***************************************************************************)
(* Abstract specification of the memory packets (spec 4.2 and 8): one      *)
(* caller reads and writes ranges of an emulator memory, one operation at  *)
(* a time.  An operation is issued, takes effect on the memory in one      *)
(* step, and returns; a read returns exactly the bytes of its range.  An   *)
(* operation may instead fail, with its write applied or not.  PoserMem    *)
(* (the packets over Socket.call) is shown to implement it.                *)
(*                                                                         *)
(* A read's bytes are taken when it returns: only the caller's own writes  *)
(* change the memory, and none runs while a read is in flight.             *)
(***************************************************************************)
EXTENDS Integers, Sequences

CONSTANTS
    Addrs,    \* the memory's addresses
    MemVals,  \* the byte values memory holds
    Lens      \* the lengths of the ranges callers read and write

VARIABLES
    store,    \* the memory: address -> byte
    pending,  \* the operation in progress, or NoOp
    applied,  \* the operation in progress has taken effect on store
    got       \* what the last read that returned gave the caller

vars == <<store, pending, applied, got>>

NoOp == [kind |-> "none", addr |-> 0, len |-> 0, data |-> <<>>]

InRange(a, n) == \A i \in 0..n - 1 : a + i \in Addrs

\* The operations a caller may issue: a read of a range, or a write of
\* exactly as many bytes as the range holds.
Ops ==
    {o \in UNION {{[kind |-> "read", addr |-> a, len |-> n, data |-> <<>>]}
               \cup {[kind |-> "write", addr |-> a, len |-> n, data |-> d] :
                     d \in [1..n -> MemVals]} : a \in Addrs, n \in Lens} :
        InRange(o.addr, o.len)}

\* The bytes of the range [a, a + n).
Range(m, a, n) == [i \in 1..n |-> m[a + i - 1]]

\* The memory after writing d at a.
Written(m, a, d) ==
    [x \in Addrs |-> IF a <= x /\ x < a + Len(d) THEN d[x - a + 1] ELSE m[x]]

TypeOK ==
    /\ store \in [Addrs -> MemVals]
    /\ pending \in Ops \cup {NoOp}
    /\ applied \in BOOLEAN
    /\ got \in Seq(MemVals)

Init ==
    /\ store = [a \in Addrs |-> 0]
    /\ pending = NoOp
    /\ applied = FALSE
    /\ got = <<>>

\* The caller drops the result of its last read.
Forget ==
    /\ pending = NoOp
    /\ got # <<>>
    /\ got' = <<>>
    /\ UNCHANGED <<store, pending, applied>>

\* The caller issues an operation.
Issue ==
    /\ pending = NoOp
    /\ pending' \in Ops
    /\ got' = <<>>
    /\ UNCHANGED <<store, applied>>

\* The operation takes effect on the memory.
Apply ==
    /\ pending # NoOp
    /\ ~applied
    /\ store' = IF pending.kind = "write"
                THEN Written(store, pending.addr, pending.data) ELSE store
    /\ applied' = TRUE
    /\ UNCHANGED <<pending, got>>

\* The operation returns; a read gives the bytes of its range.
Return ==
    /\ applied
    /\ got' = IF pending.kind = "read"
              THEN Range(store, pending.addr, pending.len) ELSE got
    /\ pending' = NoOp
    /\ applied' = FALSE
    /\ UNCHANGED store

\* The operation raises, whether or not it took effect.
Fail ==
    /\ pending # NoOp
    /\ pending' = NoOp
    /\ applied' = FALSE
    /\ UNCHANGED <<store, got>>

Next == Forget \/ Issue \/ Apply \/ Return \/ Fail

Safety == Init /\ [][Next]_vars

\* An issued operation takes effect and returns (or fails).
Spec == Safety /\ WF_vars(Apply) /\ WF_vars(Return \/ Fail)

\* What Spec's fairness promises the caller: every operation ends.
Completes == pending # NoOp ~> pending = NoOp
=============================================================================
