------------------------------ MODULE PoserMem ------------------------------
(***************************************************************************)
(* The memory packets of Poser.py, SysPacketReadMem and SysPacketWriteMem, *)
(* called through Socket.call (PoserSocket) on an emulator that holds the  *)
(* PalmOS memory.  A caller (Test.py's MemReadMemory / MemWriteMemory)     *)
(* builds one packet and calls it; the packet's marshaled body travels in  *)
(* a frame over the two byte streams, the emulator reads or writes its     *)
(* memory and answers, and the reply body is unmarshaled into the packet.  *)
(* The packet's _command is left out: its reply value is never read.       *)
(***************************************************************************)
EXTENDS Integers, Sequences

CONSTANTS
    Addrs,     \* the emulator's memory addresses, 0..n-1
    MemVals,   \* byte values memory holds and callers write
    Lens,      \* lengths callers read and write
    MaxCalls,  \* bound on calls
    ShortRecv  \* sock.recv(n) may return 1..n bytes

VARIABLES
    sock, transid, cstate, data, rhdr, toPeer, toClient, calls, outcome, req,
    sentTid, lastServed,   \* Socket and the connection (PoserSocket)
    pkind,       \* the packet's class: "none", "read" or "write"
    memAddr,     \* _memAddr
    memLength,   \* _memLength
    memory,      \* _memory: the caller's data, or the bytes a read returned
    mem,         \* the emulator's memory: address -> byte
    written      \* history: memory as the caller's completed writes left it

sockVars == <<sock, transid, cstate, data, rhdr, toPeer, toClient, calls, outcome, req,
              sentTid, lastServed>>
pktVars  == <<pkind, memAddr, memLength, memory>>
vars     == <<sockVars, pktVars, mem, written>>

\* The packet bodies come from the packet below, not from constants.
S == INSTANCE PoserSocket
         WITH Requests <- {}, ReplyBodies <- {},
              ShortSend <- FALSE, PackRangeChecked <- FALSE

W == INSTANCE PoserWire

TypeOK ==
    /\ pkind \in {"none", "read", "write"}
    /\ memAddr \in Addrs \cup {0}
    /\ memLength \in Lens \cup {0}
    /\ memory \in Seq(MemVals)
    /\ mem \in [Addrs -> MemVals]
    /\ written \in [Addrs -> MemVals]

Init ==
    /\ S!Init
    /\ pkind = "none" /\ memAddr = 0 /\ memLength = 0 /\ memory = <<>>
    /\ mem = [a \in Addrs |-> 0]
    /\ written = mem

\* Environment bound, not code: the caller only names ranges inside the
\* modelled memory, as the abstract store's InRange requires.
InMemory(a, n) == \A i \in 0..n - 1 : a + i \in Addrs

-----------------------------------------------------------------------------
(* Building and marshaling the packets.                                    *)

\* SysPacketMem.__init__ and SysPacketReadMem.__init__: _memory is None
\* (the empty sequence).  A new packet gets a new _data, and its call has
\* no outcome yet.
NewReadMem ==
    /\ cstate = "idle"
    /\ \E a \in Addrs, n \in Lens :
        /\ InMemory(a, n)
        /\ pkind' = "read" /\ memAddr' = a /\ memLength' = n /\ memory' = <<>>
    /\ data' = <<>> /\ outcome' = "none"
    /\ UNCHANGED <<sock, transid, cstate, rhdr, toPeer, toClient, calls, req, sentTid,
                   lastServed, mem, written>>

\* SysPacketWriteMem.__init__(addr, data, length): Test.py's MemWriteMemory
\* takes data and length separately, so data may be shorter or longer.
NewWriteMem ==
    /\ cstate = "idle"
    /\ \E a \in Addrs, n \in Lens :
        /\ InMemory(a, n)
        /\ memory' \in UNION {[1..m -> MemVals] : m \in Lens}
        /\ pkind' = "write" /\ memAddr' = a /\ memLength' = n
    /\ data' = <<>> /\ outcome' = "none"
    /\ UNCHANGED <<sock, transid, cstate, rhdr, toPeer, toClient, calls, req, sentTid,
                   lastServed, mem, written>>

\* SysPacketReadMem._marshal: pack(">BB", 0x01, 0) + pack(">LH", addr, len).
MarshalReadMem == <<1, 0>> \o W!PackL(memAddr) \o W!PackH(memLength)

\* Mutant: the write packet marshaled with the read packet's command byte.
MarshalWriteMemReadCmd ==
    <<1, 0>> \o W!PackL(memAddr) \o W!PackH(memLength) \o W!PadTo(memory, memLength)

\* SysPacketWriteMem._marshal: 0x02, then pack(">LH%ds" % len, addr, len,
\* memory), which pads or truncates the data to len bytes.
MarshalWriteMem ==
    <<2, 0>> \o W!PackL(memAddr) \o W!PackH(memLength) \o W!PadTo(memory, memLength)

\* pkt._marshal() dispatched on the packet's class.
MarshalMem == IF pkind = "read" THEN MarshalReadMem ELSE MarshalWriteMem

\* Test.py's test() connects before its first call and closes after its last.
MemConnect == S!Connect /\ UNCHANGED <<pktVars, mem, written>>
MemClose   == S!Close   /\ UNCHANGED <<pktVars, mem, written>>

\* Socket.call on the packet: pkt._marshal(), then lines 72-77 (dest 1).
MemCall ==
    /\ pkind # "none"
    /\ S!CallWith([dest |-> 1, body |-> MarshalMem])
    /\ UNCHANGED <<pktVars, mem, written>>

-----------------------------------------------------------------------------
(* The emulator, from the wire layout of the spec (not code of this repo). *)

\* The body of the request frame at the head of toPeer.
PeerBody == SubSeq(toPeer, W!HeaderLen + 1, W!HeaderLen + W!ReplyBodyLen(toPeer))
PeerAddr(b) == W!UnpackBE(SubSeq(b, 3, 6))
PeerLen(b)  == W!UnpackBE(SubSeq(b, 7, 8))

\* A read is answered with the command, a reserved byte and len bytes of
\* memory; a write stores the len bytes that follow its length field.
PeerReply(b) ==
    IF b[1] = 1
    THEN <<1, 0>> \o [i \in 1..PeerLen(b) |-> mem[PeerAddr(b) + i - 1]]
    ELSE <<2, 0>>

PeerWrite(b) ==
    [a \in Addrs |-> IF PeerAddr(b) <= a /\ a < PeerAddr(b) + PeerLen(b)
                     THEN b[9 + a - PeerAddr(b)] ELSE mem[a]]

MemPeerServe ==
    /\ Len(toPeer) >= W!HeaderLen
    /\ Len(toPeer) >= S!RequestFrameLen
    /\ LET b == PeerBody    \* the reply is bound once, not re-evaluated per use
       IN  /\ \E rep \in {PeerReply(b)} : S!PeerServeWith(rep)
           /\ mem' = IF b[1] = 2 THEN PeerWrite(b) ELSE mem
    /\ UNCHANGED <<pktVars, written>>

-----------------------------------------------------------------------------
(* Reading the reply and unmarshaling it.                                  *)

MemRecvHeader == S!RecvHeader /\ UNCHANGED <<pktVars, mem, written>>
MemRecvBody   == S!RecvBody   /\ UNCHANGED <<pktVars, mem, written>>

\* Mutant: the read slice starts one byte late.
ReadMemSliceLate(d, n) == W!Slice(d, 2, n)

\* Line 195: self._data[0:self._memLength], however many bytes there are.
ReadMemSlice(d, n) == W!Slice(d, 1, n)

\* Lines 84-88 with pkt._unmarshal of the memory packet: SysPacket's part
\* (in S!RecvFooter), then, for a read, the slice of line 195.  A write
\* has no further unmarshal; once it returns, the caller takes its data as
\* written.
MemRecvFooter ==
    /\ S!RecvFooter
    /\ memory' = IF pkind = "read" /\ outcome' = "ok"
                 THEN ReadMemSlice(data', memLength) ELSE memory
    /\ written' = IF pkind = "write" /\ outcome' = "ok"
                  THEN [a \in Addrs |-> IF memAddr <= a /\ a < memAddr + memLength
                                        THEN W!PadTo(memory, memLength)[a - memAddr + 1]
                                        ELSE written[a]]
                  ELSE written
    /\ UNCHANGED <<pkind, memAddr, memLength, mem>>

\* SysPacketMem.getMemory.
GetMemory == memory

Next == MemConnect \/ MemClose \/ NewReadMem \/ NewWriteMem \/ MemCall \/ MemPeerServe
          \/ MemRecvHeader \/ MemRecvBody \/ MemRecvFooter

\* The caller is blocked in sock.recv and proceeds when bytes are there;
\* the emulator answers every whole request frame.
Fairness == /\ WF_vars(MemPeerServe) /\ WF_vars(MemRecvHeader)
            /\ WF_vars(MemRecvBody) /\ WF_vars(MemRecvFooter)

Spec == Init /\ [][Next]_vars /\ Fairness

-----------------------------------------------------------------------------
(* Properties.                                                             *)

\* Spec 8, memory round trip: a read that returns normally gives, through
\* getMemory, the bytes the caller's earlier completed writes put at those
\* addresses (or the initial memory): WriteMem's marshal layout, the
\* emulator and ReadMem's slice of line 195 agree on address, length and
\* offset.
ReadReturnsWritten ==
    (pkind = "read" /\ cstate = "idle" /\ outcome = "ok") =>
        GetMemory = [i \in 1..memLength |-> written[memAddr + i - 1]]

\* Spec 4.2: a read that returns normally returns exactly _memLength bytes
\* (a shorter reply must fail with TruncatedBody); line 195 slices
\* whatever the body holds.
ReadIsWhole ==
    (pkind = "read" /\ cstate = "idle" /\ outcome = "ok") => Len(GetMemory) = memLength

\* The memory packets over Socket.call implement the atomic memory of
\* PoserMemStore: the emulator's memory is the store; a call is pending
\* from its send until it returns, and has taken effect once the emulator
\* has consumed the request frame; a read that returned normally has given
\* the caller getMemory.  A read packet's _memory is no part of its request;
\* a write's data is what '%ds' makes of it, padded or cut to the length.
Store == INSTANCE PoserMemStore
    WITH store   <- mem,
         pending <- IF cstate = "idle" THEN [kind |-> "none", addr |-> 0, len |-> 0, data |-> <<>>]
                    ELSE [kind |-> pkind, addr |-> memAddr, len |-> memLength,
                          data |-> IF pkind = "write" THEN W!PadTo(memory, memLength)
                                   ELSE <<>>],
         applied <- cstate # "idle" /\ toPeer = <<>>,
         got     <- IF pkind = "read" /\ outcome = "ok" THEN GetMemory ELSE <<>>

\* Checked as PoserMemStore's safety and the promise its fairness makes:
\* the fairness itself names actions that exist only under the mapping.
ImplementsPoserMemStore == Store!Safety /\ Store!Completes
=============================================================================
