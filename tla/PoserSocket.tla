---------------------------- MODULE PoserSocket ----------------------------
(***************************************************************************)
(* Socket.call of Poser.py over a TCP connection to the emulator.  The     *)
(* client marshals the packet, frames it (header, checksum, body, footer), *)
(* sends it with one sock.send, then reads the reply with three sock.recv  *)
(* calls (header, body, footer), bumps the transaction id and unmarshals.  *)
(* The connection is two byte streams; the emulator (not in this           *)
(* repository) reads one whole request frame and answers with one frame   *)
(* echoing its transaction id.                                             *)
(*                                                                         *)
(* TCP may hand recv fewer bytes than asked and send may accept fewer      *)
(* bytes than given; ShortRecv and ShortSend let the model do so.  The     *)
(* transaction id is a Python integer packed with ">B": PackRangeChecked   *)
(* selects the Python build that raises struct.error past 255 (2.7)        *)
(* rather than masking it to a byte (earlier builds).                      *)
(***************************************************************************)
EXTENDS Integers, Sequences, SequencesExt

CONSTANTS
    Requests,          \* [dest, body] of the packets callers marshal
    ReplyBodies,       \* reply bodies the emulator may answer with
    MaxCalls,          \* bound on the calls a caller starts
    ShortRecv,         \* sock.recv(n) may return 1..n bytes
    ShortSend,         \* sock.send may send only a prefix of the frame
    PackRangeChecked   \* pack(">B", v) raises for v > 255 instead of masking

W == INSTANCE PoserWire

\* Socket.__init__: source and type bytes fixed for the session.
Src  == 1
Type == 0

VARIABLES
    sock,      \* the TCP socket: "new", "connected" or "closed"
    transid,   \* Socket._transid, an unbounded Python integer
    cstate,    \* where Socket.call is: "idle", "hdr", "body", "ftr"
    data,      \* pkt._data
    rhdr,      \* the header bytes last returned by recv(10)
    toPeer,    \* bytes sent and not yet read by the emulator
    toClient,  \* bytes sent by the emulator and not yet read by the client
    calls,     \* calls started
    outcome,   \* how the last call ended: "none", "ok" or the exception raised
    req,       \* history: the request body of the call in progress
    sentTid,   \* history: the transaction-id byte of that request
    lastServed \* history: the [tid, body] of the emulator's last reply

vars == <<sock, transid, cstate, data, rhdr, toPeer, toClient, calls, outcome, req, sentTid, lastServed>>

Outcomes == {"none", "ok", "socket_error", "pack_error", "header_error", "footer_error", "unmarshal_error"}

TypeOK ==
    /\ sock \in {"new", "connected", "closed"}
    /\ transid \in Nat
    /\ cstate \in {"idle", "hdr", "body", "ftr"}
    /\ data \in Seq(W!Byte)
    /\ rhdr \in Seq(W!Byte)
    /\ toPeer \in Seq(W!Byte)
    /\ toClient \in Seq(W!Byte)
    /\ calls \in 0..MaxCalls
    /\ outcome \in Outcomes
    /\ req \in Seq(W!Byte)
    /\ sentTid \in W!Byte
    /\ lastServed \in [tid : W!Byte, body : ReplyBodies \cup {<<>>}]

Init ==
    /\ sock = "new"
    /\ transid = 1
    /\ cstate = "idle"
    /\ data = <<>>
    /\ rhdr = <<>>
    /\ toPeer = <<>>
    /\ toClient = <<>>
    /\ calls = 0
    /\ outcome = "none"
    /\ req = <<>>
    /\ sentTid = 0
    /\ lastServed = [tid |-> 0, body |-> <<>>]

\* The byte counts one sock.recv(n) may return: it blocks until some bytes
\* are there and returns at most n of them.
RecvCounts(n) ==
    IF ShortRecv THEN 1..Min({n, Len(toClient)}) ELSE {Min({n, Len(toClient)})}

\* The byte counts one sock.send(frame) may accept.
SendCounts(n) == IF ShortSend THEN 1..n ELSE {n}

-----------------------------------------------------------------------------
(* Socket.call, split at its blocking reads.                               *)

\* Mutant: the frame is sent without its two footer bytes.
CallNoFooter(r) ==
    /\ cstate = "idle"
    /\ calls < MaxCalls
    /\ LET h == W!HeaderPrefix(r.dest, Src, Type, Len(r.body), transid % 256)
       IN  /\ data' = r.body /\ calls' = calls + 1 /\ req' = r.body
           /\ toPeer' = toPeer \o h \o <<W!CalcHeaderChecksum(h)>> \o r.body
           /\ cstate' = "hdr" /\ outcome' = "none" /\ sentTid' = transid % 256
    /\ UNCHANGED <<sock, transid, rhdr, toClient, lastServed>>

\* Mutant: the transaction id is bumped when the request is sent as well.
CallBumpsId(r) ==
    /\ cstate = "idle"
    /\ calls < MaxCalls
    /\ data' = r.body /\ calls' = calls + 1 /\ req' = r.body
    /\ toPeer' = toPeer \o W!FrameBytes(r.dest, Src, Type, transid % 256, r.body)
    /\ cstate' = "hdr" /\ outcome' = "none" /\ sentTid' = transid % 256
    /\ transid' = transid + 1
    /\ UNCHANGED <<sock, rhdr, toClient, lastServed>>

\* Socket.connect: the socket is connected once, before the first call.
Connect ==
    /\ cstate = "idle"
    /\ sock = "new"
    /\ sock' = "connected"
    /\ UNCHANGED <<transid, cstate, data, rhdr, toPeer, toClient, calls, outcome,
                   req, sentTid, lastServed>>

\* Socket.close, between calls; the connection is gone for good.
Close ==
    /\ cstate = "idle"
    /\ sock # "closed"
    /\ sock' = "closed"
    /\ UNCHANGED <<transid, cstate, data, rhdr, toPeer, toClient, calls, outcome,
                   req, sentTid, lastServed>>

\* Lines 70-77 for the packet r (pkt._dest and the body pkt._marshal()
\* leaves in pkt._data): pack the header, which may raise for the id, then
\* send the frame, which raises socket.error unless the socket is connected.
CallWith(r) ==
    /\ cstate = "idle"
    /\ calls < MaxCalls
    /\ data' = r.body
    /\ calls' = calls + 1
    /\ CASE PackRangeChecked /\ transid \notin W!Byte ->
              /\ outcome' = "pack_error"
              /\ UNCHANGED <<cstate, toPeer, req, sentTid>>
         [] sock # "connected" ->
              /\ outcome' = "socket_error"
              /\ UNCHANGED <<cstate, toPeer, req, sentTid>>
         [] OTHER ->
            LET tid   == transid % 256
                frame == W!FrameBytes(r.dest, Src, Type, tid, r.body)
            IN  /\ \E k \in SendCounts(Len(frame)) :
                       toPeer' = toPeer \o SubSeq(frame, 1, k)
                /\ cstate' = "hdr"
                /\ outcome' = "none"
                /\ req' = r.body
                /\ sentTid' = tid
    /\ UNCHANGED <<sock, transid, rhdr, toClient, lastServed>>

\* Test.py's test() calls the packets it builds between connect and close.
Call == sock = "connected" /\ \E r \in Requests : CallWith(r)

\* Lines 79-80: rhdr = recv(10); unpack raises unless exactly 10 bytes came.
RecvHeader ==
    /\ cstate = "hdr"
    /\ toClient # <<>>
    /\ \E k \in RecvCounts(W!HeaderLen) :
        /\ rhdr' = SubSeq(toClient, 1, k)
        /\ toClient' = W!DropBytes(toClient, k)
        /\ IF k = W!HeaderLen
           THEN cstate' = "body" /\ UNCHANGED outcome
           ELSE cstate' = "idle" /\ outcome' = "header_error"
    /\ UNCHANGED <<sock, transid, data, toPeer, calls, req, sentTid, lastServed>>

\* Line 82: pkt._data = recv(rlen), whatever number of bytes it returns.
RecvBody ==
    /\ cstate = "body"
    /\ LET n == W!ReplyBodyLen(rhdr)
       IN  IF n = 0
           THEN data' = <<>> /\ UNCHANGED toClient
           ELSE /\ toClient # <<>>
                /\ \E k \in RecvCounts(n) :
                     /\ data' = SubSeq(toClient, 1, k)
                     /\ toClient' = W!DropBytes(toClient, k)
    /\ cstate' = "ftr"
    /\ UNCHANGED <<sock, transid, rhdr, toPeer, calls, outcome, req, sentTid, lastServed>>

\* Mutant: the footer is read with recv(1) and not unpacked.
RecvFooterOneByte ==
    /\ cstate = "ftr"
    /\ toClient # <<>>
    /\ toClient' = W!DropBytes(toClient, 1)
    /\ transid' = transid + 1
    /\ data' = W!DropBytes(data, 2) /\ outcome' = "ok"
    /\ cstate' = "idle"
    /\ UNCHANGED <<sock, rhdr, toPeer, calls, req, sentTid, lastServed>>

\* Mutant: SysPacket._unmarshal does not drop the command and reserved bytes.
RecvFooterNoStrip ==
    /\ cstate = "ftr"
    /\ toClient # <<>>
    /\ \E k \in RecvCounts(W!FooterLen) :
        /\ toClient' = W!DropBytes(toClient, k)
        /\ IF k # W!FooterLen
           THEN outcome' = "footer_error" /\ UNCHANGED <<sock, transid, data>>
           ELSE transid' = transid + 1 /\ outcome' = "ok" /\ UNCHANGED data
    /\ cstate' = "idle"
    /\ UNCHANGED <<sock, rhdr, toPeer, calls, req, sentTid, lastServed>>

\* Lines 84-88: recv(2) and unpack the footer (raises unless 2 bytes came),
\* bump the id, then pkt._unmarshal(), whose SysPacket part unpacks the
\* command byte and the reserved byte and drops them (raises if short).
RecvFooter ==
    /\ cstate = "ftr"
    /\ toClient # <<>>
    /\ \E k \in RecvCounts(W!FooterLen) :
        /\ toClient' = W!DropBytes(toClient, k)
        /\ IF k # W!FooterLen
           THEN /\ outcome' = "footer_error"
                /\ UNCHANGED <<sock, transid, data>>
           ELSE /\ transid' = transid + 1
                /\ IF Len(data) >= 2
                   THEN data' = W!DropBytes(data, 2) /\ outcome' = "ok"
                   ELSE outcome' = "unmarshal_error" /\ UNCHANGED data
    /\ cstate' = "idle"
    /\ UNCHANGED <<sock, rhdr, toPeer, calls, req, sentTid, lastServed>>

-----------------------------------------------------------------------------
(* The emulator: reads one whole request frame and answers it.             *)

\* The length of the request frame at the head of toPeer, once its header is in.
RequestFrameLen == W!HeaderLen + W!ReplyBodyLen(toPeer) + W!FooterLen

\* The emulator answers the whole frame at the head of toPeer with body rep,
\* echoing its transaction id and swapping source and destination.
PeerServeWith(rep) ==
    /\ Len(toPeer) >= W!HeaderLen
    /\ Len(toPeer) >= RequestFrameLen
    /\ LET tid == toPeer[9]
       IN  /\ toClient' = toClient \o W!FrameBytes(toPeer[5], toPeer[4], Type, tid, rep)
           /\ lastServed' = [tid |-> tid, body |-> rep]
    /\ toPeer' = W!DropBytes(toPeer, RequestFrameLen)
    /\ UNCHANGED <<sock, transid, cstate, data, rhdr, calls, outcome, req, sentTid>>

PeerServe == \E rep \in ReplyBodies : PeerServeWith(rep)

Next == Connect \/ Close \/ Call \/ RecvHeader \/ RecvBody \/ RecvFooter \/ PeerServe

\* The caller thread is blocked in recv and proceeds when bytes are there;
\* the emulator answers every whole frame it receives.
Fairness == /\ WF_vars(RecvHeader) /\ WF_vars(RecvBody) /\ WF_vars(RecvFooter)
            /\ WF_vars(PeerServe)

Spec == Init /\ [][Next]_vars /\ Fairness

-----------------------------------------------------------------------------
(* Properties.                                                             *)

\* A call that returns normally leaves in the packet the emulator's reply to
\* this call's own request: the reply header carries the request's id, and
\* the body is the one the emulator sent last.  Socket.call never compares
\* the reply id with _transid and trusts each recv to return all it asked.
ReplyMatchesRequest ==
    outcome = "ok" =>
        /\ W!ReplyTid(rhdr) = sentTid
        /\ lastServed.tid = sentTid
        /\ data = W!DropBytes(lastServed.body, 2)

\* Between calls no request or reply bytes are left on the connection, so
\* the next call's recv(10) starts at the next reply header.
NothingLeftOnWire ==
    cstate = "idle" => toPeer = <<>> /\ toClient = <<>>

\* Every call that has sent its request eventually returns (the caller is
\* never left blocked in sock.recv).
CallReturns == (cstate # "idle") ~> (cstate = "idle")

\* Socket.call implements the atomic call of PoserCall.  While the reply
\* body is read but the footer is not, the packet still stands for the
\* request.
Abs == INSTANCE PoserCall
           WITH busy <- cstate # "idle",
                data <- IF cstate = "ftr" THEN req ELSE data

ImplementsPoserCall == Abs!Spec
=============================================================================
