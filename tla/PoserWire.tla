----------------------------- MODULE PoserWire -----------------------------
(***************************************************************************)
(* The byte-level encodings of Poser.py: struct.pack/unpack of big-endian  *)
(* integers, the frame header and its checksum (Socket), and the typed     *)
(* RPC parameter (RPCParam).  A byte string is a sequence of 0..255.       *)
(* These are pure operators; the state machines INSTANCE this module.      *)
(***************************************************************************)
EXTENDS Integers, Sequences, SequencesExt

Byte == 0..255

\* struct.pack(">B"/">H"/">L", v) of a value in range: w big-endian bytes.
PackBE(v, w) == [i \in 1..w |-> (v \div (2 ^ (8 * (w - i)))) % 256]

PackB(v) == PackBE(v, 1)
PackH(v) == PackBE(v, 2)
PackL(v) == PackBE(v, 4)

\* struct.unpack of a big-endian unsigned integer.
RECURSIVE UnpackBE(_)
UnpackBE(s) == IF s = <<>> THEN 0 ELSE UnpackBE(Front(s)) * 256 + Last(s)

\* Bytes [from, from+w) of s, Python s[from-1 : from-1+w] (may be short).
Slice(s, from, w) ==
    IF from > Len(s) THEN <<>> ELSE SubSeq(s, from, IF from + w - 1 > Len(s) THEN Len(s) ELSE from + w - 1)

\* Python s[n:] : drop the first n bytes.
DropBytes(s, n) == IF n >= Len(s) THEN <<>> ELSE SubSeq(s, n + 1, Len(s))

-----------------------------------------------------------------------------
(* Frame header (Socket.call, Socket._calcHeaderChecksum).                 *)

HeaderSignature1 == 48879   \* 0xBEEF
HeaderSignature2 == 237     \* 0xED
HeaderLen == 10
FooterLen == 2

\* Mutant: the running sum is only reduced once it exceeds 256.
RECURSIVE ChecksumLoopLate(_, _)
ChecksumLoopLate(cs, bytes) ==
    IF bytes = <<>> THEN cs
    ELSE LET c == cs + Head(bytes)
         IN  ChecksumLoopLate(IF c > 256 THEN c - 256 ELSE c, Tail(bytes))

\* The loop of _calcHeaderChecksum: add each byte, subtract 256 once past 255.
RECURSIVE ChecksumLoop(_, _)
ChecksumLoop(cs, bytes) ==
    IF bytes = <<>> THEN cs
    ELSE LET c == cs + Head(bytes)
         IN  ChecksumLoop(IF c > 255 THEN c - 256 ELSE c, Tail(bytes))

CalcHeaderChecksum(bytes) == ChecksumLoop(0, bytes)

\* _calcFooterChecksum is a placeholder ("TBD") that always returns 0.
CalcFooterChecksum(body) == 0

\* pack(">HBBBBHB", sig1, sig2, dest, src, type, len(body), tid-byte).
HeaderPrefix(dest, src, type, bodyLen, tidByte) ==
    PackH(HeaderSignature1) \o <<HeaderSignature2, dest, src, type>>
        \o PackH(bodyLen) \o <<tidByte>>

\* shdr + body + footer, the bytes handed to sock.send in Socket.call.
FrameBytes(dest, src, type, tidByte, body) ==
    LET h == HeaderPrefix(dest, src, type, Len(body), tidByte)
    IN  h \o <<CalcHeaderChecksum(h)>> \o body \o PackH(CalcFooterChecksum(body))

\* unpack(">HBBBBHBB", rhdr): the fields of a received 10-byte header.
ReplyBodyLen(rhdr) == UnpackBE(SubSeq(rhdr, 7, 8))
ReplyTid(rhdr)     == rhdr[9]

-----------------------------------------------------------------------------
(* RPCParam.  A type tag is a record: [t |-> "B"|"H"|"L"] or a fixed      *)
(* string [t |-> "S", n |-> N] for the tag "Ns".  An integer value is a    *)
(* Nat, a string value a byte sequence.                                    *)

IsString(type) == type.t = "S"

\* Mutant: 'L' sized as a 16-bit word.
CalcSizeShortL(type) ==
    CASE type.t = "B" -> 1
      [] type.t = "H" -> 2
      [] type.t = "L" -> 2
      [] type.t = "S" -> type.n

\* _calcSize: 1/2/4 bytes for B/H/L, the numeric prefix for "Ns".
CalcSize(type) ==
    CASE type.t = "B" -> 1
      [] type.t = "H" -> 2
      [] type.t = "L" -> 4
      [] type.t = "S" -> type.n

\* pack("Ns", s) pads with NUL bytes or truncates to exactly N bytes.
PadTo(s, n) == [i \in 1..n |-> IF i <= Len(s) THEN s[i] ELSE 0]

PackValue(type, value) ==
    IF IsString(type) THEN PadTo(value, type.n) ELSE PackBE(value, CalcSize(type))

\* RPCParam._marshal: pack(">BB" + type, byref, size, value).
ParamMarshal(byref, type, value) ==
    <<byref, CalcSize(type)>> \o PackValue(type, value)

\* RPCParam._unmarshal: unpack(">" + type, data[2:]) needs exactly size bytes.
ParamUnmarshalOk(type, data) == Len(data) = 2 + CalcSize(type)

\* RPCParam._getvalue: the value decoded from the parameter's raw data.
ParamValue(type, data) ==
    IF IsString(type) THEN DropBytes(data, 2) ELSE UnpackBE(DropBytes(data, 2))

ParamByref(data) == data[1]
=============================================================================
