---------------------------- MODULE MCPoserWire ----------------------------
(***************************************************************************)
(* Checks the pure encodings of PoserWire against reference definitions   *)
(* over bounded inputs.  The inputs are the initial state; Next stutters.  *)
(***************************************************************************)
EXTENDS PoserWire, TLC

\* Byte values that exercise the checksum's wrap (128+128 = 256, 255+1).
SampleBytes == {0, 1, 128, 255}

\* The integer type tags ('H' and 'L' are those Test.py uses).
IntTypes == {[t |-> "B"], [t |-> "H"], [t |-> "L"]}

\* In-range integers at the byte boundaries of each width.  TLC integers are
\* 32-bit signed, so the 'L' values stop at 2^31 - 1 (16777216 = 2^24 still
\* fills the most significant byte).
IntValues(type) ==
    {v \in {0, 1, 255, 256, 65535, 65536, 16777216, 2147483647} :
        CASE type.t = "B" -> v < 256
          [] type.t = "H" -> v < 65536
          [] type.t = "L" -> TRUE}

Params ==
    UNION {{[byref |-> b, type |-> t, value |-> v] : b \in {0, 1}, v \in IntValues(t)} : t \in IntTypes}

VARIABLES bytes, param
vars == <<bytes, param>>

Init == /\ bytes \in BoundedSeq(SampleBytes, 4)
        /\ param \in Params

Next == UNCHANGED vars

Spec == Init /\ [][Next]_vars

\* Reference: the header checksum is the sum of the header bytes modulo 256.
RefChecksum(s) == FoldLeft(LAMBDA acc, b : acc + b, 0, s) % 256

\* _calcHeaderChecksum's running subtraction computes sum mod 256 and always
\* yields a value pack(">B") accepts, for any header bytes.
ChecksumIsSumMod256 ==
    /\ CalcHeaderChecksum(bytes) = RefChecksum(bytes)
    /\ CalcHeaderChecksum(bytes) \in Byte

\* An integer RPCParam decoded from its own marshaled bytes (_marshal then
\* _unmarshal) gives back its byref flag, its size and its value.
IntParamRoundTrip ==
    LET data == ParamMarshal(param.byref, param.type, param.value)
    IN  /\ ParamUnmarshalOk(param.type, data)
        /\ ParamByref(data) = param.byref
        /\ data[2] = CalcSize(param.type)
        /\ ParamValue(param.type, data) = param.value
=============================================================================
