------------------------------ MODULE PoserRPC ------------------------------
(***************************************************************************)
(* The trap-call packets of Poser.py, SysPacketRPC and SysPacketRPC2: the  *)
(* caller creates a packet, sets registers and named RPCParams through     *)
(* __setitem__, calls it, and reads results through __getitem__.  The call *)
(* marshals the packet to bytes, the emulator answers, and the packet      *)
(* unmarshals the reply in place.  The transport is taken as the atomic    *)
(* exchange of PoserCall, which PoserSocket implements on a reliable       *)
(* connection.  The emulator is not in this repository; it is modelled     *)
(* from the wire layout of the spec: it reads paramCount parameters and    *)
(* the registers of the mask in the canonical order, and answers in the    *)
(* same layout, echoing by-value parameters and the register mask.         *)
(***************************************************************************)
EXTENDS Integers, Sequences, SequencesExt, FiniteSets

CONSTANTS
    Kinds,          \* subset of {"RPC", "RPC2"}: the classes callers use
    Names,          \* parameter names callers use
    ParamTypes,     \* RPCParam type tags (records of PoserWire)
    Values,         \* parameter and register values
    RegNames,       \* register keys RPC2 callers set (subset of RegList)
    CallerReusesKeys, \* a caller may set the same key twice
    MaxSets,        \* bound on __setitem__ calls per packet
    MaxCalls        \* bound on calls

W == INSTANCE PoserWire

Trap == 34   \* the trap word: opaque to the packet

\* SysPacketRPC2._reglist; the order is the register mask's bit order.
RegList == <<"D7", "D6", "D5", "D4", "D3", "D2", "D1", "D0",
             "A7", "A6", "A5", "A4", "A3", "A2", "A1", "A0">>
\* SysPacketRPC2._reglistrev.
RegListRev == Reverse(RegList)

\* string.upper on the keys of this model: parameter names never collide
\* with register names, so only the spellings below matter.
Upper(k) == CASE k = "exception" -> "EXCEPTION"
              [] k = "a0" -> "A0"
              [] k = "d0" -> "D0"
              [] OTHER -> k

\* SysPacketRPC2._isRegister.
IsRegister(k) == Upper(k) \in ToSet(RegList)

\* The keys a caller may set on a packet of each class ('a0' in lower case
\* to exercise the upper() of __setitem__).
SetKeys(k) == Names \cup (IF k = "RPC" THEN {"a0", "D0"} ELSE RegNames)

VARIABLES
    kind,        \* the packet's class, "none" before the first packet
    command,     \* _command
    trap,        \* _trap
    a0, d0,      \* _a0, _d0
    exception,   \* _exception (RPC2)
    registers,   \* _registers (RPC2): register name -> value
    params,      \* _params: name -> [type, data] of the RPCParam
    paramnames,  \* _paramnames
    sets,        \* __setitem__ calls on this packet
    calls,       \* calls made
    outcome,     \* "none", "ok" or the exception the last call raised
    sentOrder,   \* history: parameter names in the order marshaled
    sentRegs,    \* history: the caller's registers when the call was made
    peerRegs,    \* history: the registers as the emulator decoded them
    peerRet,     \* history: [d0, a0, vals] the emulator answered
    lastSet      \* history: [key, val] of the last __setitem__ since the
                 \* packet was created or called ("none" otherwise)

vars == <<kind, command, trap, a0, d0, exception, registers, params, paramnames,
          sets, calls, outcome, sentOrder, sentRegs, peerRegs, peerRet, lastSet>>

Outcomes == {"none", "ok", "ProtocolException", "struct.error"}

TypeOK ==
    /\ kind \in Kinds \cup {"none"}
    /\ trap \in Nat /\ a0 \in Nat /\ d0 \in Nat /\ exception \in Nat
    /\ DOMAIN registers \subseteq ToSet(RegList)
    /\ DOMAIN params \subseteq Names
    /\ \A n \in DOMAIN params : params[n].type \in ParamTypes /\ params[n].data \in Seq(W!Byte)
    /\ paramnames \in Seq(Names)
    /\ sets \in 0..MaxSets
    /\ calls \in 0..MaxCalls
    /\ outcome \in Outcomes

NoSet == [key |-> "none", val |-> 0]

Init ==
    /\ kind = "none"
    /\ command = 0 /\ trap = 0 /\ a0 = 0 /\ d0 = 0 /\ exception = 0
    /\ registers = <<>> /\ params = <<>> /\ paramnames = <<>>
    /\ sets = 0 /\ calls = 0 /\ outcome = "none"
    /\ sentOrder = <<>> /\ sentRegs = <<>> /\ peerRegs = <<>>
    /\ peerRet = [d0 |-> 0, a0 |-> 0, vals |-> <<>>]
    /\ lastSet = NoSet

-----------------------------------------------------------------------------
(* Building a packet.                                                      *)

\* SysPacketRPC2.__init__: SysPacketRPC.__init__, then command 0x70, no
\* registers and exception 0 (_dest is the transport's concern).
RPC2Init == command' = 112 /\ registers' = <<>> /\ exception' = 0

\* SysPacketRPC.__init__ (command 0x0A), or SysPacketRPC2.__init__.
NewPacket ==
    /\ \E k \in Kinds :
        /\ kind' = k
        /\ trap' = Trap
        /\ IF k = "RPC" THEN command' = 10 /\ registers' = <<>> /\ exception' = 0
                         ELSE RPC2Init
    /\ a0' = 0 /\ d0' = 0 /\ params' = <<>> /\ paramnames' = <<>>
    /\ sets' = 0 /\ outcome' = "none" /\ lastSet' = NoSet
    /\ UNCHANGED <<calls, sentOrder, sentRegs, peerRegs, peerRet>>

\* A caller that never sets a key twice (as every function of Test.py).
KeyIsNew(key) == key \notin DOMAIN params /\ Upper(key) \notin DOMAIN registers

\* The part of __setitem__ that stores an RPCParam of value v under a new or
\* old name: the name is prepended to _paramnames whether or not it was there.
StoreParam(key, v) ==
    /\ \E byref \in {0, 1}, type \in ParamTypes :
         params' = (key :> [type |-> type, data |-> W!ParamMarshal(byref, type, v)]) @@ params
    /\ paramnames' = <<key>> \o paramnames

\* Mutant: SysPacketRPC.__setitem__ compares the key without upper().
SetItemRPCNoUpper ==
    /\ kind = "RPC"
    /\ sets < MaxSets
    /\ \E key \in SetKeys(kind), v \in Values :
        /\ CallerReusesKeys \/ KeyIsNew(key)
        /\ CASE key = "A0" -> a0' = v /\ UNCHANGED <<d0, params, paramnames>>
             [] key = "D0" -> d0' = v /\ UNCHANGED <<a0, params, paramnames>>
             [] OTHER -> StoreParam(key, v) /\ UNCHANGED <<a0, d0>>
        /\ lastSet' = [key |-> key, val |-> v]
    /\ sets' = sets + 1
    /\ UNCHANGED <<kind, command, trap, exception, registers, calls, outcome,
                   sentOrder, sentRegs, peerRegs, peerRet>>

\* SysPacketRPC.__setitem__: 'A0'/'D0' (any case) set the scalars, any
\* other key stores a parameter.
SetItemRPC ==
    /\ kind = "RPC"
    /\ sets < MaxSets
    /\ \E key \in SetKeys(kind), v \in Values :
        /\ CallerReusesKeys \/ KeyIsNew(key)
        /\ CASE Upper(key) = "A0" -> a0' = v /\ UNCHANGED <<d0, params, paramnames>>
             [] Upper(key) = "D0" -> d0' = v /\ UNCHANGED <<a0, params, paramnames>>
             [] OTHER -> StoreParam(key, v) /\ UNCHANGED <<a0, d0>>
        /\ lastSet' = [key |-> key, val |-> v]
    /\ sets' = sets + 1
    /\ UNCHANGED <<kind, command, trap, exception, registers, calls, outcome,
                   sentOrder, sentRegs, peerRegs, peerRet>>

\* SysPacketRPC2.__setitem__: any of the 16 register names (A0 and D0
\* included) goes to _registers, any other key stores a parameter.
SetItemRPC2 ==
    /\ kind = "RPC2"
    /\ sets < MaxSets
    /\ \E key \in SetKeys(kind), v \in Values :
        /\ CallerReusesKeys \/ KeyIsNew(key)
        /\ IF IsRegister(key)
           THEN registers' = (Upper(key) :> v) @@ registers /\ UNCHANGED <<params, paramnames>>
           ELSE StoreParam(key, v) /\ UNCHANGED registers
        /\ lastSet' = [key |-> key, val |-> v]
    /\ sets' = sets + 1
    /\ UNCHANGED <<kind, command, trap, a0, d0, exception, calls, outcome,
                   sentOrder, sentRegs, peerRegs, peerRet>>

-----------------------------------------------------------------------------
(* Marshaling the request (SysPacketRPC._marshal, SysPacketRPC2._marshal). *)

\* Mutant: _marshal walks the names in the order they were set.
MarshalOrderReversed(names) == Reverse(names)

\* The order the parameter loop of _marshal walks: _paramnames as stored.
MarshalOrder(names) == names

ParamsBytes(order) == FlattenSeq([i \in 1..Len(order) |-> params[order[i]].data])

\* SysPacketRPC2._makeRegMask: one bit per name of _reglist, D7 first.
RECURSIVE MaskLoop(_, _, _)
MaskLoop(regs, mask, list) ==
    IF list = <<>> THEN mask
    ELSE MaskLoop(regs, 2 * mask + (IF Head(list) \in DOMAIN regs THEN 1 ELSE 0), Tail(list))

\* Mutant: the mask is built walking _reglistrev.
MakeRegMaskReversed(regs) == MaskLoop(regs, 0, RegListRev)

MakeRegMask(regs) == MaskLoop(regs, 0, RegList)

\* The count field is len(self._params); the loop walks self._paramnames.
MarshalRPC ==
    <<command, 0>> \o W!PackH(trap) \o W!PackL(d0) \o W!PackL(a0)
        \o W!PackH(Cardinality(DOMAIN params)) \o ParamsBytes(MarshalOrder(paramnames))

\* Register values follow in regOrder, the order of self._registers.keys().
MarshalRPC2(regOrder) ==
    <<command, 0>> \o W!PackH(trap) \o W!PackL(d0) \o W!PackL(a0)
        \o W!PackH(exception) \o W!PackH(MakeRegMask(registers))
        \o FlattenSeq([i \in 1..Len(regOrder) |-> W!PackL(registers[regOrder[i]])])
        \o W!PackH(Cardinality(DOMAIN params)) \o ParamsBytes(MarshalOrder(paramnames))

-----------------------------------------------------------------------------
(* The emulator, from the wire layout of the spec (not code of this repo). *)

\* Reads count parameters of the form byref, size, size bytes.
RECURSIVE PeerReadParams(_, _)
PeerReadParams(rest, count) ==
    IF count = 0 \/ Len(rest) < 2 THEN <<>>
    ELSE <<[byref |-> rest[1], size |-> rest[2], value |-> W!Slice(rest, 3, rest[2])]>>
            \o PeerReadParams(W!DropBytes(rest, 2 + rest[2]), count - 1)

\* Reads one value per set mask bit, in _reglist order (most significant first).
RECURSIVE PeerReadRegs(_, _, _)
PeerReadRegs(i, mask, rest) ==
    IF i > 16 THEN [regs |-> <<>>, rest |-> rest]
    ELSE IF (mask \div 2 ^ (16 - i)) % 2 = 1
         THEN LET r == PeerReadRegs(i + 1, mask, W!DropBytes(rest, 4))
              IN  [regs |-> (RegList[i] :> W!UnpackBE(W!Slice(rest, 1, 4))) @@ r.regs, rest |-> r.rest]
         ELSE PeerReadRegs(i + 1, mask, rest)

\* The emulator's reading of a request body.
PeerRequest(req) ==
    IF kind = "RPC"
    THEN LET count == W!UnpackBE(W!Slice(req, 13, 2))
         IN  [mask |-> 0, regs |-> <<>>, count |-> count,
              params |-> PeerReadParams(W!DropBytes(req, 14), count)]
    ELSE LET mask  == W!UnpackBE(W!Slice(req, 15, 2))
             rr    == PeerReadRegs(1, mask, W!DropBytes(req, 16))
             count == W!UnpackBE(W!Slice(rr.rest, 1, 2))
         IN  [mask |-> mask, regs |-> rr.regs, count |-> count,
              params |-> PeerReadParams(W!DropBytes(rr.rest, 2), count)]

\* A by-reference parameter comes back with the emulator's value v.
PeerParamBytes(p, v) ==
    <<p.byref, p.size>> \o (IF p.byref = 1 THEN W!PackBE(v, p.size) ELSE p.value)

PeerRetVal(p, v) == IF p.byref = 1 THEN v ELSE W!UnpackBE(p.value)

\* The reply: same layout, results d0r, a0r, register values regVals.
ReplyBody(pr, d0r, a0r, regVals, newVals) ==
    <<command, 0>> \o W!PackH(trap) \o W!PackL(d0r) \o W!PackL(a0r)
        \o (IF kind = "RPC" THEN <<>>
            ELSE W!PackH(0) \o W!PackH(pr.mask)
                   \o FlattenSeq([i \in 1..16 |-> IF RegList[i] \in DOMAIN regVals
                                                  THEN W!PackL(regVals[RegList[i]]) ELSE <<>>]))
        \o W!PackH(pr.count)
        \o FlattenSeq([i \in 1..Len(pr.params) |-> PeerParamBytes(pr.params[i], newVals[i])])

-----------------------------------------------------------------------------
(* Unmarshaling the reply in place.                                        *)

\* Mutant: each parameter is sliced as self._data[0:size].
RECURSIVE UnmarshalParamsNoHeader(_, _, _)
UnmarshalParamsNoHeader(ps, names, rest) ==
    IF names = <<>> THEN [ok |-> TRUE, params |-> ps]
    ELSE IF Len(rest) < 2 THEN [ok |-> FALSE, params |-> ps]
    ELSE LET n   == Head(names)
             pd  == W!Slice(rest, 1, rest[2])
             ps2 == [ps EXCEPT ![n].data = pd]
         IN  IF W!ParamUnmarshalOk(ps[n].type, pd)
             THEN UnmarshalParamsNoHeader(ps2, Tail(names), W!DropBytes(rest, rest[2]))
             ELSE [ok |-> FALSE, params |-> ps2]

\* The loop of lines 290-295 / 400-405: for each declared name in order,
\* slice byref, size and size bytes (the wire size), store them as the
\* parameter's data and unpack them with its declared type.  Parameters
\* before a failing one keep their new data.
RECURSIVE UnmarshalParams(_, _, _)
UnmarshalParams(ps, names, rest) ==
    IF names = <<>> THEN [ok |-> TRUE, params |-> ps]
    ELSE IF Len(rest) < 2 THEN [ok |-> FALSE, params |-> ps]
    ELSE LET n   == Head(names)
             pd  == W!Slice(rest, 1, rest[2] + 2)
             ps2 == [ps EXCEPT ![n].data = pd]
         IN  IF W!ParamUnmarshalOk(ps[n].type, pd)
             THEN UnmarshalParams(ps2, Tail(names), W!DropBytes(rest, rest[2] + 2))
             ELSE [ok |-> FALSE, params |-> ps2]

\* Lines 383-390: walk _reglistrev from the mask's low bit; each set bit
\* does unpack(">L", self._data) on all the remaining bytes, which raises
\* unless exactly four bytes remain.
RECURSIVE RegLoop(_, _, _, _)
RegLoop(j, mask, regs, rest) ==
    IF j > 16 THEN [ok |-> TRUE, regs |-> regs, rest |-> rest]
    ELSE IF mask % 2 = 1
         THEN IF Len(rest) # 4
              THEN [ok |-> FALSE, regs |-> regs, rest |-> rest]
              ELSE RegLoop(j + 1, mask \div 2, (RegListRev[j] :> W!UnpackBE(rest)) @@ regs,
                           W!DropBytes(rest, 4))
         ELSE RegLoop(j + 1, mask \div 2, regs, rest)

\* Lines 287-288 / 397-398, then the parameter loop.
FinishUnmarshal(f, pcount, rest) ==
    IF pcount # Len(paramnames)
    THEN [f EXCEPT !.err = "ProtocolException"]
    ELSE LET u == UnmarshalParams(params, paramnames, rest)
         IN  [f EXCEPT !.err = IF u.ok THEN "ok" ELSE "struct.error", !.params = u.params]

\* SysPacket._unmarshal, then unpack(">HLL") of trap, d0 and a0: the
\* packet's fields once these are read, before any exception.
ReplyFields(rep) ==
    LET rest == W!DropBytes(rep, 2)
    IN  [err |-> "ok", command |-> rep[1],
         trap |-> W!UnpackBE(W!Slice(rest, 1, 2)),
         d0 |-> W!UnpackBE(W!Slice(rest, 3, 4)), a0 |-> W!UnpackBE(W!Slice(rest, 7, 4)),
         exception |-> exception, registers |-> registers, params |-> params]

\* SysPacketRPC._unmarshal: the fields it leaves and the exception raised.
UnmarshalRPC(rep) ==
    LET rest == W!DropBytes(rep, 2)
    IN  FinishUnmarshal(ReplyFields(rep), W!UnpackBE(W!Slice(rest, 11, 2)), W!DropBytes(rest, 12))

\* SysPacketRPC2._unmarshal: exception and mask follow d0/a0, then the
\* register loop, then the parameter count.
UnmarshalRPC2(rep) ==
    LET rest == W!DropBytes(rep, 2)
        rl   == RegLoop(1, W!UnpackBE(W!Slice(rest, 13, 2)), registers, W!DropBytes(rest, 14))
        f    == [ReplyFields(rep) EXCEPT !.exception = W!UnpackBE(W!Slice(rest, 11, 2)),
                                         !.registers = rl.regs]
    IN  IF ~rl.ok \/ Len(rl.rest) < 2
        THEN [f EXCEPT !.err = "struct.error"]
        ELSE FinishUnmarshal(f, W!UnpackBE(W!Slice(rl.rest, 1, 2)), W!DropBytes(rl.rest, 2))

-----------------------------------------------------------------------------
(* Socket.call on the packet: marshal, exchange, unmarshal.                *)

Call ==
    /\ kind # "none"
    /\ calls < MaxCalls
    /\ \E regOrder \in SetToSeqs(DOMAIN registers) :
        LET req == IF kind = "RPC" THEN MarshalRPC ELSE MarshalRPC2(regOrder)
            pr  == PeerRequest(req)
        IN  \E d0r, a0r \in Values, regVals \in [DOMAIN pr.regs -> Values],
               newVals \in [1..Len(pr.params) -> Values] :
              LET rep == ReplyBody(pr, d0r, a0r, regVals, newVals)
                  u   == IF kind = "RPC" THEN UnmarshalRPC(rep) ELSE UnmarshalRPC2(rep)
              IN  /\ command' = u.command /\ trap' = u.trap
                  /\ d0' = u.d0 /\ a0' = u.a0 /\ exception' = u.exception
                  /\ registers' = u.registers /\ params' = u.params
                  /\ outcome' = u.err
                  /\ sentOrder' = MarshalOrder(paramnames)
                  /\ sentRegs' = registers
                  /\ peerRegs' = pr.regs
                  /\ peerRet' = [d0 |-> d0r, a0 |-> a0r,
                                 vals |-> [i \in 1..Len(pr.params) |-> PeerRetVal(pr.params[i], newVals[i])]]
    /\ calls' = calls + 1 /\ lastSet' = NoSet
    /\ UNCHANGED <<kind, paramnames, sets>>

\* __getitem__: what msg[key] returns.  A KeyError raised by a dictionary
\* lookup is the value -1, which no unsigned result takes.
KeyError == -1

GetParam(key) ==
    IF key \in DOMAIN params THEN W!ParamValue(params[key].type, params[key].data) ELSE KeyError

\* SysPacketRPC.__getitem__.
GetItemRPC(key) ==
    CASE Upper(key) = "A0" -> a0
      [] Upper(key) = "D0" -> d0
      [] OTHER -> GetParam(key)

\* SysPacketRPC2.__getitem__: the 'exception' branch compares upper(key).
GetItemRPC2(key) ==
    CASE Upper(key) = "A0" -> a0
      [] Upper(key) = "D0" -> d0
      [] IsRegister(key) -> IF Upper(key) \in DOMAIN registers THEN registers[Upper(key)] ELSE KeyError
      [] Upper(key) = "exception" -> exception
      [] OTHER -> GetParam(key)

GetItem(key) == IF kind = "RPC" THEN GetItemRPC(key) ELSE GetItemRPC2(key)

\* SysPacketRPC.keys: the parameter names, then 'A0' and 'D0'.
Keys == paramnames \o <<"A0", "D0">>

\* SysPacketRPC.__len__: the parameter names plus the two registers.
LenMsg == Len(paramnames) + 2

Next == NewPacket \/ SetItemRPC \/ SetItemRPC2 \/ Call

Spec == Init /\ [][Next]_vars

-----------------------------------------------------------------------------
(* Properties.                                                             *)

\* Right after a call returns, msg[name] is, for every parameter, the value
\* the emulator answered at the position where that parameter was sent,
\* and msg['D0'], msg['A0'] are its results: the reply, which carries no
\* names, is matched to the declaration order by _marshal and _unmarshal
\* walking _paramnames (most recently set first) the same way.
ResultsMatchPositions ==
    /\ \A i \in 1..Len(sentOrder) : GetItem(sentOrder[i]) = peerRet.vals[i]
    /\ GetItem("D0") = peerRet.d0
    /\ GetItem("A0") = peerRet.a0

RepliesFollowDeclaration ==
    [][(calls' = calls + 1 /\ outcome' = "ok") => ResultsMatchPositions']_vars

\* With an emulator that answers in the request's own layout, a call on a
\* packet the caller built through __setitem__ never raises.
NoCallError == outcome \in {"none", "ok"}

\* The emulator decodes exactly the registers, with their values, that the
\* caller set on an RPC2 packet (mask from _makeRegMask, values in the
\* order of self._registers.keys()).
EmulatorSeesCallerRegisters == calls > 0 => peerRegs = sentRegs

\* Before the call, msg[key] reads back the value the caller last set with
\* msg[key] = v: __setitem__ and __getitem__ send each key to the same
\* field (upper() on 'A0'/'D0', the register test of RPC2, RPCParam's
\* marshal and _getvalue for parameters).
SetThenGet == lastSet # NoSet => GetItem(lastSet.key) = lastSet.val

\* Spec 4.4: on an RPC2 packet, msg['exception'] reads the exception code.
\* __getitem__ compares upper(key) with the lower-case 'exception'
\* (line 353), so the key falls through to the parameters.
ExceptionReadable == kind = "RPC2" => GetItem("exception") = exception
=============================================================================
