# TLA+ models of the Poser Python RPC client

This directory holds TLA+ models of `src/Scripting/Python/Poser.py`. That file is a client of the
PalmOS Emulator's binary "SysPacket" protocol over TCP. The models are checked with TLC.
`Test.py` holds the callers: thin wrappers that build one packet, call it, and read one field.

## 1. Inventory

| Component | Source | State it keeps | Operations |
|---|---|---|---|
| Frame codec | `Socket.call` 72-85, `_calcHeaderChecksum` 94-101, `_calcFooterChecksum` 103-106 | none (pure) | build the header, checksum and footer; parse the reply header |
| Transport session | `Socket` 42-110 | `_sock`, `_transid` (Python int, starts at 1), `_src=1`, `_type=0` | `connect`, `close`, `call` (marshal, send, recv header, recv body, recv footer, bump id, unmarshal) |
| Packet base | `SysPacket` 116-138 | `_data`, `_command`, `_dest` | `_marshal` (cmd, 0), `_unmarshal` (read cmd, drop 2 bytes) |
| Memory packets | `SysPacketMem`/`ReadMem`/`WriteMem` 146-218 | `_memAddr`, `_memLength`, `_memory` | marshal addr/len(/data); the read unmarshal slices `_memLength` bytes |
| RPC v1 packet | `SysPacketRPC` 224-305 | `_trap`, `_a0`, `_d0`, `_params` (dict), `_paramnames` (list, newest first) | `__setitem__`, `__getitem__`, `_marshal`, `_unmarshal` |
| RPC v2 packet | `SysPacketRPC2` 309-417 | as v1, plus `_registers` (dict) and `_exception` | register-aware `__setitem__`/`__getitem__`, `_makeRegMask`, `_marshal`, `_unmarshal` |
| Typed parameter | `RPCParam` 421-471 | `_type`, `_value`, `_byref`, `_size`, `_data` | `_calcSize`, `_marshal`, `_unmarshal`, `_getvalue` |
| Callers | `Test.py` 24-127 | none | one packet per function |
| Emulator (peer) | not in this repository | memory, CPU registers | answers one request frame with one reply frame |

How they interact. A caller builds a packet and sets keys on it. It then passes the packet to
`Socket.call`, which:

1. calls `pkt._marshal()`, which fills `pkt._data` with the body;
2. frames the body and sends it with one `sock.send`;
3. reads the reply with three `sock.recv` calls (header, body, footer);
4. bumps `_transid`;
5. calls `pkt._unmarshal()`, which rewrites the packet's fields in place from the reply.

The reply carries no parameter names. Parameters come back by position, in the order of
`_paramnames`. `_paramnames` is built by prepending, so the most recently set key comes first.

What is hard here is not concurrency. The client is single-threaded and synchronous. The hard
parts are:

- the byte stream: `recv(n)` may return fewer than n bytes, and `send` may send only part of a frame;
- the positional matching of reply parameters against the declaration list;
- the register mask and register order of RPC2;
- numeric edges: the 8-bit transaction id and the checksum wrap.

Nothing is persisted, so crash recovery does not arise. Nothing is retried, so retry hazards do
not arise either.

Properties that make each component correct:

- **Frame codec:** the checksum is the sum of the header bytes mod 256. Integer parameters survive
  a marshal/unmarshal round trip. (A string parameter of N or more bytes is cut to N with no
  NUL; that is `struct`'s `'Ns'`, not a choice of this code, so no property restates it.)
- **Transport session:** a call that returns normally holds the reply to its own request. Nothing
  is left on the wire between calls. A call always returns. The session implements an atomic request/reply call (`PoserCall`).
- **RPC packets:** after a call, each name reads the value the emulator returned at that name's
  position. A packet built through `__setitem__` never makes a call raise. The emulator sees the
  registers the caller set. (`SetThenGet`, a key reads back the value set last, is checked only
  where it fails, on RPC2's `A0`: on the RPC run it would restate `StoreParam`, and for `'32s'`
  parameters it does not hold by `struct`'s padding.)
- **Memory packets:** a read returns what the completed writes stored. The packets over the
  socket implement an atomic memory (`PoserMemStore`) in which every operation ends.

## 2. Plan

Modules, in the order they are built (the first five exist now, with `PoserMemStore` as the
abstract memory that (5) refines):

1. `PoserWire`: pure operators for struct packing, the header checksum, framing and `RPCParam`.
   Checked by `MCPoserWire` against reference definitions.
2. `PoserCall`: the abstract specification of one blocking call.
3. `PoserSocket`: `Socket.call` over two TCP byte streams with an emulator peer. It refines
   `PoserCall`, via `INSTANCE ... WITH` inside the module, checked as a PROPERTY.
4. `PoserRPC`: the `SysPacketRPC`/`SysPacketRPC2` life cycle at byte level: create, set, call
   (marshal, emulator, unmarshal), get. It uses the call as one atomic exchange. The refinement in
   (3) justifies this on a reliable connection.
5. `PoserMem`: `SysPacketReadMem`/`WriteMem` composed with `PoserSocket` and an emulator memory.
   The packet's marshaled body travels over the socket's byte streams, and the reply is unmarshaled
   in the footer step. Checked: writing then reading returns what was written (spec §8), and
   whether a short reply is detected (line 195). It refines `PoserMemStore`, the abstract
   memory of spec §4.2 and §8.
The RPC packets are not composed with the byte streams, and calls repeated on one RPC packet
are not checked. Section 6 says why.

## 3. Modules and how they map to the code

- **`PoserWire`** has no variables.
  - `PackBE`/`UnpackBE` are `struct` big-endian packing.
  - `ChecksumLoop` is the loop of `_calcHeaderChecksum`, including its subtract-256 step.
  - `FrameBytes` is `shdr + body + footer` of `Socket.call`.
  - `CalcSize`, `ParamMarshal`, `ParamUnmarshalOk` and `ParamValue` are `RPCParam`.
  - `PadTo` is `pack("Ns")`: it pads with NULs or truncates.

  A type tag is a record: `[t |-> "H"]`, or `[t |-> "S", n |-> N]` for `"Ns"`.
- **`PoserSocket`** variables:
  - `transid` is `_transid`;
  - `cstate` is the point `call` has reached (`idle`, `hdr`, `body`, `ftr`);
  - `data` is `pkt._data` and `rhdr` is the received header;
  - `toPeer`/`toClient` are the two TCP directions, as sequences of bytes;
  - `outcome` is how the last call ended (`ok` or the exception raised);
  - `req`, `sentTid` and `lastServed` are history variables for the properties;
  - `sock` is the TCP socket: `new`, `connected` or `closed`.

  `Connect` and `Close` are `Socket.connect` and `Socket.close`, taken between calls. `CallWith(r)`
  raises `socket.error` (outcome `socket_error`) when the socket is not connected: the packet is
  already marshaled and the header packed, nothing is sent, and `_transid` is not bumped. `Call`
  is the caller of `Test.py`'s `test()`, which calls only between `connect` and `close`.

  `CallWith(r)` is lines 70-77 for a packet `r` (its `_dest` and marshaled body). `Call` lets a
  caller pick one of the `Requests`. `RecvHeader`, `RecvBody` and `RecvFooter` are the three blocking reads,
  each with the unpack that follows it. `RecvFooter` includes the id bump and the `SysPacket` part
  of `_unmarshal`. `PeerServe` is the emulator. It reads one whole request frame and answers with a
  frame echoing the request's id. It is modelled from the spec. `PeerServeWith(rep)` answers with
  the body `rep`. The composed modules pass state-dependent packets and replies through these two
  parameterised actions, because an `INSTANCE` may substitute only constant expressions for the
  constants.

  Constants select the environment:
  - `ShortRecv`: `recv(n)` returns 1..n bytes;
  - `ShortSend`: `send` sends a prefix of the frame;
  - `PackRangeChecked`: Python 2.7 `struct` raises for `pack(">B", 256)`, while earlier builds
    mask the value. Every run uses the masking build. Spec §3 leaves the wrap at 255
    implementation-defined, so no run makes a claim about the raising build (section 6).
- **`PoserCall`** is the abstract call. Its actions are `Begin`, `Refuse` (the header cannot be
  packed), `Complete` (the reply to this request; the id is bumped once), `Fail` (transport error,
  id unchanged) and `FailUnmarshal`. `FailUnmarshal` is the whole reply arriving and then failing to
  unmarshal. The id was already bumped, because line 87 (spec §4.5 step 7) runs before line 88.
  `PoserSocket!Abs` maps `busy` to `cstate # "idle"`. It maps `data` to the request until the
  footer is read.
- **`PoserRPC`** variables are the packet fields (`command`, `trap`, `a0`, `d0`, `exception`,
  `registers`, `params`, `paramnames`) plus history variables.
  - `params[n]` is `[type, data]` of the `RPCParam`. `_value`, `_size` and `_byref` are derived
    from `data` by `_getvalue`, so they are not separate variables.
  - `NewPacket` is the constructor. `RPC2Init` is the part `SysPacketRPC2.__init__` adds. `SetItemRPC`/`SetItemRPC2` are the two `__setitem__`.
  - `Call` marshals (`MarshalRPC`/`MarshalRPC2`), lets the emulator (`PeerRequest`, `ReplyBody`)
    answer, and unmarshals (`UnmarshalRPC`/`UnmarshalRPC2`: `RegLoop`, `FinishUnmarshal`,
    `UnmarshalParams`).
  - `GetItemRPC`/`GetItemRPC2` are `__getitem__`. A `KeyError` is modelled as the value -1.
  - `Keys` and `LenMsg` are `keys()` and `__len__`, both computed from `_paramnames`. No run
    checks them: with a name set once they agree with `__getitem__` by construction, and a name
    set twice already makes the call raise (`rpc_reuse`).
  - The dict order of `_registers.keys()` is implementation-defined, so `Call` picks it
    nondeterministically.
  - The emulator answers in the request's layout. It reads registers in `_reglist` order, echoes
    the mask and by-value parameters, and picks values for `d0`, `a0`, the registers and by-ref
    parameters.

- **`PoserMem`** instantiates `PoserSocket` as `S`.
  - Its own variables are the packet (`pkind`, `memAddr`, `memLength`, `memory`), the emulator's
    memory `mem`, and a history `written`, which is memory as the caller's completed writes left it.
  - `NewReadMem`/`NewWriteMem` are the constructors. A write's data may be shorter or longer than
    its length, as `Test.py`'s `MemWriteMemory(sock, addr, data, len)` allows.
  - `MemConnect`/`MemClose` are `S!Connect`/`S!Close`. Here any caller may call on a socket that
    is not connected, so the `socket_error` path of `CallWith` is reached.
  - `MemCall` is `pkt._marshal()` (`MarshalMem`, dispatching to `MarshalReadMem` or `MarshalWriteMem`) followed by `S!CallWith`.
  - `MemPeerServe` is `S!PeerServeWith` with the emulator reading or writing `mem`.
  - `MemRecvFooter` is `S!RecvFooter`, followed for a read by the slice of line 195
    (`ReadMemSlice`).
  - `Store` instantiates `PoserMemStore` with a refinement mapping. `store` is the emulator's
    `mem`. `pending` is the packet from the send until the call returns. A write's data is mapped
    to what `'%ds'` makes of it. `applied` holds once the emulator has consumed the request frame.
    `got` is `getMemory()` after a read that returned normally.

- **`PoserMemStore`** is the abstract memory: `Issue`, `Apply` (the write takes effect), `Return`
  (a read gives the bytes of its range), `Fail` (with the write applied or not) and `Forget` (a new
  packet drops the last result). Its `Spec` has weak fairness of `Apply` and of `Return \/ Fail`.

The `Peer*` definitions, `ReplyBody`, `PeerServe` and `RequestFrameLen` model the emulator, which
is not in this repository. They follow the spec and are marked `spec_modelled`.

## 4. Runs

| Run | Expect | What it shows |
|---|---|---|
| `wire` | pass | the checksum loop equals sum mod 256 over all headers of up to 4 bytes from {0,1,128,255}; B/H/L parameters round-trip at byte boundaries |
| `socket` | pass | reliable TCP, 257 calls (the id crosses 255): the reply matches its request, no bytes are left over, every call returns, and `PoserCall` is implemented |
| `socket_shortsend` | violation | with a partial `send`, client and emulator wait on each other forever |
| `rpc` | pass | RPC and RPC2 with up to 3 sets of parameters and scalars: results match reply positions, no call raises when keys are not reused |
| `rpc_reg` | pass | one RPC2 register: the mask lets the emulator decode exactly the register set |
| `rpc_reuse` | violation | setting a parameter name twice makes the call raise `ProtocolException` |
| `rpc_regreply` | violation | any register in an RPC2 reply makes `_unmarshal` raise `struct.error` (line 387) |
| `rpc_regorder` | violation | with two registers, the emulator receives them swapped (dict order against mask order) |
| `rpc_exception` | violation | on RPC2, `msg['exception']` raises `KeyError` (line 353). Spec §4.4 says it reads the exception code |
| `rpc_a0` | violation | on RPC2, `msg['A0'] = 1` stores a register, and `msg['A0']` then reads the scalar `_a0` (0) |
| `mem` | pass | reads and writes of 1 and 2 bytes (write data of 1 or 2 bytes either way) over a 3-byte memory and a reliable stream, with connect and close at any point between calls: a read returns what the earlier writes stored, and the packets implement `PoserMemStore`, every call ending |
| `mem_truncated` | violation | with a short `recv`, a 1-byte read returns normally with `getMemory() == ""` (spec §4.2 says `TruncatedBody`) |

Bounds, and why they are enough:

- The byte values {0,1,128,255} reach both the 256 boundary of the checksum and a carry past it.
- Integer values sit at every byte boundary. TLC integers stop at 2^31-1, so 'L' values stop there.
- 257 calls is the smallest bound at which the 8-bit id wraps.
- The `rpc` run takes two names, two types, two values and three sets. That covers two parameters
  in either order plus a scalar, and by-ref and by-value parameters.
- The register runs use one register (mask position) and two (order).
- `mem` uses three addresses, lengths 1 and 2, two byte values and three calls. That allows a
  write followed by a read that overlaps it at either end, and a read of unwritten memory.

## 5. Fairness

`PoserSocket` assumes weak fairness of the three receive steps and of `PeerServe`. The client
thread is blocked in `recv`, and it continues once bytes are there. The emulator is assumed to
answer every whole frame. The code has no timeout, so it relies on exactly this. A silent emulator
blocks the caller forever, and the spec accepts that. `PoserMem` assumes the same of its receive
steps and `MemPeerServe`. `PoserRPC` checks only safety.

The refinement of `PoserMemStore` is checked as its safety part, plus `Completes`, the leads-to
that its fairness promises (every operation ends). The abstract fairness conditions name actions
that exist only under the refinement mapping, and TLC cannot evaluate `ENABLED` of those.

All runs use `CHECK_DEADLOCK FALSE` because the caller stops after `MaxCalls` calls or after `close`. `CallReturns` checks that
the model never stops in the middle of a call.

## 6. Not modelled

- `connect(addr, port)` passes two arguments, which only Python builds before 2.0 accept. Later
  builds raise `TypeError`. The model takes `connect` to succeed.
- `__repr__` and `_memdump`: formatting.
- `SysTraps` is the trap table. It is not in the repository and trap words are opaque.
- Type tags outside B/H/L/Ns: `_calcSize` leaves `_size` unset for them.
- The memory packets' `__repr__` and `_memdump` are formatting.
- The RPC packets over the byte streams. `PoserSocket` implements the atomic call of
  `PoserCall` on a reliable connection (`ImplementsPoserCall`), and `PoserRPC` uses that atomic
  call. What a short `recv` does to a reply is shown at byte level by the socket and mem runs.
- Two calls on one RPC packet. They do not fit in 5 minutes with the `rpc` run's parameter sets.
  A second call resends the `_trap`, `_d0`, `_a0` and by-ref parameter bytes that the first
  reply left in the packet.
- The range-checked `struct` build (`PackRangeChecked = TRUE`). Its 256th call raises before
  sending. `_transid` is bumped only after a reply, so every later call raises as well. Spec §3
  leaves the wrap implementation-defined, so no run makes a claim about this build.
- One more observation, left out of the runs:
  - A call that raises leaves the packet half updated. `_trap`, `_d0` and `_a0` are assigned
    (lines 284 and 378) before the check or unpack that raises. The spec makes no promise about
    the packet after a failed call. The `rpc_reuse` and `rpc_regreply` traces show such a packet.
