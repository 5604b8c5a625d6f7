# WindiertRust: a TLA+ model of the driver runtime and its clients

WindiertRust is a Rust rewrite of a packet-diversion driver: kernel-side code
captures packets and events, filters them, queues them for a user-mode program,
and takes packets back for reinjection. This directory holds TLA+ modules
translated from that code, TLC configurations that check them on small
instances, and proofs, checked by TLAPS, that hold for every size of the
instance. Paths below are relative to the repository's root.

## 1. The system

```
 wd-cli commands, demos          user mode: probe, open, session, recv / send
        |  RuntimeTransport / RuntimeSession (wd-user)
        |  CreateFile, DeviceIoControl, CloseHandle
 KMDF file object, queue         C: one runtime per file object, one queue
        |  wd_runtime_glue_*  (C ABI)
 RuntimeIoctlDispatcher          IOCTL_OPEN, IOCTL_RECV, IOCTL_SEND
        |
 RuntimeDevice  ---- FilterEngine   lifecycle, filter, frames
    |        |
 EventQueue  NetworkRuntime ---- ReinjectionTable
    |                                  |
 ByteRing                     FixedReinjectionTable     (wd-kmdf-core)
```

| Component | Code | State | Operations | What makes it correct |
| --- | --- | --- | --- | --- |
| Frame ring | `driver/wd-kmdf-core/src/lib.rs` `ByteRing`, `wd-kmdf/src/queue.rs` | slots, their lengths, head, len | push (drop-oldest), pop_into, drop_oldest, clear | it is a bounded FIFO queue that loses its oldest element only, and never hands out a frame twice |
| Reinjection table | `wd-kmdf-core` `FixedReinjectionTable`, `wd-kmdf/src/reinject.rs` | slots, write index, next token | issue, consume | a token is fresh, is accepted once, for its packet, and is forgotten by age only |
| Runtime handle | `wd-kmdf/src/runtime_device.rs`, `network_runtime.rs` | lifecycle state, open request, filter, queue, table | open, open_with_request, queue_network/socket/flow_event, recv_into, send, two shutdowns, close | queue and table stay consistent with one another; the filter is never bypassed; failures change nothing; closing empties the handle |
| Filter evaluator | `wd-kmdf/src/filter_eval.rs` | none (a checked program) | from_ir_bytes, matches, matches_network_packet | a checked program never under- or overflows its stack and means what its expression means |
| Dispatcher and C ABI | `wd-kmdf/src/ioctl_dispatch.rs`, `glue_api.rs` | the device, last_reinjection | create, destroy, device_control, queue_network_event | an error leaves no trace; what is handed over was accepted |
| KMDF skeleton | `driver/glue/kmdf-skeleton/*.c`, `wd_ntstatus_mapping.h` | file context: runtime pointer | file create, cleanup, close, device control | no request reaches a destroyed runtime; every request is completed once |
| Wire protocol | `crates/wd-proto/src/lib.rs` | none | encoders and decoders | a message is read whole or refused, however it arrives |
| Filter compiler | `crates/wd-filter/src` | none | lex, parse, analyse, lower, encode, decode | the program the driver accepts is the expression the user wrote; its layer mask is right |
| User sessions | `crates/wd-user/src/windows.rs`, `runtime.rs`, `handle.rs` | a Win32 handle per session | probe, open, open_session, recv_one, send_one, close, Drop | every handle is closed exactly once whatever fails |
| Frames and checksums | `crates/wd-user/src/frame.rs` | a decoded packet, its dirty flag | decode, set_ipv4_ttl, repair_checksums | a repaired header verifies; a message is read whole or refused, and what cannot be told from a bare packet gets no token |
| CLI commands | `crates/wd-cli/src/cmd` | flow of one command, its time budget | netfilter, netdump, socketdump, flowtrack, reflectctl | sessions are closed, results are reported once, budgets are kept |
| Prepared network handles | `crates/wd-user/src/handle.rs` | a compiled filter; the driver's capabilities | `HandleConfig::network`, `from_open_response` | what it accepts opens on Network; the documented filters are accepted |
| Demos | `crates/demo-*` | a polling loop | recv, rewrite, send | no packet that is not theirs blocks their events |

### Behaviours that are hard here

* Two structures of unrelated sizes hold halves of one fact: a packet's frame is
  in the queue, its token is in the table. Either can lose its half first, after
  any mix of drops, receives, sends and events of other layers.
* The ring and the table are fixed arrays with wrapping indices. Their faults
  show only after the indices have come round more than once.
* Calls fail at several depths (state, filter, layer, size, buffer, token), and
  the order of the checks decides what a failed call leaves behind.
* The lifecycle runs in one direction through six states, and each call accepts
  its own subset of them.
* Driver and client are built apart and meet over bytes. A reader takes what is
  not a frame for a bare packet (`frame.rs:29`, `143`), so it may take a damaged
  frame for one; it must never give such a packet a token.
* Above the runtime handle, captures and control requests of the same file
  object interleave; clients poll, time out, give up and come back with a new
  file object whose tokens start at 1 again.

`PROJECT.json` lists these hazards one by one, each at its line, with the
properties that cover it or the reason none does yet.

## 2. The modules

| Module | Models | Kind |
| --- | --- | --- |
| `ByteRing` | the ring's data and methods as operators on a record | operators |
| `FrameRing` | a ring used in every way it can be | state machine |
| `EventQueue` | the queue the ring implements | abstract specification |
| `ReinjectionTable` | the token table as operators on a record | operators |
| `Wire` | the messages between driver and client, byte by byte | operators |
| `PacketPath` | packets and events from the ring to a client and back; extends `FrameRing` and `Wire` | state machine |
| `RuntimeDevice` | one runtime handle; extends ring and table | state machine |
| `DeviceContract` | what a runtime handle promises its user | abstract specification |
| `RuntimeGlue` | dispatcher and C ABI over successive handles | state machine, extends `RuntimeDevice` |
| `FilterProgram` | the filter engine: checks of a program, its evaluation | state machine |
| `FilterCompiler` | analysis and lowering of an expression, in front of the engine; `HandleConfig`'s check in between | state machine, extends `FilterProgram` |
| `FilterText` | lexer and parser in front of the compiler | state machine, extends `FilterCompiler` |
| `WindowsSession` | `WindowsTransport` and `WindowsSession` over the C ABI | actions, extend `RuntimeGlue` |
| `CliCommand` | one run of a `wd-cli` command or of `demo-conn-monitor` | state machine, extends `WindowsSession` |
| `MC*` | instances for TLC | |
| `ByteRingProofs`, `FrameRingProofs`, `ReinjectionTableProofs`, `RuntimeDeviceProofs`, `RuntimeGlueProofs`, `CliCommandProofs`, `FilterCompilerProofs`, `PacketPathProofs` | lemmas, theorems and proofs | |

### ByteRing, FrameRing, EventQueue

`ByteRing` keeps `slots`, `head` and `len` as the code does. A slot's bytes and
its length are one value: a frame, or `Vacant` where `lengths[i]` is 0. (A frame
is never empty: the shortest is a 16-byte header.) `Push`, `DropOldest` (also the
second half of `pop_into`) and `Clear` are the methods with their modulo
arithmetic. `FrameRing` is the ring under any sequence of calls with the sizes
that make them fail; `EventQueue` is `queue.rs` without the ring, a sequence.
Both have what the last call was answered (`answer`) and the frame it handed out
(`popped`), so that a call that loses a frame must say so: a push that is
refused, and a pop for which the frame is too long, cost none (`refuse`). `refuse`,
`drop_oldest` and `clear` are what the ring has beside the `VecDeque`.
`FrameRing` implements `EventQueue` through `Contents`, the ring read from its
head, with the same answers.

### Wire, PacketPath

`Wire` has every encoder and decoder of `wd-proto`. A message is a sequence of
bytes; a field that is only carried stays bytes, a length or a kind is a number.
The four decoders with a header differ in their layout only, and `Fault` is their
common order of checks: header, magic, version, layer, length. The lengths are below
2^31, TLC's integers.

`PacketPath` is the way of a packet: `Capture` puts the encoded frame on the ring
of `FrameRing`, `Receive` pops it and decodes it as `RecvEvent::decode` does, with
both of its fallbacks to a bare packet; `SetTtl` and `RepairChecksums` edit what the
client holds; `Send` encodes it for the driver. `Ask` and `Answer` are the
negotiation before. A message that crosses may arrive as it was sent, with the
leftovers of a longer buffer behind it, cut at any byte, or with any byte of its
version, its layer or its magic replaced by a member of `Damage` (`Arrivals`);
the theorems are about every `Damage`. `Overhear` gives the decoder what no session
of this driver queued: a frame, a frame around a bare packet, a raw packet. A
client may hold on to an event beyond its session, as the library's functions let
it; the driver judges what is sent by its token, and the commands of `wd-cli` never
do this (`ReinjectsWhatItReceived`). Three variables are history, which no action
looks at: `heard` keeps what the sender meant beside what the receiver
read, `origin` the client's event as it was decoded and whether that was in this
session, and `captured` the packets that were queued in this session. The sum
of the checksum is written with remainders (`Folded`), the code folds carries in a
loop.

What `PacketPath` leaves to `RuntimeDevice` is when a frame is queued and which
token it has; here a frame and its token are given.

### ReinjectionTable

`NewTable`, `Issue` and `Consume` are the three methods. `Issue` writes under
the index whatever is there; `Consume` empties the first slot that holds the token
and leaves the write index where it is. The counter is
capped by `MaxToken`, the model's `u64::MAX`, where it saturates as in the code.

### RuntimeDevice, DeviceContract

One action per method of `RuntimeDevice`; a call takes `&mut self`, so a call is
a step. Its result is left in `reply`. A disjunct of an action is a path through
the method: the early returns in the order of the code, then the effect.
`OpenWithRequest` compiles the filter before it looks at the state;
`QueueNetworkEvent` asks the filter, then the layer, then encodes, and only then
issues a token; `SendPacket` checks the state, the layer and the size before it
consumes. `Close` passes through `Closing` within one call.

Abstractions:

* What a filter program can tell of an event is the event's *tag*; a program is
  the set of tags it accepts and the layer it was compiled for. That every
  program a handle accepts gives a yes or a no to every event is what
  `FilterProgram` shows. A filter is tested against one layer, as
  `FilterEngine` is built for one.
* A packet's contents are its id, its length is its own number of bytes: the
  size limits (2048-byte frames with two 16-byte headers, 2048-byte accepted
  packets) are the code's.
* A send request is its decoded layer, token and length, or undecodable.
* `issued` and `accepted` are history: what each token was issued for and what
  `send` took it for. No action reads them.

`DeviceContract` is the same handle with a sequence for a backlog, a set of
pending tokens, and a window. It allows a backlog of the smaller of the asked
capacity and `MaxBacklog`, which loses its oldest frame only; a token per
captured packet; one redemption, while fewer than `Window` later packets have been
captured.

### RuntimeGlue

`runtime` says whether the file context holds a runtime, `result` is the last
`GlueIoResult`, `last_reinjection` the dispatcher's. An action is an exported
function, or a branch of `device_control` for one control code, conjoined with
the device's own action: `ControlOpen` opens the device and then finds whether
the response fits. The null checks of the ABI are the actions that reject before
the device is reached. Destroying a runtime puts the variables into the state
the next one starts from. The ABI gives access to neither the shutdowns nor close
nor the socket and flow events; those are checked in `RuntimeDevice`.

### FilterProgram, FilterCompiler, FilterText

`FilterProgram` is `FilterEngine`. `ir` and `layer` are what it is made from.
`ValidateIr` is `validate_ir` up to its last line, `CheckOp` and `CheckEnd` are
the loop of `validate_program_shape` and what follows it; `Matches` starts an
evaluation, `RunOp` and `RunEnd` are the loop of `evaluate_program` (events)
and `evaluate_network_program` (packets) and what follows it. A `?` that finds
no operand is `GivesUp`, which the callers turn into false and the model keeps
apart as the verdict "none". A value is a `u64` and kept as two halves: an
address test has its prefix length in the high one, and nothing at load time refuses
a length above 32. For such a test `32 - prefix` underflows (`filter_eval.rs:527`):
a build with overflow checks panics, another one shifts by the wrapped number, and the
model does either. `depths` is history: the depth the check counted
before each opcode. A packet is its bytes, and the tests read them as the code
does: IPv4 header length, both ports or none, addresses behind twenty bytes. An
event's layer says which kinds it can have: CONNECT of a socket, ESTABLISHED of a flow,
OPEN and CLOSE of a reflected handle.

`FilterCompiler` puts `analyze` and `lower` in front. An expression is its tree, and
the walks over it are recursive functions on the set of trees (`Tree`).
`TestsOf` is `visit`: each predicate with its place, that is, its polarity and its
reflect context; `LeftPlace`, `RightPlace` and `Negated` are how a place is handed
down, and the first two depend on the sibling. `RequiredLayers` and `LegalTest` are
`visit_predicate`, `Lower` is `lower_expr`, `OpOf` is `lower_predicate`. Encoding and
decoding a program gives it back or, beyond `MAX_PROGRAM_LEN`, refuses it.
`Incompatible` is the client's own check of a compiled filter
(`HandleConfig::network`), made before any session is opened. `CompilerSpec` is all of
this under a parser that may find any expression in a text, or none (`ReadAny`).

`MAX_DEPTH` says how deep operators nest; the code has no such limit, and the
theorems hold for every number. It is there because a set of trees is built level by
level. An address field compared with a plain number is a predicate too, as
`ir.rs:349` has it: the number goes into the program as it is and the evaluator takes a
prefix length from it. Such a filter has no meaning in the filter language
(`HasMeaning`, `IsSpelt`), so `VerdictIsMeaning` says nothing of it;
`EvaluationNeverGivesUp` does. The meaning of an expression (`Says`) is stated without
the evaluator's ports and addresses: the transport header is what is behind the IP header
(`Transport`), an address a number of four bytes (`Long`), local and remote follow from the
direction (`OfEnd`), a block from division (`InBlock`).

`FilterText` puts the lexer and the parser before that. A text is a sequence of
pieces: words, marks, digits, dotted addresses. The model's pieces are what
`lex` cuts a text into; blanks, upper case and positions are left out. The `Parse...`
operators are the parser's methods, one for one, and answer the tree and the tokens
that are left. They are RECURSIVE operators, so the module has no theorems. What it
adds to `CompilerSpec` is how an expression is found. `CompilerTypeOK`, checked here,
says that what the parser finds is among the expressions `CompilerSpec` may find, so
that the theorems are about it.

### WindowsSession, CliCommand

`WindowsSession` has the handle a transport or a session holds and what Win32
answered: CreateFile creates the runtime of a file object, CloseHandle destroys
it, DeviceIoControl is a control call of `RuntimeGlue`. Each of the three may also
fail on its own, before the driver sees it, CreateFile with every class of error the
code tells apart. A negotiation whose call succeeds may still find a response
that does not decode or has a status (`NegotiationErrors`), as a driver of another
build may answer. `closes` is history: how often each handle was closed.

`CliCommand` is `execute_with_transport` of the five commands, which share one
flow, with `pc` at the points of it where something is checked or a Win32 call
is made: check the arguments, probe, open and close at once, open a session,
receive and decode as often as the command says, send, close. `Expire` lets the budget
run out between any two steps, captures arrive between any two steps, and an error leaves through `Drop`
whenever a session is alive. A command that Rust ends by `?` ends here by
`FailsWith`. The sixth kind is `demo-conn-monitor` with one session
(`--socket-only`, `--flow-only`): it has no budget and no count, and its loop
(`MonitorPolls`) takes an error of code 6 for an empty queue and asks again. Its
second session would be a second file object with a runtime of its own, which
shares no state with the first.

## 3. The runs

| Run | Question | Result |
| --- | --- | --- |
| `packet_path` | does the fixed ring implement the queue; is every message read whole or refused; do edited headers verify; does only what was captured in a session return in it? | yes |
| `runtime_device` | do queue, table, filter and lifecycle stay consistent under every order of calls, and does a handle implement `DeviceContract`? | yes |
| `glue_abi` | does a failed control call leave no trace; is what is handed over accepted here; does a polling client empty the queue? | yes |
| `cli_command` | does every command end, close its handles once whatever fails, and report only what it did? | yes |
| `filter_text` | is a filter read as its grammar has it; does it say of every event what its expression says, however it was written; does every program that passes the checks run to its end; is what the parser finds an expression of the compiler? | yes |
| `close_drains_tokens` | does close release pending tokens, as the design says? | no |
| `reinjected_on_its_layer` | is a packet reinjected on the layer it came from? | no |
| `short_buffer_status` | is a short receive buffer reported as such? | no |
| `recv_disabled_status` | does RECV_DISABLED mean that the receive side was shut down? | no |
| `established_supported` | can a filter ask for established flows? | no |
| `dns_demo_opens` | does the filter of `demo-dns-redirect` open its session? | no |
| `follow_streams_to_count` | does a following command go on until its count, its budget or the user ends it? | no |

Bounds, and why they are enough:

* `packet_path`: two slots, so the head wraps with the ring empty, partly
  filled and full. Frames of 60 bytes at most stand for the 2048: of four frames
  one is a byte too long for a slot, one too long for the smaller receive buffer.
  Packets with a header of 20 and of 24 bytes, one with a right checksum and one
  with none; both network layers; tokens of more than one byte; a socket and a flow
  event; strays without a payload header or without any, too short, or of IP
  version 6. Every message is cut at every byte, and every byte of its version, layer
  and magic is replaced by 2, the number of another layer, and by 69, the first byte
  of an IPv4 header. Two TTLs, one of them the packet's own, so that an
  edit may be taken back. The theorems of section 5 remove all these bounds.
* `runtime_device`: two ring slots, two token slots, three tokens, the tightest
  case of `RingSlots <= TableSlots`: with one token slot fewer a queued packet
  would lose its token. The queue drops with a capacity of 0, of 1 (below the
  slots) and of 3 (above them); the table wraps and overwrites tokens whose
  packet has left the queue. Packets: accepted and short, rejected and as long as
  a frame permits, one byte too long. Receive buffers: one byte below the
  smallest frame, exactly a short packet's frame, a full frame. Sends: 0, 2048
  and 2049 bytes. Requests: filter on a packet layer, filter on an event layer,
  no filter, a refused program. Larger tables are left to the theorems.
* `glue_abi`: two ring and two token slots, three tokens per runtime, any number
  of successive runtimes.
* `filter_text`: every kind of predicate with values it accepts and refuses,
  plain and negated, and every expression of two connectives, with negations,
  over seven predicates chosen so that each layer, the reflect context and the
  packet access each occur on either side, written with the fewest parentheses its
  grammar permits; all texts of four pieces, and texts with one slip, most of which
  no parser should accept. Packets with ports, without ports and of version 6;
  events of every kind; packets with IP options that look like other ports. Addresses
  compared with numbers, whose high halves give prefixes of 0, 32 and 34. `MAX_HIGH` is 300
  where the code has 2^32 - 1: it bounds the numbers a lexer takes, lies above
  the prefixes there are, and texts have the last number on it and the first one above.
  Beside them all programs of up to four opcodes over seven
  opcodes, for each layer, that no compiler wrote: too few operands, too many, and
  none, at each place; a packet too short for its load; a prefix above 32. `MAX_DEPTH` is
  4, as deep as the deepest of these. The theorems remove the bounds on programs, expressions, packets
  and events.
* `cli_command`: two queue slots and two token slots, so that frames wait behind one
  another, the third drops the oldest, and two packets captured between two steps of
  the command replace the token of the received one. `MaxToken` is 4. Commands of every kind, counts of 1 and
  2, and one slip of each kind in their arguments; requests on every layer a command opens, and a refused program; packets
  just long enough for an IPv4 header, accepted and rejected, and one byte
  shorter; any number of socket and flow events. The monitor opens without a
  filter, so all of these come to its queue.

`UnsaturatedSpec` (and the guard in `GlueNext`) stops issuing one token below
`MaxToken`. In the code that is 2^64 - 1 packets; at the ceiling every packet
gets the same token, and the token properties are stated for a counter below it.
`CallView` leaves `reply` out of the state's identity: no action reads it, and
action properties are checked on every step that is generated.

Fairness is assumed of clients and of the clock, never of the kernel side. In
`CliSpec` the command's thread runs (weak fairness of `CommandStep`) and the
budget runs out some time (weak fairness of `Expire`, a check of elapsed time
in the code; the monitor has no budget, so nothing is claimed of its end). In
`GlueSpec` it is weak fairness of `Polls`, a RECV with a buffer that holds any
frame. That is `demo-conn-monitor`'s loop (`crates/demo-conn-monitor/src/main.rs:67-103`): it
calls again whatever the last answer was, with 65535 bytes. It assumes that these
calls reach the driver: a DeviceIoControl that fails on its own the monitor takes for an
empty queue, and one that always fails gives it nothing. Nothing else is assumed
of the kernel side: captures may stop or never stop. `EveryQueuedPacketLeaves` says that
no frame waits for ever while a client polls.

### What the failing runs show

Each states a sentence of the documents and has a counterexample.

* `close()` clears queue, request and filter, and leaves the token table as it
  is (`runtime_device.rs:165-171`; the design document, lines 242-244, has close
  drain "pending reinjection state"). No call can use the tokens afterwards, as
  `send` is refused in `Closed`.
* `accept_send` checks that the request names a network layer, not that it is
  the layer of the packet (`network_runtime.rs:75`): the table keeps no layer.
* A receive buffer too small for the frame is answered `NetworkRuntime` and not
  `OutputTooSmall` (`glue_api.rs:167`). A client cannot tell it from a failed
  token or layer check. The frame stays at the head of the queue.
* A handle that was never opened answers RECV with `RecvDisabled`
  (`runtime_device.rs:130`, `173-179`), which the bridge notes reserve for a
  receive side that was shut down; SEND answers `InvalidState` there.
* `event == ESTABLISHED` is listed in `README.md:237` and has a code in `map_value`;
  `visit_predicate` refuses it (`semantics.rs:153`), so `layer == FLOW` is the only
  way to ask for flows.
* `demo-dns-redirect` compiles `udp and outbound` with `HandleConfig::network`
  (`README.md:430-431`). `outbound` requires NetworkForward only
  (`semantics.rs:112-115`, as `filter-spec.md:79` has it), and the check behind the
  compiler wants Network (`handle.rs:55-60`), so the demo ends
  with an error before it opens a session. Its rewriting loop is never reached.
* `recv_one` makes no difference between an empty queue and a failed call
  (`windows.rs:218`), so a command with `--follow` ends with io_failure as soon as
  it asks and nothing is there (design of the CLI, line 359).

## 4. Properties, by hazard

* Ring: `TypeOK`, `RingKeepsNoStaleFrame`, `ImplementsEventQueue` (first in, first
  out; a full ring loses the oldest frame; a call that is refused loses none).
* Queue against table: `QueuedTokensRedeemable` (a packet that waits can be
  reinjected), `TokenWindow` (the table forgets by age only),
  `QueueInTokenOrder`.
* Tokens: `TokensAreOneShot`, `AcceptedPacketIsTheOneIssued`.
* Filter: `QueueHoldsOnlyMatches`. Lifecycle: `ClosedHandleIsEmpty`.
* Messages: `ReadWholeOrRefused` (a message that is cut anywhere or of another
  version is refused, and leftovers of a buffer do no harm; two things the format cannot
  tell. A layer byte replaced by that of another layer is read as that layer's. A frame,
  or a payload, whose magic is damaged so that it begins like an IPv4 packet passes for
  a bare one (`frame.rs:29-31`, `143`), and so does what is left of a raw packet; what
  passes so has no token, and nobody can send it back), `OnlyCapturedPacketsReturn`
  (what the driver takes back from a client that received it in this session was
  captured in this session, has its token and its bytes, but for the
  TTL and the checksum, and its layer unless the request's was damaged). Checksums:
  `EditedPacketsVerify`.
* Failure: `FailureChangesNothing`, `OnlyShortOpenLeavesATrace` (one exception:
  an OPEN whose response does not fit has opened the handle, so the retry is
  refused), `HandedOverWasAccepted`.
* Filter engine: `EvaluationNeverGivesUp` (and no panic, but with a prefix above 32),
  `StackIsAsChecked` (what the check
  counted is what the evaluator has).
* Filter text: `ReadsAsTheGrammar` (the expression the parser returns is the only
  one the grammar gives the text, and a text without one is refused; the grammar is
  stated by where the weakest operator stands, not by descent), `CompilerTypeOK`
  (what it returns is an expression the compiler knows).
* Filter compiler: `VerdictIsMeaning` (analysis, lowering, checks and evaluation
  together), `CompiledIsWellShaped`, `EquivalentFiltersOpenAlike` (swapping
  operands, negating twice, De Morgan and distribution change neither the
  verdict of the checks nor, the first two, the layers).
* Client: `HandlesClosedOnce`, `SuccessIsEarned`, `ReinjectsWhatItReceived`.
* Liveness: `EveryQueuedPacketLeaves`, `CommandEnds` (of commands with a budget).
* All of a handle at once: `KeepsContract`.

## 5. What is proved

The theorems are about the specification of each state machine (`Spec` of
`FrameRing` and of `RuntimeDevice`, `GlueSpec`, `CliSpec`, `FilterSpec`,
`CompilerSpec`, `PathSpec`),
for every value of the constants that satisfies the named assumptions. These are what
the code gives: positive numbers of slots, `RingSlots <= TableSlots` (32 and 256 in
the code), a token counter that can pass 1 (`MaxToken`), typed input sets, and of the
bytes on the wire (`MessageAssumption`) that numbers have their widths, bytes are
bytes and a packet that stands alone begins with a nibble 4 or 6, as IP headers do
and the magics, which begin with `W` (0x57), do not. Every invariant and
every action property that a run checks is proved, but for the two named at the end of
this section.

The ring, the table and the handle:

* `FrameRingTypeCorrect`, `FrameRingKeepsNoStaleFrame`, `FrameRingIsEventQueue`:
  the ring implements the queue. `ByteRingProofs` shows what each operator does
  to `Contents`: `Push` appends, `DropOldest` takes the tail, `Clear` empties,
  and all three keep the ring well formed and its unused slots vacant. The
  arithmetic is isolated in lemmas about positions modulo the number of slots;
  every theorem above cites these lemmas and never looks into a ring again.
* `PathUsesTheRing`: each step of `PacketPath` is a call of the ring or leaves it
  alone, so `PathSpec` implies `FrameRing`'s `Spec`, and with it, in
  `PathRingIsEventQueue`, the queue for any frames and messages.
* `DeviceTypeCorrect` and the invariants `DeviceQueuedTokensRedeemable`,
  `DeviceTokenWindow`, `DeviceTokensAreOneShot`, `DeviceAcceptsThePacketIssued`,
  `DeviceQueueInTokenOrder`, `DeviceQueueHoldsOnlyMatches`,
  `DeviceClosedHandleIsEmpty`, and the action property
  `DeviceFailureChangesNothing`.
* `DeviceKeepsContract`: below the ceiling of the token counter the handle implements
  `DeviceContract`. The backlog is the ring's `Contents`, the pending tokens are
  those the table holds.

The inductive invariant `DeviceInv` (in `RuntimeDeviceProofs`) is needed because
none of these is inductive. Its parts:

* `TokensKept`: the table has `TableInv` (of `ReinjectionTableProofs`: the token
  issued a captures ago was written a slots behind the write index; its slot
  holds it, if it is unused, and a reaches at most the number of slots), tokens
  increase towards the end of the queue, and the k-th frame from its end carries
  the token of one of the last k captures, issued for its packet. The queue is
  no longer than `RingSlots`, hence than `TableSlots`: this is where the two
  sizes meet.
* `QueueKept`: no stale slot, and no more frames than the capacity allows.
* `FilterKept`: the filter is that of the open request and every queued frame
  passed it.
* `ClosedHandleIsEmpty`.

The preservation proof first reduces the eleven actions to the few kinds of
step they can be (`StepKinds`: nothing changes, a capture, another event, a
receive, a redemption, an opening, a shutdown, a close), then treats each kind.

For the refinement (`ContractInv` adds to `DeviceInv` that the counter is below its
ceiling) the contract's pending tokens are the table's entries (`Live`). By `TableInv`
an issue overwrites just the entry that is `TableSlots` captures old, the one the
contract's window forgets, and a redemption takes out one entry. `StepKinds` serves
again: each kind of step is a step of the contract or none.

The C ABI (`RuntimeGlueProofs`): `GlueTypeCorrect`, `GlueHandsOverTheAccepted`,
`GlueErrorLeavesNoTrace`, and `GlueKeepsContract`, the contract through the
dispatcher over any number of runtimes. An exported function is one call of the
handle or none (`Serves`), and destroying a runtime is the handle's `Init`; so the
handle's invariant is carried over, and only the answer and the packet handed over
are left to argue about.

A command (`CliCommandProofs`): `CliTypeCorrect`, `CliHandlesClosedOnce`,
`CliSuccessIsEarned`, `CliReinjectsWhatItReceived`, for any command, count and
filter. The invariant `CliInv` stands on the glue's and has three parts. The handle
(`HandleKept`): the point the command has reached says whether it holds one, and
every other handle was closed once. The outcome (`ErrorKept`, `CourseKept`): an error is
set only on the way out, a failed negotiation's before its handle is closed, and the
places a success is reported from are reached with valid arguments, the count of events and the runtime gone. The frames (`FramesKept`,
`OriginKept`): what was received is what the command wanted, older than all that is
queued, and its token still stands for its packet, however many captures come between a
receive and the send.

The filter (`FilterCompilerProofs`). Of the engine alone, for programs of every length,
compiled or not: `FilterTypeCorrect`, `FilterNeverGivesUp`, `FilterStackAsChecked`. Their
invariant `FilterInv` keeps, beside types, what the check has learnt: each opcode it
passed had its operands at the depth it counted there (`ShapeKnown`), and the depths of
neighbours differ by what the opcode in between does. The evaluator's stack is as deep
as `depths` says, so an operand it needs was counted. What `FilterNeverGivesUp` does not
promise is that nothing panics: a program with an address prefix above 32 passes the
checks, and the theorem says that only such a program can.

Of the engine behind the compiler, for expressions of every depth, every layer, packet
and event: `CompilerTypeCorrect`, `CompiledNeverGivesUp`, `CompiledStackAsChecked`,
`CompiledAlwaysWellShaped`, `VerdictAlwaysMeaning` and `EquivalentAlwaysOpenAlike`. The
fifth is the correctness of a compiler: what the program answers is what the
expression says, and it never panics, for every expression that spells its addresses
(`HasMeaning`). The argument:

* Each walk over a tree is a recursive function. That it exists and obeys its equation
  is proved level by level (`TestsOfIs`, `LowerIs`, `SaysIs`, ...), by induction over the
  depth of the trees (`AllTrees`).
* Run the program not on truth values but on expressions: a test pushes its own
  predicate, an operator joins what it finds. `Held(e)[i]` is this stack after i opcodes of
  e's program. `StackStep` says what one opcode does to it, and `LowerBuilds`, the
  induction over e, that the whole program, above any stack, leaves that stack with e on
  top.
* The check counts that stack's depth (`DepthIsHeld`), so it refuses nothing and ends
  with one. The evaluator has on its stack what those expressions say of the event
  (`StackIsHeld`), so it ends with what e says. Beside the two stands the argument for one
  opcode (`TestMeans`): each legal predicate that the layer supports is answered as
  the language says it, with `InBlock` by division where the code compares masked
  addresses, and with the ports behind the header where the code loads them at an offset.
* The invariant `CompilerInv` joins `FilterInv`, these two, what a compiled program is
  (`IsCompiled`) and that nothing is asked before the checks are over.

That equivalent filters open alike needs no invariant; it is a fact about `visit`.
Rewriting keeps a filter's predicates, each with the polarity it stands in
(`RewrittenSigns`), and these decide whether a filter opens (`OpensBySigns`). They do not
decide the reflect contexts, but where there is one, a positive `event == open` has made
it: that predicate is supported on the layer Reflect only and asks for it, so the
filter opens there or nowhere, whatever its layer predicates ask for beside; and without
one no predicate has a context. Swapping operands and negating twice keep the
contexts too (`ReorderedTests`), hence the layers.

The packets' way (`PacketPathProofs`): `PathTypeCorrect`, `PathReadsWholeOrRefuses`,
`PathReturnsTheCaptured`, `PathEditedPacketsVerify`, for packets and filters of every
length, headers with any options and any checksum. (What is longer than a `u32` can
say, the code does not encode: `wd-proto/src/lib.rs:498, 559, 602`.)

* Messages. An encoder joins pieces, so each piece stands at a known place
  (`HasPiece`, `ThreeParts`, `FourParts`); a decoder cuts at known places, so it gives
  the pieces back (`PieceIsRead`, `NumberIsRead`). `ArrivalIsJudged` says for the layouts
  with a layer what a receiver finds in the header, however the message comes: nothing
  wrong and the right end if it is whole, a fault otherwise, at every length it may be
  cut to, and another layer where its byte was made one. Cut short of its magic it still
  begins with the magic's first byte, which no IPv4 packet has; that closes the fallbacks of
  `RecvEvent::decode` to what was cut. To what was damaged they stay open, and what comes
  through them has no token. One lemma per message follows (`OpenIsRead`,
  `ResponseIsRead`, `EventIsRead`, `SendIsRead`, ...).
* Checksums. The header's sum is a fold over a set, a recursive definition. The
  library's induction theorems take operators, which the provers cannot instantiate;
  `AllNumbers` is induction over a set of numbers, from the existence of least
  elements (`WFMin`). With it the sums exist (`SumsExist`: those of k + 1 bytes from
  those of k), do not depend on the order (`SumWithout`) and of a part not on the
  rest (`SameSums`). So a repaired header sums to the blank one's sum and its
  complement, and `ComplementFolds` is the arithmetic of the carries.
* The invariant `PathInv`: what the client holds is what the sender meant but for the
  TTL and the checksum, with the layer and the token of its own payload or none
  (`EventKept`); it is a whole packet that is to be repaired, as it came, or right
  (`ChecksumKept`); what crossed last was read right (`ReadRight`), and a SEND carried
  what the client holds (`HeardKept`); the packets on the ring, and what the client
  received in this session, are among the captured (`CaptureKept`), which holds over
  sessions because closing clears the ring.

Only model-checked, and why:

* Liveness (`EveryQueuedPacketLeaves`, `CommandEnds`) is beyond the prover.
* `ReadsAsTheGrammar` is about the parser, which is RECURSIVE
  operators over sequences of tokens, for which the prover has no backend. So is
  `CompilerTypeOK` where it is checked, of `TextSpec`; proved it is of `CompilerSpec`. The
  theorems about `CompilerSpec` hold of every filter text as far as the parser yields
  such expressions.

## 6. What is not modelled, and the plan

Left aside: rendering of text and JSON, the parsing of arguments, traces, build scripts,
packaging, the host-smoke harness and the templates, which hold no state of the
system.

Not modelled of the system itself:

* The KMDF skeleton (`driver/glue/kmdf-skeleton`) compiles and is linked by
  nothing. Its calls of the C ABI (create, destroy, control, a control without a
  runtime) are actions of `RuntimeGlue`. What it adds is when the framework runs its
  callbacks, most of all whether a file cleanup may overlap a control request
  (`Queue.c:49-57` against `112`); the skeleton sets no synchronization scope and
  no document of the repository says.
* The loop of `demo-dns-redirect`, which cannot be reached (section 3), and the
  second session of `demo-conn-monitor`, which shares nothing with the first.
* What the commands print. Their filters are good or bad; `FilterText` says which.
* Where `lex` ends a piece of a text; the wording and positions of errors.

What is left to prove of the safety properties is the parser: with its methods as one
recursive function over the number of tokens left, that it yields expressions
(`CompilerTypeOK` of `TextSpec`) would be an induction like those of `FilterCompilerProofs`, and `ReadsAsTheGrammar` one over how the
tokens of a reading are divided.
