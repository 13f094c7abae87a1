# A TLA+ verification of baetyl-bacnet

baetyl-bacnet is a device driver for the baetyl edge framework: it finds BACnet
devices with WhoIs, reads their properties on a ticker, reports them, and writes
the values that the cloud asks for. Its own core is a BACnet/IP client
(`bacip`) whose goroutines share a pool of invoke IDs, a table of transactions
and one callback slot. This project models that core and what the driver does
with it, the codec beneath and the driver above, checks them with TLC on small
instances, and proves the safety properties of the client, of the start that uses
it, of the workers that share it, of what they read and write, of the codec, and of
a scan and a call over the wire, for every size and every value, with TLAPS.

## 1. Inventory

| Part | State | Operations | Interaction |
|---|---|---|---|
| invoke IDs and transactions (`bacip/transaction.go`) | channel `freeInvokeID` of 256 bytes; map `currents` from ID to response channel and context | `GetID`, `FreeID`, `SetTransaction`, `StopTransaction`, `GetTransaction` | used by the calls (all but the last) and the handlers (the last) |
| subscriptions (`bacip/client.go`) | one callback `f` under an RWMutex | installed and removed by `WhoIs`, called by `handleMessage` under the read lock | the removal takes no lock |
| client calls (`bacip/client.go`) | per call: invoke ID, channel, context with a 2 s timeout | `ReadProperty`, `WriteProperty` | block in `GetID`, then in a select between answer and context |
| receiver (`bacip/client.go`) | one goroutine per datagram | `listen`, `handleMessage` | callback first, then the table, then a select between the send to the call and its context |
| scan (`bacip/client.go`) | callback channel, timer, set of devices | `WhoIs` | receives from the handlers that call `f` |
| driver start (`baetyl-bacnet/bacnet.go`, `slave.go`) | package variables `bacnetClient`, `devices`; map of slaves | `NewBacnet`, `NewSlave`, `generateSlave` | sequential scans, then workers and callbacks |
| client's addresses (`bacip/client.go`) | IP address, port, broadcast address | `NewClient`, `NewClientByIp`, `broadcast`, `send` | the machine's interfaces; devices of the same net |
| workers and callbacks (`worker.go`, `bacnet.go`) | per device: job and slave | `working`, `Execute`, `DeltaCallback`, `PropertyGetCallback` | concurrent calls of the client, one at a time for each of them; reports to the device context |
| conversions (`dmp`) | none | mapping lookups, value conversions | pure, used by `Execute` and `DeltaCallback` |
| codec (`internal/encoding`, `bacip/network_types.go`, `services.go`, `bacnet/types.go`) | a byte buffer with a sticky error | encode and decode tags, values, NPDU, APDU, BVLC | pure |
| configuration (`main.go`, `config.go`) | none | `genConfig` | sequential, before `NewBacnet` |
| tables and stringers (`bacnet/*.go`) | none | none | constants and generated code |

What is hard here: replies are matched to calls by an 8-bit ID only, over a
network that delays, repeats and loses; every way out of a call must release
three things (table entry, ID, context) in an order that other goroutines
depend on; `f` is called under a lock and may block; `f` is removed without the
lock; and the driver cannot work until its scans have returned. The list
"hazards" of `PROJECT.json` has each one at its line.

What makes the parts correct:

- **IDs**: none lost, none with two calls; `FreeID` never blocks; every call returns.
- **Table**: exactly the running transactions, each under its own ID.
- **Answers**: a call gets at most one, sent for a request under its ID, and for
  its own request at least until the IDs wrap around; an ID is long in coming back
  even then; no handler is left behind; every execution and callback ends.
- **Subscriptions**: a scan never starts while a handler is in an older callback.
- **Start**: `NewBacnet` comes to serve; calls run after the scans; what the
  scans leave behind does not keep replies from their calls.
- **Codec**: what is read is what was written, and a decoder that did not find an
  optional value reads the same tag again.
- **Frames**: a WhoIs reaches the devices of the client's net; a scan finds who
  announced itself; a request reaches the device it
  is meant for and says what the caller asked; the call returns what was answered,
  and nothing that was cut short or that it does not know.
- **Driver**: nothing stale is reported; a delta that returns nil is written, and a
  number that fits is written as it is; the cloud ends up with what the device has.

## 2. Modules

| Module | Models | Composes |
|---|---|---|
| `Transactions` | `transaction.go`: variables `freeInvokeID` (a sequence: the channel) and `currents` (total, `NoTx` for an absent key), one operator per method | |
| `Subscriptions` | `f` and the RWMutex: `readers`, `writer`; Go's rule that a waiting writer holds back new readers | |
| `Client` | all goroutines of `client.go` | `Transactions`, `Subscriptions` |
| `RequestReply` | abstract: what the client promises to concurrent callers | implemented by `Client` |
| `Bacnet` | `NewBacnet`, `NewSlave`, the slaves of `genConfig` | `Client` |
| `Fleet` | `working` and the callbacks, call after call, step by step | `Client` |
| `Encoding` | `internal/encoding` and the object IDs of `bacnet/types.go`, as operators on octets; no state | |
| `Codec` | an Encoder and a Decoder at work, value by value | `Encoding` |
| `Frames` | `services.go`, `network_types.go`, UDP addresses, as operators on octets; no state | `Encoding` |
| `Interfaces` | `NewClient`, `NewClientByIp`, `broadcastAddr`: nets, prefixes and broadcast addresses, as operators; no state | |
| `Exchange` | one new client, one scan and one call over the wire, with an external device | `Frames`, `Interfaces` |
| `Driver` | `Execute`, `DeltaCallback`, `PropertyGetCallback`, the lookups and conversions of `dmp`, the job of `genConfig` | |
| `MCClient`, `MCBacnet`, `MCFleet`, `MCCodec`, `MCExchange`, `MCDriver` | constants and symmetry for TLC | |
| `ClientProofs` | theorems about `Client` | |
| `BacnetProofs`, `FleetProofs` | theorems about `Bacnet` and `Fleet`, on those of `ClientProofs` | |
| `DriverProofs` | theorems about `Driver` | |
| `EncodingProofs` | lemmas about `Encoding`: numbers, tags, object IDs and values, written and read at any place of a buffer | |
| `CodecProofs` | theorems about `Codec`, on the lemmas of `EncodingProofs` | |
| `FramesProofs` | lemmas about `Frames`, on those of `EncodingProofs`: headers and services, written and read, and what becomes of a frame cut short | |
| `ExchangeProofs` | theorems about `Exchange`, on the lemmas of `FramesProofs` | |

### How state and actions correspond to the code

A **call** `c` stands for one execution of `ReadProperty` or `WriteProperty`
together with its context, its unbuffered channel and its request; so the table
maps an ID to a call. `cpc[c]` is its place: `getid` (blocked in `GetID`), `set`,
`send`, `wait` (in the select), `stop`, `free` (the two defers, last one first),
`cancel` (the deferred `cancel()` of `readValue` / `writeValue`), `done`. The
context may expire at any of them (`Timeout`). A call is made once: a caller that
calls again is another element of `Reads` or `Writes`.

A **handler** `h` is a goroutine started by `listen`; the slot is free again when
the goroutine ends. `HandleMessage` is split where another goroutine can see the
difference: read lock, test of `f`, call of `f`, read unlock, lookup, hand-over.
A send on an unbuffered channel is one step of sender and receiver (`Deliver`,
`WhoIsReceive`). The test and the call of `f` are two reads of a variable that
`WhoIs` writes without the lock, a data race: `CallF` uses the value tested or the
value now. A call through nil panics; `listen` recovers, the goroutine is gone
(`panicked`) and its read lock with it.

A **datagram** is a record of what the client looks at: type and invoke ID, and,
as a ghost field, the call it answers. A request that was sent may be answered
any number of times at any later time, which covers loss, delay, duplication and
reordering. Values are opaque: an undecodable payload is handed on like any
other, as in `handleMessage`, which stops only at `ErrNotBAcnetIP`. Not among the
datagrams: APDUs that end inside their own header, and replies to requests of an
earlier process that used the same UDP port.

In **Bacnet**, `DeviceInfos` is what `genConfig` finds and `Infos` what `NewBacnet`
finds when it asks again; `bpc` is where `NewBacnet` is: at the loop over the slaves, in
`WhoIs`, or past the loop, where workers and callbacks exist. `OpenClient`,
`FromCache`, `Scan` and `AfterScan` are the branches of `NewSlave`.

In **Fleet** a worker or a callback is a caller: `at` is where it is, `tick` how
often its ticker has fired, `todo` the calls that its execution has still to make,
in no order, as a Go map has none. The steps of its call are those of `Client`;
`given` is a ghost, the calls in the order in which they got an ID. `Tick` and
`StopWorker` are the two cases of the select in `working`; `Stop` is the device
context. An execution that makes no progress between two of its calls is not
told apart from one that does something in between: what it does with the values
is in `Driver`.

In **Encoding** an Encoder is `[bytes, err]` and a Decoder `[buf, err]`, where
`buf` is a `bytes.Buffer` with the one rule of it that matters here: after a read
one octet can be given back, and no second one. A method of the Decoder returns
the decoder after it and what it stored through its pointer. A float is the
number whose octets are its representation; a string is a sequence of octets.
Errors are told apart as far as a caller does: `ErrorIncorrectTagID`, any other,
and a panic (the slice of a string without its encoding octet, a bool stored in a
variable of another type, an unsigned number stored in one of an enumeration's type,
which has the kind that `AppData` looks at: `Unassignable`).

In **Codec** the steps are the calls of `Marshal` and `Unmarshal`: `WriteItem`,
`ReadItem`, and, as in `ReadProperty.UnmarshalBinary`, a try for an optional value
(`TryOptional`) and `ResetError` (`Recover`). `ItemsAssumption` says which items
there are: every value, ID and target for which the code has both a writer and a
reader. It leaves out the types of a `PropertyValue` that are written under a tag
`AppData` does not read or with nothing between the tags, and the object type 0x400,
which is written and does not come back (see "The violations").

Where the code decodes in several steps, **Encoding** and **Frames** have one small
operator for each, which takes what the step before has read (`TagFrom`,
`BehindIndex`, `NPDUOf`).

In **Frames** the optional parts of a header are read by `Field`, which stops
reading at the first failure and leaves what is not there at zero; that is what
the code's early returns leave behind, and `handleMessage` uses it.

In **Exchange** the client's steps are `Open` (one of the two constructors, on one
of `Machines`), `SendWhoIs`, `Collect`, `Call` and `Receive`. The device is
external, and reads and writes the encoding of the standard. It hears what is sent
to all hosts of its own net at port 47808, and may itself send from another port,
as a router does. Instead of an answer it may send something else
(`AnswerStrangely`): a Reject, an Abort, a segment, an acknowledgement of another
kind, a network layer message. `CutShort` takes any number of octets off the end of
a datagram on its way to the client. The constant `Errors` says which Error APDUs a
device sends (`Refuse`): whole ones, or also short ones, which end behind the invoke
ID although their frame is whole. Of a short one there is no payload, and
`ErrorAnswer` panics where its conversion would (run `short_error`).

In **Driver** a client call is one step with the outcomes that `Client` leaves it:
an answer, an error, or an error of a write that the device takes later
(`LateWrite`). Answers to another request (run `late_reply`) are not among them.
`points` is the device, by object; the keys of the job map are `Points`. The
expressions of `dmcontext` are outside this repository: what stands for the value
of an attribute is the tuple of its parameters, and which mapping it came from.
`ExecExpression` has a result if every parameter has a number, also for an
expression without parameters, and none if a parameter is missing. What `temp` has
under a name is a number, no entry (`NoValue`), or the nil of an answer that could
not be decoded (`Nil`, run `undecoded`): such a nil is stored like a number
(`worker.go:44`), passes the test for a missing one (`worker.go:67`) and becomes an
argument, with which `ExecExpression` may or may not have a result. A nil thus can
be reported; `ReportsAreFresh` says that this happens only with one that the same
execution was answered.
`Change` is the device changing by itself. A number of a delta has the Go type it
comes with (`kind`), and is counted in halves, so that truncation shows;
`Words`, `ObjectTypes`, `MaxObjectType`, `Significands` and `MaxInstance` stand for
2^32, 2^16, 2^10, 2^24 and 2^22 - 1, and `Ulps` for the distances between neighbouring float32, powers of two of which the
last one ends before infinity. The
decimal digits through which a float64 becomes a float32 are exact below its
precision, and round to the nearest float32 above it (`Nearest`); what is too large
is infinite (`Infinity`). The conversion
of a negative or too large float to uint32 gives any number (`Uint32s`), as it
depends on the machine.

## 3. Runs

| Run | Instance | Shows |
|---|---|---|
| `calls` | 1 read, 1 write, 1 scan with a range, 2 IDs, 2 devices, 1 handler | `TypeOK`, `OwnAnswerBeforeWrap` |
| `fleet` | a worker with 3 executions, a delta with 2 writes, 3 IDs, no handler | `FleetTypeOK`, `ReuseIsFarOff`, `CurrentsExact` |
| `fleet_live` | a worker and a delta with 1 call each, 1 ID, 1 handler | `IDsConserved`, `FreeIDNeverBlocks`, `ImplementsRequestReply`, `HandlerReleased`, `CallersReturn` |
| `start` | 5 devices (one without configuration, one forgotten, two slaves for the same one), 1 read, 2 handlers | `BacnetTypeOK`, `CallsAfterScans`, `NoOldCallback`, `StartStuckOnlyByOldHandler`, `RepliesServed` |
| `start_hangs` | 2 slaves, 1 handler | violates `StartCompletes` |
| `late_reply` | 2 reads, 1 ID | violates `ReadReturnsOwnValue` |
| `codec` | 2 values out of every method, kind of tag and length of value | `CodecTypeOK`, `RoundTrip`, `StuckOnLongTagOnly`, `CursorKept` |
| `exchange` | 6 machines, 3 devices, 6 ranges, 33 requests (of which 2 and 1 are refused), 10 values | `ExchangeTypeOK`, `WhoIsReachesNeighbours`, `ScanExact`, `RangeHeard`, `RequestReachesDevice`, `AnswerReturned` |
| `undecoded` | values that `AppData` does not know | violates `ValidAnswers` |
| `short_error` | reads and writes, Error APDUs whole and short | violates `AnswersDoNotPanic` |
| `deltas` | 2 callbacks, numbers of every Go type, 11 mappings, 6 points (two with one name, two that are one object once they are cut), 1 failing call | `NilMeansWritten`, `WrittenAsAsked` |
| `converges` | worker, callback, 2 points, 4 attributes, 1 delta, 1 failing call or nil answer, 1 change | `DriverTypeOK`, `ReportsAreFresh`, `CloudConverges` |

Bounds. `NumIDs` is 256 in the code. In `fleet` five calls share three IDs, so that
the pool wraps around in every order in which two callers can give IDs back; what
the network does there plays no part, and it loses everything. In `fleet_live`
there are fewer IDs than callers: one waits for the other in `GetID`, and each late
reply meets the next call. `calls` has a scan, with a range, beside a read and a
write: the driver never does that (`CallsAfterScans`), but the client allows it.
One handler is enough for a late reply, two for duplicates processed side by
side (`start`, where a stuck handler may also be one of the two). `MaxScans` bounds
the scans of `Client`; in `Bacnet` it is no bound, since there is at most one scan
per slave. The theorems remove these bounds for the safety properties. Deadlock
is not checked in these runs, since the calls are made once, and a scan may leave a
goroutine stuck for good (`start_hangs`); that a caller does not get stuck is
`CallersReturn`.

The codec runs use the real widths, 22 and 10 bits; the values sit on both
sides of every boundary of the code (1, 2, 3 and 4 octets; tag values 4, 5, 253,
254; tag IDs 14, 15). TLC's integers end at 2^31 - 1, so a uint32 from 2^31 on is
not among them; nor are tags with a length above 65535, for which no datagram has
room. Two values in a row show whether one leaves the cursor where the
next begins. In `exchange` a datagram is cut at every place; the machines have prefixes that end
within and between octets, other nets before the right one, and no IPv4 address at
all. In the driver runs
one failing call is enough for a partial delta, a partial report and a late
write; two executions and one delta are enough for each to overtake another. That
two points share a name or an object is in `deltas` only, where nothing is read;
for executions over such points `ReportsFresh` has it.
`Words`, `ObjectTypes`, `MaxObjectType`, `Significands` and `MaxInstance` are made
small so that types, addresses and numbers reach them (a type that is cut, and one above
the limit, are among the points); the numbers of `deltas` sit on both sides of each. `exchange` and `deltas` end when their calls have been made; the driver
itself does not.

Fairness (`FairSpec`, `BacnetFairSpec`): weak fairness of every goroutine's steps
once it runs and of every timer, which the Go scheduler and runtime give. The
timer of `WhoIs` has a conjunct of its own because the select of its loop picks
at random among ready cases. Nothing is assumed of the network, nor that anyone
calls or scans. In `Driver` (`FairSpec`): the ticker of the worker fires for ever,
and an execution or callback that has begun goes on, since each of its calls has
a deadline. In `Fleet` (`FleetFairSpec`): an execution or callback that has begun goes on, timers
fire and handlers run; no tick, callback or stop need come, and whether a worker
that is executing gets the stop signal is left open. Late writes, changes and
callbacks need not happen. Failing calls
are bounded, so that there is an end to be reached.

### The violations

- `start_hangs`: `WhoIs` returns at its timer without waiting for the handlers
  that are in `f` (`client.go:225` has this as a TODO). Such a handler blocks in its
  send, or panics, and keeps the read lock; the `Lock` of the next scan never
  returns and the driver never serves. That this is the only thing that keeps it
  from serving, and that the first scan is not affected, is
  `StartStuckOnlyByOldHandler` (run `start`); calls made after the scans are
  not affected (`RepliesServed`).
- `late_reply`: the answer to a read that timed out is taken by a later read with
  the same ID (`client.go:331` has this as a TODO). `OwnAnswersBeforeWrap` says
  when it cannot happen, before the IDs wrap around, and `AnswersOwnOrFarOff` how far
  apart the two reads are otherwise: with n callers, more than `NumIDs` - n calls.
- `undecoded`: a value that `AppData` cannot decode makes `ReadProperty` return nil
  without an error (`client.go:171` and 331). `Execute` stores that nil in place of a
  value, and it may be reported (`worker.go:44` and 67; actions `ReadNil` and `Report`
  of `Driver`).
- `short_error`: an Error APDU that ends behind its invoke ID leaves the payload nil
  (`network_types.go:308`); the error of its decoding is dropped, and `ReadProperty` and
  `WriteProperty` panic in the conversion that the TODO at `client.go:331` and 376 wants
  not to panic.

Four more disagreements, of code with comments, tests or the standard, are in the model, without a
run of their own:

- `unread` cannot give back a tag of more than one octet; the comment above it
  (`decoding.go:37`) says decoding can be retried. `StuckOnLongTagOnly` says that
  nothing else stops a reader. No payload of this driver has such a tag where an
  optional value is tried for, except an answer with an array index far from what
  was asked for.
- `ContextAsbtractType` and some methods it calls write although the encoder's error
  is set, against `encoding.go:18` (operator `ContextAbstractType`). The bytes are
  not sent, since `MarshalBinary` returns the error too.
- `ContextNull` (`encoding.go:96`) writes a null with the tag value 1, X'01', where the
  standard and the null of `decode_test.go:46` have X'00'; the Decoder takes either
  (`Content`). Nothing in the driver writes a null, so `RequestReachesDevice` is of
  the types that `DeltaCallback` makes.
- The object type 0x400 is accepted and its first bit lost in encoding (`types.go:98`,
  operators `ValidForEncode` and `EncodeObjectID`).

## 4. Proofs

The theorems hold for any `NumIDs > 0`, any finite set of calls, any handlers,
devices and number of scans (`NumIDsAssumption`, `CallsAssumption`,
`ScanAssumption`); those of `BacnetProofs` for any slaves, those of `FleetProofs` for
any finite set of workers and callbacks, none of which makes another one's calls
(`CallersAssumption`). Those of `DriverProofs` hold for any devices, jobs, mappings
and deltas, and any widths of the numbers (`DriverAssumption`); those of
`CodecProofs` for any items that have a reader (`ItemsAssumption`). Those of
`ExchangeProofs` hold for any machine, whatever nets it has, and for what fits the
fields of the code and of the standard:

- a device has an object ID that ten and 22 bits hold, an IPv4 address and any port,
  and is reached directly or behind any router, with a MAC of up to 255 octets
  (`DevicesAssumption`);
- a range has no limits, or any two uint32, or one of them (`RangesAssumption`);
- a request names any object but one of the type 0x400, any property, index and
  priority, and writes one of the types that `DeltaCallback` makes
  (`RequestsAssumption`); object IDs that cannot be encoded are among them;
- an invoke ID is an octet (`InvokeIDsAssumption`);
- a value is of one of the types `AppData` decodes, or a signed number or a double,
  which it does not decode; a text is no longer than an APDU (`ValuesAssumption`);
- an Error APDU is whole or ends behind its invoke ID (`ErrorsAssumption`).

In `ClientProofs`:

| Theorem | States |
|---|---|
| `TypeCorrect` | `Spec => [](TypeInv /\ TypeOK)` |
| `IDsAreConserved` | `Spec => []IDsConserved` |
| `FreeIDIsNonBlocking` | `Spec => []FreeIDNeverBlocks` |
| `CurrentsAreExact` | `Spec => []CurrentsExact` |
| `OwnAnswersBeforeWrap` | `Spec => []OwnAnswerBeforeWrap` |
| `NoCallbackIsOld` | `Spec => []NoOldCallback` |
| `ClientImplementsRequestReply` | `Spec => RR!Spec` |

In `BacnetProofs` and `FleetProofs`:

| Theorem | States |
|---|---|
| `BacnetImplementsClient` | `BacnetSpec => Spec` |
| `BacnetTypes` | `BacnetSpec => []BacnetTypeOK` |
| `CallsComeAfterScans` | `BacnetSpec => []CallsAfterScans` |
| `FleetImplementsClient` | `FleetSpec => Spec` |
| `FleetTypes` | `FleetSpec => []FleetTypeOK` |
| `ReuseFarOff` | `FleetSpec => []ReuseIsFarOff` |
| `AnswersOwnOrFarOff` | `FleetSpec => []AnswerIsOwnOrFarOff` |

In `DriverProofs` and `CodecProofs`:

| Theorem | States |
|---|---|
| `DriverTypes` | `Driver!Spec => []DriverTypeOK` |
| `NilIsWritten` | `Driver!Spec => []NilMeansWritten` |
| `NumbersArriveAsAsked` | `Driver!Spec => []WrittenAsAsked` |
| `ReportsFresh` | `Driver!Spec => ReportsAreFresh` |
| `CodecTypes` | `Codec!Spec => []CodecTypeOK` |
| `RoundTrips` | `Codec!Spec => []RoundTrip` |
| `StuckOnlyOnLongTags` | `Codec!Spec => []StuckOnLongTagOnly` |
| `CursorStays` | `Codec!Spec => CursorKept` |

In `ExchangeProofs`:

| Theorem | States |
|---|---|
| `ExchangeInvariant` | `Spec => []ExchangeInv` |
| `FramesAreWellFormed` | `Spec => []ExchangeTypeOK` |
| `NeighboursAreReached` | `Spec => []WhoIsReachesNeighbours` |
| `RangesAreHeard` | `Spec => []RangeHeard` |
| `ScansAreExact` | `Spec => []ScanExact` |
| `RequestsReachDevices` | `Spec => []RequestReachesDevice` |
| `AnswersAreReturned` | `Spec => []AnswerReturned`, if the client decodes the types of all `Values`, and `Errors` are whole |

### The client and its users

The inductive invariant of `Client` is built in layers, each preserved by a step if the
earlier ones hold:

1. `TypeInv`. `TypeOK` is not inductive: that the ID a call frees is an ID, and
   that the ID a handler looks up is one, needs `GivenByPC` (which calls have an
   ID), `SentAfterID`, `ReplyCarriesID` and `OnlyRepliesLookedUp`.
2. `IDInv`: `IDsConserved`, and `PoolCount` (pool and holders add up to `NumIDs`),
   from which `FreeIDNeverBlocks` follows.
3. `CurrentsExact`, from `IDsConserved`: a call that registers or stops is the only
   holder of its ID.
4. `AnswerInv`: what a handler offers carries the ID of the call it offers it to,
   by `CurrentsExact` at the lookup; so every answer was sent under the ID of the
   call that returns it.
5. `FirstRound`: while no more than `NumIDs` calls have been given an ID, the rest
   of the first round is at the front of the pool, in order. This is where the
   FIFO order of the channel matters; with `AnswerInv` it gives `OwnAnswerBeforeWrap`.
6. `LockInv`: a handler between `RLock` and `RUnlock` is among the readers
   (`ReadersHold`), so that none is in a callback when a scan installs its own; from
   then on `f` is this scan's (`CallbackByPC`), and so is what handlers load
   (`CallbackIsCurrent`).

`Bacnet` and `Fleet` are shown to take no step that `Client` does not have, so these
invariants are theirs too. `Bacnet` adds that the client scans only while
`bpc = "whois"` and calls only when it serves (`StartInv`). `Fleet` adds `CallerInv`:
every running call belongs to a caller, and each caller has one at most; hence no
more IDs are taken than there are callers (`HoldersBounded`), and at least
`NumIDs` - n are in the pool when one is put at its back. `FarInPool` says so: the
distance of an ID from the front and the number of calls since it was last given
add up. With `AnswerInv`, that bounds which answers can go astray.

The types of the two need to know where the loops stand: in `Bacnet`, `LoopInv` and that
a scan is for a slave that the device context knows (`ScanForSlave`); in `Fleet`,
`AtInv`, that a tick is of an execution the worker has (`TicksAndTodo`), and
`CallerInv` for the clause that a caller is in one call at most.

`StepKinds` says once which steps touch the pool, and is used by layers 2, 5 and
the refinement. In the refinement, `GetID` is `Acquire`, `FreeID` is `Release`,
`Deliver` is `HandAnswer`, every other step stutters.

### The driver

`DriverTypeOK` is not inductive: that a write stores a number, and stores it in an
object, needs to know that the key in hand has a property and a value that can be
computed (`CurrentKeyKnown`).

`WriteInv` gives what callbacks write. `WrittenSoFar`: what is acknowledged, together
with what is left to write, is what the delta asks for. What is left are the points
of the keys not yet taken and the rest of those of the current key; so when a
callback returns nil, with nothing left, all has been written. The order in which a
map gives keys and points plays no part. `WrittenConverted`: each acknowledged number
is one that the conversion of the value may give; and by `ConvertedExactly` a
conversion leaves a number alone that the type of the point can have, for a float32
because the distance of its neighbours divides it (`NearestIsNear`, `UlpType`), for a
uint32 because it is not cut.

`FreshInv` gives what executions report: the ghost `since` has the present number of
every object (`SinceHolds`), and what `temp` holds under a name is a number that an
object of that name has had since the execution began, or a nil that the execution
was answered for it (`ReadSince`). Every write,
late write and change that comes in between keeps both.

The lookups (`GetMappingName`, `Job`, `Ulp`) take the first, last or least of a set of
numbers. That there is one is `LeastElement`; it is derived from the
well-foundedness of strict inclusion on finite sets, as the induction theorem for
numbers cannot be used here.

### The codec

The lemmas about `Encoding` are about a reader at any place of any buffer: `At(b, s)`
says that the next octets of `b` are those of `s`, `Behind(b, n)` is `b` with n octets
read. There is one for each layer, and the upper ones use the lower: octets
(`BigEndianRoundTrip`, `ReadUintAt`), tags (`DecodeTagAt`: a tag of any ID and
length, written by `EncodeTag`, is read back and no octet more), numbers, object IDs
(`ObjectRoundTrip`), texts and the value between two tags of a property
(`AbstractAt`).

In `CodecProofs` an item is carried (`Carries`) if it is written as a tag and octets
behind it and read back from them. `ItemCarried`: every item that has a reader is
carried, unless it has an object ID that `ObjectID.Encode` refuses. The inductive
invariant `CodecInv` says that what was written lies end to end: a function gives the
offset where each item begins (`Layout`), and a reader without a failure is where the
next item begins (`InPlace`). A try for an optional value meets the first tag of that
item, and by `Missed` gives it back in full if it has one octet, which is `CursorKept`, and
fails for good if it has more, which is `StuckOnLongTagOnly`. So the lengths that
the run `codec` cannot reach, numbers from 2^31 on and texts above 65535 octets, are
covered by the theorems.

### The exchange

The lemmas of `FramesProofs` carry on where those of `EncodingProofs` end. `Left(b, s)`
says that the octets `s` are all that a reader at `b` has before it; each `Marshal`
function is shown to put its octets in front of others, and the `Unmarshal` function
to take just these off again: the header of a BVLC frame (`MarshalFrame`,
`BVLCHeaderAt`), of an NPDU with or without a destination, a source and a hop
count (`MarshalPlain`, `NPDUAt`), or of a network layer message (`MessageAt`), of
each kind of APDU, then the payloads. The optional fields are where care is needed:
that a reader finds none (`NothingToRead`, `NoNextTag`) is proved for the tag or
the end that follows, and that `ResetError` then resets this miss and no earlier
failure (`IndexMissing`).

A whole frame gives its own length in its header (`FramesSayTheirLength`). If
any octets are taken off its end, the length is wrong or the header itself breaks off
(`FramesBreak`), and `handleMessage` drops what is left (`BrokenIsDropped`). That one
argument takes care of cuts at every place, and needs no look at the payload.

`ExchangeInv` has four parts. None of the properties is inductive alone:
each says what a receiver has understood, which depends on what is on the wire,
which depends on what the sender knew.

1. `WireOK`: the datagram is a frame, or, if it was cut, a broken one; only
   datagrams on their way to the client are cut.
2. `ClientOK`: the new client's broadcast address is that of a net with its
   address (`OnItsNet`), and a WhoIs on the wire goes there.
3. `ScanOK`: a WhoIs on the wire reads as the range asked for (`Asks`), and the device
   has heard this range; an announcement on the wire, unless cut, reads as an IAm of
   the device, with its route as the source (`Announces`).
4. `CallOK`: the peer that the scan found is the device (`PeerIs`), so that UDP address
   and route are put together again as they were taken apart (`AddressReadBack`); the
   request on the wire reads as it was meant (`Meant`).

`ExchangeInv` gives all properties but two directly. `WhoIsReachesNeighbours` also needs
the arithmetic of `Interfaces`: for each octet, and each number of bits of the prefix
in it, the last host is the same whichever address of the net one starts from
(`LastOfHosts`, `BroadcastReachesNet`). `AnswerReturned` needs the invariant `AnswerOK`:
an answer on the wire, unless cut, makes the call return just what the device answered
(`OutcomeOf`). It is kept apart since it holds only of values that the client
decodes and of Error APDUs that are whole; of the others `undecoded` and `short_error`
show that it fails, while all the rest still holds.
What a device or router sends instead of an answer is treated kind by kind:
`UnknownIsNone`, `MisplacedIsInvalid`, `MessageIsDropped`.

### Only model-checked

The liveness properties (`HandlerReleased`, `CallersReturn`, `RepliesServed`,
`StartStuckOnlyByOldHandler`, `CloudConverges`): fairness and `ENABLED` are out of
the prover's reach. Every safety property of a passing run is stated by a theorem.
`FromBigEndian`, which is recursive, is proved for the lengths the code has, one to four
octets; what it gives for every length would need induction over data.

## 5. Not modelled, and the plan

Not modelled: the generated stringers and the constant tables (no behaviour);
closing the client (the code has none); methods of the Encoder that nothing calls
(octet, character and bit strings, whose tags all say a length of 1) or that are
empty (dates, times); `ParsePropertyValue`, which nothing calls; a delta with a nil
value; YAML, its errors and the defaults of
the configuration; replies to requests of an earlier process, and APDUs that end
inside their own header although their frame is whole, but for the Error APDU of
`short_error`; the panic of a call, as the end of the process.

What could follow: the values of `Driver` over the calls of `Fleet`, so that the answers
of `late_reply` are seen from a report; and `Exchange` with two devices that answer
one WhoIs.
