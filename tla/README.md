# A TLA+ model of libiec61850-Go

libiec61850-Go implements the MMS part of IEC 61850 (a client library and an
IED server with buffered reporting) and GOOSE in Go.  This directory holds
TLA+ models of its concurrent parts, of its protocol stack and of its services,
the TLC runs that check them on small instances, and TLAPS proofs, for every
instance, of the transport, the server, the client connection, GOOSE publisher
and receiver, the handshake through four layers of octets, the framing of the data
phase, and the round trips of `asn1ber`.
`PROJECT.json` relates each definition to the source lines it models.

## The system

| Part | State | Operations | What is hard |
| --- | --- | --- | --- |
| `pkg/cotp` | negotiated TPDU size of a `Conn`; the TCP stream | `Connect`, `Accept`, `Send`, `Receive`, `Close` | segmentation at the boundaries; several goroutines send on one `Conn` without a lock |
| `pkg/iec61850/server` | `running`, `listener`, `conns`, the BRCB states, attribute values, `mu` | `Start`, `Stop`, `LockDataModel`, `UpdateAttributeValue`; per `Start` an `acceptLoop`; per connection `handle`, `writeVariable`, `removeConn`; per report `sendReport` | BRCB fields written without `mu`; clients that vanish while reports are queued; restarts |
| `pkg/iec61850/client` | `state`, `pending`, `invokeIDSeq`, report handlers, context, the shared write deadline | `Dial`, every request through `sendAndReceive`, `readLoop`, `Install/UninstallReportHandler`, `Close` | late answers, timeouts, loss of the connection, a handler that calls back into the library |
| `pkg/goose` publisher | the PDU with `StNum` and `SqNum` | `Publish`, `Retransmit`, setters, `Close` | the PDU is copied after the mutex has been released |
| `pkg/goose` receiver | socket, subscribers, filters | `Start`, `Stop`, `AddSubscriber`, `SetGoCBRef`, the receive loop | `Stop` against a blocked read; a receive error; restart |
| services of server and client | attribute values, BRCB fields | reads, writes, name lists, types, data sets, `GetRCBValues`, `SetRCBValues`, report contents | an item has several names; value, type and name list are built by different functions; optional fields without tags |
| `pkg/iec61850/model` | the tree of nodes, a lookup cache | `FindNode` | the cache is keyed by reference and has no lock |
| `acse`, `isopresentation`, `isosession` | none | build and parse the association and data PDUs | one-octet lengths, slices taken unchecked |
| `pkg/mms`, `asn1ber` | none | encoders and parsers of values and PDUs | lengths and signs at octet boundaries; both ends must agree |
| `pkg/iec61850/common`, `internal/model`, `examples` | none | enumerations, generated data, programs | - |

Client and server talk through session, presentation and MMS PDUs, each of
which is one TSDU of a COTP connection over TCP.  On the server a connection's
handler, the report goroutines and `Stop` share the `cotp.Conn`; on the client
the callers of requests, `readLoop` and `Close` do.  The reporting path is:
client writes `RptEna` (`writeVariable` records the subscriber), the application
calls `UpdateAttributeValue`, a goroutine `sendReport` numbers and sends the
report, the client's `readLoop` hands it to the installed handler.  (The
repository's README also names `pkg/sv`; there is no such package.)

What makes the parts correct:

- COTP: TSDUs arrive whole, once and in order; segments fit the negotiated size.
- Server: at most `MaxConnections` connections; a BRCB never reports to a client
  that has gone; reports are no older than their cause and numbered without
  gaps; `GI` is always reset; the mutex is released; what is closed is removed.
- Client: a call gets its own answer or an error and always returns; a lost
  connection is told to whoever waits.
- GOOSE: the numbers of frames tell new from old; subscribers get each frame
  once and in order, and decode from it what was published.
- Association: both ends agree on what was negotiated; a PDU comes out of its
  frames as it went in, or not at all.
- Services: the pages of a name list are the whole list; a read returns a value
  the attribute had; value, type, name list and data set agree with each other;
  a report is understood as it was meant; what the client configures arrives.

## Modules

| Module | Models |
| --- | --- |
| `TsduChannel` | what a transport connection promises: a FIFO of TSDUs per direction |
| `Cotp` | one COTP connection, both ends; implements `TsduChannel` |
| `CotpProofs` | its theorems |
| `IedServer` | the server's life cycle, connections and BRCB reporting |
| `IedServerProofs` | its theorems |
| `IedClient` | the client connection, with the server as environment |
| `IedClientProofs` | its theorems |
| `GoosePublisher`, `GooseReceiver` | the two halves of `pkg/goose` |
| `GoosePublisherProofs`, `GooseReceiverProofs` | their theorems |
| `Ber` | `asn1ber` on octets: tags, lengths, TLVs, integers |
| `Framing` | session, presentation, ACSE and Initiate PDUs on octets; extends `Ber` |
| `Association` | client and server associate and exchange PDUs; composes the layers of `Framing` |
| `FramingProofs` | lemmas about the operators of `Framing`, for the data phase |
| `HandshakeProofs` | what the PDUs of the handshake are read as; the round trips of `Ber` |
| `AssociationProofs` | the theorems of `Association` |
| `MmsValue` | MMS values, their octets, Quality; extends `Ber` |
| `GooseFrame` | a GOOSE message from `EncodeGOOSEFrame` to `handleFrame`; extends `MmsValue` |
| `MmsPdu` | requests and responses of the confirmed services as trees of TLVs |
| `IedModel` | the data model, `FindNode`, type specifications, initial BRCBs |
| `ReportCodec` | report PDUs and the conversions of report control blocks |
| `Services` | server handlers and client calls together; extends `ReportCodec`, which extends `IedModel` and `MmsPdu` |
| `MC*` | small instances for TLC |

`IedServer` and `IedClient` use the transport as `TsduChannel` describes it:
whole PDUs, in order.  That is the result of `Cotp` when Sends do not
interleave; the run `cotp_shared` shows what happens otherwise.

### Cotp

`Send` is a sequence of segment writes, each one step (`SendFirst`, `SendNext`),
because the code takes no lock around the loop; `SendFail` is the error return.
`Receive` is one turn of its loop.  `parseCR` takes the smaller size, `parseCC`
ignores the one it is told.  Octets of headers are left out; payload octets are
kept, since integrity is about them.  A segment also carries its TSDU number and
offset, which only the invariant reads.

### IedServer

Sections of code under `mu` that touch nothing else are one step.  `writeVariable`
accesses a BRCB without `mu`, so `UpdateAttributeValue`, `removeConn` and
`sendReport`, which look at BRCBs under `mu`, are cut into one step per access:
each read of `state.subscriber`, of `RptEna` and of `TrgOps` can see a different
writer.  The map of BRCBs is visited in any order, as Go does.  A nil
dereference sets `crashed`, after which nothing happens.

A value of the attribute is the number of its change; a report records the
change that caused it (`trig`) and the value copied (`val`).  Requests of the read
services only pass through `Request` and `Respond`.  `IedServer` assumes that the
data set of a BRCB exists and that a Write has a value for each variable.

### IedClient

A call goes through `TakeID`, `RegisterCall`, `SetWriteDeadline`, `SendRequest` or
`SendFails`, one of the four cases of the `select`, and the two deferred
functions.  The handler of a report runs inside `readLoop` and may make calls of
its own (`HandlerCall`).  The environment answers, sends reports, stops reading
(`Stall`), breaks the connection, or does nothing.  The PDU that a response
channel holds names the call whose request it answers, which only the
properties read.

### GoosePublisher and GooseReceiver

The copy `new(p.pdu)` is made after `p.mu` has been released.  It is a data race,
so each field is read in a step of its own, in any order, and the assignments
under the mutex are steps of their own as well.

`StNum` and `SqNum` are counted modulo `NumModulus` (2^32 in the code).
`overlapped` records that two calls have been under way together, `wrapped` that
a number has come back to zero; only the properties read them.

The receiver's loop reads from a file descriptor.  Closing a descriptor does not
wake a thread blocked in `recvfrom` on it; that is modelled, as the environment
(`Alive`, `Arrive`, `Recvfrom`).  The kernel may also use the number of a closed
descriptor again; that is left out.  `Recvfrom` may also fail while the socket is
open or the loop is blocked in it (`RecvfromFails`: the link goes down, say), and
`rawRecvLoop` ends on every error: the receiver is deaf from then on, with
`running` still TRUE, and the frames that arrive at its socket wait in vain.
`AddSubscriber` takes a subscriber as often as it is called with it (`MaxAdds`
bounds the calls).

### Ber, MmsValue and GooseFrame

Encoders and parsers are operators on sequences of octets; a parser returns a
value and the next position, or fails.  `GooseFrame` sends one message through
them: the network may pad the frame to the Ethernet minimum or cut it, and the
receive buffer cuts at 4096 octets.  `OnTheWire` says what `EncodeValue` does not
write (the sign of a bit string's size, the accuracy of a time).  Floats are
opaque octets, numbers stay below 2^31, the largest that TLC represents.

### Framing and Association

`Framing` has the PDUs of the four layers octet for octet; a slice past the end of
a buffer is a failure marked `panic`.  `Association` is the handshake and the data
phase: each side adds and takes off the layers in the order of the code.  The
password, whose length is one octet on the wire, is what makes the session SPDU
overflow, and it wraps.

### IedModel, MmsPdu, ReportCodec and Services

A name is a sequence of words with a separator, never characters; `Order` gives the
alphabet in which `sort.Strings` works and `WordLength` the octets a name costs in
a page.  PDUs are trees of TLVs, so tags, nesting and order are exact and the
octets of a tree are `Ber`'s business.  A call of a client goes from the request
(`Call`) over the handler (`ServeRead`, `ServeWrite`) to the result (`Return`,
`ReturnNames`); a name list that goes on sends the next request.  `SendReport` and
`DispatchReport` carry a report from the BRCB to the client's handler.  Calls that
the library's client cannot make and the server answers (types, data sets) are
made by an MMS client in general.  Handlers run one after the other; the races
between them are in `IedServer`.  BRCB fields are written with values of their
type.  The instance has an enumerated `ctlModel`, as the sample model has: its value
and its type disagree (below), and `Aligned` leaves out the tag of such leaves
(`Mistyped`), but not their place.  `held` records the values that an attribute had during a call; only the
properties read it.

## Runs

Passing:

| Run | Instance | Shows |
| --- | --- | --- |
| `cotp` | one goroutine per side, TPDU codes 2 and 3 (1 and 5 octets), payloads of 0, 1, 3 octets, 2 Sends, 2 segments in flight | `Integrity`, `ServerHonoursSize`, `Delivered`, refinement of `TsduChannel` |
| `server_live` | two clients and a limit of one connection, one BRCB, `RptEna` and `GI` written, one update | `ConnLimit`; closed connections are removed (`Removed`), reports are numbered or dropped, so `mu` is released (`ReportsProceed`), the accept loop ends (`LoopsEnd`) |
| `server_reports` | two clients, one BRCB, two writes of `RptEna`, `GI`, `TrgOps`, one update | the safety properties of reporting and the inductive invariant `ServerInv`, which contains the type invariant |
| `client` | an application call and a handler call, 1-bit invoke IDs, a server that may stall, be silent or vanish | `ResponseMatches`, `PendingExact`, `LossReported`; calls, handlers and, after `Close`, `readLoop` end (`CallsReturn`, `CloseEnds`) |
| `goose_publish` | one goroutine that publishes and retransmits, one that retransmits, 3 calls, 2 values | `PduExact` always, also when a number wraps; `Increasing` and `StateConsistent` for as long as no two calls have overlapped and no number has wrapped; `CallsReturn` |
| `goose_receive` | two subscribers, 3 calls of `AddSubscriber`, 2 frames, one Start, two Stops, an error of `Recvfrom` at any time | `InOrder` if no subscriber was added twice; `Delivered`: a frame that waits in a socket reaches its subscribers unless the loop of the socket ends, also after `Stop`; `LoopEnds` |
| `association` | 12 lengths of passwords, 0 among them, and none, 10 lengths of PDUs, one PDU each way | `NoSlicePanic`, `Agreed` and `PdusExact`: nothing is misread where a length grows, wraps or overflows |
| `goose_frame` | 28 messages, 3 addresses, 6 qualities, frames cut at 45 places | `GooseExact`, `GooseDelivered`; `BerExact` for the numbers of the messages in both signs |
| `services` | two devices with equal names, three nodes, 4 control blocks, 2 data sets; one client with 26 calls and one with 13, one call each, one update, one report | `PagesWhole` (name lists), `ReadExact`, `Aligned` (values against types), `DataSetAgrees`, `ReportExact`, `BlockConfigured`; `ReportsCover`: no change of a reported value is missed |

`CallsReturn` of the client excepts one case: the server has stopped reading
and another call has cleared the shared write deadline.

Violated, each a disagreement between a comment and the code (`findings` in
`PROJECT.json` has the quotations):

| Run | What the code does |
| --- | --- |
| `cotp_shared` | segments of two Sends interleave and `Receive` returns a mixture |
| `server_panic` | `subscriber` becomes nil between its two reads |
| `write_lost` | `WriteObject` returns nil although the server has refused the write |

Other disagreements that the models contain and no run is about; the notes of
the hazards in `PROJECT.json` name the lines of most:

- a connection whose COTP handshake is under way during `Stop` is served
  afterwards;
- a call that returns clears the write deadline another call relies on;
- cancelling the client's context neither closes the socket nor wakes a
  `readLoop` that is blocked in `Receive`;
- overlapping `Publish` and `Retransmit` may send two frames with the same numbers;
- the client ignores the TPDU size in the CC;
- two clients that write one BRCB leave `RptEna` and `subscriber` out of step;
- `MaxConnections = 0` refuses everybody instead of meaning 10;
- after a loss of the connection `Close` returns without closing the socket;
- a server that is silent in the handshake keeps `Dial` waiting past
  `ConnectTimeout`;
- overlapping GOOSE calls may send the number of one state with the values of
  another, which is why `Increasing` and `StateConsistent` have their condition;
- any error of `recvfrom` ends the receive loop, though the comment at
  `rawsock_linux.go:93` has "socket closed": the receiver is deaf until `Start` is
  called again, and nobody is told (`Delivered` excepts the loop that has ended);
- a receiver blocked in `recvfrom` dispatches one more frame after `Stop`, and a
  second `Stop`, even after another `Start`, panics;
- `parseRCBValue` reads every block in the order of the unbuffered ones, so a
  BRCB is misread; a reference with dots never reaches one;
- the server puts references and reasons of a report after all values, the
  client expects them beside each value, and it does not know the entryID;
- `ReadDataSetValues` asks for a variable of the data set's name and always fails;
- attributes of the types that `buildTypeSpecDAScalar` does not know (Enumerated,
  CodedEnum, INT128, TrgOps, OptFlds and a few more) are announced as visible strings
  (`server.go:1332`) while `zeroValueForType` gives them an integer or a bit string
  (`server.go:1748`, `1770`), against the comments at `server.go:1503` and `1824`; the
  `ctlModel` of the sample model is one (`internal/model/model.go:27`);
- `GetLogicalDeviceDirectory` promises the names of logical nodes (`client.go:383`)
  and returns the list of all named variables, the one `PagesWhole` describes;
- a node with two BRCBs has both in its type and only the first in its value;
- reading an attribute that has no value yet, or a constructed one by itself,
  gives a data access error inside the data, which the client cannot decode;
- `ParseConfirmedError` looks for the class under another tag than the server's;
- data sets and BRCBs are found by name without the device;
- writes by MMS clients start no report.

### Bounds

Numbers of calls, frames, writes, updates and restarts are bounded by constants
whose names begin with `Max`; connections and calls are each used once.  The
properties are broken, if at all, by two actors and a handful of steps: two
clients and one update are enough for every race on a BRCB, two segments in
flight for every order of reading and writing.  Restarts (`MaxStarts` above 1, so
several accept loops or receive loops) are in the models; the runs use one Start
to stay within minutes, and the proofs cover any number.  A
second Start of the GOOSE receiver gives subscribers frames twice, and so does a
second `AddSubscriber` of the same one, so `InOrder` is about one of each.  The mutants in `PROJECT.json` confirm that each property fails in its
instance when the code is changed.  `SqNumModulus` 2, `IdModulus` 2 and
`NumModulus` 3 make the counters wrap within the bounds.  `CHECK_DEADLOCK` is off because every instance
may legitimately come to rest when its bounds are used up or everything is
closed; progress is the business of the liveness properties.

In the runs on octets the inputs are the bounds: the lengths and numbers just
before and after each point where an encoding grows (128, 256, 65536, the sign
bit), a value of every type, nested and empty ones.  `MaxResponseBytes` 45 makes
name lists of three and more pages from short names.  One call per client is
enough: a call is a request and an answer, and the cache, the values and the
BRCBs carry the effect of one client's call to the other's.  In `services` the two
devices share node, object and attribute names, so that a lookup that confuses
them shows.

### Fairness

A goroutine that can go on does (weak fairness); one that waits for a mutex
gets it if it is released again and again (strong fairness: `sync.Mutex` hands
itself to a starving waiter).  Blocking calls on a closed or broken socket
return.  Timers fire.  A send succeeds or fails, but an error of `recvfrom` on an open
socket (`RecvfromFails`) need never happen: it is outside of the fairness.  Listeners, handlers and whoever called `LockDataModel`
return.  Nothing is assumed of peers, of the network, or of the application
making calls: a COTP handshake, an answer, a frame need never come.
`Association`, `GooseFrame` and `Services` have no fairness and no liveness: that
calls return is a property of `IedClient`; that name lists end is the safety
property `PagesWhole`.

## Proofs

Checked with tlapm; the theorems hold for every value of the constants that
satisfies the `ASSUME`s of the modules (which TLC evaluates too).

`CotpProofs`: `TypeCorrect`; `ServerSizeCorrect`; `StreamCorrect`, `IntegrityCorrect`
and the refinement `ChannelCorrect`, these three under `Uninterrupted` (one
sending goroutine, or no segmentation).  `Integrity` is not inductive: it says
nothing of octets under way.  `StreamInv` adds that what the reader has
collected, the segments on the wire and the remainder of the Send under way are
consecutive pieces of the TSDUs sent, each with the position it claims, from the
reader's position to the writer's, as long as the reader has not closed.

`IedServerProofs`: `ServerCorrect` proves the inductive invariant `ServerInv`, from
which `TypeCorrect`, `ConnLimitCorrect`, `SubscriberAliveCorrect`,
`ReportFreshCorrect`, `ConsecutiveCorrect`, `GIResetCorrect` and, as an action
property, `NoReportAfterDisconnectCorrect` follow.  The strengthening says who is
in `s.conns` (`ConnInv`) and who holds an accepted connection (`LoopInv`); that at
most one goroutine is in each section under `mu` (`MutexInv`); that a subscriber is
in `s.conns` or `removeConn` has yet to reach its BRCB (`SubscriberInv`); that
nothing is reported before it was stored (`TrigInv`); and that `SqNum` is the last
number given out (`NumberInv`).

`IedClientProofs`: `ClientTypes` without hypotheses; `ClientInvariance`,
`ResponsesMatch`, `PendingIsExact` and the action property `LossIsReported` under
`IdsSuffice`, that there are no more calls than invoke IDs.  The hypothesis is
needed: the ID is a counter of 32 bits, and a call that is given the ID of one
whose answer is still under way would be given that answer.  `ResponseMatches`
says nothing of answers that have not arrived, so `PduInv` says of every PDU, in
either direction and in the hands of `readLoop`, that it carries the ID of its
call; `NumberInv` that two calls that have an ID have different ones, by counting
the calls that have started; `PendingInv` that `c.pending` holds a call from its
registration to its deferred removal, under its ID and no other.  With these the
call that `readLoop` looks up under the ID of an answer is the one that asked, even
when the call has given up in between and `readLoop` still holds its channel.

`GoosePublisherProofs`: `PublisherInvariance`, and from it `PublisherTypes`,
`PduIsExact`, `NumbersIncrease` and `StatesConsistent`, for any number of goroutines
and calls.  `MutexInv` says who holds `p.mu`; `NumbersInv` what the numbers are
between the assignments of a `Publish`, so that `PduExact` holds however calls
overlap.  The other two compare frames that have been sent; `WireInv` adds how
they compare with the PDU at each step of the call that is under way, `CopyInv`
that what this call has copied is still what the PDU holds, and `SoloInv` that it
is the only one.  Their condition, `~overlapped /\ ~wrapped`, is what the code
needs: the copy is made outside the mutex, and numbers that wrap do not grow.

`GooseReceiverProofs`: `ReceiverInvariance`, `ReceiverTypes` and `FramesInOrder`, for
any number of frames, subscribers, Starts, Stops and receive errors.  `InOrder` is
about a receiver that was started once and subscribers that were added once
(`Once`): each further Start adds a socket with a copy of every frame.  As `Once`
cannot become true again (`OnceBefore`), it may stand before the parts of the
invariant.  `GotInv` says that what a listener has got is older than what waits in the
socket and than what the loop is about to give it; `QueueInv` that a socket keeps
frames in order; `SubsInv` that no subscriber that was added once is in a list
twice.

`AssociationProofs`: `AssociationInvariance` and `PdusAreExact`, for any number of
PDUs and every PDU length up to 65535, more than the 65000 that both sides
announce in Initiate.  `PhaseInv` says which states of the two sides meet, and that
data waits for the handshake; `FlowInv` that what was sent is what was taken out,
in order, followed by what is in flight, the answer to the Connect leading the
frames to a client that has not read it (the server may send a report before).  The
rest is the lemma `UnwrapWrap`, about octets: a PDU of at most 65524 octets comes
out of the three blocks and the data SPDU as it went in, and one of 65525 to 65535
octets, for which the length of the outermost block wraps to between 0 and 10, is
refused wherever in the header it is cut.  It rests on `FramingProofs`: what
`encodeLength` writes `decodeLength` reads (modulo 2^16), where the fields of a
block are, and how the search for an element moves through a buffer.  `Number` and
`Find` are recursive functions; that they exist (`NumberRecursion`, `FindUnfold`) is
proved by an induction on sets of naturals, `SetInduction`, which follows from the
least-element theorem `WFMin` and takes no operator as a parameter.

The handshake: `AgreementInvariance`, and from it `SidesAgree` (`Agreed`) and
`NothingPanics` (`NoSlicePanic`), under `PasswordsCarried`, that passwords have at
most 65385 octets.  This library's client always dials without one
(`client.go:218`), an instance with no password lengths at all, which satisfies the
hypothesis.  The bound is sufficient, not sharp: TLC finds both properties to hold
up to 65462 octets, and `NoSlicePanic` violated from 65463 on, where the two-octet
lengths of ISO presentation wrap and a parser slices past the end.  `Agreed` says
nothing of a frame that is in flight; `AgreementInv` adds that what waits to be
read is the Connect or the answer that the other side built, and that the server
serves exactly when the CN SPDU's length fits its octet.  The work is in
`HandshakeProofs`, about octets:

- `ServerReads`: in a Connect with any such password the server finds the Initiate
  PDU if the CN SPDU has at most 257 octets.  In a longer one the length octet
  wraps, the session layer hands on a proper prefix of the CP PPDU, and the lemma
  `PpduCut` shows that it is refused wherever it is cut, without a panic.
- `ClientReads`: in the answer the client finds what the server encoded, through
  AARE, CPA and AC.
- `InitiateRoundTrip`: the Initiate parsers read what the encoders write.

A parser is described by what is left of the buffer and not by positions: `Ends`
says what that is; `Finds`, `Skips`, `Lists` and `Shows` say what the search of ISO
presentation, its skipping, the TLV loop of `asn1ber` and the client's walk over an
AARE make of it, one element at a time.  That the recursive functions exist is in
each case an instance of `MeasureRecursion`: a recursion has a solution when some
measure in `Nat` falls at each call.

The third part of `HandshakeProofs` is about `asn1ber` alone and has no bounds
that the code does not have: `IntegerRoundTrip`, for every integer (two's
complement in as many octets as it takes, the sign in the first);
`UnsignedRoundTrip` and `LengthRoundTrip`, for all numbers and lengths of 32
bits; `TlvRoundTrip`, for elements of all four classes with tags below 31, which
are all that the library writes, refused wherever the end of the buffer cuts
them.

Only model-checked: all liveness properties (the prover does not do `ENABLED`); of
`BerExact` the tags from 31 on, the big integers and that integers take no octet too
many; the rest of `GooseFrame`, whose encoders recurse over nested values; and
`Services`, whose names, types and PDUs are trees.  What definitions that recurse
over such data compute for every input is out of the prover's reach.

## Not modelled, and what is left

- Logging, generated models, examples, socket options, the stubs for other
  platforms.  TLS and file services are options without code.
- Functions nothing in the library calls: `BuildFinishSPDU`, `BuildABRT`, the
  `BuildAARE` of `acse`, `PathWithFC`, `MMSVariableName`.
- Accessors of one field, the octets of floats and object identifiers, `Clone`.
- The concurrent access to `FindNode`'s map: Go leaves its outcome open, up to
  the end of the process.
- A write deadline in `Cotp` (a Send that gives up between two segments): there a
  Send fails only after a `Close`.
- The capacity of a slice: `Slice` in `Ber` marks a panic wherever a buffer is sliced
  past its length, while Go panics past its capacity only.  The model has more
  panics than the code, which is safe for `NoSlicePanic`.
- Panics of `ParseAARE` (`acse.go:153` to `271`): it fails instead.  The client
  reads nothing but this library's server's answer, whose lengths are right.
- A report whose data set is not found (`server.go:1602`) in `IedServer`.
- A proof for passwords between 65386 and 65462 octets, and for tags from 31 on.
