# Formal models of ctrader-x

`ctrader-x` is a TypeScript client library for cTrader's Open API: one TLS
connection to a Spotware server that carries length-prefixed Protobuf messages,
with authentication, reconnection, request matching and rate limiting on top.
The TLA+ modules here model two kinds of difficulty: the order of events
(connections, timers, promises, caches, subscriptions) and what a message means on
either side of the wire (required fields that an encoder drops, scaled prices and
money, deltas to be summed, errors of three kinds). TLC checks them and TLAPS proves
the most important results. Paths below are relative to the repository (`src/src/...` is
the library, `src/test/...` its tests).

Every model takes **one run of the JavaScript event loop as one atomic action**:
a call of the API up to its first `await`, a timer callback, a socket event, or
the settling of a promise together with every continuation it resumes, because
microtasks run before the next event. What interleaves is what can happen between
two such runs.

## Inventory

| Component | Code | State | Operations | Hard parts |
|---|---|---|---|---|
| Rate limiter | `transport/rate-limiter.ts` | queue of resolvers, `lastRunAt`, interval timer | `schedule`, tick, `dispose` | a direct pass against a running timer; a queue without a timer |
| Per-type limits | `transport/spotware-rate-limiter.ts` | two rate limiters | `throttle`, `dispose` | which payload type goes where |
| Frame codec | `transport/frame-codec.ts` | the unfinished bytes of a stream | `encodeFrame`, `push` | chunks cut anywhere; desynced lengths |
| Backoff | `transport/reconnect-backoff.ts` | none | delay of attempt n | the cap, the jitter's range |
| Transport | `transport/spotware-transport.ts` | socket, timers, flags, attempt counter | `connect`, `disconnect`, `send`, attempt settles, `data`/`close`, timers | attempts and disconnects that overlap; handles that are overwritten; silent outages |
| Client | `client/spotware-client.ts` | pending requests, token, two in-flight promises | `connect`, `send`, `disconnect`, transport events, timeouts | state read before an `await` and used after it; one settle per request; single-use refresh tokens |
| Socket authenticator | `auth/spotware-socket-authenticator.ts` | one listener and one timeout per request | application and account authentication | overlapping handshakes on one socket |
| OAuth client | `auth/spotware-oauth-client.ts` | none | HTTP token requests | a response without `expiresIn` |
| Symbol catalog | `market-data/spotware-symbol-catalog.ts` | two promise caches | `getAll`, `findBy*`, `refresh`, `getFullSymbol` | overlapping fetches that fail late |
| Market data | `market-data/spotware-market-data.ts` | three sets of tracked topics | subscribe/unsubscribe calls, `resubscribeAll`, events | tracked against streamed across reconnects |
| Trading | `trading/spotware-trading.ts` | none | order requests, execution events | a request that times out and executes all the same |
| Account, history | `account/`, `history/` | none | one-off requests, events | money scaling, the week limit |
| Shared | `shared/` | none | required fields, money, event emitter | implicit defaults |

How they interact: every class above the transport reaches the server through
`client.send()`, which awaits the handshake, then a valid token, registers the
request and hands it to `transport.send()`, which awaits the rate limiter and
writes a frame. The way back is events: the socket's `data` goes through the
frame decoder to `message`; `connected` starts a handshake; `authenticated` makes
market data subscribe again; `disconnected` rejects pending requests and schedules
a reconnect. The hazards this exposes the code to are listed, each at its line,
under `hazards` in `PROJECT.json`.

What makes each component correct, in one sentence each:

* rate limiter: callers pass in order, spaced, and none waits for ever;
* transport: one connection at a time, which is watched while it lives, leaves
  nothing behind, and comes back unless the caller disconnected;
* frame codec: what is emitted is what was written, however the stream is cut;
* client: each `send()` settles exactly once and its pending entry belongs to the
  current connection; refreshes are never concurrent;
* catalog: failures are not cached, newer results are not replaced by older ones;
* market data: once things settle the server streams what is tracked, on this connection
  and the next, and no more than that but for one case (see Findings);
* trading, account, history: the broker reads what the caller asked for, the caller
  reads what the broker meant, and an execution is told whatever became of its call;
* backoff: every delay is within half the cap and the cap.

## Modules

| Module | Models | Proofs |
|---|---|---|
| `RateGate` | what a rate limiter promises its callers, without the clock (abstract) | |
| `RateLimiter` | `RateLimiter` with a clock and late timer callbacks; implements `RateGate` | `RateLimiterProofs` |
| `ConnectionService` | what the transport promises the code above it (abstract) | |
| `SpotwareTransport` | the connection life cycle; implements `ConnectionService` | `SpotwareTransportProofs` |
| `Outbox` | `transport.send()` and `SpotwareRateLimiter`: two `RateGate`s on top of `ConnectionService` | `OutboxProofs` |
| `SequentialCaller` | `SpotwareTransport` under a caller that awaits every call | |
| `SpotwareClient` | client and authenticator, composed with `ConnectionService` | `SpotwareClientProofs` |
| `SymbolCatalog` | both promise caches | `SymbolCatalogProofs` |
| `MarketData` | subscriptions, resubscription, event delivery | `MarketDataProofs` |
| `FrameCodec` | `encodeFrame`, `FrameDecoder`, `handleData` over several connections | `FrameCodecProofs` |
| `ReconnectBackoff` | the delay of a reconnect attempt | `SpotwareTransportProofs` |
| `ProtoWire` | what the generated code does with the fields of a message; `proto-required-field.ts` | |
| `ProtoModelMessages`, `ProtoMessages` | the generated messages and enums, as tables | |
| `ApiRequests` | what each method of the library sends | |
| `ApiAnswers` | what it makes of answers, errors and events | |
| `ApiBroker` | what the broker says and means by it (external) | |
| `Api` | every method at work with a broker, across timeouts, throttling and drops | `ApiProofs` |

The `MC*` modules and the `.cfg` files only give constants their values. A
definition whose name begins with `Mut` is a plausible slip in the definition after
it; `PROJECT.json` pairs each with the property that catches it.

### RateLimiter

State is the object's fields plus the clock; `due` is when Node runs the interval's
callback next. `ScheduleNow`/`ScheduleQueued` are the two paths of `schedule()`,
`TickGrants`/`TickStops` the two of the interval callback. `jobs` and `granted` are
histories. Node never runs an interval before it is due and re-arms it from the
moment its callback runs; the event loop can run it up to `Late` late. `RateGate` is
the same seen from `schedule()`'s callers: one line that nobody passes by, served from
the front, and emptied by `dispose()`.

### SpotwareTransport and ConnectionService

A socket object goes `connecting -> open (-> mute) -> destroyed -> closed`;
`destroyed` is the time between `destroy()`, or the loss of the peer, and the
`'close'` event. `mute` is an outage neither side was told of. Heartbeat and watchdog are always started and stopped
together and are one "monitor". Timers are counted (`timeouts`, `monitors`)
next to the field that holds a handle, so that overwriting a handle without
clearing it shows up as a leak. `Connect`, `Disconnect`, `AttemptFails`,
`AttemptAbandoned`, `AttemptSucceeds`, `HandleClose`, `ReconnectTimerFires`,
`WatchdogFires` are the methods and callbacks in the code.

The listeners of an event belong to the run of the event loop that emits it.
`disconnect()` called from one comes to what it does just before or just after the
action, with one exception: `scheduleReconnect` emits `'reconnecting'` before it assigns
the timeout. So it is two steps here, `ScheduleReconnect` up to the event (a part of
`HandleClose` and of `AttemptFails`) and `ArmReconnectTimer`, and `reconnecting` says that
the listeners in between are running. No other callback runs then (`Internal`), but
`Disconnect` may; `fromListener` is a history of that.

`Next` lets the caller call `connect()` only when nothing is connecting, live or
closing and no listener of `'reconnecting'` is running (`AtRest`), which a scheduled
reconnect is compatible with, and `disconnect()` at any time, from the listeners too.
`connect()` called from a listener of `'disconnected'`, `'error'` or `'reconnecting'`, with
the reconnect not scheduled yet, is not modelled. `SequentialCaller` drops the restriction
for a caller that merely awaits each call, and there the promise of `disconnect()` fails;
see Findings.

`ConnectionService` has two variables: the `link` as the events tell it, and the
caller's `wish`. `SpotwareTransport` implements it under the mapping
`LinkView`, `WishView` (checked by TLC, proved by TLAPS), and `SpotwareClient` is
composed with `ConnectionService` instead of with the transport itself.

### Outbox

A message is the number of the `send()` call that sends it. `given[m]` is the socket
captured before the `await`, `lines` the queues of the two limiters, `resumed` those
that were let through in this run of the event loop and whose continuation is due,
`stream[c]` what was written to connection `c`. Code that is running when a limiter
lets a caller through can `send()` or `disconnect()` before the continuation; timers
and socket events cannot come in between (`EventLoopFree`). Heartbeats are calls of
`send()` like any other. A message that waited in a queue when `disconnect()` emptied it
is forgotten: its promise never settles. The table of payload types is an arbitrary
function `limiter`, chosen in `Init`. Connections come and go as `ConnectionService`
lets them, which `SpotwareTransport` implements.

### SpotwareClient

Connections are numbered. `att[c]` is how far the handshake started on connection
`c` has come, `attOn[c]` the connection its last request went out on: a handshake
that waited for a token can go on over a later connection. A `send()` goes through
`idle -> auth -> token -> handed`. `Hand` is the part of `send()` after both awaits
with the synchronous check of `transport.send()`. `Close` is `resolve`/`reject` of
pending entries with `cleanup`. What may settle a request is `Answer` (also
duplicates and late ones), `WriteFails`, `RequestTimesOut` and `Disconnected`.

### SymbolCatalog

`cache[k]` is the fetch whose promise is cached for key `k` (`List` for
`symbolsPromise`). `StartFetch` is a fetch up to its `await` with the assignment of
the promise by its caller.

### MarketData

A topic is a spot, depth or bars subscription of a symbol (one period stands for
all: they are independent entries). `wire` and `replies` are the two directions of
the connection, in order, which is what TCP and the single rate-limit queue of
these payload types give. `pending` are the requests whose `send()` has not
settled; it is what module `SpotwareClient` says of `send()`, seen from above.
The messages of one chunk are handled by
successive `Receive`s and the calls they answer go on in `Resume`, after the last of
them: between the two the tracked sets lag behind what was answered.
`Authenticated` is the event with `resubscribeAll` run in it, the requests for bars in
whatever order they came to be tracked. The client emits it before its handshake's promise
is settled, and every `send()` awaits that promise: so the requests of `resubscribeAll` go
out behind those of the calls that came to wait for it during the handshake (`ahead`, some
of `Waiting`, in any order). Calls that are still looking up a name then send later.
`overtaken` records the tracked topics an unsubscribe of which went ahead of the
resubscription like that. `unsure` records topics of requests that timed out or
of resubscriptions that were refused on this connection: there the client cannot
know what the server streams, and the code only emits `'error'`.

Whether the server lets one client authenticate twice on one connection (two
overlapping handshakes that both succeed would emit `authenticated` twice) is the
server's business; the model has one `authenticated` per connection.

### FrameCodec

Bytes are concrete; base, prefix length and limit are constants, smaller in the run.
`written` is what the peer put on the connection, `arrived` how much of it has been
delivered. `Decode` is the loop of `push()` as a recursive function. `NewConnection` replaces socket and decoder in the
middle of anything. A `push()` that throws makes the transport destroy the socket;
frames decoded before the bad length in the same chunk are lost with it.

### ReconnectBackoff

Operators only, in whole milliseconds; `factor ** attempt` is an arbitrary natural
number and `Math.random()` an arbitrary fraction below 1. `SpotwareTransport` lets a
reconnect timeout fire after any delay, so that no property of it depends on the
value.

### ProtoWire, ProtoModelMessages, ProtoMessages

The generated TypeScript repeats one scheme for every message. `ProtoWire` states the
scheme once (`FromPartial`, `Encode`, `Decode`) and the other two give each message as
a record of fields: kind, required or not, tag, default, nested message. An encoded
message maps each tag that was written to the values written under it, so that a
field that was left out, one written twice and a tag nobody knows can be told apart;
varint bytes are not spelled out. `Entry` and `++` build such maps; they are what TLC's
`:>` and `@@` are, whose definitions the provers do not have. Like the generated code, `Encode` leaves out a field
that holds its default although the protocol calls it required; what
`appendRequiredEnumIfDropped` and `appendRequiredInt64IfDropped` then add is
modelled as they do it, tag and wire type included.

### ApiRequests, ApiAnswers, ApiBroker, Api

`ApiRequests` has one operator per method, from its parameters to a payload type and
an encoded payload; `ApiAnswers` one per answer, error and event, from the encoded
payload to what the caller or the listener is given. A price or an amount of money is a
`Decimal`: an integer coefficient and a number of digits, which is what the division by
a power of ten in the code stands for.

`Api` sets them to work. A call is `idle -> pending -> answered -> over`; `throttled`
are requests in the rate limiter, `arrived` those the broker has, `toClient` what is on
its way back. `Send` is `client.send()` seen from above (module `SpotwareClient` says
what happens to pending requests); `Receive` is `handleMessage` with the listeners of
all facades run first, and `Resume` the continuations of the calls that the chunk
answered. The broker is external. It reads requests with the proto2 rules (a required
field must be there, defaults are written out) and answers, refuses with any of the
three error messages, rejects by an execution event, executes, fills working orders
and publishes events. An execution for a lost connection goes to the one that is up,
or to nobody. `executed`, `learnt` and `missed` record which calls changed the account,
which of those the listeners were told of, and which nobody was.

A message carries, as history, what the broker meant with it, and `AnswersReadAsMeant`
compares. `ApiBroker` defines these meanings independently of the conversions in the code.
A *fact* is what the broker has to tell, in absolute prices, times and amounts: a bar is
given by its prices and travels as its low and differences (`BarOnWire`), a tick list by
its values and travels as differences (`TicksOnWire`), and `AnswerMeans`, `RefusalMeans` and
`EventMeans` say what the caller or the listeners should get from it. Which facts there may
be is `MayAnswer`, `MayRefuse` and `MayTell`: only fields of the schema, with the list or the
amount that the message is about in it. `MCApi` gives TLC a few of them, some with fields
left out; TLC checks that they are such facts (`ContentsAssumption`).

## Runs

| Run | Question | Bounds | Why enough |
|---|---|---|---|
| `rate_limiter` | spacing, order, waiting, is it a `RateGate`? | 5 callers, interval 3, lateness 1, 22 instants | a queue of four behind a direct pass, several drain/stop/restart cycles, `dispose` in each |
| `outbox` | where and in which order does a message go out? | 3 sends, 2 connections | one message written, one waiting and one more, across a reconnect and a disconnect; 4 sends were checked too (900 000 states) |
| `transport` | safety, refinement, liveness of the life cycle | 3 socket objects, attempts counted to 3 | one socket is enough while `OneConnection` holds; a second and third would show a violation |
| `sequential_caller` | does `disconnect()` leave nothing behind? (violated) | 3 sockets | the counterexample needs two |
| `client` | settle once, current connection, one refresh | 2 requests, 2 connections | overlap of two handshakes, a refresh shared by both; 3 connections were checked too (850 000 states) |
| `stale_handshake` | is a settled handshake harmless? (violated) | 1 request, 2 connections | |
| `symbol_catalog` | what the caches hold | 4 callers, 2 symbols, 4 fetches | two overlapping fetches of a key and a third after one failed |
| `market_data` | tracked = streamed, no stray events, is everything restored or reported? | 2 calls, 2 symbols, 2 connections, 2 messages under way | subscribe and unsubscribe overlapping across a reconnect, calls made during a handshake, batches of two symbols, two bars requests; 3 calls on one symbol were checked too, without liveness (7 million states) |
| `bars_without_spots` | does a resolved bars subscription have spots? (violated) | 3 calls, 1 symbol | |
| `frame_codec` | reassembly | bytes 0..1, 2-byte prefix, frames up to 2 bytes, 3 messages, 2 connections | empty frames, frames at the limit, several frames per chunk, cuts in prefix and payload, lengths past the limit |
| `api` | do requests and answers mean the same on both sides, is an outcome told? | every method by itself, two market orders and cancellations side by side; 2 messages under way, 2 connections; events before the first call | each schema and conversion is used with fields at and off their defaults; two calls are enough to mix up answers, a drop can come at any point |
| `rejected_execution` | was what resolves accepted? (violated) | one mutation, one connection | |

All runs say `CHECK_DEADLOCK FALSE`: the system may rest (bounds used up, nothing
connected), and that is no fault. Symmetry is used only in `symbol_catalog`, which
checks invariants only, and in its violation run not at all.

Fairness, where liveness is checked:

* transport: attempts settle, `'close'` is delivered, listeners return, due timers run,
  time passes (weak fairness: the event loop does this), and a server that is tried again and
  again is reached (strong fairness on `AttemptSucceeds`: the assumption under which
  "keeps retrying" means anything);
* outbox: the limiters' intervals run, continuations run, the socket calls back. None
  on connections: a message of a dead connection ends without a reconnect;
* client: armed timeouts fire, HTTP requests end, `'disconnected'` is delivered. No
  fairness on answers, handshakes or reconnects: every `send()` settles without them;
* market data: the server answers what it receives and what arrives is delivered. A
  drop or timeout may come first; no fairness is put on either;
* api: what the socket delivers is handled, or the connection ends (weak fairness on
  the head of `toClient` being consumed). None on the broker, the rate limiter or
  reconnects.

## Proofs

`RateLimiterProofs`, for every `Interval >= 1`, `Late >= 0` and any bounds: `IInv`
is inductive. Its parts are the clock (`lastRunAt + Interval <= due <= now +
Interval` while the timer runs: neither a tick nor a direct pass can come early),
the rate with the link from the last grant to `lastRunAt`, the order of job numbers
across `granted`, `queue` and `jobs`, and the wait (`a non-empty queue has a running
timer`, and the tick that will serve position k comes before its deadline). `Rate`,
`FirstComeFirstServed` and `BoundedWait` follow. Products `n * Interval` are hidden
behind `Span`/`LongSpan` with their growth stated as lemmas. `GateImplemented` shows that
every step is a step of `RateGate` or a stutter; that a direct pass finds nobody waiting
comes from the wait's part of `IInv`.

`OutboxProofs`, for any number of sends and connections: `IInv` is inductive.
`InOrder` alone is not: it needs that whatever is in a stream was sent before what is
resumed, and that before what waits, limiter by limiter (`OrderInv`), and that
every message on its way found a socket (`CallInv`). `OnOwnConnection`, `InOrder`,
`OnlyTheGoneAreForgotten` and `BothAreGates` follow. Lemmas about the members and the
order of `Append` and `Tail` come first.

`SpotwareTransportProofs`, for any set of sockets: `IInv` is inductive. `OneConnection`
alone is not: that a scheduled reconnect excludes a live socket depends on
the field and the count of timeouts agreeing (`Counts`), on where a monitor can run and
what holds while a timeout is armed or about to be (`TimersInv`), and on which flags a
live socket implies (`FlagsInv`). A timeout that was armed after a listener's `disconnect()`
is told from the others by `fromListener`, which implies that nobody has connected since.
The five safety properties follow, and so does `Refinement`: under `LinkView`/`WishView`
every step is a step of `ConnectionService` or a stutter. Assumptions used:
`NoSocket` is not a socket, `MaxAttempt >= 1`, and the caller of `Next`.

`SymbolCatalogProofs`, for any symbols, callers and number of requests, from
`ListAssumption` (the list's key is no symbol) and `MaxFetchesAssumption`: `IInv` is
inductive. `OneFetchPerSymbol` needs the strengthening `CachedUntilFailed`: a
symbol's fetch that has not failed is the cached one, since only a failure of that
very fetch could have cleared it. The list has no such fact, because `refresh()`
replaces a fetch that is still running; that is where the finding below comes from.

`SpotwareClientProofs`, for any requests, connections and tokens: `IInv` is inductive.
Its parts speak of four groups of variables, and no property is inductive alone.
`RequestsInv` ties a pending entry to a call that is not settled and to the connection
it was handed out on, and has none pending while the link is down: that is what
`PendingOnCurrentConnection` and `SettledOnce` need. `RefreshInv` says that a refresh
runs exactly while the client knows of one (`OneRefresh`). `HandshakesInv` says that no
handshake is ahead of its connection and that a finished one is on a connection the
server authenticated, which `SentAuthenticated` needs when a `send()` goes on after
awaiting it. The proof regroups
`IInv` by the variables its parts speak of (`ConnOK`, `AuthOK`, `TokOK`, `ReqOK`), so that
an action only argues about the groups it changes; it has one lemma per action.

`MarketDataProofs`, for any finite set of symbols and any number of calls, connections and
messages under way: `IInv` is inductive. `TrackedIsStreamed` speaks of a topic at rest and
says nothing of the requests that lead there, so the invariant follows them: `AgreesOn(t)`
compares what the server streams now with what the client will track once it has handled,
in order, the answers it has and those on their way (`WillTrack`). The two may differ only
by a resubscription the server has yet to see or has refused, and an event on its way is
for a topic that will be tracked when it arrives. That this survives a step needs that
every request under way is pending or its topics are unsure (`AllExpected`: otherwise an
answer would be dropped unnoticed), that none is under way twice (`NoneTwice`, `NoneAgain`:
one answer would settle both), and that each topic is resubscribed once, with no
unsubscribe of it ahead of that unless the topic is `overtaken` (`ResubscribedOnce`: the
resubscription would undo it). Of an overtaken topic only one half of `AgreesOn` is left:
what will be tracked is streamed. `TrackedIsStreamed` and `NoStrayEvents` follow.
`EachOfResubscribes` needs the symbols to be finite (`SymbolsAssumption`), so that the
tracked bars can be listed, and `RequestsGoAhead` the calls (`BoundsAssumption`).

`ReconnectBackoff` (in `SpotwareTransportProofs`): for every base, cap, growth and random
fraction the rounded delay is between half of the capped delay and all of it, and positive
when the options are (`DelayInBand`). What is behind it is floor division and that rounding
up an odd half never passes the cap.

`FrameCodecProofs`, for every base of at least 2, prefix length, limit whose successor
still fits the prefix (`LimitAssumption`; the code's 15 MB and 4 bytes do), any messages
and any cuts: `IInv` is inductive. It says that the bytes that have arrived are the frames
emitted followed by the buffer, and that the buffer does not begin with a whole frame.
Two inductions are behind it: that a number survives `LengthBytes` and `ReadLength`
(`ReadBack`), and that the recursive `Decode` exists and takes exactly the frames at the
front of any byte sequence (`DecodeTakes`). They are carried out inside the logic, on sets
of naturals, because the library's induction theorems take an operator. The three
properties of the run follow.

`ApiProofs`, for any calls, menus, parameters, answers, errors and events. Its first part
is about the wire: what `Encode` writes is read back by `Decode` for every schema without
nested messages (`FlatRoundTrip`), and what the broker encodes is read as it was given, down
to messages two levels deep (`OuterRead`); that the schemas in question have tags of their
own is a lemma for each. Its second part follows a mutation. `OutcomeIsTold` speaks of
calls that are over; what decides it happened before:

* a request is that of one call, made and not executed, and a pending mutation's request is
  of the session there is (`RequestsInv`, `PendingInv`): so an execution whose call is
  still pending can be told to it;
* a message under the id of a mutation is an outcome of it, an error if nothing was executed
  or the event of its own order that says whether something was (`MessagesInv`), and no
  request of the call is left that could still change that (`Asks`);
* the first such message in line is the one that tells of the execution (`ToldFirst`),
  although a later fill of the same order may carry the same id;
* what is answered has been told to the listeners, and what resolves or rejects agrees with
  it (`AnsweredInv`, `OverInv`).

Every part is kept by any step in which calls go on, nothing is forgotten and only who asks
is executed (`Continues`); a step then only argues about what it adds. The assumptions are
that no call is named by the empty string, that orders have ids of their own, and the
hypothesis `UndefinedIsNoRecord`: JavaScript's `undefined` is not an object. It is true of
the program but not of the sort TLC can evaluate, so it is a hypothesis of the theorems and
no assumption of the module.

A third part is about requests, method by method. `InputsAssumption` says what the
TypeScript interfaces say: the parameters that are required are there, no others than the
optional ones may be, ids and volumes are positive and credentials are not empty (an id of
0 would be dropped by the encoder, which is what positive is needed for); the account has an
id. From this every method's request is shown to say what the call asks (`EveryRequestSays`,
a lemma per method): that no required field is left at a default that `encode` drops, or
that `proto-required-field.ts` adds it again, that volumes are in cents, and that nothing
else is set. What is proved once for all of them is what a request must be given for that
(`GivenIsSaid`, `RequestSays`); a method's lemma only says which fields its schema requires
and which it copies. On the way nothing changes but the call's state, never its method
or parameters (`RequestsStay`), so `RequestsArriveAsAsked` follows, given that each request
belongs to a call that was made (`RequestsInv`).

A fourth part is about what comes back, for any facts that `ContentsAssumption` allows. The
schema of every answer, error and event is shown to be well made: its fields have tags of
their own, and so have those of the messages in it (`WellMadeThroughout`). So each is decoded
as its complete fact, and a lemma per method shows that the method makes of it what it means
(`EveryAnswerReads`, for the 24 methods that are not mutations): the bars are rebuilt from
their differences, the ticks are the running sums of what arrived (an induction over the
list, carried out inside the logic), money is scaled by its own number of decimals or by
two, and one symbol is found among those of the answer. The same is shown of the three error
messages (`EveryErrorReads`) and of the nine events (`EveryEventEmits`), where it also has to
be seen that no other facade emits anything. `UndefinedAssumption` (`undefined` is no
integer) is what tells a price that was left out from one that was not.

`AnswersReadAsMeant` speaks of calls that are answered and of what was last told, so the
invariant `MInv` adds to `IInv` what is known of a message while it is on its way
(`MeantMessages`): it is about a call, or about none and not of a type a handshake waits for;
it will be read, and told, as it was meant. The parts of `IInv` are needed for this. A
handshake also takes a message that names no call, if it is of its type or an error, so those
must not be; and a later fill may travel under the id of a call, which is the one that placed
the order, a mutation, and so reads it as it was meant (`ExecutedInv`).

Every safety invariant and every action property without fairness that the passing runs
check is stated by one of these theorems, and so are the refinements. Only model-checked
is what is outside the prover's reach: liveness under fairness, and `ENABLED`. The violated
properties are of course not proved.

## Findings

* `sequential_caller`: a reconnect attempt started by the timer is invisible to the
  caller. `disconnect()` during it returns at once; `connect()` resets
  `disconnectRequested`; both attempts are adopted; the next `disconnect()` destroys
  one and leaves the other live with its intervals
  (`src/src/transport/spotware-transport.ts:181`).
* `stale_handshake`: a rejected handshake promise stays in `authenticationInFlight`
  and rejects every later `send()` on that connection
  (`src/src/client/spotware-client.ts:181-185`).
* `bars_without_spots`: `subscribeLiveTrendbars` called after an `unsubscribe` of the
  subscribed spots, and before its answer, still finds them in the set and only asks for
  the bars; it resolves when the spots are gone. The property leaves out calls that had an
  `unsubscribe` called after them, which is the caller's own doing
  (`src/src/market-data/spotware-market-data.ts:183`).
* `rejected_execution`: an execution event of type `ORDER_REJECTED` or
  `ORDER_CANCEL_REJECTED` resolves the call, while the documentation says that a resolved
  value means acceptance (`src/src/client/spotware-client.ts:257`).

Two more behaviours of the code are excused by the properties they would break, because
they are what the code does in one narrow place and the properties hold everywhere else:

* `disconnect()` called from a listener of `'reconnecting'` finds no timeout to clear, and
  the timeout is armed right after it (`src/src/transport/spotware-transport.ts:244-246`),
  although `src/README.md:393` says that no reconnect follows `disconnect()`. The attempt
  it starts is abandoned when it finds `disconnectRequested`.
  `DisconnectLeavesNothing` and `ReconnectOnlyAfterSuccess` excuse it (`fromListener`); that
  nothing live and no interval is left holds even then.
* `unsubscribe()` called during a handshake is sent ahead of `resubscribeAll`
  (`src/src/client/spotware-client.ts:119-125`, `:199`), whose request brings the topic back:
  the server streams it, and its events are emitted, on that connection although it is no
  longer tracked. `TrackedIsStreamed` and `NoStrayEvents` excuse it (`overtaken`).

`SymbolCatalog` also shows that a late failure of an older `refresh()` clears the
promise of a newer one (`src/src/market-data/spotware-symbol-catalog.ts:91`), after which
the next call fetches again. No document promises otherwise, so `NewestIsCached` allows
an empty cache.

## Not modelled, and what is left

* TLS, HTTP and the building of URLs in the OAuth client: I/O. Of a token response
  `SpotwareClient` keeps whether the token is fresh or already expiring.
* Of the generated types: the `Heartbeat` and `Version` messages (a heartbeat is a call of
  `send()` in `Outbox`, its content has no field that matters), messages the library
  never sends or reads, and `fromJSON`/`toJSON`, which it does not call.
* Varint and double encodings, and the rounding of floating-point numbers: a `Decimal` is
  exact, JavaScript's division is not.
* Looking a name up in a symbol list that has arrived: a pure find.
* The examples.
