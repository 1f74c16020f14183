# cast-app: TLA+ models, checks and proofs

cast-app is a desktop program that finds Google Cast receivers on the LAN, keeps
a session with one of them, serves it a file, a URL, an SMB share or the captured
screen over HTTP, and controls playback. This directory models the parts of it
that are concurrent or stateful, checks them with TLC on small instances, and
proves the most important of the results with TLAPS for all instances. Paths
below are relative to the repository (`src/...` is the crate); every definition
that models code is listed, with its lines, in `PROJECT.json` under `map`.

## 1. Inventory

Three threads of control start at launch: the main thread with the egui window,
the Tokio runtime with a supervisor task, and under it three long-lived tasks
(mDNS, cast connection, media server). A screen cast adds four OS threads and an
`ffmpeg` child process; a TLS session adds a reader thread. They share nothing
but channels, watch values, three atomics and two queues.

| component | state | operations | talks to | what makes it hard | what must hold |
|---|---|---|---|---|---|
| connection task (`cast/connection/`) | session (phase, device, ids, queued LOAD), reconnect plan, timers, open transport | one branch of a `select!` per command, frame, heartbeat, watchdog, reconnect delay, token | supervisor (commands, events), reader threads (frames), receiver | loss, re-selection and shutdown at every phase; statuses from other clients; a guard read only when the select is entered | one session at a time, with the receiver selected last; nothing of an old session survives; every loss is resolved |
| request ids (`cast/request_id.rs`) | counter, pending map with ages | allocate, resolve, expire | connection task | wrap of a u32, late and duplicate replies | an outstanding id is not given away; every request settles |
| media bind and consent (`runtime.rs`, `media/server.rs`, `app.rs`) | interface address, port, consent, prompt, listener, published port | select receiver, answer prompt, set port, play; SetBindAddr, SetPort | GUI, supervisor and server over five channels | answers that come late, binds that fail half way, a server that ends | no wildcard listener without consent; the supervisor never waits for ever; Play advertises what is served |
| live serving (`media/server.rs`, `runtime.rs`) | active source, slot with the live stream, generation, one task per connection, pipelines | SetSource, AttachScreenStream, accept, serve, abort, recycle | supervisor, forwarder, HTTP clients | the stream moves between command, slot and connection while sources switch; clients stall | at most one pipeline; a switch ends what served the old source |
| screen pipeline (`screen/bridge/`, `screen/capture.rs`, `screen/ffmpeg.rs`) | two drop-oldest queues, resolution request, encoder, readers, forwarder | capture, restart, feed, read, forward, stop, report | monitor, ffmpeg, media server | four threads and a child, restarts, a slow consumer, failures at once | what is sent can be decoded; one error report; it always ends |
| portal capture (`screen/portal.rs`, `screen/pipewire.rs`) | portal session, capture thread, format, status channel | the D-Bus calls, negotiation, teardown | desktop portal, user, PipeWire | a dialog nobody answers, failure at each step | nothing stays acquired, a stop is answered |
| supervisor lifecycle (`main.rs`, `runtime.rs`, `util/shutdown.rs`) | task handles, the pipeline held, token, shutdown order | spawn, rescan, replace the pipeline, leave loop, join one after the other | all tasks, pipelines | exit at any moment, tasks that subscribe late, replaced pipelines that nobody waits for | no task and no held pipeline is left running, no replaced one was forgotten; the program exits |
| discovery (`cast/mdns.rs`) | device table with missed cycles | query cycle, announcement, expiry, publish | network, GUI | lost, repeated, contradicting packets | the list shown is the table; one loss is forgiven; what is gone goes |
| certificate pins (`cast/tofu.rs`) | map, file, temporary file | load, check, save | file system | crashes and failures between write and rename | never torn, never forgotten, never replaced |
| volume (`app.rs`, `runtime.rs`) | slider, check box, throttle, mirror, receiver | frames, commands, statuses | GUI, supervisor, receiver, other clients | five copies, each stale in its own way | copies settle; the last position wins |
| dashboard (`app.rs`, `state.rs`, `runtime.rs`) | selection, connection, list, discovery and playback as displayed | drain events, select, Play, Retry; forward commands and events | supervisor, connection task, discovery | everything shown is as old as the channels are long | once delivered it shows what there is; Play reaches the receiver picked |
| frames and messages (`cast/framing.rs`, `cast/proto.rs`, `connection/reader.rs`) | bytes not yet consumed | read, cut into frames, decode; encode | socket, connection task | a read ends anywhere; unknown and repeated fields, limits | the messages sent are the messages read, however cut |
| MP4 segmenter (`screen/segments.rs`, `bridge/stdout_reader.rs`) | pending bytes, init, fragment in progress, opaque mode | feed, finish | ffmpeg, output queue | the same, and headers that are none | init first, whole fragments, nothing lost |
| TLS connect (`cast/tls.rs`, `connection/transport.rs`) | worker threads, their results, sockets, handshakes in flight | connect, handshake, give up, record the pin | receiver, pins, blocking pool | a worker outlives the caller that gave up | no socket without an owner; pinned or warned; all end |
| response bodies (`media/{server,range,local_file,smb_source,url_proxy,flush}.rs`) | request, head, bytes left, writer's buffer, SMB handle | read head, decide, copy, flush, close | HTTP client, file, share, origin, encoder | a file that changes meanwhile, a silent origin | what is sent is what the head promises; nothing stays in a buffer |
| the rest | none | JSON text, MIME types, URL syntax, ffmpeg lookup, pixel conversion, layout | | | not modelled |

The places where this code can go wrong in a way that a test hardly reaches are
the `hazards` of `PROJECT.json`, each at its line with the properties that watch
it.

## 2. Modules

Each module's header says which threads and channels it has and what it leaves to
choice. Names of variables and actions are those of the code where TLA+ allows.

- **`Connection`**: `run` of `state_machine.rs`. An action is a whole branch of
  the select, including the reconnect planning, teardown, dispatch of the queued
  LOAD and events it ends with. `pc` is `Parked` in the select and `Busy` between
  a handler and the next select, because the token's branch is enabled by what
  `is_shutdown` was at entry (`armed`). Writes to the socket may fail wherever the
  code awaits one. `ReaderFrame` and `ReaderExit` are the reader thread of each
  transport; `ReceiverLaunches`, `ReceiverRefuses` and `OtherClient` are the
  receivers. A RECEIVER_STATUS carries what `parse_receiver_status` takes from it: the
  ids of the receiver's application, ours or another client's, or none.
  Time is abstracted: a timer that is armed may fire.
- **`ReceiverLink`**: the abstract specification, what a user of the task can rely
  on: `wanted`, `link`, `ready`, `over`. `Connection` is mapped to it with
  `wanted <- desired`, `link <- device`, `ready <- phase \in {Ready, Streaming}`.
- **`MCConnection`**: `Connection` with the action constraint for the safety run.
- **`RequestId`**: allocator and pending map, with a history of who owns which id.
- **`CastWire`**: varints, protobuf fields, `CastMessage` and length-prefixed
  frames, encoded and decoded, and the accumulator that reassembles them.
- **`Segmenter`**: `Mp4Segmenter`, with `Feed` and `FinishSegments` on a record of
  its fields, and a reference that says which segments a whole stream has by the
  places of its `moof` and `mdat` boxes.
- **`Loops`**: `Repeat`, a loop of the code as the iteration of one turn. A turn that
  finds nothing to do changes nothing, so as many turns as there are bytes are all
  of them. `CastWire` and `Segmenter` define the turns (`DecodeTurn`, `TakeFrame`,
  `CutOne`); neither has a recursive operator, so that both can be proved about.
- **`ByteStreams`**: the two threads that read a stream of bytes in pieces, with
  `CastWire` and `Segmenter` at work in them. A receiver sends any message with
  texts of the constant `Texts`, plain or with unknown or repeated fields, and may
  close with a part of a frame or a length no frame has; an encoder writes any
  sequence of `Outputs`. A stream may end anywhere, by EOF or by a failing read.
- **`MCWire`**: `RequestId` beside `ByteStreams`, with two texts and the outputs made
  of up to `MaxBoxes` boxes, some of them malformed or cut short.
- **`MediaBind`**: prompt, supervisor and server task; a `SetBindAddr` has its send,
  its execution and the supervisor's reaction to the acknowledgement as three
  steps of two actors.
- **`LiveStream`**: supervisor, server, pipelines (as the sending end of their
  channel) and one task per connection.
- **`MediaBody`**: one connection from its request head to its last flush, for the
  four kinds of source, every form of Range header, GET and HEAD.
- **`MCMedia`**: `LiveStream` beside `MediaBody`.
- **`ScreenPipeline`**: capture thread, controller, one stdout reader per ffmpeg
  generation, forwarder, consumer. A restart is three steps (wait, join, spawn),
  as long as it is in the code, and the request slot is cleared after it.
- **`PortalCapture`**: the controller's Wayland path and the PipeWire thread.
- **`Lifecycle`**: main thread, command channel, supervisor, three tasks and the
  screen pipelines; a task subscribes to the token in a step of its own. A
  SelectDisplay stops the pipeline there is and leaves it to a join in the
  background, then starts another in a second step.
- **`MCShutdown`**: `PortalCapture` beside `Lifecycle`.
- **`Discovery`**: packets as lists of PTR, SRV, TXT and A records, what
  `correlate` makes of them, the device table with its cycles and the list sent
  to the GUI. **`MCDiscovery`** gives it two service instances, of which one may
  move to another host and one shares a host.
- **`TofuStore`**: create, write and rename as three steps, any of which may fail
  or be the last before a crash.
- **`TlsConnect`** extends it with the caller, the handshake workers and the socket
  that passes from one to the other, and uses the store's steps for the pin.
- **`Volume`**: one frame of the window is one step (drain events, poll the
  throttle, then the user's input), as in `update`.
- **`Dashboard`** extends `ReceiverLink`: window, supervisor and discovery are
  modelled as they are, and the connection task by the specification that
  `Connection` is shown to implement, each of its steps with the events it
  reports.
- **`MCDashboard`**: `Volume` beside `Dashboard`.
- **`ConnectionProofs`** (with `RequestId`), **`MediaBindProofs`**,
  **`WireProofs`** (`TlsConnect` with `TofuStore`, and `ByteStreams` with `CastWire`
  and `Segmenter`), **`LifecycleProofs`** (with `PortalCapture`), **`DiscoveryProofs`**, **`ScreenPipelineProofs`**,
  **`MediaProofs`** (`LiveStream` and `MediaBody`), **`DesktopProofs`** (`Dashboard`
  and `Volume`): theorems and proofs. Where one of them extends two specifications,
  the second has its `Init`, `Next` and so on under names of its own (`PortalInit`,
  `IdNext`).

`MCWire`, `MCMedia`, `MCShutdown` and `MCDashboard` put two specifications into one state
space. These do not interact: the initial state decides which of the two a
behaviour is of, the other's variables keep their values, and every property
is about one of them. Fairness is stated for the steps of each.

The operators placed just before a definition under a similar name
(`KeepReconnect` before `CancelReconnect`) are plausible bugs of that definition;
`PROJECT.json` lists which property each one breaks, which shows that the
property depends on that code.

## 3. Runs

| run | question | instance |
|---|---|---|
| `connection_safety` | Is the session consistent (`SessionInv`: with the receiver last selected, its transport the only open one, its application known, watched by its timers); is giving up reported after exactly the policy (`ExhaustedAfterBudget`) and every change told in order (`EventsTellSession`); is no LOAD lost (`LoadIsKept`); does the task implement `ReceiverLink` (`ImplementsLink`)? | 2 receivers, 1 content, 2 transports, 1 application, 2 reconnects, 1 queued command and frame |
| `connection_live` | Is a lost link reconnected or given up (`ImplementsFairLink`), does a queued Shutdown end task, transport and readers (`ShutdownStops`), with another client on the receiver? | 1 receiver, 2 transports |
| `wire` | Can an id be handed out twice (`NoReuseWhilePending`), or a late reply settle a newer request short of a wrap (`MisattributionNeedsWrap`), does every request settle (`RequestsSettle`)? Do the messages of a stream of frames (`MessagesArrive`) and the segments of a stream of boxes (`SegmentsAreWhole`) come out as they went in, however the stream is cut into reads? | ids 1..4, 2 pending, 7 requests: the counter wraps. Streams of up to 2 frames or 4 boxes, reads of 1, 3 or 40 bytes |
| `media_bind` | Is the wildcard bound only with consent, is the prompt neither lost nor doubled (`PromptInv`), where is the listener after a rebind, what does Play advertise, does the supervisor ever hang? | 2 interfaces, 2 ports, 2 queued commands each way, the server may end |
| `screen_pipeline` | Bounded queues, init segment kept, one error (`ScreenInv`); decodable byte stream across restarts; it ends when stopped and when its consumer has gone (`PipelineEnds`). | 2 sizes, 1 change, queues of 1 and 2, channel of 1, 1 failure |
| `screen_follow` | *Violated*, see section 6. | the same with 2 changes and smaller queues |
| `media` | One pipeline, no live stream under another source (`LiveInv`); a switch ends old connections and the old pipeline unless a client stalls (`SwitchEnds`). Is a body the bytes its head promises, neither more nor, at the end, fewer (`ServedAsPromised`); does what is buffered reach the client although the source falls silent (`BufferedReaches`)? | 2 connections, 2 pipelines, 2 switches; resources of up to 3 bytes that change twice, chunks of 2, buffer of 2 |
| `shutdown` | When the supervisor ends no task and no held pipeline is left running and every replaced one has been told to stop; the server is told before the cast task (`LifecycleInv`); the program exits (`ExitCompletes`). A capture through the portal keeps nothing acquired and reports at most one error (`NothingAcquired`); a stop of it is answered. | 2 queued commands, 3 displays selected in turn; 2 formats, 2 renegotiations |
| `lifecycle_replaced` | *Violated*, see section 6. | 1 queued command, 2 displays |
| `discovery` | List equals table (`TableInv`), nothing is listed that does not exist (`ListedExist`), a single loss is forgiven, what is gone expires. | 2 instances on 2 hosts, 3 cycles, packets with records missing, of two receivers, late and repeated |
| `tls` | The store is never torn and remembered while running (`StoreInv`), a pin on file is kept (`PinKept`); every open socket has an owner (`SocketsOwned`), a connection in use is pinned or the user was warned (`TrustedOrWarned`), callers and workers end (`HandshakesEnd`). | 2 receivers, 2 fingerprints, 2 workers alive at once |
| `dashboard` | With all events delivered the window shows the session and the list there are; playback is shown only with its connection; a LOAD goes to the receiver picked when Play was clicked (`DesktopInv`). The copies of the volume settle on the receiver's setting; the last slider position wins. | 2 receivers, 2 picks, 1 Play, 2 upsets, 1 list; 2 levels, 2 moves, 1 mute, 1 foreign change |

**Bounds.** Every bound is a constant named as such. Two receivers allow an
old and a new selection, two transports an old and a new session, two reconnects
a failed attempt followed by another; the proofs of section 5 cover larger values
where it matters most. Two workers are one that was given up and one in use; three displays are two
replaced pipelines, one of which may have ended, and one that is held; the
streams are long enough for a read to end in each part of a header and to bring
two frames at once. Queues of length one or two already
reach "full", "empty" and, for the drop-oldest queues, eviction of each kind of
segment. `MaxRetries`, `MissedCycles` and the queue capacities are parameters
of the code as well: five reconnects, three cycles, two frames, eight segments in
the output queue and eight in the channel. `MissedCycles` is checked at its own
value, the others at the smallest values that tell first, last and middle apart;
in `screen_pipeline` the first failed capture already ends the capture thread (a
failure below the limit only returns to the next frame; `PipelineSafe` is proved
for any limit). The wrap of `u32` needs only an id
space larger than the pending map.

`MCConnection` has an action constraint, `BusyIsBrief`: between two selects the
task only re-enters the select, and only the token's trigger is interleaved with
that step, since every other step commutes with it. `connection_live` and the
proofs do without it.

**Deadlock** is not checked where a finished system simply stops (the task has
ended, the bounds are spent); that it does not stop too early is what the
liveness properties say. `tls` runs with it.

**Fairness.** Weak fairness on threads and tasks that have work: the operating
system and Tokio run them. Strong fairness only on branches of a `select!`:
Tokio polls them in random order, so a branch ready in infinitely many rounds
is taken. Timers that are armed elapse; a reader looks at the token and its
socket at every poll interval; the request head is read or times out; ffmpeg's
stdout reaches EOF once it is dead, and it dies of the SIGKILL after the grace
period. `shutdown` takes a pipeline that was told to stop to end, which is
`PipelineEnds` of `screen_pipeline`. A handshake worker's deadline passes, and it notices by the end of the
socket operation it is in, each of which has a timeout. A task that copies a body
gets an answer to each read of a file, and its flush timer fires; the origin of a
URL and the encoder may stay silent for ever. Nothing is assumed of users, of remote receivers, of a stalled client or
of the share dialog. `dashboard` assumes that the user does not hold the slider for ever
and that the receiver answers a SET_VOLUME; `shutdown` that the portal
answers the calls that need no user.

## 4. Abstractions that matter

- JSON, rustls, the bytes of DNS packets and HTTP heads are replaced by the decision
  taken from them; a DNS packet that does not parse is a lost one.
- `CastWire` is scaled: a byte has four bits of which a varint carries three, `u64`
  seven bits, `u32` three, the length prefix two bytes. The ratios that matter are
  kept: the last byte of a varint has one bit that counts, the limit of a frame can
  be reached and exceeded, field numbers fit. As in the code a field may be as long
  as a frame, so that only a malformed message exceeds the limit of a field; what
  receivers send in `ByteStreams` is well formed up to the length of a frame.
- In `Segmenter` a header is three elements and a large one five, so that a read can
  end between size, kind and the rest; sizes count elements.
- In `MediaBody` a byte is its offset and a response head one unit. An SMB read is
  short only at the end of the file, as `read_at` is used.
- Clock values are replaced by "may elapse"; in `RequestId` and `Discovery`, where
  counts matter, by ticks.
- A handler of the connection task is one step. Its awaits are socket writes; what
  others do meanwhile is appending to a channel, which commutes with the handler,
  and triggering the token, which is modelled.
- The exceptions named inside properties (`late["mdns"]`, `stalled[c]`, `Launching`,
  `Encode`, `mutes = 0`) are cases where the code does not do what a document says;
  section 6 has each of them. The property holds in all other cases.

## 5. Proofs

TLAPS checks these for every value of the constants that satisfies the `ASSUME`
of the module (sentinels are not members of the data sets, bounds are naturals).

- **`SessionSafe`, and from it `TypeCorrect`, `SelectionKept`, `NoLeak`,
  `AppKnownWhenReady`** (`ConnectionProofs`). None of the single invariants is
  inductive. That the session is with the selected receiver needs that no
  reconnect is scheduled while there is one; that needs that a session's end goes
  through `connection_lost` or teardown, which needs that the frame channel and
  the timers belong to it (`LiveSessionIsWatched`), and dispatching the queued
  LOAD needs `QueuedLoadAwaitsLaunch` to know that the ids are there. `SessionInv`
  is their conjunction with `NoSessionIsEmpty` and `ReconnectBudget`. The proof
  gives the two shapes a handler can leave behind (`Down`, `Up(d)`) a lemma each,
  then one lemma per branch of the select. `SelectionKept`, `NoLeak` and
  `AppKnownWhenReady` state the parts of `SessionInv` a user depends on.
- **`TaskImplementsLink`**: each step is a step of `ReceiverLink` or leaves its
  variables alone, under `SessionInv`. Losing the session maps to `Lose`, a failed
  last attempt to `GiveUp`, and so on.
- **`ExhaustionIsEarned`, `BackendIsTold`, `LoadNotLost`**: what the handlers emit
  and what they do to a LOAD, one lemma per handler, under `SessionInv`. An
  event sequence is split into the part a teardown contributes and the part its
  caller does; the lemmas say of each that it is silent about the session or tells
  of it once (`Tells`).
- **`RequestIdType`, `NoReuse`** (`ConnectionProofs`): ids stay in `1..MaxId`, and
  whoever waits for an id stays its owner; the second needs that `Allocates`
  excludes the pending ones, whatever the counter has wrapped to.
- **`StaleRepliesAreFar`**: `RoundInv` says that of the ids between a request's
  and the counter each was handed out since or is one of the few skipped. To come
  back to the id the counter has to pass all others; counting them
  (`FullRound`) gives the `MaxId - MaxPending + 1` requests of
  `MisattributionNeedsWrap`.
- **`ConsentFirst`** (`MediaBindProofs`): `ConsentInv` follows the consent through
  the places it can be in: the answer in the command channel, the supervisor's
  flag, the queued SetBindAddr, the address SetPort would reuse, the listener.
- **`QuestionAccounted`, `RebindsFollow`, `AdvertsListen`**: `Question` counts the
  event, the modal and the answer as one; `Rebind` follows an address from the
  supervisor through the queue to the listener and the acknowledgement.
- **`PinsRemembered`, `PinsKept`** (`WireProofs`): `IInv` says that the map in
  memory extends the file and that what is about to be renamed is that map; hence
  a rename can only add. `StoreInv`, which `PinsRemembered` proves, follows.
- **`TlsUsesStore`, `TlsKeepsPins`, `SocketsAreOwned`, `ConnectionsAreTrusted`**:
  each step of `TlsConnect` is a step of `TofuStore` or leaves the pins alone, so
  the two theorems above carry over. `Ownership` gives every open socket the worker,
  result or caller that will close it, for any number of workers; `Trust` relates the
  certificate of the connection to pin and warning.
- **`ShutdownInOrder`** (`LifecycleProofs`): `Awaited` says what each await of the
  supervisor has left behind, `CastLast` why the cast task cannot have been told
  earlier. `Held` says that of all pipelines started so far only the one in
  `screen` can be running without having been told to stop; it survives a
  replacement because the old one is stopped in the step that lets go of it, and
  it is what makes the join of one pipeline enough. For any number of displays.
- **`NothingStaysAcquired`**: `PortalIInv` bounds what the capture thread
  has reported and says that there is none before the portal has given its remote;
  each way the controller ends then joins it or never had it, and a session that
  got as far as a thread is closed by a call.
- **`ListFollowsTable`, `ListedReceiversExist`, `LossesAreForgiven`**
  (`DiscoveryProofs`): for any packets. The second needs that the last SRV and the
  last A record of a name are of one receiver whatever is joined to them in the
  packet; "last" exists because a bounded set of numbers has a greatest element.
- **`PipelineSafe`, `StreamDecodes`** (`ScreenPipelineProofs`), for any capacities,
  sizes and changes. `Restarts` pays every restart with a change of the monitor's;
  `Readers`, `Queued`, `Forwarding` and `InitFirst` say what can lie between reader
  and channel while generations change. `DecodableStream` follows step by step.
- **`LiveSafe`** (`MediaProofs`): a receiver is attached by the command right
  behind the SetSource of the screen (`AttachFollows`), and what the supervisor
  remembers is what runs (`Remembered`).
- **`ResponsesKeepPromise`**: for resources, ranges, chunks and buffers of any size.
  `BodyIInv` has what a response in each of its phases has sent and still owes, for
  a file (which may change meanwhile), a stream and an error answer.
- **`DesktopSafe`** (`DesktopProofs`): what is shown is as old as the events in two
  channels. `SessionShown` says that these lead from the connection shown to the one
  there is and that each status comes with a connection, `SelectionShown` and
  `ListShown` that the last event that selects or lists is the right one.
  `ClicksFollow` says of each click on its way, in either queue of commands, that it is
  for the receiver that the last selection before it names. A frame applies any
  number of events: what it leaves is proved by a set induction along the
  channel (`Climb`, from the well-foundedness of the subsets of a finite set).

- **`MessagesArriveHolds`** (`WireProofs`): for all texts of the receiver, any limit of a
  frame the scaled varint can count, any number of frames and any sizes of reads.
  `FramesSound` is the inductive invariant: what was handed over and what is
  buffered are together the bytes read so far (`Kept`), every frame of which all
  bytes were read has been handed over (`Done`); after an error no more is handed over
  and a length that no frame has was read (`Lost`). One turn of `push_bytes`
  takes exactly the next frame off such a buffer; that all turns do is an induction
  over their number. That a frame decodes to what was encoded rests on the round
  trip of a varint (by its one, two or three bytes), of a field of each wire type,
  and of a message field by field: `Carries` says of an encoded piece that
  decoding it in front of anything has one effect on the message and leaves the rest.
- **`SegmentsAreWholeHolds`**: for every sequence of bytes an encoder may write, of
  boxes or not, and any sizes of reads. `SegmentsSound` says that the segmenter either
  still runs, and its fields are those that the boxes read so far determine
  (`Tally`) with less than a box pending; or has given up, and has handed over
  the segments up to there and then an end of what was read, unchanged (`Trails`); or
  has finished at EOF. The loop of `feed` is compared with the parse of the
  whole stream turn by turn (`Works`, `CutWorks`): what is pending parses on from
  where the earlier reads left it, so the cuts do not matter. What one more box adds to the
  reference (`FragsNew`, `SegmentsNew`) is a lemma for each of `moof`, `mdat` and the
  others.
- Both inductions, over the turns of a loop and over the boxes of a stream, are set
  inductions as in `DesktopSafe`: the set of the turns that leave the claim true is all of
  them. `FramesSound` and `SegmentsSound` quantify over all sequences of bytes, so TLC
  checks the two properties they imply and not the invariants themselves.

`LossForgiven`, `NothingAcquired`, `DecodableStream`, `PinKept`,
`NoReuseWhilePending`, `EventsTellSession`, `LoadIsKept`, `RebindFollowsReceiver`,
`AdvertisesListeningPort` and `ImplementsLink` are about
steps; the theorems prove them from the invariant that goes with each.

Every invariant and action property of a passing run has its theorem. Only
model-checked: the liveness properties, `ImplementsFairLink` among them (the prover
does not do fairness).

## 6. Where code and documents disagree

With a run:

- `screen_follow` (`EncoderFollowsScreen`). `controller.rs:276` clears the resolution
  request after a restart that takes seconds. In the run the resolution changes
  twice: the controller restarts ffmpeg for the first change, the second is captured
  and written to the slot during that restart, and the clear erases it. The capture
  thread asks only once per size, so ffmpeg keeps the size of the first change although
  `specs/05-screen-capture.md:52` says it SHALL be restarted. The property speaks of
  the time after a restart (`gen > 1`): a first change can be erased as well, between
  the read of a request equal to the running size and its clear, but that window
  is a few instructions.
- `lifecycle_replaced` (`EverythingReaped`). `runtime.rs:195` joins a replaced pipeline
  in a `spawn_blocking` whose handle is dropped, and the coordinated shutdown joins
  only the one in `screen`. In the run two displays are selected, the window closes,
  and the supervisor ends while the first pipeline is still running down.
  `runtime.rs:101-102` says that `Backend::shutdown` waits for it with "capture thread
  joined, `ffmpeg` reaped". What is left is the drain of the runtime, 5 s
  (`runtime.rs:30`, `112`), no longer than the grace period ffmpeg alone may take
  (`ffmpeg.rs:15`). `NothingLeftRunning` states what does hold.

### Observations

Met while modelling. Each is an exception named in a property, or behaviour of the
code that the models have, or abstract from, and no property here forbids; none
has a run of its own.

1. `state_machine.rs:858`: the token's branch is enabled only if the token was
   unset at entry to the select; a trigger during a handler is never seen (line
   689: runs until "the `Shutdown` token"). The supervisor's own Shutdown command
   still ends the task.
2. `namespaces.rs:325`: without the Default Media Receiver in the status the first
   application is taken, so another client's is reported Ready
   (`specs/03-cast-engine.md:264`: "the matching application entry").
3. `state_machine.rs:421`: PLAY, PAUSE and STOP go out without the CONNECT to the
   media destination that `specs/03-cast-engine.md:272` asks for.
4. `state_machine.rs:415`: a LOAD during Launching is dropped; `connection/mod.rs:84`
   says it is queued. Exception of `LoadIsKept`.
5. `server.rs:303`: a failed SetBindAddr drops the listener and leaves `bound_port`;
   Play then advertises a port nobody serves (`server.rs:83`).
   `AdvertisesListeningPort` therefore speaks of the time something listens.
6. `server.rs:283`: SetPort can create a listener after a failed SetBindAddr
   (`server.rs:162-164`, `specs/04-media-proxy.md:36-37`: it cannot).
7. `controller.rs:309`: frames queued before a restart are fed to the encoder of
   the new size (`specs/05-screen-capture.md:51`).
8. `server.rs:574`: an ended stream's receiver overwrites one attached meanwhile
   (comment at 568-572: "a stale receiver must not be recycled").
9. `server.rs:333`: a connection older than the attach takes the new stream, aborts
   and drops it (`server.rs:154-155`: "served to the next `/stream` request").
10. `server.rs:652`: a client that stops reading is not ended by a switch
    (`server.rs:148-149`). Exception of `SwitchEnds`.
11. `mdns.rs:172`: the task subscribes when it first runs; after a trigger it never
    hears of it and the exit waits for it (`util/shutdown.rs:29-30`). Exception of `ExitCompletes`.
12. `runtime.rs:108`: the token reaches all tasks at once, so the cast session may
    be torn down before the server stops (`runtime.rs:494-497`). `ServerBeforeCast`
    holds while the token is unset.
13. `runtime.rs:285`: Rescan does not restart a discovery task that ended by itself
    (`specs/06-concurrency.md:96`).
14. `mdns.rs:427`: a device goes after two unanswered query cycles, not three,
    because the tick that sends a query also counts it (`mdns.rs:416-417`,
    `specs/03-cast-engine.md:87`). `LossForgiven` states what does hold.
15. `controller.rs:237`: if the first ffmpeg does not start, the PipeWire capture
    thread is not stopped (`bridge/mod.rs:354`). Exception of `NothingAcquired`.
16. `pipewire.rs:211`: only the first format is reported (`specs/05-screen-capture.md:66`).
17. `runtime.rs:270`: Mute sends the mirrored level, which an older status may have
    overwritten (`app.rs:60-62`: "the last position always wins"). Exception of
    `LastPositionWins`.
18. `segments.rs:157`: once a header cannot be parsed the segmenter passes reads on
    as they come, so a box that a read cuts is cut (`segments.rs:11-13`: "so no box
    can ever be split"). Exception of `SegmentsAreWhole`.
19. `segments.rs:193`: a box between an mdat and the next moof is collected in `init`,
    which after the first moof is never handed out: such boxes are lost.
20. `reader.rs:50`: frames completed by the read that also brings an oversized header
    are dropped with the error. `MessagesArrive` allows for it; the connection ends
    with the error anyway.
21. `proto.rs:166`: the number of a field is cut to 32 bits, so a field whose number
    exceeds that is taken for a known one.
22. `mdns.rs:308`: an answer without its TXT record replaces the friendly name by the
    instance's label and drops the id, so that the pin key changes with the next
    connect (`specs/03-cast-engine.md:109`: "the stable hardware identifier"). The
    TTL of a record is read (`mdns.rs:552`) and not used, so a goodbye is an announcement.
23. `mdns.rs:206`: a list is sent when it has changed. With no receivers none is ever
    sent, and the window stays at Scanning (`specs/02-gui.md:36-37`).
24. `runtime.rs:300`: a Rescan whose bind fails is only logged; the dashboard shows
    Scanning and offers no Retry (`specs/02-gui.md:38`, `specs/06-concurrency.md:96`).
25. `app.rs:238`: an error of the connection task with an empty list is shown as a
    failure of discovery. It leaves the receiver selected, so Play is enabled and
    its LOAD is dropped. A `ReceiverConnected` that was on its way when the user
    picked another receiver replaces the selection shown until the next event; the
    LOAD goes to the receiver picked all the same (`LoadReachesPick`).
26. `smb_source.rs:408`, `url_proxy.rs:191`, `server.rs:586`: an error answer to HEAD
    has a body (`smb_source.rs:248`: "with no body"), and HEAD on the live screen
    sends the stream. The answers of
    `local_file.rs:40` and `server.rs:508` have no Content-Length. A file that
    cannot be opened for another reason than that it is missing ends the connection
    without an answer.
27. `tls.rs:218`: `complete_io` loops over socket operations, so a peer that sends a
    byte at a time keeps the worker beyond "~one op timeout after the deadline"
    (`tls.rs:159-166`). `HandshakesEnd` takes the operations to end.
28. `controller.rs:370-401` and `237`: after an error before the first negotiation, and
    when the first ffmpeg does not start, the portal session is not closed by a call
    but left to dropping the D-Bus client (`controller.rs:352-354`: "Any error
    cleans up what was already acquired (capture thread joined, session closed)"); `PortalCapture` has these sessions as `Dropped`.
29. `smb_source.rs:250-252`: the SMB handle is closed after a response that was sent
    to its end; one that is aborted or loses its client drops it unclosed
    (`specs/04-media-proxy.md:162`: "close the handle when the response ends (success,
    abort, or disconnect)"). `ServedAsPromised` therefore speaks of the handle at the
    end of a response.

## 7. Not modelled

JSON text, MIME types, the syntax of SMB and HTTP URLs, the byte layout of DNS
packets and of X.509 certificates, pixel conversion, the search for ffmpeg,
the window's banners, tabs, file picker and layout, fuzz targets and `xtask`:
conversions, or state that nothing else depends on.

Outside the models' assumptions: a child process that cannot be killed
(`ffmpeg.rs:139` would wait for it), a portal that hangs in CreateSession
(`portal.rs:243`), a reply whose requestId exceeds `u32` (`state_machine.rs:285`
cuts it). Frames carry no size and sessions no record of virtual connections in
the models; both are listed as hazards without a property.

## 8. Plan

The order was: the connection task and its abstract specification (the core of
the program), request ids, consent and binding, the screen pipeline, live serving,
lifecycle, discovery, pins, portal, volume; then the dashboard over `ReceiverLink`,
the byte streams, TLS and the response bodies; then theorems for the safety
properties of all of them. All of that is in place. Next:

1. Refinements beyond `ReceiverLink` and `TofuStore`: an abstract specification of
   the live stream (an append-only sequence of segments, each source at most once)
   that `ScreenPipeline` and `LiveStream` implement together.
2. The three hazards without a property: virtual connections in `Connection`, the
   size of queued frames in `ScreenPipeline`, the end of discovery in `Lifecycle`.
