# Local_LLM_Instrumentation in TLA+

This directory holds a formal model of the program under `src/`: a terminal
dashboard that hooks into a llama.cpp forward pass, sends one event per tensor
operation through a lock-free ring, and shows, records and replays the stream.
The modules are checked with TLC. Proved with TLAPS besides, for every value of the
constants, are the safety properties of every module: the ring, its constructor and the
start, the headless and the dashboard run, the capture hook and the statistics, the
panes and keys, the sidecar, the session file and the event bus.
Paths below are relative to the repository; a number after a file is a line.

## 1. The system

| Part | State | Operations | Talks to |
|---|---|---|---|
| Ring, `src/ring_buffer.hpp` | `buf_`, `head_`, `tail_`, `dropped_` | `push`, `pop`, `size_approx`, `drain`, constructor | one producer thread, one consumer thread, no lock |
| Capture hook, `src/capture/capturer.cpp` | mask, `counter_`, `prev_ns_`, last published layer and rows | `on_eval`, `capture`, `prime` | called by llama.cpp in the forward pass; pushes to the ring, publishes to the sink |
| Attention sink, `src/capture/capturer.hpp` 27-51 | one pending matrix, target layer and head | `publish`, `take` under a mutex; atomic targets | producer publishes, consumer takes and sets the target |
| Producer thread, `src/main.cpp` 227-324 | position in the generation or in the file | `inference_loop`, `replay_loop` | ring, UI state, `alive`, `producer_done` |
| Consumer, `src/main.cpp` 172-215 (dashboard), 509-527 and 560-573 (headless, preview) | `any`, the topology, the detector | drain, hand over, nudge | ring, sink, UI state, recorder, `pending_select` |
| UI state, `src/tui/ui_state.hpp` | stream, topology rows, selection, metrics, matrix, counters, session state | setters and `snapshot` under one mutex | consumer, producer and UI threads |
| Dashboard, `src/tui/app.cpp` | `screen_`, focus, pan, filter | `run`, `request_redraw`, keys | UI state, `on_select_target` |
| Topology, `src/capture/topology.cpp` | tree of layers and op classes, selected layer | `update`, `select`, `flatten`, `classify` | consumer only |
| Statistics, `src/stats.hpp` | none | `compute_stats` | capture hook |
| Anomaly detector, `src/anomaly.cpp` | ledger, nodes already reported | `inspect`, `set_threshold` | consumer |
| Recorder and replay, `src/session/` | the open file and its buffer | `write`, `close`, `next` | consumer; replay thread |
| Sidecar, `src/sidecar/receiver.cpp`, `py_sidecar/` | listening and connected sockets | `run`, `parse_line`; forward hooks that send | a socket; the ring and the sink. `main` does not start it |
| Event bus, `src/event_bus.hpp` | subscribers, pending events, tokens | `subscribe`, `unsubscribe`, `publish`, `enqueue`, `dispatch_pending`, `clear` | nobody yet |
| Start, `src/main.cpp` 89-159 and 415-463, `src/config.cpp` | options | file, flags, early exits, construction of the ring | once, before the threads |
| Summary, flamegraph, bench, panic, log | reductions, terminal | | |

What is hard here is concurrency: three threads (producer, consumer, UI) share
the ring without a lock, the sink and the UI state under mutexes, and four
atomics (`alive`, `producer_done`, `pending_select`, the target layer). An
acquire load may return an old value. Runs end in an order that must not lose
events (headless) nor touch what is gone (dashboard), the ring may be full,
and indices wrap. Then there are two streams that may break off, the socket and
the file, and rows that move under the user's cursor. What makes each part
correct:

- ring: FIFO without loss, repetition or tearing; every refusal is justified
  and counted; the producer never waits;
- headless run: the report covers everything accepted, and comes;
- dashboard run: the user can always quit; nothing is used after it is gone; a
  selection reaches the capture; what the consumer hands over is drawn;
- capture: a latency is time spent in the pass; a richer matrix is not hidden by
  a poorer one;
- statistics: each one is that of the sampled numbers;
- topology, ledgers, stream and keys: the panes tell what the events were, the
  target is the layer the user saw, the view stays on its data;
- sidecar, recorder and replay: an event arrives whole or not at all, in order,
  and both ends come to an end;
- event bus: once to each subscriber of the moment, in order of priority;
- start: the command line wins, and the ring gets a capacity it can work with.

## 2. Modules

| Module | Models | Uses |
|---|---|---|
| `EventChannel` | what a ring promises: a bounded FIFO that may refuse but never loses; `credit` and `visible` say how much each side knows of the other's progress | |
| `SpscRing` | `push`, `pop`, `size_approx`, one action per load, store and half of a copy | `EventChannel` through `INSTANCE`, as its refinement |
| `HeadlessRun` | producer thread, drain loop, sink, `producer_done`, join, report | `EventChannel` |
| `DashboardRun` | producer, consumer and UI thread from start to the recorder's close | `EventChannel` |
| `CaptureHook`, `MCCapture` | `on_eval`, `prime`, the richest-matrix rule and the passes `inference_loop` starts | |
| `Topology` | the tree as operators: `Update`, `Select`, `Flatten`, and the flamegraph's rows | |
| `Panes`, `MCPanes` | what the consumer makes of the events, what `UiState` keeps, and the keys | `Topology` |
| `SidecarLink` | Python sidecar, connection, receiver | `EventChannel` |
| `SessionFile` | recorder, disk, crash, replay | |
| `EventBus` | the bus, threads and handlers that re-enter it | |
| `RingSizing` | the ring's constructor, a rounding loop on a word of `Width` bits | |
| `Startup`, `MCStartup` | command line, file of settings, early exits | `RingSizing` |
| `Stats`, `MCStats` | `compute_stats`, one action per element scanned | |
| `SpscRingProofs` | theorems about the ring, and its refinement | `SpscRing` |
| `MainProofs` | theorems about start and headless run | `Startup`, `HeadlessRun` |
| `DashboardProofs` | theorems about dashboard run and event bus | `DashboardRun`, `EventBus` |
| `CaptureProofs` | theorems about capture hook and statistics | `CaptureHook`, `Stats` |
| `PanesProofs` | theorems about panes, keys and flamegraph | `Panes` |
| `SidecarProofs`, `SessionProofs` | theorems about sidecar and session file | `SidecarLink`, `SessionFile` |
| `SequenceLemmas` | lemmas on numbers, sequences, orders and sums that several proofs need | |

Where a module of proofs extends two specifications, these share no variable, and each
theorem is about one of them.

### SpscRing

Variables with the names of the code's members, without the underscore. `ppc`
and `cpc` say where the two threads are inside `push` and `pop`. The words wrap
at `IndexMod`, and a slot is `index % Cap`, which is the mask when `Cap` is a
power of two. The rest are history: `accepted` and `delivered` (the items, in
order) and `tailRead`, `headRead` (how many pops and pushes precede the index
each side last read).

- *Old values.* An acquire load of the other side's index returns any value
  from the last one read to the newest: `PushSeesFull` and `PushSeesRoom`
  choose `n \in tailRead .. popped`, the consumer `n \in headRead .. pushed`.
  Loads of one's own index are exact.
- *Tearing.* Copying an event into a slot takes two steps, and the slot holds
  `Torn` between them. The copy out of a slot is one step; `NoSlotRace` shows
  that the two copies never overlap.
- `drain` is `pop` in a loop, and `dropped()` and `capacity()` only read, so
  they have no action.

### HeadlessRun and DashboardRun

Both use the channel's operations instead of the ring's steps, which is sound
because `SpscRing` implements the channel (section 5). What a thread knows of
the other's index also grows when it locks the sink's mutex after the other
thread (`popsAtTake`, `pushesAtPublish`) and when it reads `producer_done` after
it was set: the models have exactly the synchronisation the code has, and
`AllRecorded`, `LastAttentionReported` and `AttentionDrawn` depend on it.

In `HeadlessRun`, `mode` is chosen at the start: `live` (capture, drop on a full
ring) or `replay` (retry on a full ring). `CaptureOp` and `Publish` are
`Capturer::capture` up to its push; `SeesRunning`, `SeesDone` and `ChecksSize`
are the two operands of the loop's condition (main.cpp 509), in their order.
The preview (557-589) drains in the same way and adds only drawing.

In `DashboardRun` the consumer's turn is `TestAlive`, `TakeSelection`, ... ,
`PostRedraw`, one action per access to something another thread touches. The
screen is `none`, `up` or `gone`; `nudged` is an event waiting in its loop, and
`frame` what was last drawn. A key is Space on a topology row (`PressSpace`), q
(`Quit`) or any other, which only makes a frame (`PressKey`). FTXUI itself is
modelled from its use: it draws once at the start, after each key and after each
posted event.

### CaptureHook

The clock counts nanoseconds, `NsPerUs` of which make the microsecond that a
latency is given in. `Decode` cuts a batch into passes of `UBatch` tokens, as
llama_decode does, and primes the clock; `Capture` stamps an op, and
`OfferMatrix` applies the richest-matrix rule to what a softmax op of the target
layer shows. What happens to the event afterwards is in the run modules.

### Topology and Panes

`Panes` has the consumer's turn (`BeginTurn`, `HandleEvent`, `InspectEvent`,
`EndDrain`, `RefreshUi`) with all it does to the tree, the detector and UiState,
and one action per key of `App::run`. The flamegraph's stable sort is given by its result
too: rows of the same latency stay as they were. A handler that takes several snapshots
takes several steps: Space reads the cursor in `PressSpace`, the number of rows in
`CheckSize`, and looks the row up in a later snapshot in `ResolveRow`; j and k read the
cursor in `MoveCursor` and set it in `SetCursor`. `seen` is what the last frame showed:
its rows, and which was highlighted.
An event is its layer, class, latency and the signs the anomaly rules test.
`DashboardRun` has the same consumer with its synchronisation and no content;
`Panes` has the content and no ring.

### SidecarLink

`wire` holds the lines in the connection's buffers, the last of which may be
broken off. `SendLine` needs room on the wire, `LoseLine` is a send that fails
once the receiver is gone and is ignored, and `Die` ends the process at any
point, inside a line too. The receiver's steps are its system calls and its
handling of one line. Whether a sink has been set is chosen at the start (`wired`);
without one no matrix is extracted. That a matrix line fails to parse or to
extract (receiver.cpp 205-223, 408) is no branch of the model: the sidecar writes a whole
line with one JSON serializer, its weights from the very array whose dimensions it gives as
rows and columns (sidecar.py 249-268); a tensor of another rank raises in the hook,
which ends the process (`Die`). A line that is broken off is dropped with the connection
before it comes to the parser. `main` starts no receiver: who pops, selects and clears
`alive` is external, and free to act as its counterpart in a dashboard run does.

### SessionFile

A record is `NParts` parts: fields of a line, or pieces of the binary struct. The
stream keeps parts in a buffer and spills them to a disk of any size; a crash
loses the buffer. Replay reads what is on the disk by the rules of each format.

### EventBus

Each method is one step, since it holds the lock; `publish` and
`dispatch_pending` leave the deliveries they have copied on the thread's stack
(`calls`), from which `CallNext` takes one at a time. Inside a handler a thread may
start any other method, up to `MaxDepth` calls deep. The two sorts of a dispatch are
given by their result: no two events and no two subscriptions compare equal, so that
there is one sorted sequence.

### Startup

main leaves the start in one of four ways: it exits before there is a ring (`ExitEarly`),
or the constructor has made the ring (`ConstructRing`, then `SizeRing`), or it has
thrown because the buffer cannot be allocated (`AllocateFails`), or it never returns. A
benchmark goes through the constructor twice, for a run without the hook and one
with it (`BenchAgain`), and exits (`EndBench`).

One knob stands for all the settings: `--ring-capacity`, which has a key in the
file, a flag and a use that can go wrong. `--replay` stands for the options with
a word, `Flags` for those without a value.

### Stats and RingSizing

`Stats` scans an arbitrary short sequence over a set of finite values, two
infinities and NaN. `sum`, `sumsq` and `count` stand for the mean, the deviation
and the norm. `RingSizing` starts from the capacity `Startup` leaves it; since how many
events there is memory for is not known, any allocation may fail.

## 3. Runs

| Run | Checks | Bounds |
|---|---|---|
| `ring` | no race on a slot, FIFO without tearing, counters, honest refusals, `ChannelSpec`, `PushReturns`, `Delivery` | 2 slots, 2-bit indices, 10 pushes: the indices wrap twice and every offset of head and tail occurs |
| `headless` | totals, order, last matrix, termination | 2 slots, 5 ops, 3 refusals: the ring fills and drains more than once |
| `dashboard` | drop counter, nothing used after the end, quitting, events and matrices drawn, selections take effect | 1 slot, 2 ops on 2 layers, 2 refusals, 2 presses, any initial target, live and replay: a second press can come while the first is applied |
| `capture` | latencies, richest matrix | a prompt of 5 tokens in passes of 3 and 2, 3 tokens generated, 3 selections; 3 ops, one masked off; each op and pause takes from 1 to 3 nanoseconds, 3 of which make a microsecond |
| `panes` | panes tell the events, flamegraph, view inside the data | 3 events of 5 ops (two layers, two buckets without one), caps 1 or 2, which overflow; 5 keys (focus, pan, filter), a 1x6 and a 5x5 matrix through a window of 2x4: larger, smaller and offset |
| `selection` | mark, rows, when Space goes wrong, cursor | 3 events of the same ops, 4 keys, so that two rows can be selected one after the other: rows appear above, below and at the cursor |
| `sidecar` | lines as sent, sink and target, both ends end | 2 hook threads, 3 lines, 2 in the connection, 1 slot, 1 selection, either end gone at any step |
| `session` | replayed as recorded, nothing lost if closed | 5 events of 3 parts, a buffer of 7 that ends inside a record, disks of 0 to 17 parts, which end at every place of a record |
| `bus` | once to each subscriber, order | 2 threads, 3 subscriptions, 2 events, 2 priorities, one call inside a handler |
| `startup` | usable capacity, command line wins, start ends | all command lines of up to 5 arguments out of a model, a capacity of half the range and one of -1, the options and two flags, all values in the file, a 4-bit word, requests over its whole range |
| `dashboard_recording` | `RecordingComplete`, refuted | as `dashboard`, live, one layer, no selection |
| `stats` | the reductions | up to 5 elements over {-1, 0, 2, both infinities, NaN}, scan limit 0 to 3 |

Every bound (`MaxPush`, `MaxOps`, `MaxRefusals`, `MaxPresses`, `MaxElements`,
`MaxScans`, `MaxRequest`, `MaxEvents`, `MaxKeys`, `MaxLines`, `MaxSelects`,
`MaxTokens`, `MaxDepth`, `MaxPause`, `MaxArgs`, `NEvents`, `WireCap`) is a constant that
guards the action it limits; `MaxTokens` of `CaptureHook` is the program's own
`--max-tokens`. One slot is the ring at its tightest: it alternates
between full and empty, and each refusal is then due to an old index or to a
full ring. Two slots also have the half-full ring and distinct slots. A counter
that only grows is bounded by the run's length, and nothing in the code compares
it with a limit the bound could hide. The caps of the panes and the sizes of the
window, in the code 500, 200, 1000 and 10 rows and the like, are constants of the
model, and small values put every overflow within reach.

What the properties say is with each of them in the modules. Five need a word:

- `WrongOnlyByRowAbove` says when Space goes wrong (main.cpp 596): if the user presses
  it with the cursor where the last frame showed it and another layer than the
  highlighted one becomes the target, then a row that was not on the screen has come at
  or above the cursor's place. Rows that come below do no harm, and neither do the
  three snapshots on the way.
- `StartEnds` says that main gets out of the ring's constructor, with a ring or with a
  failed allocation, unless more than half the range of a word is asked for, and that
  it stays in the constructor's loop if so.
- `RichestPublished` compares with the matrices since the last one of another layer: by
  the code's own comment a new layer always wins, so for a user who comes back to a layer
  after one of another was published the rule starts anew.
- `SinkFollowsTarget` leaves one line free, the one under way when the selection
  changes (receiver.cpp 416).
- `NothingLostIfClosed` speaks of a disk with room. On a full one the recorder
  stops silently, which is a finding.

One run looks for a statement of a document and finds it broken:
`dashboard_recording` (ABOUT.md 211, recording writes every event that passes
through the ring): after q the consumer leaves without draining, and the last
events are missing from the file.

Two other statements fail under a condition, and the property says which one, with nothing
else left out:

- "capacity is rounded up to a power of two" (ring_buffer.hpp 19): with
  `--ring-capacity -1`, which strtoull reads as the largest number, the loop
  doubles its bit out of the word and goes on for ever (`StartEnds`).
- Space sets the selected layer as the target (README.md 67, app.hpp 6): only an index
  goes from the screen to the target, and a row inserted above, of an op of the layer
  before for example, makes it another layer's (`WrongOnlyByRowAbove`).

The other disagreements between the code and what it says of itself were met
while modelling; PROJECT.json quotes each one. Those that a user would notice:

- `request_redraw` is called thread-safe (app.hpp 34), but the screen can be
  destroyed between the test of `screen_` and the post (app.cpp 547);
- p and s pause and step nothing, as `main` attaches no controller (app.cpp 614);
- the header's drop counter and session state can change without a redraw;
- in a tensor that starts with NaN the extremes are NaN (stats.hpp 24);
  `ExtremesOfSample` holds for the others;
- capital F resets the attention view as f does, and does not fill the screen;
- fewer than two times `max_scan` elements are scanned, not at most `max_scan`;
- in a replay the drop counter counts the retries of events that are not lost;
- the flags for the sidecar in the README do not exist, and no receiver is started;
- `--print-config` shows the file's settings, not the effective ones, and
  `--config` is found even where it is the value of another option;
- the receiver blocks in `accept` and `read` without looking at `alive`
  (receiver.cpp 377), takes malformed text for an event as far as it
  goes, and treats the target -1 as
  "every layer" where the sink's comment says "nothing";
- the sidecar's events of modules inside a layer carry no layer (sidecar.py 117).

Deadlock is checked on the ring, where pop can always find the ring empty. All
other models end (runs, files, connections) or may fall silent (nobody presses a
key), so their configurations switch the check off; `Termination`, `QuitEnds`,
`EndsWithPeer` and `StartEnds` say that they end where they should.

## 4. Fairness

- Ring: a push that has begun goes on (`ProducerFairness`), because inference
  runs on that thread; nothing is assumed of the consumer for `PushReturns`.
  `Delivery` assumes `ConsumerFairness`: the consumer polls, and a store becomes
  visible to the other thread in finite time, so `WF` on `PopSeesItem`.
- Headless: each thread runs (`WF`), and an event that is in the ring is in the
  end seen by a consumer that polls again and again (`SF_vars(PopEvent)`:
  between polls the action is disabled).
- Dashboard: each thread runs, including the UI thread's drawing of a frame it
  was asked for. Nothing is assumed of the user: no fairness for keys. A push
  that is tried again and again sees the room there is (`SF` on `PushAccepted`).
- Sidecar: the receiver runs, and so do the sidecar's main thread and each hook
  thread; whoever waits in a system call goes on once it can return. Nobody has
  to connect, to die, to select or to stop, and nobody has to pop.
- Start: main runs.

The other modules have safety properties only.

## 5. Proofs

The theorems about the ring hold for every `Cap`, `IndexMod`, `MaxPush` and
`Torn` that satisfy `RingAssumption` and `TornAssumption`: the capacity divides the range of
a word and is at least two smaller than it. That is what the constructor delivers, as
`StartUsableCapacity` proves below.

*Inductive invariant* (`RingInv` in `SpscRingProofs`). None of the properties is
inductive alone, because the code only sees wrapped words. `RingInv` adds:
head and tail are the numbers of pushes and pops modulo the word; `popped <=
pushed <= tailRead + Cap` with `tailRead <= popped`, and one less while a push
is past its test, so that the slot being written belongs to no unread item;
`popped <= headRead <= pushed`, strictly below while a pop is past its test; the
content of the slots of unread items, of the slot being written and of `out`;
and the count of drops. The heart is arithmetic: the difference of two words is
the difference of the counts because the latter is smaller than the word
(`ModDiff`), and two indices fewer than `Cap` apart lie in different slots
(`ModApart`).

The proof has one step per action under a lemma per group of conjuncts, and each
property follows from `RingInv`: `RingTypeOK`, `RingNoSlotRace`,
`RingFifoIntegrity`, `RingUnreadKept`, `RingAccounting`, `RingHonestRefusal`,
`RingSizeIsCount`.

*Refinement* (also in `SpscRingProofs`). `RingImplementsChannel` proves
`Spec => ChannelSpec`: each step of `push` and `pop` is a step of the channel
under the mapping at the end of `SpscRing`, or changes nothing of it.
`PushPublish` is `Accept`, `PushDrop` is `Refuse`, `PopRelease` is `Take`, and
each load is the channel's learning step. It uses `RingInv`.

*Start* (`MainProofs`). For words of any width from two bits on, any files, and command
lines of any words and any length; of a word it is assumed only that it is not the name of
an option (`StartupAssumption`). `StartUsableCapacity` rests on `SizingInv`: `cap` is the
power of two all of whose predecessors were too small, or the loop has lost its bit and
never ends. For `StartCommandLineWins` the program reads the command line twice, and in two
ways: once for `--config` wherever it stands, once option by option. `BeginsDefined` says
that the places where options begin are well defined; `AtOption` that `apply_cli` is
always at one of them, never at the value of an option; `CapacityTaken` that what it has taken is
the last capacity given so far, else that of the file, which `FileNamed` says is the one
the last `--config` names. On command lines that do not give `--config` as a value the two
readings agree (`SameName`). The property leaves out the others, and those that break off
after an option.

*Headless run* (`MainProofs`). The theorems hold for every `Cap` of at least
1, every `MaxOps` and every `MaxRefusals`. `HeadlessInv` joins six facts to the
types. `InOrder` and `OpsTally` say where every op is: popped, in the ring, dropped
for good, or in the producer's hand. `DrainProgress` follows the end of main's loop:
once main has read `producer_done`, its view of the ring is exact, so that an empty
ring is empty for ever. `SinkKept` says that a matrix is lost only to a later one.
The delicate one is `PendingMeansEvent`, with `TakeFollowsPops`: main never asks
whether the sink is empty, so a pending matrix must be announced by an event main
has yet to pop, or has popped since its last take. That event could be refused, but
not by a ring the producer knows to be empty, and the sink's mutex has just told it
of main's pops. The theorems are `HeadlessTypeOK`, `HeadlessAllRecorded`,
`HeadlessTotalsAddUp` and `HeadlessLastAttention`.

*Dashboard run* (`DashboardProofs`). For every `Cap`, `NLayers`, `MaxOps`, `MaxRefusals`
and `MaxPresses`. `DashboardInv` adds to the tally of drops that a live run never
retries (`LiveNeverRetries`), without which an op could be counted twice, and to
the end of main that each join has seen its thread exit (`JoinsSeen`). From the
former `DashboardDropped` follows, from the latter that no action of any thread
is enabled after the close (`ClosedIsQuiet`), and with it `DashboardClosed`.

*Event bus* (`DashboardProofs`). For any number of threads, subscriptions and events, any
priorities, and calls inside calls of any depth. `BusInv` follows each pair of an event and
a handler that is owed it: the pair is in one call of one thread, at one place
(`InOneHand`), or has been delivered, once (`Delivered`). That a later call does not owe it
again needs that the event has left the queue (`OwedBefore`) and that no number is given
twice (`Numbered`), also when handlers subscribe, publish and dispatch meanwhile.
`CallsInOrder` says of each call that what it has delivered, followed by what it has to
deliver, is in order and was known when it began. The steps rest on `OrderedIs`, that the
sorted sequence exists and holds the same elements, and `NewCallIs`, that the loops over
events and handlers make each pair once and in order. The theorems are
`BusOnceToEachSubscriber` and `BusOrderedAndBounded`.

*Sidecar* (`SidecarProofs`). For every number of threads, layers, heads and lines, and
any room on the connection and in the ring, `SidecarLinesAsSent`. The property speaks
of what has been handled; `SidecarInv` is about what is still on its way. The "ready"
line can only be first on the wire, and no whole line of a hook is behind a "done" line
or one that was cut (`Ordering`); so a whole line of a hook is numbered by its place on
the wire, counted from the lines the receiver has read (`Numbered`). While the sidecar
generates, nothing on the wire is cut and the count is exact (`WhileGenerating`), so
the next line sent gets the right number. `WireGrows` and `WireShrinks` carry this over a
line sent and a line read; the steps that do neither are `Quiet`. For
`SidecarSinkFollowsTarget`, `SinkInv` adds that a matrix is published only by the line
under way and only for a target that was selected while it was handled (`wanted`).

*Capture hook* (`CaptureProofs`). For every graph of ops, mask, prompt, batch size and length
of pauses. `RichestPublished` speaks of the whole history of matrices, and the code remembers
one of them: the last published, which is of the layer of the last one built
(`LastIsOne`). `LatencyIsTimeInPass` needs that the clock of the op before is set exactly when
the pass has captured one (`ClockOfPass`), and what division by `NsPerUs` cuts off
(`CutTime`). The theorems are `CaptureLatency` and `CaptureRichestPublished`.

*Statistics* (also in `CaptureProofs`). For tensors of any length, any `max_scan`, and any
finite set of numbers as elements (a float has finitely many values; infinities are the
numbers beyond them). Between two turns of the loop the accumulators are those of the
sampled elements before its index (`SampleTold`): sums, counts and flags exactly, the extremes
if the first element was a number. `SeenGrows` says that a turn adds one element to those,
and `SumAdds` what that adds to a sum over a set. `StatsSums`, `StatsExtremes` and
`StatsBounded` follow; the last one is the arithmetic of the stride.

*Panes and keys* (`PanesProofs`). For every number of layers, classes, events and keys, all
caps and sizes of the window. The consumer's tree is newer than the list the user sees, and
the list than the frame, so that everything about rows rests on how a list follows from
an older one. `TouchOpKeeps` and `UpdateKeeps` say that an event inserts nodes and moves
none; `FlattenEmbeds` that the list of the old tree is then embedded in that of the new
one, in order; `FlattenInjective` that no two rows have the same key, so that a row is
found again by its key. The invariant `PanesInv` adds that the ops in a bucket have the
bucket's layer (`TreeHoldsItsOps`), that the list and the frame are embedded in what the
tree gives now (`ListsLagBehind`), that the cursor is on the list, and that the marks are
where the user put them (`MarksAreChosen`). The theorems are `PanesRowsOnlyInserted`,
`PanesWrongOnlyByRowAbove`, `PanesMarkFollowsTarget` and `PanesViewWithinData`.
For `PanesWrongOnlyByRowAbove` a count decides (`EmbedsPrefix`): if the first rows of the
list as it is now were all on the screen, they are as many rows of the older list that it
embeds, in the same order, so the row at the cursor's place is the one that was there.

`PanesEventsTold` compares the tree, the stream and both ledgers with all the events there
were. Its invariant `EventsTold` says more than the property in three places: a bucket or op
that is not in the tree had no event with latency yet (`TreeTells`), without which the node
inserted next could start at the wrong sum; the detector has seen the nodes of exactly the
events it inspected (`LedgersTell`); and between the update of the tree and the inspection
the ledgers lag the tree by the event in hand. `EventIsCounted` shows that `update` adds an
event to one bucket and one op row and to no other, whether it finds them or inserts them;
`LedgerAdds` that a ledger cut to its cap after every event is the end of the list that was
never cut.

`PanesFlamesAreSlowest` is about every tree, not only those a run reaches, and needs the
types alone: `FlameOrderIs` says that the sorted order exists and holds exactly the buckets
with a latency, `FlameRowsShow` that cutting it off leaves none that is slower than one
shown, and `BarFits` that a bar has from 1 to 24 cells, the first one all of them.

*Session file* (`SessionProofs`). For every number of events and of parts, every disk, and
every buffer a record fits into (an `ofstream` buffers thousands of bytes, a record has a
few hundred). A part stands where its event and number say (`Placed`), in the file and
then in the buffer; every spill keeps this (`SpillKeeps`), with nothing missing unless
the disk was full or the process died (`StreamKept`). A replay is at the end of a record
or at the end of a cut text file (`AtRecord`); what it finds there is then a matter of
division with remainder (`PartFound`). The theorems are `SessionReplayedAsRecorded` and
`SessionNothingLost`.

*Lemmas* (`SequenceLemmas`). The library's induction theorems take an operator, which the
provers cannot instantiate. `Induction` states induction for a *set* of numbers instead,
and follows from the well-foundedness of finite sets under inclusion. With it follows what
the recursive function in `FlattenSeq` returns (`Flattened`, `PartsCover`) and what two
nested loops do (`NestedLoops`); what the powers of two of `RingSizing` are; that a function
defined by recursion on a number exists (`Recursion`; cited for the sums and reports that
`PanesTellTheEvents` compares with, and for the places of `Startup`); that a finite set can
be put in any total order (`Sortable`, `Listed`) and has extremes (`ExtremesOf`); and that a
sum over a finite set does not depend on the order it is taken in (`SumsAnyOrder`), so that
it grows by the number added (`SumAdds`).

The type invariants of the ring and of the headless run, and that unread items
stay in their slots (`RingUnreadKept`), are proved and not run again.

Only model-checked are the liveness properties, which this prover does not reach:
`Delivery`, `PushReturns`, `Termination`, `QuitEnds`, `EventsDrawn`, `AttentionDrawn`,
`SelectionTakesEffect`, `EndsWithPeer` and the first half of `StartEnds` (its second half is
`StartTooLargeLoops`). Every other property of a passing
run is proved for all values of the constants.

That the runs may use the channel in place of the ring rests on `RingImplementsChannel`.

## 6. Not modelled, assumptions, plan

Not modelled, and why:

- `classify()` and the sidecar's `classify_name`: a search for fixed words in a
  name. An event has its class, and for the sidecar also what becomes of its layer
  (findings).
- `parse_line` on malformed text, and how a field is spelt in a file: a line is
  whole or broken off. The replay of a text file that breaks off inside a line
  returns the fields before the cut.
- the second `close` of the receiver's descriptor (receiver.cpp 382): it concerns
  other parts of the process that have opened something meanwhile.
- tensor arithmetic (`build_attention`, the averaging over heads) and the devices
  tensors live on; `sidecar_tf.py`, which differs in the framework only.
- `export.hpp`: sums over a list, and text; `event.hpp`: data.
- the contrast keys of the attention pane, which change one number that only the colours
  read.
- what `run_bench` measures (time on one thread; its two rings are in `Startup`), `panic.hpp` and `log.hpp` (terminal codes and an
  external logger; nothing installs the handler), drawing and text layout,
  llama.cpp, FTXUI and the Python frameworks beyond their use.

Assumptions that the models make: a disk that is full stays full; a connection
delivers in order until it breaks; llama.cpp evaluates the ops of a pass in order
on one thread; an op of the target layer in `DashboardRun` may or may not have a
matrix to publish (the rule itself is in `CaptureHook`).

The plan's models, runs and proofs are done: the safety properties of the runs are
theorems, and the liveness properties are beyond the prover. What could still be added are
models of parts named above, the reductions of `export.hpp` first. For each hazard that no
property covers, PROJECT.json says why.
