# A TLA+ verification of the NMEA Observatory

This directory models the program in `src/` with TLA+, checks it with TLC on
small instances, and proves its central safety properties with TLAPS for every
value of the constants. It says what the code does, not what its documents say:
every definition names the lines it stands for in `PROJECT.json` ("map").

## 1. The system

| Component (source) | State it keeps | Operations | Talks to |
|---|---|---|---|
| **Ingest runtime** (`app/main.py` `Runtime`, `app/store.py`) | reception queue, `enabled`, `maintenance`, `reset_lock`, `state.jobs`, import tasks; tables `events`, `jobs`, `watch_alerts`, `ais_identities`, `settings` | UDP/TCP reception, `consume()`, `upload()`/`import_file()`/`cancel_job()`, `DELETE /api/data`, `purge_expired()`, start-up | all through one asyncio loop; database calls in threads |
| **Live feed** (`publish()`, `ws()`, `static/app.js`) | one bounded queue per WebSocket client; the rows a page shows | publish, reset, send, reconnect, fetch history, merge | reads `events` over REST, fed by writers and deletions |
| **Watch alerts** (`Store.add`, `watch_save`, ...) | `watch_vessels.last_alert_at`, `ais_identities` | match rows, learn identities, 60 s spacing | inside the consumer's and the imports' transactions |
| **Retention settings** (`put_retention`, `retention_loop`) | `state.retention`, `settings` row | change, purge | `reset_lock` |
| **Decoder** (`app/parser.py`) | AIS fragment groups, one `Decoder` per import and one for live input | `parse`, `expire` | called by the consumer and by imports |
| **NMEA emulator** (`emulator/server.py`) | `Simulator` task, `RingMotion` task, output setting and its file | start, stop, send suite, motion, set output | sends to the application or to the modulator |
| **SDR receiver** (`sdr/`) | `Router` configuration and destinations, each with a queue and a thread; `Engine` subprocess and worker | configure, ingest, start, stop | subprocess to router (UDP), router to the application (TCP/UDP) |
| **SDR transmitter** (`sdr-tx/`) | packet queue, `enabled`, `epoch`, one I/Q client | ingest, start, stop, serve I/Q | read by the SDR receiver |
| **ADS-B** (`adsb/`) | per-aircraft tracker, output sockets; simulator fleet and file; I/Q frame queue | decode, track, bridge; simulate; transmit | `$PADSB` sentences to the application |
| **iPad application** (`ipad/`) | main-actor model, processing queue, SQLite store, listeners | start, stop, import, clear, watch | none |
| Deployment, smoke tests, rendering | | | not modelled |

What is hard in it: coroutines that interleave at every `await` around a
destructive deletion; database calls that run in threads and may fail; a crash
between two of them; bounded queues that drop the oldest or the newest; a page
that is fed by messages, by REST answers in any order and by reconnections;
threads that start and stop subprocesses and sockets; fragments of messages that
share a key. `PROJECT.json` lists these hazards one by one with the line where
they bite, and the properties that would catch each going wrong.

## 2. Modules

| Module | Models | Status |
|---|---|---|
| `Runtime` | the ingest runtime: reception, consumer, uploads, imports, purge, deletion, crash and restart | checked and proved |
| `History` | what the deletion promises, without locks, queues or jobs | implemented by `Runtime` (checked and proved) |
| `ImportJobs` | the life cycle of import jobs as `GET /api/jobs` shows it, without coroutines or threads | implemented by `Runtime` (checked and proved) |
| `LiveFeed` | publication, per-client queue, WebSocket, REST history, rows of the page | checked and proved |
| `WatchAlerts` | `Store.add` as concurrent database transactions against the watch list and the identities | checked and proved |
| `Reassembly` | the three implementations of AIS multi-sentence messages, fed the same sentences | checked and proved |
| `Destination` | the NMEA router of the SDR receiver and its output threads | through `Sdr` |
| `Engine` | the owner of the receiver subprocess and its HTTP requests | through `Sdr` |
| `Sdr` | both containers and the management API between them; extends the two above | checked and proved |
| `Receiver` | what the management API promises about the receiver process, without threads, locks or HTTP | implemented by `Sdr` (checked and proved) |
| `IQTransmit` | the AIS modulator: packet queue, epochs, I/Q client, management page | checked and proved |
| `Route` | the vessel of the NMEA emulator and the route it follows | through `Emulator` |
| `Emulator` | the senders of the NMEA emulator, its requests, the output file; extends `Route` | checked and proved |
| `Transmission` | where the emulator's data goes: owners of connections and one destination | implemented by `Emulator` (checked and proved) |
| `Cpr` | compact position reporting on one coordinate | proved in `AdsbProofs` |
| `Sdrtx` | one simulated aircraft and the frame queue of the transmit emulator; extends `Cpr` | through `Adsb` |
| `Adsb` | the ADS-B receiver: tracker, bridge, outputs; extends `Sdrtx` | checked and proved |
| `MC...` | constants for TLC | |
| `...Proofs` | inductive invariants and theorems | proved |

Modules that interact are composed by extension: `Sdr` is the conjunction of the
router's threads, the receiver's threads and the HTTP calls and the UDP datagram
between them; `Adsb` is the transmit emulator with the receiver it feeds.
Operators marked *(Changed form: ...)* are variants of a definition with a
plausible mistake in it. Nothing uses them; `PROJECT.json` ("mutants") says which
property each of them breaks when it takes the definition's place.

### Runtime

`queue` is `state.queue` (a number of sentences: their content does not matter
here), `consumer` and `batch` are where `consume()` is between its awaits,
`enabled` and `maintenance` are the switches, `lockQ` is `asyncio.Lock` with its
FIFO waiters, `del[d]` is one request in `delete_data()`, `purger[p]` one
`purge_expired()`, `jobs` is `state.jobs`, `work[j]` the coroutine that serves a
job (`upload()`, then `import_file()`), `stored` the number of rows of `events`,
`jobsDb` the `jobs` table.

One action is the code between two awaits. Where the code awaits a thread
(`asyncio.to_thread`) the commit is an action and what the coroutine does next is
another, because other coroutines run in between: `ConsumeAdd`/`ConsumeDone`,
`DeleteClear`/`DeleteFinish`, `ImportAdd`/`ImportSave`. The checks at the top of
`upload()` and `delete_data()` have no await between them and what they protect,
so they are one action. `StorageFails` lets every thread call raise;
`CrashRestart` loses memory and runs the job recovery of `lifespan()`.

### History

Rows are stored and expire freely until a number of rows is *pledged* (the
user's `expected_total` was compared and found equal). While a pledge stands the
number of rows does not change; the only step that takes the rows away for a
user requires a pledge of exactly that number. `Runtime` implements it with
`rows <- stored` and `pledge <- Pledged`, the totals of the deletions between
their comparison and their commit.

### ImportJobs

A job is received, waits, runs, and ends once, with a result that agrees with the
rows that were committed; its record in the table is a status it has been in. Only a
deletion, while no job is active, or a restart changes what has ended. `Runtime`
implements it with the statuses of `state.jobs` and of the `jobs` table, and the rows
of the file that no thread has committed yet.

### LiveFeed

`events` is the table, `pending[w]` what a writer committed and did not publish
yet, `q` the `asyncio.Queue(32)` of one client in `ws()`, `wire` the message in
`send_json`, `conn` the connection as the server and the page see it (`accepted`:
the server subscribed the client, the page has not seen `onopen`), `fetch` the
page's outstanding `GET /api/events`, `shown` its rows. `Publish` and
`BroadcastReset` drop the oldest message of a full queue as the code does;
`Merge` is `merge()`. Rows carry the id the database gave them and a serial
number, so that an id used twice can be told apart.

### WatchAlerts

`watch` is the one row of `watch_vessels`, `identity` the row of
`ais_identities` for the vessel, `alerts` the alerts of the entry; `adder[a]` is
one call of `Store.add`: where it is (`at`), the messages it still has to deal
with, what it read when it began (`watched`, `known`, `now`), and whether it
holds the lock of a row it wrote. Each statement of the transaction is an
action, in the order of the code: the read of the watch list and of the
identities, the delete and the insert of an identity, the match, the update of
`last_alert_at`, the commit or the rollback. The database is PostgreSQL at READ
COMMITTED, as the container uses it: a statement sees what was committed when it
began, a written row is locked to the end of the transaction, an insert of a key
waits for an uncommitted insert of it and then fails. `Register`, `Edit`,
`Delete` and `Clear` are the operator. `overlaps` is history: which transactions
ran at the same time.

### Reassembly

`app` is `Decoder.groups` (`app/parser.py`), `pad` is `fragments` of
`Parser.swift`, `mod` the `Assembler.parts` of `sdr-tx/modulator.py`. Each keeps the
messages apart by a key of its own: the server and the iPad by the channel as it was
written, with the number of sentences, the transmitter by channel A or B only (`Key`,
`PadKey`, `ModKey`). Each refuses sentences of its own accord before it looks at its
groups, such as one with fill bits that is not the last of its message, which the
server stores (`PadRejects`, `ModRejects`, `Oversized`). `Receive(s)`
is one sentence that reaches all three; any sentence may come at any moment, so
loss, repetition and reordering are all there, and `Tick` is the passing of time.
A sentence is a message and a part number: what the parts say does not matter,
whose they are does. `since`, `waited`, `refused` and `steady` are history.

### Destination, Engine and Sdr

`Router.ingest()` offers each checked sentence to every `Destination` while it
holds `router.lock`; the thread of the destination shares a queue and the flag
`connected` with it without a lock. So an offer is two steps (read the flag, put
the sentence), `clear()` takes one sentence per step, and `phase[o]` says where
the thread is between its socket and queue calls: connecting, clearing, at the top
of its loop, in `get()`, sending, after a loss, purging, in its pause. `configure()`
closes and joins one output after the other and then replaces all of them. `Age`
is the passing of the two seconds after which a sentence is stale. `queue` entries
carry, as history, whether they were put in while the present connection was up.

In `Engine` a `/start` or `/stop` is a thread that holds `engine.lock` from the
stop to the new worker; the worker starts the process, reads it to its end,
checks `stop_event`, pauses and tries again. `Spawn` (the `Popen`) and the check
before it are different steps, as a stop may come between them.

In `Sdr` a POST holds `control_lock` (`control`), calls the receiver and waits at
most 15 s: `TimedOut` gives up while the receiver goes on (`lapsed`, history), as
it does when the browser's request was abandoned. A save stops the receiver, then
configures the router, then assigns the settings. `wire` is the datagram the
process sends to the router.

### Receiver

One receiver runs at most. It is armed and started only by a start, with the saved
settings; settings change only by a save, while nothing runs or can begin to. After
a call that was given up (`lapsed`) only "one at most" is left, because the code
promises no more. `Sdr` implements it: `running` is the process with its settings,
`armed` a worker that may still start one, `settings` what was saved, `call` the POST
that holds `control_lock`.

### IQTransmit

`enabled`, `epoch`, `queue`, `client` are the fields of `State`, `clientLock` is
`client_lock`, `conn[c]` the thread in `IQOutput.handle()` with what it read
(`epoch`, `on`), the blocks of the packet it sends (`left`) and whether the block
in its hand carries signal, `part[s]` the fragment a source's `Assembler` holds.
Everything done under one hold of `State.lock` is one action; `Take` (the queue
is read without it) and `Send` (the block goes out after it was released) are
actions of their own. `session` is history: it counts starts, stops and
disconnections, and packets are known by the session of their first sentence.
Epochs also count changes of the sample rate, which discard what is in hand but
keep the queue.

### Route and Emulator

The vessel stays on one great circle of `Around` parts and moves `Step` parts in
an interval, so distances, courses and the date line are exact. `Advance` is
`advance()` with everything it calls: which way-points are passed, where the
vessel ends, the next index, the end of the route or of a turn of the loop. The
operator replaces position, route and course without a lock (`Edit`).

`task[s]` is where the asyncio task of a sender (the vessel, the ring of test markers)
awaits, `cancelled` who has a cancellation to be delivered, `conn[o]` to which
destination an open connection leads, `unsent` whether the peer has not taken what was
written to it. The lock is `holder`: the request that holds it and what it has still
to do. `Plan` gives the stages of each request in the order of the code; a stop
cancels the task, awaits it, closes the connection and waits for that. A cancellation
that meets a sender in `await writer.wait_closed()` cuts the closing short
(`CutShort`): the event loop goes on to send what the connection still held
(`flushing`: to which destinations), and the vessel keeps its writer, whose closing
raises `CancelledError` from then on (`stuck`). Every stage that fails ends the
request (`Raise`) and leaves the rest undone, as an exception does. `override` and
`file` are the output in use and the saved one, `Restart` reads the file. `Placed` are
the positions the operator may set.

### Transmission

Each owner has one connection at most, opened to the destination in use; the
destination changes only while all are closed, to the one that was saved. A
connection may be let go with data still to be sent, which follows to where the
connection led.
`Emulator` implements it: the owners are the vessel, the ring and the test suite, a
restart closes everything and reads the file.

### Cpr, Sdrtx and Adsb

`Cpr` is `cpr_encode`, `cpr_global` and `cpr_local` of `modes.py` along one
coordinate. Places are whole numbers: the circle has `Unit * Zones * (Zones - 1)`
of them, so that even zones, odd zones and the roundings of the code are exact; the
code's circle has 60 even zones. `nl` gives the latitude band of a place.

In `Sdrtx` the aircraft flies at most one place in a tick, alternates even and odd
positions, and the transmitter queues frames for its one client, modulates those that
are not older than two seconds (`Modulate`) and drains the queue *after* a leaving
client gave up its slot, as `sdrtx.py` does, so that a new client can lose its first
frames to it. `iq` is what has been modulated and not yet handled: samples in the
sockets' buffers and the frames of the chunk the receiver is working on. Nothing bounds
how long they stay there.

In `Adsb` the receiver is one thread: `HearPosition`/`HearOther` are a frame that
reaches the tracker, which takes the time for its own, and begins a sentence if the
interval has passed, `Lose` one that was damaged or cut off; `serving` is the output
`send()` is called for, and `Skip`, `Send`, `Fail` are what it does. A TCP output
holds the receiver for up to five seconds, one after the other and sentence after
sentence, during which it reads no I/Q and what waits grows older. `late` (of a frame
that is kept) and `heard` are history: whether it was handled more than `Delay` after
it was sent, and where and when the aircraft sent what was heard last, if the code can
be asked to know it.

## 3. What the runs check

| Run | Question | Result |
|---|---|---|
| `runtime` | can anything interleave with a deletion, and do job records stay true over failures and a crash | holds |
| `runtime_live` | while storage works, is each deletion answered and does each upload whose file has arrived come to its end | holds |
| `runtime_slot_leak` | the same, when storage may fail after the upload stream | violated (finding) |
| `livefeed` | is any of the newest rows ever lost on its way to a connected page | holds |
| `livefeed_reused_ids` | the same on SQLite, whose ids start again in an empty table | violated (finding) |
| `watch_alerts` | which alerts can be closer than the spacing, is any suppressed wrongly or any batch lost, with transactions side by side | holds |
| `watch_alerts_spacing` | are the alerts of one entry 60 s apart | violated (finding) |
| `reassembly` | does a message ever contain a sentence of another one, is a running one evicted, do the three implementations agree | holds |
| `sdr` | is any sentence lost uncounted or sent late, does a replaced output stay silent, is there one receiver with the saved settings | holds |
| `iqtransmit` | can anything of an ended session wait or be sent, is any packet lost uncounted, does the queue drain | holds |
| `emulator` | does what is sent go where the operator set it, is a stop followed by silence, do the destination in use and the saved one agree, does the vessel take its way-points in order, does a request let go of the lock | holds |
| `adsb` | is the tracked position the true one when its frames were handled in time, does one dead output hold back the others | holds |

**Runtime, safety.** `ResetExclusive`: past its checks a deletion holds the lock
alone, reception is off, no purge, upload or import runs. `CountStillTrue`: the
total that was read is still true at the commit. `ClearedStaysEmpty`: nothing is
stored or saved between the commit and the emptying of `state.jobs`.
`ImportsBounded`:
what runs, not only what the statuses say, respects the limit of two.
`CompletedMeansStored`: "completed" is never shown or saved for a file whose
rows were not all committed. `DeletesTheConfirmedRows`: `Runtime` implements
`History`. `JobsEndOnce`: it implements `ImportJobs`.

**Runtime, liveness.** `DeleteAnswered` and `JobsSettle` (of the jobs whose body has
arrived: a client that stalls in the middle of one holds its job at "uploading"), and
what they rest on:
`DeletesAdvance`, nobody waits for `reset_lock` in vain, is overtaken or sent back
in the line, and `JobsAdvance`, an active job always has a coroutine that comes nearer
to its end with every step. `SettledJobsSaved`: without storage failures, table and
memory agree about every job that ended.

**LiveFeed.** `NothingLost` relates the table, the writers, the queue, the message in
flight, the requests in flight and the page: each of the newest rows is shown or
covered by something that will bring it, and no reset still on its way will take it
away again. `FeedAdvances`: while the page lacks one of them there are steps of
delivery to take, each leaves fewer (the gaps, overflows and requests it causes are
counted), and only new rows, a deletion or a new connection add to them. `CatchesUp`
is the consequence the user sees. All three say nothing of a page one of whose
requests failed: the code shows a message and does not ask again until a gap or a
reconnection.

**IQTransmit.** `QueueIsCurrent`: packets wait only while modulation is on and a
client is there, and all of them began in the running session. `NoResend`: a
block with signal of an ended session is never made ready; one that was checked
under the lock just before the end may still go out, 10 ms of it. `Accounted`:
assembled packets are dropped, modulated, waiting or about to be counted.
`HeadIsServed`: the first packet is always next, and each step of the handler brings
it nearer to being taken, whatever users, sources and clients do meanwhile.
`QueueDrains`: what waits leaves the queue.

**WatchAlerts.** `AlertsSpaced` is what `README.md:281` says, the alerts of an entry
are 60 s apart, and does not hold (finding). `SpacedOneByOne` says where it does: within
one batch, and between transactions neither of which ran beside another; those that do
read the same `last_alert_at`, and the one that commits last may set it back.
`NoSilence`: a message of a watched vessel gives no alert only if there was one less
than 60 s before, unless the entry itself was saved meanwhile. `LostOnlyTogether`: a
batch is rolled back only beside another one; beside another it is.

**Reassembly.** `NoStaleParts`: the sentences of a group came after the first
sentence of their message, and the group is as old as that one. `SteadyMessagesKept`:
a message that was admitted and whose sentences come in order is kept whatever other
messages do to the table. `StricterAgree`: what the iPad or the transmitter would
complete, the server completes too with the same sentences, except where the code
makes them disagree: the server refused the message when its table was full; it tells
apart by the channel's designator (none, 1, A) what the transmitter joins; or it stored
a sentence the other refused to read, and the true one then conflicts with it. All
three happen in the run.

**Sdr.** `OfferedAccounted`: each sentence offered to an output is counted once as
sent or dropped, or is queued or in hand. `NoCarryOver`: none is sent over a
connection made after it was queued. `ReplacedAreSilent`: an output that
`configure()` went past sends nothing any more, although `join(4)` may have given up
its thread. `OneReceiver`: a process lives only while a worker reads it, and
"stopped" means both are gone. `ActsAsOneReceiver`: `Sdr` implements `Receiver`, so
the process runs with the saved settings, and a save replaces them only after it has
stopped, unless the router gave up a call that the receiver carried out later.

**Emulator.** `SendsToOneTarget`: `Emulator` implements `Transmission`, so every open
connection leads to the output in use, and what a closing that was cut short leaves
unsent goes where it was meant to. `PersistedUnlessStuck`: when no request is at work,
the output in use is the one in the file, whatever failed, unless the closing of the
vessel's connection was cut short; `StuckUntilRestart`: after that no simulation starts,
no stop is answered and the output in use does not change until the container restarts.
`StoppedIsSilent`: after an answered stop there is no task and no connection, and what
is still being flushed only gets less. `InOrder`: the way-points are taken in their
order, none skipped, while route, position and course are edited between two rounds.
`RequestsAdvance`: the request that holds the lock can go on or is closing a
connection, and every step for it leaves fewer steps to go. `RequestEnds`: a request
lets go of the lock, *or* a peer has not taken the data of a connection.

**Adsb.** `PositionTrue`: whatever frames were lost, the tracked position is where the
aircraft sent its last heard position, if the code paired that frame and both were
handled at most `Delay` after they were sent, or if it had a near reference that was
right. The code does not bound that delay: the limit of two seconds (`sdrtx.py:26`,
"older than this are stale positions; drop them") is applied at modulation, and the
ten seconds of a pair (`tracker.py:36`) are counted between the times of handling. A
late frame that meets a fresh one in those ten seconds goes before a reference that
was right, and the position may be wrong until the next pair in time. `OutputsKeepUp`:
while the receiver reads, each open output has carried the last sentence
(`ADSB_DESIGN.md:205`).

### Findings

1. `upload()` removes its job from `state.jobs` only when the stream fails. When
   computing the digest or the first `save_job` raises, the job stays active
   without a coroutine: it occupies one of two import slots and deletions are
   refused until the process restarts (`runtime_slot_leak`).
2. On SQLite ids are reused once the highest row is deleted. A purge that empties
   the table sends no reset, the page keeps old rows with higher ids, and new
   rows are sorted below them and cut off (`livefeed_reused_ids`).
3. `Store.add` compares with a `last_alert_at` it read when its transaction began.
   Two transactions side by side, the consumer's and an import's, both find the last
   alert long ago, and the entry has two alerts at once (`watch_alerts_spacing`).

Known disagreements with a document for which there is no run of their own:

- An identity can be written without its known IMO number by a transaction that read it
  before another learnt the number; `README.md:155` says the number is kept. The theorem
  `ImoLostBesideAnother` confines that to overlapping transactions.
- `POST /api/config` of the modulator stops modulation and assigns the settings under two
  holds of the lock. A start in between (`SaveStop`, `Start`, `SaveAssign`) leaves
  modulation on with settings that change under it; `sdr-tx/README.md:72` says that
  saving stops it.
- `emulator/README.md:11` and 25 say that a change of the output and a stop end the
  sending, and that a stop closes the TCP connection. Both hold of the tasks and of the
  connections they own (`StoppedIsSilent`). But a cancellation that meets
  `await writer.wait_closed()` (`server.py:225`, 523) leaves the connection to the event
  loop, which sends the rest of its buffer to the old destination after the request was
  answered; and if it was the vessel's, `stop()` raises `CancelledError` (which
  `suppress(Exception)` lets through) then and whenever it is called again: a change of
  output is saved in the file and not put to use, a stop is never answered
  (`PersistedUnlessStuck` and `StuckUntilRestart` say how far this goes).

Not findings, because no line of the repository says otherwise, but visible in the models
or in the code beside them:

- A client that stops in the middle of an upload keeps its job and its slot, and every
  deletion is refused, while the connection lasts: `request.stream()` (`main.py:431`)
  has no timeout and `cancel_job` passes over a job that is "uploading".
- A packet queued after a stop and a start can be taken by the handler that still
  works with the old epoch: it is counted as modulated and sent as silence.
- Rows deleted by `DELETE /api/data` stay on a page that was disconnected during the
  deletion, whose reset was dropped by overflow, or that had a history request in
  flight, because `merge()` only adds.
- Overlapping `Store.add` transactions can lose a batch to the key of `ais_identities`.
- The transmitter joins the sentences of two messages whose channels are written
  differently (`modulator.py:28`), which the server keeps apart; a sentence with fill
  bits that is not the last one spoils a message for the server (`parser.py:245`) and
  is passed over by the iPad and the transmitter.
- The peer of an emulator connection that takes no data holds up the stop, and with
  it the lock that every other request needs (`server.py:225`, 413, 523).
- `Output.send` reads the time before a connection attempt that may last five
  seconds and sets its pause from it (`receiver.py:48`, 59, 66): when nothing answers
  at all, the pause is over when the attempt is, and every sentence stops the
  receiver for five seconds.
- `Tracker.expire()` is never called: a position of any age is the reference of the
  next one, and aircraft accumulate (`tracker.py:8`, 47). `PositionTrue` therefore
  needs its premise about a near reference.
- The result of `cpr_local` is not brought back into the range of the scale.
- A leaving I/Q client takes frames of the next one (`sdrtx.py:115`).
- The fleet simulator's `save()` writes one temporary file from any thread
  (`simulator.py:222`).

### Bounds

`runtime`: one deletion, one purge coroutine, two uploads (one slot, so that the
limit bites), a queue of 1 and batches of 1 so that it overflows and the consumer
needs several rounds, files of two rows stored in batches of two, two live rows,
one crash, failures on. Each interaction named in a hazard needs at most one
deletion, one purge and two uploads. `runtime_live` has two deletions, so that
one waits for the lock the other holds. `livefeed`: two writers, a queue of two,
a page of two rows, two outstanding requests and three rows ever stored: enough
for the queue to overflow behind a reset, for the page to be full and for answers
to overtake each other. `iqtransmit`: two clients and one source, a queue of two,
packets of two blocks, three packets, four changes of the epoch by users (a
client that leaves changes it once more): enough for a packet to be taken in one
session and checked in the third.

`watch_alerts`: two callers, three transactions, a batch of one row and one of two (a
position, then a static report), a clock of two values that are a full spacing apart,
so that an alert may be due again or not; the three transactions are a pair that
overlaps and one before or after it. The callers are symmetric. `reassembly`: four
messages, three of which have one key, two of those also the same number of sentences;
the channel of the fourth is written differently, so that the transmitter joins it to
them, and it is too long for the iPad; one sentence has fill bits; a server table of
two groups and a transmitter table of one, so that both overflow; ages up to one tick
beyond the limit. All messages have a sequence number here; those without one are in
the theorems. `sdr`: one output replaced by another or by none, a queue of one, two
sentences, two POSTs, live settings and settings that play a file; the system runs out
of POSTs and sentences, so deadlock is not checked. `emulator`: a circle of four
parts, a route of two coincident way-points, a loop of two that are the farthest
apart, no route; the operator sets the vessel back to one position only, at any time,
which with the seam of the circle and a course either way brings it to all of them;
one output besides the default; no counter bounds, the state space is finite. `adsb`:
three zones on 18 places, two bands, flights that begin at a seam of zones, bands or
of the scale; a clock of 0 to 3, on which frames may be modulated in the tick they
were sent in (`MaxAge` 0) and be handled in any later one, and a pair counts when
handled in the tick of the other or the next one (`PairSeconds` 1) and is to be right
when neither was late (`Delay` 0); one frame queued and one on its way; one TCP and
one UDP output; a reference two places from the beginning (without one is in the
theorems). Larger instances of `Cpr` are not needed, it is proved for all.

`AdsbAssumption` asks that the aircraft stays within half a `Unit` in the time of a
pair: `2 * (PairSeconds + Delay) < Unit`, a place being what it flies in a tick. In the
code a zone's difference is at least 6.1 nautical miles, half of which an aircraft at
1000 kt (`simulator.py:89`) covers in just under eleven seconds; beside the ten seconds
of a pair this leaves `Delay` a little less than one second at that speed, and more at
lower ones (five seconds at 730 kt). A real delay beyond it is in the model, as `late`,
and then nothing is claimed of the pair.

The names of the bounds are in the modules (`MaxRows`, `MaxCrashes`, `MaxBorn`,
`Requests`, `MaxPackets`, `MaxEpoch`, `MaxTime`, `MaxTxns`, `MaxPosts`,
`MaxSentences`). `adsb` stops at the end of its clock, so deadlock is not checked.

### Fairness

asyncio runs every ready coroutine and threads return, so each coroutine's next step
is weakly fair, of an upload from the moment its body has arrived (`UploadArrived`);
`asyncio.Lock` is FIFO, which `lockQ` models. The timeout of 30 s makes `DeleteJoin`
always able to leave. Nothing is assumed of users, senders, clients that upload,
crashes, purge progress or failures. `DeleteAnswered` holds all the same beside a
stalled upload, since a deletion is then refused at once. In `LiveFeed` the browser
reconnects 2.5 s after a close, and both event loops go on. In `IQTransmit` the
handler's thread runs and its socket calls time out; nobody must send, leave or press
a button. In `Emulator` one action is weakly fair (`ForHolder`): the event loop runs
the next stage of the request that holds the lock, or lets the sender that request
waits for come to its end. Neither sender need ever go another round, and no peer need
ever read, which is why `RequestEnds` has its second case. `Sdr`, `WatchAlerts`,
`Reassembly` and `Adsb` are checked for safety only and state no fairness.

Two facts about clocks are built into `Destination`: an offer does not take the one
second a thread pauses before it reconnects, and a thread that waits for or sends a
sentence leaves that within the four seconds of `join(4)`, while resolving a name
or connecting may take longer.

## 4. Proofs

Every theorem holds for all values of the constants that satisfy the module's
named assumption, which TLC evaluates in every run of that module. Five theorems
assume more, as their statements say: `SettledAreSaved` and `JobsComeToTheirEnd` that
storage does not fail, the three of `LiveFeedProofs` that the database gives no id
twice; without these the findings above apply. `LiveFeedAssumption` lets writers and
requests be any finite sets, since `FeedAdvances` counts them.

Two kinds of theorems say more than that a state is good.

*Refinements.* `Runtime` implements `History` and `ImportJobs`, `Emulator` implements
`Transmission`, `Sdr` implements `Receiver`. Each proof maps every action of the
detailed module, under its invariant, to a step of the abstract one or to none, and
needs what the abstract module leaves out: that a lock is held, that a task was
cancelled, which call is being handled.

*Measures.* Liveness cannot be proved with this prover, but what makes it true can: a
number, and the facts that something is always due while the goal is not reached,
that each step of the scheduler's makes the number smaller and that no other step
makes it larger (or which ones do). `DeletesAdvance`, `JobsAdvance`,
`HeadIsServed`, `FeedAdvances` and `RequestsAdvance` state this, for every value of the
constants. With the fairness of section 3 the liveness property beside each follows on
paper, and TLC checks it on the instance. What a measure does not show is that
the step which is due is enabled; TLC does.

`RuntimeProofs` proves, for every set of requests, purgers and jobs and every
queue, batch, file and slot size:

| Theorem | Statement |
|---|---|
| `Inductive` | `Spec => []IInv` |
| `TypeCorrect` | `Spec => []TypeOK` |
| `ResetIsExclusive` | `Spec => []ResetExclusive` |
| `CountIsStillTrue` | `Spec => []CountStillTrue` |
| `ClearedIsEmpty` | `Spec => []ClearedStaysEmpty` |
| `RuntimeImplementsHistory` | `Spec => DeletesTheConfirmedRows` |
| `JobsInductive` | `Spec => []JobsInv` |
| `SavedAreKnown` | `Spec => []SavedJobsKnown` |
| `ImportsAreBounded` | `Spec => []ImportsBounded` |
| `CompletedIsStored` | `Spec => []CompletedMeansStored` |
| `SettledAreSaved` | `~StorageFails` implies `Spec => []SettledJobsSaved` |
| `JobsAreImplemented` | `Spec => JobsEndOnce` |
| `DeletesComeToTheirTurn` | `Spec => DeletesAdvance` |
| `JobsComeToTheirEnd` | `~StorageFails` implies `Spec => JobsAdvance` |

`IInv` is `TypeOK`, the three deletion properties, and what they lack to be
inductive: a coroutine that purges holds the lock (`PurgeHoldsLock`), so a
deletion that holds it sees no purge; a coroutine in `upload()` serves a job with
an active status (`UploadsActive`), so that what `DeleteBegin` tests, statuses
and unfinished import tasks, covers everything that runs; and the total of a
deletion about to clear is the one the user confirmed (`ConfirmedTotal`). One
lemma per group of actions shows that `IInv` survives; steps that no running
deletion allows are shown disabled by `ResetExclusive`.
The job properties have an invariant of their own, `JobsInv`, on top of `IInv`: the
statuses that count as active respect the limit (`SlotsBounded`: the coroutines
alone would not be inductive, since a new upload is admitted by the statuses), and
for each job status and coroutine (`StatusFits`), memory and table (`RecordFits`) and
the rows committed so far (`RowsFit`) fit together.

`JobsAreImplemented` adds `CycleInv`: no more is buffered than was read, and no job is
active while a deletion is past its checks.
`DeletesComeToTheirTurn` rests on `LineInv`: those who wait for the lock and the one that
holds it are exactly those in `lockQ`, each once; with `IInv` only the first is past
waiting, so six times a request's place plus what the first still has to do bounds its steps.
`JobsComeToTheirEnd` rests on `Served`: an active job's coroutine has not ended. That
is what a storage failure breaks (first finding).

`IQTransmitProofs` proves, for every set of clients and sources and every queue
and packet size:

| Theorem | Statement |
|---|---|
| `TypeCorrect` | `Spec => []TypeOK` |
| `QueueAlwaysCurrent` | `Spec => []QueueIsCurrent` |
| `NothingResent` | `Spec => NoResend` |
| `AllAccounted` | `Spec => []Accounted` |
| `HeadAlwaysServed` | `Spec => HeadIsServed` |

Its `IInv` adds that no handler and no `Assembler` is ahead of the epoch
(`EpochsPast`), and that a fragment (`PartsCurrent`) or a packet in hand
(`InHandCurrent`) that bears the current epoch belongs to the running session.
The argument is that a session never ends without a new epoch, and that the lock
makes the comparison of the epochs and what follows from it one step. `AllAccounted` needs the
other half of it: `client_lock` lets only one handler have a packet in hand, so the
counters, the queue and that packet make up all that was assembled. `HeadAlwaysServed`
adds that the registered client is one whose handler is in its loop or on its way out
of it (`Registered`), so that only this one takes or clears what waits.

`LiveFeedProofs` proves, for any queue, any number of rows, writers and requests:
`NothingIsLost`, i.e. `Spec => []NothingLost`, `FeedComesToItsEnd`, i.e. `Spec =>
FeedAdvances`, and `TypeCorrect`. `NothingLost` is an implication about each of the
newest rows; what it lacks to be inductive is that the table has no holes (`Table`:
whatever is newer than a row of the table is in the table), that nothing travels that
was not stored (`Carried`), and that behind a reset every row of the table comes again
(`AfterReset`). A lemma says what `merge()` keeps of its two arguments, three others
what appending to, overflowing and receiving from the queue do to the line of
messages. `TypeCorrect` has the bounds of the queue, of the page and of the rows ever
stored beside it (`Limits`); that the newest rows are at most a page is a lemma
(`NewestBounded`). For `FeedComesToItsEnd` the steps due are counted in three parts:
rows to publish, messages to receive, requests to answer and to merge. A message that
shows a gap or a reset causes a request, so a message counts for more than the request
it may cause, and what is to be published for more than the message. The lemma
`MissingIsDue` takes from `NothingLost` that a missing row leaves something in one of
the parts.

`WatchAlertsProofs` proves, for any batches, spacing and times: `TypeCorrect`,
`AlertsSpacedOneByOne`, `NeverSilent`, `LostBesideAnother` and `ImoLostBesideAnother`.
The invariant is about each transaction: everything it read when it began is still
true, or another transaction overlapped it, or the operator saved the entry. One part
of it per thing that was read (the time of the last alert, the entry, the IMO number),
one for what a transaction waits for or fails on.

`SdrProofs` proves, for any outputs, requests, settings and bounds: `TypeCorrect`,
`AllOffersCounted`, `NothingCarriedOver`, `ReplacedStaySilent`, `AtMostOneReceiver`,
`SavedSettingsRun` and `ReceiverIsImplemented`. The router's part says what is in hand
in each phase (`InHand`), that outside `clear()` everything queued belongs to the
present connection (`Current`), and where `configure()` is (`Reconfiguring`); the
engine's part ties the process to the worker and the lock. `CallInv`, that a POST at
work and a call being handled are one and the same, holds only while no call was given
up: it is the reason for the premise of `RunsWhatWasSaved` and for `lapsed` in
`Receiver`.

`EmulatorProofs` proves, for any outputs, routes and steps: `TargetAlwaysMatches`,
`TargetIsPersisted`, `OnlyARestartHelps`, `StopsSilence`, `TransmissionIsImplemented` and
`RequestsComeToTheirEnd`. The destination is assigned in one place
(`Assign`), and the invariant shows that there every connection is closed: the
stages of a request come in their order (lemma `Stages`), a cancelled task cannot
connect again, and what a stage has stopped stays stopped while the lock is held.
A cut closing of the vessel's connection is where this would fail, were it not that the
request then ends before it assigns: the vessel has no task, or one that is ending, and
no connection (`Stranded`).
The refinement needs one fact more, that a task opens a connection only where it has
none (`Unopened`). `RequestsComeToTheirEnd` needs that a sender the request waits for is
cancelled, on its way out, or has ended, wherever the cancellation met it (`Waits`); its
measure counts the stages left, the place in the present one and the steps the
sender still takes.
`WaypointsInOrder` is `Spec => InOrder`, a property of steps. Its invariant `RInv` says
that the route of the vessel is one of the operator's, that the index is a way-point
of it and that an ended route leaves the vessel at its last way-point; the lemmas
`AheadIs` and `PassedAre` say which way-points one interval passes, `Least` (by
well-founded induction) that the nearest one ahead exists. `TypeCorrect` assumes that
"closed" and "unset" are no destinations.

`ReassemblyProofs` proves, for any messages, limits of age and table sizes:
`NothingStale`, `SteadyAreKept`, `StricterHoldTrue` and `TypeCorrect`. Each of the three
implementations has an invariant. In the server (`AppInv`) a group is as old as the
last first sentence of its message and holds only what came since. In the two others
(`PadInv`, `ModInv`) what is held are sentences 1 to n, as they take no sentence out
of its order, and as long as it is not too old the server's group consists of the same
sentences, unless it refused the message, tells them apart by its own key, or has read
a sentence the other refused. `SteadyInv` adds to `SteadyMessagesKept` that
a message in progress has not waited too long. The lemma `KeptIs` is about `Kept`, which
leaves groups out of the transmitter's table: the others stay, each once.

`AdsbProofs` proves, for any number and size of zones and any bands: `PairIsTrue` (two
frames less than half a unit apart give the place of the newer one, or nothing when
their bands differ) and `NearestIsTrue` (one frame gives the place within half a zone
of the reference). The two zone numbers `i` and `k` of a pair enter as one number
`Zones * k - (Zones - 1) * i`, whose remainders give both back. For any outputs of
either protocol, queue and times it proves `OutputsAlwaysKeepUp`, `TypeCorrect` and
`PositionHoldsTrue`. Its invariant `PInv` says that there is a path of the aircraft,
counted on past the seam of the circle, that moves at most one place in a tick, and
that every frame that waits, is on its way, was kept or was heard tells a place of it:
so the times of two frames bound their distance, which the first two theorems need. A
frame that was kept and is not late was sent at most `Delay` before the time the tracker
gave it, so two such frames paired within `PairSeconds` were sent within
`PairSeconds + Delay` of each other.

Only model-checked: liveness (`DeleteAnswered`, `JobsSettle`, `CatchesUp`,
`QueueDrains`, `RequestEnds`), which is out of the prover's reach; for each of them the
measure behind it is proved. Every other property of the passing runs is also a
theorem. Some theorems are not checked by a run as a property of their own:
`TypeCorrect` of each module, `SavedAreKnown`, `SavedSettingsRun` and
`TargetAlwaysMatches`, which stronger properties of the runs imply or the proofs use
as lemmas; `ImoLostBesideAnother`; `PairIsTrue` and `NearestIsTrue` are behind `PositionTrue`.

## 5. Not modelled, and the plan

| Left out | Why |
|---|---|
| Settings of `purge_expired()`, `PUT /api/retention` | Nothing orders a purge that waits for the lock, or two requests, and no document promises an order; `PROJECT.json` lists the two places |
| Orderly shutdown of `lifespan()`, of the emulator's container | The process ends after it; an end at any point is in `Runtime` as a crash and in `Emulator` as a restart |
| Sessions, origin check, request sizes | No concurrent state |
| Contents of messages, bit decoder, ship names and types | Table look-up and formatting |
| Several watch entries, duplicates of them, purge of alerts, SQLite in `WatchAlerts` | One entry is independent of the next; SQLite locks the whole database from the first write of a transaction, which orders more than the model does |
| In `LiveFeed`: alerts, track selection, logout, the page that asked for a deletion | Other views of the same channel |
| In `Sdr`: the log of sentences and its rotation, `validate()`, status, the reader of diagnostics | No effect on what is sent |
| In `IQTransmit`: the wave form, file rendering, the table of UDP sources | Signal processing; one source is one entry |
| In `Emulator`: text of sentences, the ring's geometry, error texts, UDP outputs | A UDP output is a connection that takes everything at once |
| In `Adsb`: bit detection and its block boundaries (`ppm.py`), MAP and RTL-TCP readers, the simulator's fleet, file and page | Signal processing; one aircraft is independent of the next |
| iPad application except the reassembly | Swift's main actor runs everything but one serial queue; its listeners and SQLite store are next |
| Rendering, maps, deployment, smoke tests, development assistant | No protocol state |

What comes next, in order: the iPad model's main actor against its processing queue
and its listeners; the retention settings; the blocks of `ppm.py`; liveness of the
composed `Sdr` (its state space is too large for a temporal property as it is).
