# Edge Telemetry Gateway: TLA+ specification

The gateway reads CAN frames from several buses, gives them one sequence, and
serves them over TCP to independent consumers. A slow consumer loses its oldest
frames and is told so by a gap marker; it never slows the others. These modules
specify that pipeline, from the kernel's receive queue to what a recorder writes
to its file, the process around it from its first object to its last destructor,
and the programs at either end, and check what they promise.

## The system and its inventory

| Part | Source (`src/src/`) | Module | State and what changes it |
|---|---|---|---|
| Broadcast ring (topology B) | `broadcast_ring.hpp` | `BroadcastRing` | cells with a sequence word and payload words; `publish_batch`/`write_at` step by step, `attach`, `try_read`, `lap` |
| its idle path | `broadcast_ring.hpp`, `feed.hpp` | `RingIdle` | waiter count, mutex, condition variable; `wait_for_data`, `wake_readers`, `close`, `RingFeed::pop_batch` |
| its contract | | `BroadcastLog` | a log that grows and readers that take or lose its next frame |
| Bounded queue (topology A) | `bounded_queue.hpp` | `BoundedQueue` | circular buffer, counters outside the lock; `push_batch`, `pop_batch`, `close` |
| its contract | | `DropOldestQueue` | a FIFO that drops its oldest, takes nothing once closed, and returns nothing for good only when it is closed and empty |
| Ingest's surroundings | `fanout.cpp`, `ring_ingest.cpp` | `SourceBuffers` | receive buffers of the sources, the stop event, what `drain` takes |
| Fan-out ingest | `fanout.cpp` | `FanOut` | poll, drain, stamp, copy to each sink |
| Ring ingest | `ring_ingest.cpp` | `RingIngest` | one thread per source, one stop event for all |
| Choice of topology | `main.cpp` | `Ingest` | either ingest over the same surroundings |
| CAN source | `can_source.cpp` | `CanSource` | receive queue, wrapping drop counter |
| Synthetic source | `synthetic_source.cpp` | `SyntheticSource` | timer expirations and frames owed |
| Egress | `egress.cpp` | `Egress` | feed, connection, pending bytes, expected sequence, echo probe |
| Consumer | `frame_stream.cpp`, `record_main.cpp` | `EgressSession` | reassembly, tracker, recorded file; composed with `Egress` |
| Return of echoes | `frame_stream.cpp`, `egress.cpp` | `EchoReturn` | `send_back` with replies cut short, the `recv` loop of `drain_replies`, its decoding of what has arrived |
| The gateway process | `main.cpp`, `feed.hpp`, `egress.cpp` | `Gateway` | all threads and what `main` owns: construction and its failures, start, shutdown, report, destruction |
| Gap tracker | `gap_tracker.hpp` | `GapTracker` | operators over a tracker record |
| Loops over a batch | `record_main.cpp`, `can_source.cpp` | `Loops` | `ForEach`: what a variable holds after the body has run on every element |
| Wire format | `wire.cpp` | `Wire` | encoding and decoding over bytes of a small radix |
| Opening of descriptors | `tcp.cpp`, the `create` and `open` functions | `Opening` | each function as the sequence of its calls, any of which may fail |
| Generator | `gen_main.cpp` | `Generator` | absolute schedule, late wakeups, failed writes |
| Probe, recorder, cadence programs | `probe_main.cpp`, `record_main.cpp`, `cadence_main.cpp` | `ConsumerLoops` | connect, read, reconnect, tracker, warmup, file, exit status |
| Cadence monitor | `cadence.hpp`, `cadence_main.cpp` | `Cadence` | per-identifier state, composed with a bus and a lossy gateway |
| Samples | `samples.cpp` | `Samples`, `Percentiles` | bounded buffer with decimation; the nearest ranks of what it holds |
| Page server | `http.cpp` | `HttpServer` | one thread, clients that misbehave |
| Live view | `view_main.cpp` | `LiveView` | state shared by the frame loop and the page |

Three modules put parts that share no state into one specification, of which a
behaviour exercises one, chosen by the initial state: `Waiting` (`BoundedQueue`,
`RingIdle`), `OneThread` (`Wire`, `Percentiles`, `CanSource`, `SyntheticSource`,
`Generator`, `Opening`) and `ConsumerPrograms` (`Cadence`, `HttpServer`,
`LiveView`, `ConsumerLoops`, `EchoReturn`).

## How the modules fit together

                     Gateway: main, and every thread it starts
    .------------------------------------------------------------------.
    | CanSource  SyntheticSource                                       |
    |       \     /                                                    |
    |  FanOut   RingIngest      over SourceBuffers, chosen in Ingest   |
    |     |          |                                                 |
    | BoundedQueue  BroadcastRing + RingIdle   each with its contract  |
    |     |          |                                                 |
    |     +- Egress -+                                                 |
    '---------|--------------------------------------------------------'
              |            Wire, Opening, GapTracker: used throughout
         EgressSession (Egress + FrameStream + recorder), EchoReturn
              |
         ConsumerLoops, Cadence + Samples, LiveView + HttpServer

Each layer is checked in full detail by itself and appears to the next one as its
contract: `FanOut` uses queues that drop their oldest (`DropOldestQueue`, which
`BoundedQueue` is shown to implement); `Egress` uses a feed that keeps the last
`Capacity` frames, which is what both the queue and a ring cursor provide
(`BroadcastLog`, which `BroadcastRing` is shown to implement). `Gateway` is coarser
in each part (frames are numbers; a batch is published, read or sent in one step)
and has what no single part has: several egresses over one ring or over a queue
each, in the hands of a `main` that builds, stops and destroys them in an order.

Conventions. Names are those of the source. A step is what other threads can see
as one: a critical section, an atomic access, a system call, or a stretch of code
touching only its thread's own state. `mutant:` marks a definition that is not
part of the model: a plausible slip in the code, kept to show that the property
concerned would notice it. Variables commented `history` only record what happened.

### Modelling decisions

- **Memory order of the ring.** With `ClaimOrdered` the word stores follow the
  claim for every observer. Without it a reader's sequence load may return the
  value from before a claim that is in progress, which is what a CAS with acquire
  order followed by relaxed stores permits (it is not possible on x86).
- **Tunings.** What `EgressTuning` and the kind of feed make of a batch is chosen by
  the initial state: in how many pieces it is gathered, and whether probes are sent.
  A batch taken from a queue without linger is
  one contiguous piece. It is several when `coalesce` pops again or when
  `read_batch` of the ring is lapped and goes on.
- **The connection** carries units, a header or a record; partial writes stop
  between units. `send` may still succeed into a connection the peer has closed.
  `EchoReturn` has the other direction in units of eight bytes, so that a reply can
  be cut anywhere and the search for the next one starts in the middle of it. Each
  `recv` takes any piece of what is on its way, and the loop may end after any of them.
- **The bytes of the wire format** have a small radix, so that every header can be
  enumerated and the 32-bit product of count and record length really wraps.
- **Construction.** `main` fills its owning variables in the order it declares them
  and destroys them in reverse; a vector's elements may go in any order. An object
  of `Opening` is a list of calls with what each failure path closes.
- `Cadence` models the gap-aware monitor. A rank computed as a rounded-up product
  of doubles is exact for the sizes used, and an integer quotient here.
- The branch at the top of `Egress::run` that flushes left-over bytes is not an
  action: `Framing` shows, among other things, that there never are any.
- `Cadence` has a gateway that announces every loss; what `egress_silent` shows is not
  repeated there.
- `poll` and `read` errors that only start a loop over are stutters, and a failing
  `poll` of the egress, after which it leaves its wait, is left out. Statistics
  that no property uses are left out, as is the identifier table of the view.

### Not modelled

- The ring stress driver: it is a test of what `BroadcastRing` models.
- Clock, real-time and version helpers: one system call each, or a constant.
- Option parsing, the text of every report, what the tap prints, the page's HTML
  and `write_csv`: formatting, with no state another part depends on. A gateway
  with a tap and no consumer is left out too (`NEgresses` is at least one).
- `round_up_pow2`: the capacity is a constant; see the deviations.

## Runs

`tlc -config <run>.cfg <module>`.

| Run | Module | Question | Shows |
|---|---|---|---|
| `ring` | `MCBroadcastRing` | Is the ring a broadcast log? | writers exclude each other, frames are whole, every position is delivered or counted, `BroadcastLog` is implemented, publishes return, every frame is settled (33,257 states) |
| `waiting` | `MCWaiting` | Does a waiting consumer get its frames, in either topology? | queue: every item accounted for, `DropOldestQueue` implemented, no wake-up lost; ring: the waiter count is exact, close wakes everyone, published frames reach a polling reader (20,924) |
| `ingest` | `MCIngest` | Does ingest keep order and end cleanly, in both topologies? | sinks agree, order per source, no hole and no lost buffer after a stop, stop returns, no starvation by a source that is readable for ever (139,579) |
| `egress` | `MCEgressSession` | What does a consumer get through disconnects? | decodable stream, at-most-once, books that close, honest markers, stop joins, frames arrive (394,154) |
| `gateway` | `MCGateway` | Does the process start, stop and fail to start in an order that is safe? | the closing report adds up, threads end after the ingest and drained, nothing refers to a destroyed object, shutdown completes (352,728) |
| `one_thread` | `MCOneThread` | Do the sequential parts compute and clean up as they should? | exact headers and faithful records, even decimation and nearest ranks, drop count exact from its first stamp on and across wraps, generator on schedule, no descriptor leaked by any failing open, owed frames made (181,648) |
| `consumers` | `MCConsumerPrograms` | Do the programs behind a gateway tell the truth? | loss is not lateness and lateness is flagged, pages consistent, exit statuses honest over reconnects, round trips real and restored after a reply cut short, the page server stops and serves (454,433) |

Five runs end in a counterexample: the code does not do what a comment, document or
test says of it. `PROJECT.json` quotes the sentence for each.

| Run | What TLC shows |
|---|---|
| `ring_torn` | without `ClaimOrdered` (a weakly ordered machine) a reader can validate a mix of two frames |
| `idle_lost_wakeup` | a notification without the mutex can miss a reader, which then sleeps until its timeout |
| `egress_silent` | a loss inside a batch gathered in pieces is not announced |
| `egress_record` | a batch cut off by a disconnect leaves a jump in the record that no marker explains |
| `probe_warmup` | with `--cross` the probe compares wall-clock time with a monotonic instant, and no sample is ever discarded as warmup |

### Deviations without a run

Met while modelling; they follow from a few lines each, and no run is kept for them.

- `feed.hpp:119`: `RingFeed::pop_batch` may return nothing before its timeout, since
  the write position moves before the frame is published (`feed.hpp:41` says it blocks).
- `egress.cpp:307`: the first gap after a reconnect is reported as an absence even where
  its frames were overwritten after the new connection was accepted.
- `egress.cpp:414`: the thread can exit with frames left in its feed, when they are
  queued and the feed is closed between the empty pop and the test of `closed()`.
  `EndsDrained` bounds it: they came after the last look.
- `frame_stream.cpp:108`: `send_back` gives up when the socket is full, also when part
  of the reply has been sent, though the comment calls a half-written reply "worse than
  none". `EchoHeals` shows that the gateway finds later replies all the same.
- `record_main.cpp:180`: echo probes are written to the file (`docs/wire-format.md:152`
  says a consumer does not record them), and its count of frames includes them and the
  markers.
- `record_main.cpp:188`, `:217`: the results of `fflush`, `fsync` and `fclose` are
  ignored; the program can exit with status 0 and an incomplete file.
- `probe_main.cpp:316`: with `--cross` and `--e2e` together, instants of two clocks are
  subtracted.
- `fanout.cpp:120`: a stop discards what one drain of a source does not take.
- `can_source.cpp:166`: the first overflow stamp a source sees is only the base of later
  differences. What the kernel discarded before it is not counted, although `source.hpp:16`
  says of the counter "dropped by the kernel before we ever saw them", `can_source.cpp:81`
  "Count what the kernel dropped before we saw it." and the repository's `README.md:102-103`
  the same. A kernel that sends no stamp while its count is zero makes this the first
  burst of losses. `DropsSinceFirstStamp` says exactly how much is missing.
- `wire.cpp:135`: `decode_frame` accepts a record whose reserved byte is not zero.
  `docs/wire-format.md:63` says the byte must be 0 and `:17` "A decoder rejects a record
  that sets one." `CodecExact` claims nothing of such a record.
- `samples.cpp:43`: with a capacity of one, `add` outgrows the reservation.
- `synthetic_source.cpp:61`: frames can be owed while the descriptor is not readable.
- `view_main.cpp:71`, `:681`: the latency window is not cut while nothing arrives, and an
  entry of the rate chart can span an outage.
- `broadcast_ring.hpp:420`: `round_up_pow2` does not end for a request above 2^63.

### Bounds

Every bound is a constant, commented `bound:` where it is declared. They are
chosen so that the interesting case happens several times.

- `ring`: two cells are lapped twice by five tickets, of two producers in batches of
  one or two, with frames of two words.
- `waiting`: a batch of three overfills a queue of two; six items; reads of one or of
  three. Two readers park on a ring that one producer publishes to, at most two frames.
- `egress`: a feed of two with four frames overruns before, during and after an outage,
  with two connections, a socket of two units and two probes.
- `ingest`: three frames at two sources make a buffer longer than one drain, and
  batches that overfill a sink. Messages that hold no frame arrive at the first source
  without end, one in the buffer at a time, so that `NoStarvation` is asked of a thread
  whose first source may always be readable; a batch of frames only adds pushes, which
  never wait.
- `gateway`: two sources and two egresses, so that one is stopped while the other runs
  and a construction fails between two elements of a vector; three frames in bursts of
  up to two lap a ring, or overfill a queue, of two.
- `one_thread`: bytes of eight values; a buffer of six samples is halved four times; the
  kernel's drop counter is taken modulo four and wraps; a generator of four frames that
  may wake more than two periods late; a host name with two addresses.
- `consumers`: two identifiers with different periods calibrate, lose frames and
  reconnect within ten units of time; two HTTP clients; two connections of three records
  of every kind, starting at number zero or one; three probes whose replies of seven units
  are cut anywhere and read up to three units at a time into a buffer of nine, which one
  whole reply after a part of another overfills.

Where frames are told apart only by position, more of them repeat the same
situations. Two combinations are left out for size: lingering together with echo
probes, and two producers together with two idle readers.

Deadlock is checked in every run: where a component may come to rest, the
specification says so with a step of its own.

### Fairness

Weak fairness of each thread stands for a scheduler that runs every thread;
strong fairness on taking a mutex, in `RingIdle`, for a lock that is not withheld
for ever. Timeouts are assumed to expire only where named (`Polls`, the premise of
`PublishedIsDelivered`, and `HttpServer`, whose thread has no other way out of a
silent client). In `EgressSession` a consumer that stays connected is assumed to keep
reading, and `Egress::stop` to run to its end once begun; `main` stops the ingest
first, without which a busy feed could keep the thread from noticing the stop.
`Gateway` drops the assumption about consumers: `main`, the ingest and each egress
thread are weakly fair, and nothing is assumed of frames, consumers or the signal, so
that a shutdown has to complete while a consumer has stopped reading. Nothing is
assumed of buses, of consumers coming or leaving, or of HTTP clients anywhere. The
timer of a synthetic source goes on ticking.

## Proofs

`tlapm <module>.tla` for each of the eight modules named here.

**`RingEchoProofs`**. The broadcast ring, for any sets of producers and readers, any
capacity, frame and batch size:

| Theorem | States |
|---|---|
| `Inductive`, `TypeCorrect` | the inductive invariant, type correctness |
| `ProducerExclusion` | `SingleWriter` |
| `NothingVanishes` | `Accounting` |
| `KeepingUpLosesNothing` | `LossOnlyByOverrun`, an action property |
| `NoTornFrames`, `InconsistentUnreachable` | `WholeReads`, `NeverInconsistent`, assuming `ClaimOrdered` |
| `RingImplementsLog` | the refinement, assuming `ClaimOrdered` |

The return of echoes, for any size of a receive and of the buffer and any number of probes:

| Theorem | States |
|---|---|
| `EchoesAreReal` | `RoundTripsReal` |
| `EchoesHeal` | `EchoHeals` |

The ring: none of its properties is inductive by itself. Writers exclude each other because a cell's
sequence word, while a producer writes, names that producer's position
(`WriterHolds`), and positions are handed out once (`TicketsDisjoint`). A copy is
whole because the word a reader loaded first named its position as complete, and as
long as that word has not moved the words copied are that frame's (`CopySound`,
`CellContents`). A reader gives up positions only after it has been overrun, since
a cell can only name positions of its own residue, whole laps apart
(`SeqNamesPosition`, lemma `SameCell`). The assumptions are those named in
`BroadcastRing`: a positive capacity, a frame of at least one word, bounds that are
natural numbers. The first five theorems do not assume `ClaimOrdered`: of what the
ring promises, only the integrity of payloads depends on it.
The echoes: what is in the buffer, just received and on the wire is in step (`InStep`), a
unit followed by the next one of its reply or by the first of a newer one. Seven units of
which the first, second, third and sixth are in place are then a whole reply
(`AnswerIsWhole`), whatever was cut before them. After a drain of whole replies only, a
residue is consumed or found out of sync (`HealedAfterResidue`), and from an empty buffer the
next drain decodes its replies one by one (`HealthyDrain`).

**`WaitingProofs`**. The queue, for any capacity and batch sizes: `QueueInductive`,
`QueueTypeCorrect`, `QueueConserves` (`Conservation`) and `QueueImplementsFifo`
(`ImplementsDropOldest`). The counters are updated outside the lock, so the law
pushed = popped + dropped + size holds only between operations; the invariant
`Balance` adds what is stored, taken or dropped but not yet counted. The refinement
rests on an argument about the circular buffer: an index wraps at most once
(`WrapOnce`), so the sequence read off the buffer loses its head when a pop advances
it (`ItemsTaken`) and gains a tail, after losing its head if full, when a push stores
(`ItemsPushed`). `Orderly` adds that nothing is stored after the close.
The idle path of the ring, for any finite set of readers: `WaitersCounted`
(`WaitersExact`) and `CloseLeavesNobodyAsleep` (`NobodyAsleep`). The count is that of
the readers between its increment and its decrement; and a reader that parks after the
close tests the flag with the mutex held, which `close` needs before it notifies.

**`OneThreadProofs`**, for every value of the constants of each part:

| Theorem | States |
|---|---|
| `GeneratorPaced` | `Paced` |
| `CanCountsDrops` | `DropsSinceFirstStamp` |
| `SamplesSpread` | `EvenlySpread`, and `NeverAllocates` for a capacity above one: both are parts of `PercentilesFair` |
| `CodecIsExact` | `CodecExact` |
| `HeaderExact`, `FrameExact` | the same of any sixteen bytes, and of any frame whose fields fit; `FrameExact` also says that the reserved byte is not looked at |

The generator: frames sent and expirations still owed add up to the expirations read,
which the clock bounds (`GenInv`). The CAN source: every stamp in the receive queue is
less than a turn of the kernel's counter beyond the stamp before it, the last one drained
included (`Chained`), so the difference taken modulo the counter is the true one
(`DeltaExact`); the chain survives messages without a stamp, arrivals, discards and
drains of any length, over which the loop keeps it by induction (`BatchKeeps`). The
samples: neighbours are from one to less than two strides apart (`Covers`), and the last
one is less than a stride, plus what is being skipped, from the end of the run; without
the second bound neither the next sample nor a halving would keep the first.
The codec: `store_le` writes the digits of a number, from which `load_le` puts the number
together again (`LoadStored`, by induction over the bytes); and bytes that load the same
number are the same bytes (`LoadDetermines`), so that a field that passes its test is the
field that was encoded. A record is then known by what stands at each offset (`Stands`),
which appending further fields does not disturb (`FieldAppended`), and there is one header
for a count (`HeaderUnique`).

**`ConsumerProofs`**, for every value of the constants of each program:

| Theorem | States |
|---|---|
| `CadenceFlagsExact` | `FlagsExact` |
| `PageIsConsistent` | `PageConsistent` |
| `ReportIsHonest` | `ReportHonest` |

The cadence monitor: what it remembers of an identifier is sound (`Sound`): unless it is
marked for resynchronisation, the time since its last frame is at least a period, and
exactly one on a punctual bus; every calibration sample is such an interval, and their
median is one of them (`MedianIsSample`). The live view: the samples are in order of time,
so that dropping the front until it fits leaves a window (`FromWindowEffect`), and the slots
of the ring are the last entries of a history that only grows, at their places modulo its
size (`RingAdvances`). The reports: over a batch of any length, by induction, the tracker's
unannounced holes are those of the stream, and its frames those of the bus (`BatchTold`).

**`GatewayProofs`**, for any number of sources and egresses,
any capacity and any batch size, in both topologies:

| Theorem | States |
|---|---|
| `ReportAddsUp` | `ReportBalances` |
| `ThreadsEndDrained` | `EndsDrained` |
| `DeclarationOrderSafe` | `NothingDangles` |
| `NothingLeaks` | `NoLeak`, for any number of addresses of a host |

The first two follow from `GInv`: `main` touches no feed before the ingest has been
joined (`Phases`, `IngestFirst`), so no queue ever refuses a batch; a sink that the
running batch has not reached lacks exactly that batch (`QueueBooks`), and a ring
feed's figures lag its cursor only between the look and `publish_stats` (`RingBooks`);
a thread that found nothing left nothing (`LooksKept`). The third adds `LInv`: what is
alive is a stack in declaration order (`Stacked`), complete while any thread runs, and
when it is unwound every thread has ended or never started. The opening
functions: each is a list of calls, and `Leads(st, pre, post)` says of a list what may be
open before and after it, and that each call, should it fail then, closes exactly that.
Lists compose (`LeadsJoin`), and a list each call of which keeps to what may be open leads
there (`LeadsSteady`), as the tries at the addresses of a host do.

**`IngestProofs`**, for any number of sources, of sinks and of messages, any buffer,
batch and sink size, in both topologies:

| Theorem | States |
|---|---|
| `IngestInvariant` | the inductive invariant `IngestInv` |
| `SinksHoldOneSequence` | `SinksAgree` |
| `IngestOrder` | `OrderKept` |
| `StopLosesNothing` | `StopKeepsFrames` |

The properties speak of sinks, stamps and cells; the invariant has to say where the
frames are before they get there. A frame not yet stamped or published comes after all
of its source that are: the buffer, a ring thread's batch and what has left them are in
one order (`BuffersInv`, `LogInv`, `RunInv`, `CellInv`). A drain splits a buffer into
the frames it hands on and a rest that comes after them (`Split`), and push_batch turns a
run of the stamped sequence into a run (`RunPushed`), overwritten or not. In the ring
every position handed out is published or claimed by exactly one thread (`PlacesInv`),
so no hole is left when all have exited. For the stop, what was in a buffer at the call is
still in reach of the next drain, in a batch, or ingested; and once a thread that saw the
stop event has passed a source, it is not in the buffer any more (`FanOutStop`,
`RingStop`).

**`EgressProofs`**, for any feed and socket size, any number of frames, connections and
probes, and any way of gathering batches:

| Theorem | States |
|---|---|
| `SessionInvariant` | the inductive invariant `EgressInv` |
| `StreamDecodable` | `Framing` |
| `DeliveredAtMostOnce` | `AtMostOnce` |
| `ConsumerBooksClose` | `BooksClose` |
| `OverrunsBlamed` | `OverrunsAreFaults` |

At the centre is `StreamInv`: the records received of an unfinished batch, those in the
socket and the unsent rest of `pending_` are one stream, and that stream takes a reader
that is owed `Owed` records and expects a given frame to one that is owed none and
expects what the egress will send next (`Flows`). It is needed because each property
is about one end of the connection while its cause lies at the other: a batch is encoded
as a whole, written in pieces, read record by record and observed only when complete.
`Flows` composes and splits at every point (`FlowsJoin`, `FlowsSplit`), so that a write, a read
and a disconnect each move the points and nothing else; what `encode_batch` appends is
such a stretch (`BatchFlows`). `BatchInv` keeps the batch that
is being gathered increasing, and contiguous if popped in one piece; `LossInv` keeps what
was lost during an outage below the first frame of the next batch, so that the marker of
an overrun cannot cover it. When the connection is down what is left of the stream ends no
later than the egress's next frame.

**`StreamLemmas`** holds what several of these rest on. The loops over a batch are
a recursively defined function (`ForEach`), and there is an induction to do: `Upto` is
induction over an interval, stated for a set instead of a predicate and proved from
the least element of a set of naturals; `LoopSolution` shows that the function a loop
defines exists, so that each step of the loop is one step of the body. Then it has
what one record makes of a consumer's `GapTracker` (`ObserveGapEffect`,
`ObserveFrameEffect`).

The constants are assumed only what their modules' `ASSUME`s say, of which TLC evaluates
each: sizes are natural numbers, positive where the code cannot run with zero.

Only model-checked: all liveness (fairness and `ENABLED` are out of the prover's reach), and
of `PercentilesFair` the part about nearest ranks, since the provers do not know what
`SortSeq` returns. Every other property of a passing run is a theorem above.

## What could follow

The identifier table of the view and the probe's pauses could be modelled, and
`Gateway` could have egresses of different tunings.
