# Formal verification of xerocole

xerocole is a log shipper in Rust (futures 0.1 on tokio's thread pool): inputs produce
events, a central queue hands them to copies of a filter graph, and groups of outputs
take what the graph lets through. This directory holds TLA+ models of its concurrent
parts, the TLC configurations that check them, and TLAPS proofs about them.
`PROJECT.json` ties every definition to the lines it models.

Run `tlc -config Signal.cfg Signal.tla` and likewise for the other configurations (those
of the pipeline, the frame decoder, the buffers and the program belong to the module with
`MC` before its name), and `tlapm` on `Induction.tla` and on each module whose name ends in
`Proofs` for the proofs.

## The system

| Component | Source | State | Operations | Talks to |
|---|---|---|---|---|
| signal, pulse | `util/futures/signal.rs` | an atomic flag, a locked list of tasks | `signal`, `poll` | any task that waits for it |
| file input | `component/input/file.rs` | `State` (list of files, index, map of inodes) and one `WatchedFile` per file, each behind a mutex | discovery every 5 s, the reader's stream | the pulse, the signal, the file system, `BufDecoder`, the pipeline |
| pipeline | `pipeline.rs` | the queues and the tasks between them | `start` and what the tasks it spawns do | inputs, filters, outputs |
| stream decoders, `BufDecoder` | `component/decoder.rs`, `decoder/stream/*` | two buffers with read and write positions; gzip: header, body, footer | `writeable_buf`, `decode`, `flush` | file input, frame decoder |
| frame decoders | `decoder/frame/delimited.rs` | the glue buffer's positions | `decode`, `flush` | `BufDecoder` |
| event decoder | `decoder/event/text.rs` | none | `decode` | frame decoder |
| retry | `retry.rs` | attempts, delay | `handle` | start and stream of an input |
| outputs, encoder | `output/stdout.rs`, `output/null.rs`, `encoder/debug.rs` | encoder's `first` | `start_send` | pipeline |
| regex filter | `filter/regex.rs` | none | `filter` | pipeline |
| metrics | `metric.rs` | a map of counters behind a mutex | `set`, `inc` | the inputs' tasks |
| main | `main.rs` | | builds the pipeline, starts the runtime | all of them |
| values, registry, errors, macros | | tables and data | | everything |

What is hard in it, and what makes each part correct:

* **signal/pulse**: a check, a registration and a second check race with a
  compare-and-swap and the draining of the list, all with relaxed atomics. No raised flag
  may leave a waiting task asleep.
* **file input**: two tasks share the list of files; the reader takes the lock three times
  per turn and does its system calls without it. Its index has to keep its meaning, it may
  not wait with work to do, a failing file may not stop the others, and no line may be
  skipped or, unless the file was cut, repeated.
* **pipeline**: events compete for copies of the graph, queues are bounded or not, and any
  task may die in the middle of an event. Each event has to reach all outputs of one group
  in one order; and whatever dies, everything must end when the inputs do.
* **decoders**: how the input is cut into chunks must not show in the output. Two buffers
  are compacted and grown while a stateful stream decoder fills one from the other; the frame
  decoder keeps positions into a buffer whose front its caller drops.
* **the program**: errors of an input may only delay it; each input counts its own events,
  and an event reaches every output once, with the right fields, whatever the order in
  which a hash map yields the filter's patterns.

The list of hazards, each at its line, is in `PROJECT.json`.

## Modules

| Module | What it is |
|---|---|
| `WakeFlag` | abstract: a flag that is raised and, once raised, taken by whoever waits |
| `Signal` | the mechanism of `signal.rs`; implements `WakeFlag` |
| `SignalProofs` | its theorems |
| `FileInput` | discovery, reader and file system; the pulse through `WakeFlag`'s actions |
| `FileInputProofs` | its theorems |
| `Fanout` | abstract: every event gets once to all outputs of its group, in one order |
| `Pipeline` | the tasks and queues of `pipeline.rs`; implements `Fanout` while nothing fails |
| `MCPipeline` | a small pipeline for TLC |
| `PipelineProofs` | its theorems |
| `Delimited` | the frame decoder of `delimited.rs`, against a reference split |
| `MCDelimited` | its configurations for TLC |
| `DelimitedProofs` | its theorems |
| `Buf` | the buffer of `decoder.rs`: operators on its length and positions |
| `BufDecoder` | both buffers, the stream decoders, the reader's turn on one file; uses `Buf` |
| `MCBufDecoder` | where frames end, for TLC |
| `BufDecoderProofs` | its theorems |
| `Events` | what the text decoder and the regex filter make of an event: operators |
| `Inputs` | the builder's ids, counters, and the inputs' tasks with their retries; uses `Events` |
| `Outputs` | the sinks stdout, with its encoder, and null |
| `Program` | `main.rs`: `Inputs`, copies of the filter and `Outputs` around one queue |
| `MCProgram` | two inputs and two patterns for TLC |
| `EventsProofs` | what the filter does to an event, for any configuration |
| `ProgramProofs` | the theorems of `Program`, with `Inputs` and `Outputs` |
| `Induction` | induction and recursion over a rank, in a form the provers can use |

### Signal

`signalled`, `waiting` and `lock` are the fields of `Signal`; `spc` says where a thread is
in `signal()`, `rpc` where a task is in `poll()`, `task` what the executor knows of it
(idle, scheduled, running, notified while running). Each access to the flag and each
critical section is an action of its own; only draining the list is cut further, one
notification at a time. The variable `pulse`, chosen in `Init` and then constant, says which
of the two `Poller`s it is: a latched signal, which stays up, or a pulse, which has one
receiver that takes it down. `WakeFlag` has `latched` for the same.

All accesses to the flag are `Ordering::Relaxed`. A check may therefore read an old FALSE;
only the mutex orders flag and receiver. `Check` may always miss, `Recheck` only while a
sender is between its swap and the mutex (`MayMiss`). A raise that reads an old TRUE does
nothing and is a stuttering step.

The wake-ups a task gets from elsewhere (`OtherWakeUp`: in the file input the timer that is
`select`ed with the pulse) can happen but are not fair: the flag is taken without them.

### FileInput

A file's content is a number of lines; `offset`, `len` and reads are counted in lines, and
a decoded line is one event. This is what `BufDecoder` and `Delimited` give their user: a
part of a line stays in the buffer until the rest has come. The decoder can fail on the
files in `Corrupt`, and the file system can refuse to open or to read those in `Unreadable`, at
any time. `InitialLines` lets files be born with content.
`MayOverrun` lets any read panic for want of room in the buffer (finding 4): lines do not
tell when that happens, so it may happen always.

Discovery lists the names one by one (`ScanPath` takes a length that is old when it is
used), then applies the list under the lock (`dpc = "apply"`), each entry under the lock of
its file. A turn of the reader is `NextItem` (timer or pulse), `Pick`, `Stat`, `Check`,
`Fill`, `Decode`, `More`, `Emit` for each event, or `Error`; steps that lock `State` wait
for discovery (`StateFree`), `Stat` and `Fill` lock only the file and may fall in the middle
of discovery's loop. The file system does what it likes in between.

Two history variables say what a file's offset stands for. `settled` has the lines of a file
that have been emitted or lay before its start position. A truncation makes other lines of them:
it empties `settled` and, if discovery or the reader knows the file, puts it into `cut` until the
reader begins it again, with which its lines are counted anew. The code notices a
truncation only if the file is still shorter than the offset when it looks (`file.rs:228`): a
file that has grown to its old length again, or beyond, has lines below the offset that are
skipped for good. `Undisturbed` names the entries of which `NoGap` speaks: no other file is open
under them (after a rename before the first read, `file.rs:300`), and their file is not in `cut`
unless the offset is 0. `Stale` is the same for `EventuallyEmitted`.

The indices of the code count from 0; `cur` and `fi` do too, and `files[cur + 1]` is the
file. The map `file_id_to_idx` is the inverse of `files` by construction of both
(`IndicesOf`).

### Pipeline

The tree of nodes is given by its tasks: one for a `Switch`, one for an `OutputGroup`;
filters run in the task below them, `ChainLength` of them (one `Filters` node; two in a row
are not modelled). A filter is modelled as answering one event, or an error, which is what
`filter/regex.rs` does and the trait allows it to do; a predicate says yes, no, or fails.
Each of the `Copies` has its own tasks and branch queues and shares the input queue and the
group queues. The metric counter is `fetched`. Sends through a sender cloned for one
message always find room (the sender's own slot), as they do in futures 0.1: `Switch` and
`SendOne` have no guard on the length. `forward` keeps one sender per task, so a group's
queue holds its capacity and one more for each sender. `via` and `passed` are history
variables.

`Below` and `Reached` say which tasks, and so which events, a place in the tree can see;
`TreeAssumption` and `GroupAssumption` say that it is a tree and that every output is in one
place of one group, as `pipeline.rs` builds it from nested vectors.

When an input's stream ends, a queue's senders or receiver are gone, or something fails,
the task in question ends, drops what it holds, and its neighbours find out when they next
use the queue.

### Delimited

`Decoded` is one call of `decode`: it folds `CutAt` over the delimiters that `LineEndings` or
`Matches` find from the glue position on, and rebases. `Flushed` is `flush`. The caller is
external: it appends any byte, has the buffer decoded whenever it likes and drops what was read
(`Receive`, `DecodeBuf`, `FlushBuf`), so every division into chunks is a behaviour. Slices out
of range and the assertion on the glue position end in `status = "panicked"`. The reference is
`Expected`: the places of the whole text where a line ends for good (`Ends`), those of them
where the gluing breaks (`Breaks`), and the pieces between. Delimiters of several bytes are
compared with the reference nowhere, because of finding 3 (`Sound`). Nor is a pattern at the
start of a frame that is to be glued to the next one: `update` leaves `pos` at the start of
what has been glued so far, so that from the second frame on it is the first one that the
pattern is compared with again (see the end of Findings).

### BufDecoder

A byte is known by its position in the file, or in the text that comes out of the stream
decoder, so a buffer is a length, two positions and `base`, the bytes dropped from its front
(`Buf`); `base + rp` and `base + wp` say which bytes it holds. `MinLen` is the 512 of `grow`.
A turn is `Fill`, then rounds of `DecodeRound` (the stream decoder, once), `TakeFrame` for each
complete frame and `EndRound`, until a round has written nothing and the stream decoder needs
more input; `DecodeFails` is the error path, which drops the turn's events. `gzip` has the
three states of the code, members of equal length, and an inflater that in each call takes any
part of the input after which it has no more of it or no more room. A broken member fails at its
header, again and again. Any body may turn out to be spoilt, in any call, after text of it has
been given (`Spoils`); the inflater then stays where it is, and so does the buffer. `Flush` is modelled although
the file input does not call it.

### Inputs, Events, Outputs, Program

`requests` are the calls of `PipelineBuilder::input`; `SetCounter` and `SpawnTask` are the
two halves of the loop of `start_inputs`, which runs while the tasks it has spawned
already do. A task is started and then read under a `RetryErrorHandler` of its own each.
`Fetch` counts an event (and panics if there is no counter), `Enqueue` puts it into the
queue when there is room. `Filter` and `Broadcast` are what a copy of the graph in
`main.rs` does; that this is all the graph does to an event, `Pipeline` shows in detail.
`outQueue` has no bound (`pipeline.rs:317`). `PrintEvent`, `Refuse` and `Swallow` are the
outcomes of `start_send`; `Refuse` may happen any number of times. An event
has two fields, the text and the path of its file (`FileFields`), so patterns for both compete
when they capture the same name. `Filtered` adds the captures of every pattern as
`FilterImpl::filter` does, for each order of the patterns; `AsConfigured` says what should come
of it: in that order, the first capture of a name wins, and no field that was there is lost. `sent`, `printed`, `swallowed` and `refused`
are history variables.

## What the runs check

| Run | Bounds | Shows |
|---|---|---|
| `signal` | 2 threads; 2 tasks, latched, or 1 task, pulsed | `NoLostWakeup`, refinement of `WakeFlag` with its liveness |
| `file_input` | 2 files, 2 names, 3 writes or truncations, reads of 1 or 2 lines, one file corrupt and unreadable at times | `IndexInBounds`, `NoStall`, `NoGap` |
| `file_input_liveness` | 2 files of one line, 2 names, 1 write or truncation, one file corrupt and unreadable at times | `EventuallyEmitted`, `RoundsComplete`, `ShutdownEndsReader` |
| `file_input_restart` | 1 file, 2 appends | violation: finding 1 |
| `pipeline` | 2 copies, a switch with 2 branches to groups of 2 and 1 outputs, 1 input of 3 events: one for each branch, one for none | refinement of `Fanout` with its liveness |
| `pipeline_failures` | the same with failures; two events for the group of 2, at one a predicate fails | `SameCopyInOrder`, `OutputsAgree`, `FailsSafely` (each step is one of `Fanout` or a stutter), `Terminates` |
| `filter_chain` | 1 copy, 2 filters, 2 events | violation: finding 2 |
| `delimited` | 6 bytes out of 4; 24 configurations | `FramesOfWholeInput`, `FlushedInFull`, `NeverPanics` |
| `delimited_dos` | 5 bytes, `line: "dos"` | violation: finding 3 |
| `buf_decoder` | files of up to 20 bytes, buffers from 4 bytes on, 7 sets of frames, plain and gzip (2 + 2 + 3 bytes a member, the third one broken, any body spoilt) | `BytesInOrder`, `BufferBounded`, `NothingLeftBehind`, `FramesAccountedFor`, `TurnEnds` |
| `buf_decoder_overrun` | the same | violation: finding 4 |
| `program` | 2 inputs of 2 and 1 events, 1 copy, queue of 2, 2 errors, 2 patterns for different fields in both orders | `CountersExact`, `PausesFollowFailures`, `EventsApart`, `PrintedIntact`, `EverythingComesOut` |

Each property is matched by a mutant, a wrong version of one action, under which TLC finds
it violated; they stand before the action they are mutants of.

Why the bounds are enough. *Signal*: the hazards need one thread that drains while another
swaps, and a task that registers while another is being woken; the theorems cover every
number. *FileInput*: one file to read and one to disturb (failing, unreadable,
truncated, removed, discovered late, at either end of the list); three writes are a line, its
reading, and a truncation or an append against a stale length, or a line, a truncation and a line
that makes the file as long as it was, the case that `NoGap` excepts (without the exception TLC
finds it violated). A file is renamed only to a vacant name that no file has had: with two names,
while the other file has not been created, so the liveness run has few renames. `MayReusePath` is
FALSE in every run, so a name is never used for a second file; reuse, or a third name, takes the
runs beyond a few minutes. The theorems hold for any number of names, with and without reuse.
`RoundsComplete` and `EventuallyEmitted` owe something to the bound on writes: a file that grew as
fast as it is read would keep the reader from the others (`file.rs:247`). *Pipeline*: two
copies race for three events. With failures two of them go to the same group of two outputs, the
least in which order, overtaking and a half-done broadcast show; without, each branch gets one and
one event is wanted by no branch. Capacity 1 lets the group queue fill. *Delimited*: six bytes hold two line endings of two bytes with something before
each, a glued pair of lines and a third, and a flush in between starts the count anew;
positions are kept relative, so a longer text repeats these cases. *BufDecoder*: twenty
bytes are two good members and a broken one, and take each buffer through fill, compaction
and growth several times; the theorems cover every length. *Program*: the third error
would only repeat the longest pause; two inputs clash in each of the ways `requests`
lists.

Deadlock checking is off where the system may rightly stop: a latched signal has been seen
by everybody, the file input was shut down, the pipeline or the program has ended, the file
has reached its bound or was flushed.

### Fairness

* *Signal*: a thread inside `signal()` goes on, a scheduled task is run, a poll
  returns. Nobody has to raise the flag.
* *FileInput*: weak fairness of discovery (its timer ticks, `glob` and `stat` return) except
  for the failure of its timer; strong fairness of the reader, because discovery takes the
  lock of `State` again and again and a fair lock is still granted; the pipeline takes each
  event. The file system is not fair.
* *Pipeline*: weak fairness of every task, which the executor polls when it was
  notified. No failure is fair.
* *BufDecoder*: weak fairness of `Turn`: the reader's loop runs on a thread of its own. The
  file need not grow.
* *Program*: weak fairness of every task, the timers of retries included. Errors are bounded
  (`MaxErrors`), since inputs that fail for ever deliver nothing; a sink that `blocking()` has
  refused may be refused again, but printing, always possible, is not put off for ever.

## What is proved

For every value of the constants that the modules' `ASSUME`s admit, and so without the bounds
of the runs. `PROJECT.json` lists the theorems.

**SignalProofs.** `NoLostWakeup` speaks of a task that is already asleep, so it is not
inductive: the step that matters is the second check, taken between registering and falling
asleep. The strengthening `IInv` adds `Registered`: a receiver that has registered and has
not been woken since is in the list. With the two links inside `TypeOK` (who drains holds
the mutex; parked means idle or scheduled) each action preserves it. `TypeCorrect`,
`WakeupsAreNotLost`, and `RefinesFlagSafety`: a step of the mechanism is a `Raise`, a
`Take`, or leaves flag and completions alone.

**FileInputProofs.** Five theorems, four of them in three layers and one beside them.

* `Core` is `TypeOK /\ IndexInBounds`: types are not inductive without the bounds of the
  index through a turn, nor the bounds without the types (`CoreHolds`; its parts are
  `TypeCorrect` and `IndexAlwaysInBounds`).
* `Rounds` is `NoStall` and one more fact, that the trigger is up while events go out: it was
  raised before them, so the wait that follows does not stall (`ReaderNeverStalls`).
* `GapInv` is `NoGap` and one more fact: there is a batch only while it is decoded and given out
  (`Batch`), so that the next read replaces none. `NoLineIsLeftBehind` makes no assumption
  on the file system: names may be used again, as log rotation does. What that costs stands in
  the property: nothing is promised of a file whose decoder may fail, of an entry that has another
  file open than its own, nor of a file that was truncated and has not been begun again.
* `OpensWhatItFound`, from an invariant of its own: if no name is used for a second file
  (`~MayReusePath`, the one assumption a theorem makes on a switch), an open handle is that of
  the entry's own file. So only reuse leads to the second of these exceptions. The code does not
  rule it out; it is a property of the file system around it.

**PipelineProofs.** Four theorems, with failures at any step, from one invariant that follows an
event through the system: `IInv == TypeInv /\ InputInv /\ GraphInv /\ GroupInv`.

* `InputInv`: what an input holds is its next event, what it accepted comes before that, and
  the input queue has each input's events in order.
* `GraphInv`: within one copy of the graph, what a task holds is older than what waits for it
  (`TasksInOrder`), and what is further down, or has left for a leaf's group, is older than what
  is above it in the tree (`TreeInOrder`, `LeavesInOrder`): events overtake each other only in
  different branches.
* `GroupInv`: what an output took, what waits in its queue and, if it is still to get it, the
  event being broadcast make up its `Flow`. The outputs still to be served are a suffix of the
  group (`LeftIsSuffix`); two flows agree as far as both go, and while the broadcaster runs an
  output that is alive has the longest (`FlowsAgree`); a flow is in each copy's order
  (`GroupsInOrder`), and a group gets only what the tree routes to it (`Routed`). The flow is
  what makes a half-done broadcast invisible: an output that died keeps a prefix.

They give `TypeCorrect`, `OutputsAlwaysAgree`, `CopiesKeepOrder`, and `DeliversAsFanout`: under
`accepted` and `got` every step, failing ones included, is a step of `Fanout` or a stutter, which
is `FailsSafely` and the safety half of `ImplementsFanout`.

**BufDecoderProofs.** Five theorems from one invariant, `IInv`, of two halves that each stand
on their own, and a third one that needs both.

* `Flow`: what is in the buffers. Both are `GoodBuf` (positions in order, length bounded by
  what was once unread), `buf` is filled up to `offset`, and `Sync` ties the bytes that the
  stream decoder has taken to the text it has given; for gzip that needs the inflater's
  state, `InStep`. Lemmas about `Compact`, `Grow` and `EnsureWriteable` (`Writeable`) carry
  it through the buffer's operations, `StreamAnswersKeep` through any call of a stream
  decoder. The bound is inductive because a buffer grows only when at most half of it has
  been read.
* `FrameInv`: where the frames are. Those taken so far are with the reader, in this turn's
  events, or were dropped (`Accounted`); it needs that frames are taken in order of their
  ends.
* `CaughtUp`: when a stream decoder idles it has given all the text due for the bytes read, and
  a loop that stops has no frame left. For gzip it needs that a broken member is met only at
  its header, that a decoder that has failed stays so (`StuckOnceFailed`), and arithmetic on members (`DIV`, `MOD`) that stands in lemmas of its own.

They give `TypeCorrect` (the two assertions of `Buf`), `BytesStayInOrder`,
`BuffersStayBounded`, `FramesAreAccountedFor` and `NothingIsLeftBehind`, for every length of the
parts of a gzip member, every expansion and every set of frame ends. As the property, the last
one says nothing of a gzip file from where its decoder has failed. The bound is relative to what was
once unread: from there on everything stays unread, and the buffer grows with the file.

**EventsProofs.** `FilterAsConfigured`: what `Filtered` gives for any frame of any file, any configuration
and any order of the patterns is `AsConfigured`. `Filtered` is a fold of folds; the proof gives
the fold a closed form (after k captures the event has its own fields and, for every other
name captured among them, the first capture) and shows by induction on k that it holds.

**ProgramProofs.** Five theorems from `IInv == TypeInv /\ InputInv /\ PauseInv /\ SinkInv /\ OnceInv`.

* `InputInv`: which counters are there while the inputs are still being started (`StartInv`), what
  a task may hold (`TaskInv`), and that a counter is the number of events of those who share
  the id (`CounterInv`): `CountersAlwaysExact`.
* `PauseInv`: the delay is the first one, doubled once for each failure, up to the limit:
  `PausesAlwaysFollowFailures`, for tasks that have not ended (one that has given up has no delay
  to come).
* `SinkInv`: the encoder's `first` is up exactly until something was printed or refused:
  `EventsStayApart`.
* `OnceInv`: the places an event can be in are disjoint, and each has it once. With
  `FilterAsConfigured` for what a copy does on the way: `PrintedAlwaysIntact`.

**DelimitedProofs.** Four theorems. The first part gives types: what `Decoded` returns is a fold
over what recursive functions find (`Cuts`, `Turns`: a sequence of intermediate results, one per
delimiter, each `CutAt` of the one before). `TypeCorrect`: the positions kept between calls stay
inside the caller's buffer, under every configuration, unsound ones included.

The second part is that the frames are those of the whole input. It never compares two
divisions into chunks; it says where the decoder stands in the whole text.

* `Decided(c, s, e)` are the boundaries of frames that are known when the line endings up to e
  have been looked at. With frames glued to the previous one an ending counts only once the
  next piece has been seen, so e itself is not among them.
* `Live`: the frames given are the pieces between decided boundaries, the buffer begins at the
  last of them (`Top`), and `pos` stands at e.
* `ScanExists`: from any line ending the iterators go on to the next one, so that a search
  from `pos` in the buffer names the endings of the whole text behind e. `CutStep`: one turn of
  `decode_string` then goes from e to the next ending (`CutInv`). `LoopGives` is the induction
  over the turns, `DecodedLive` one whole call: afterwards all boundaries are decided
  (`DecidedAll`).
* `ReceiveLive`: one more byte takes no line ending back and puts none before e, so nothing
  that was decided changes. This is what holding back a carriage return at the end is for.
* `FlushedRest`: what `flush` cuts off is the ending of the last line.

`LiveInv` (a position e exists for which `Live` holds, all decided after a decode; afresh after a
flush) is inductive with `TypeInv`, and gives `FramesAreThoseOfWholeInput`, `FlushGivesTheRest` and
`NoCallPanics`. `Sound` is needed: `delimited_dos` shows one reason, the other is the pattern at
the start of a frame that is to be glued to the next one (see *Delimited* above); `MarkAtEnd` is the
lemma that a pattern at the end escapes it.

**Induction.** The library's induction theorems take an operator, which the provers here cannot
instantiate. `Induction` states induction over sets of numbers (`Induct`), that a function
defined by recursion over numbers exists and satisfies its equation (`Recursion`), and both once
more over any domain with a rank (`InductByRank`, `RecursionByRank`): enough to unfold recursive
functions and folds. Proved from the facts that every non-empty set of numbers has a least one.

TLAPS cannot do liveness under fairness or `ENABLED`: `EventuallyEmitted`, `RoundsComplete`,
`ShutdownEndsReader`, `Terminates`, `TurnEnds`, `EverythingComesOut` and the liveness halves of
`ImplementsWakeFlag` and `ImplementsFanout` are only model-checked. Every invariant of the passing
runs is proved.

The assumptions on the constants are those the code's types give: finite sets where it has
collections, sequences where it has vectors, captures that are pairs of a name and a text
(`CapturesAssumption`), inputs that name streams that exist (`RequestsAssumption`), a tree of
nodes (`TreeAssumption`) and outputs that belong to one place of one group (`GroupAssumption`).

## Findings

1. `file_input_restart`: discovery takes a file's length (`file.rs:128`), the reader reads
   what has been appended since, discovery then overwrites the newer length with its own
   (`file.rs:164`), and the reader takes the file for shrunk and starts over
   (`file.rs:228`): every line a second time. When the length goes stale between the
   comparison and the subtraction in `fill_buf` (`file.rs:304`) a debug build panics
   instead.
2. `filter_chain`: `filters.drain(1..)` (`pipeline.rs:269`) empties the chain at the first
   event; later events pass through the first filter only.
3. `delimited_dos`: for delimiters of two and three bytes the search takes each of the bytes
   for the whole (`delimited.rs:238`, `242`), the built-in `line: "dos"` included; longer ones
   are compared from their fourth byte on only.
4. `buf_decoder_overrun`: `fill_buf` bounds a read by the length of the whole buffer and slices
   its free part with it (`file.rs:304`): that slice, not the assertion of
   `advance_write_pos` behind it, panics when some bytes are waiting in the
   buffer and the file has grown by more than the room behind them.

Seen, and left out of the runs: the comment on `GlueState.pos` (`delimited.rs:163`) takes the
new frame to start there. For `glue: next` it does not: `update` moves `pos` only when a frame
is given out, so a pattern that looks at the start of a line sees that of the first glued one.

## Not modelled

* Values, spans, errors, macros and the registry: data and tables without behaviour over
  time. The adapters of `util/futures` are part of the steps that use them. Configuration
  parsing is modelled where it decides something (the frame decoder's delimiter, the
  filter's patterns).
* Reuse of inode numbers by the file system; the restart of a file
  of which a part is still in the decoder's buffers.
* Adjacent `Filters` nodes, and filters that answer several events or none. Fields that are
  no strings.
* Gauges, texts and floats in the metrics; the timer in `main` that prints them.
* An end of the retries: the program sets no limit, `GivesUp` is there for the branch.
* The delimiter that is an empty string in `BufDecoder`: the loop over `decode` would not end.

## Plan

1. *Done*: all modules above; every invariant and the safety half of both refinements hold for all
   values of the constants.
2. What `Delimited` promises its user, and `BufDecoder` assumes of a frame decoder, as one
   specification that both refer to: that frames end where the text alone says.
3. An abstract specification of what rotation should give, and what `FileInput` with
   `MayReusePath` makes of it.
