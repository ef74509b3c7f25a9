# Serial mock service: TLA+ models and proofs

The serial mock service answers on PTYs or ttys as a serial device would. It
cuts the bytes it receives into frames, matches them against the rules of the
active scenario, writes responses, captures everything, and is driven over
HTTP (fire a trigger, switch a scenario, read and clear the capture) and by
SIGHUP (reload of the configuration). This directory holds TLA+ modules
translated from `src/src/*.rs`, TLC configurations that check them on small
instances, and TLAPS proofs for all values of the constants.

`PROJECT.json` is the index: components, runs, the mutant that shows each
property can fail, the source lines behind each definition, hazards, findings
and theorems.

## Inventory

| Component (source) | State | Operations | What is hard | What makes it correct |
|---|---|---|---|---|
| Capture (`capture.rs`) | `raw` and `events` rings, `next_id` | `append_raw`, `push_event`, two clears, `events_since` | clients poll by id across clears and evictions; a ring at its limit | ids are contiguous and never reused, nothing is lost unseen, the rings are bounded (they are not for a maximum of 0: Findings) |
| Framing (`framing.rs`) | the reader's buffer, an immutable specification | `push`, `on_idle`, `validate`, `from_config` | messages torn over reads of any size, the buffer backstop, malformed lengths, a change of framing under a filled buffer | bytes conserved, frames whole, chunking invisible |
| Matching (`matching.rs`) | none | `compile_rules`, `matches` | precedence, masks | the first matching rule answers |
| Port run time (`port.rs`) | `compiled`, `active`, `framing` (three RwLocks), capture (Mutex), `writer` (Mutex) | `reader_loop`, `handle_frame`, `fire_trigger`, `switch_scenario`, `swap_config` | a blocking `write_all` under a Mutex; reads of two locks one after the other; a snapshot used after a blocking read | responses do not interleave; capture requests never wait for the line; the active scenario is a configured one |
| Service lifecycle (`main.rs`, `server.rs`, `reload.rs`, `transport.rs`, `spawn`/`Drop` in `port.rs`) | map of ports, Arcs, pending signal, symlinks in the file system | start, reload, remove, drop, restart | coalesced signals, partial failure, look-then-act on paths, who holds the last Arc, stale links after a kill | the map follows the configuration, kept ports are untouched, links lead to their devices, users' files survive |
| HTTP API (`http.rs`) | a thread for each connection, with the request as far as it has read it | `parse_request`, `route`, the handlers, `write_response` | requests cut short, limits, no timeout, a trigger that waits for the line when its client is gone | what is answered is what was done; a thread ends unless the line blocks it |
| Configuration (`config.rs`, `compile_port`, `compile_rules`, `from_config`) | the file on disk, the ports built from it | `load`, `validate`, `resolve`, applying it at startup and at reload | the loops that apply a file only log a port that fails, so validation must refuse all that cannot run | accepted files run completely, refused ones change nothing, rules answer as written |
| Byte literals (`bytes.rs`) | none | `decode_hex`, four encodings, `hex_encode` | prefixes, separators, odd digits, null and double keys | decoding inverts the notation, flawed literals are refused |
| Command line client (`cli.rs`) | its command, the request it is at | one request, or a read and a clear; completion | a five-second timeout, daemons that die between two requests or two parts of an answer, other clients | the exit code tells what was done, a drain wipes unseen only what is recent, every command ends |
| Logging (`logging.rs`) | a subscriber | `init` | nothing | nothing to check |

How they interact. `main` spawns one `PortState` and one reader thread per
configured port, installs the reload thread, and serves HTTP with a thread per
connection. Reader, reload and connection threads share the `PortState`
through an `Arc`; there are no channels. The reload thread calls `swap_config`
on ports it keeps, `spawn` for new ones, and removes the others from the map.
The only blocking call under a lock is `write_all` under `writer`. The client
is a process of its own (the same binary); it shares nothing with the service
but one TCP connection for each request.

## Modules

| Module | Models |
|---|---|
| `Capture` | the two rings and the id counter, one operator per method |
| `CaptureClients` | `Capture` with the reader, clearing clients, querying clients, and a client that polls with its last id |
| `EventLog` | abstract: an append-only log with a floor that only moves up |
| `Framing` | the four strategies as functions: `Cuts` finds the frame at the head of a buffer, `Drain` repeats it, `Push` adds the backstop |
| `Framer` | one buffer fed chunk by chunk, with quiet gaps and changes of framing |
| `Matching` | exact, mask and regular-expression matchers (a regular expression is the set of frames it is found in) |
| `Port` | one port at run time, all its threads, the kernel queues and the device |
| `PortHistory` | `Port` with a history of how switches, reloads and descriptions met |
| `PortRecord` | `Port` with a record of what crossed the line: bytes, frames, responses, events |
| `Lifecycle` | the process, its map and Arcs, reload, symlinks, the outside world |
| `Bytes` | decoding of byte literals, over classes of characters, and `hex_encode` |
| `Config` | a file's way from the disk to running ports: parse, validate, compile, apply; `Matching` and `Framing` for what it runs |
| `Http` | connections, the parts of requests and answers, routing, a daemon that captures, dies and restarts |
| `Cli` | clients with one or two requests each over `Http`, their timeouts and exit codes |
| `MC*` | small instances for TLC |
| `SequenceLemmas` | what `FlattenSeq` returns: the lemmas the record, the framing functions and the literals share |
| `FramerProofs` | what `Cuts`, `Drain`, `Push` compute for every valid framing and every buffer, and the theorems about `Framer` |
| `PortProofs` | the theorems about the threads of `Port` and about `PortHistory` |
| `PortRecordProofs` | the theorems about the buffers of `Port` and about `PortRecord`, with the refinement of `Framer` |
| `ConfigProofs` | the theorems about `Config` and `Bytes` |
| `CaptureProofs`, `LifecycleProofs`, `CliProofs` | the theorems about `CaptureClients`, `Lifecycle`, `Cli` |

**Port.** Each thread has a place in `pc`. An access to `compiled`, `active`,
`framing` or the capture holds its lock for one read or one write and is one
action; two accesses are two actions, so everything that may happen between
them does. The `writer` Mutex is a variable, held from `TriggerLock` or
`MatchFrame` until `write_all` returns; `WriteByte` moves one byte into the
kernel queue when it has room, and fails once the device is gone. What a
handler has read is in `snap`, and is used after other threads have moved on,
as in the code. The reader goes through `snapshot`, `poll` (only with a quiet
period), `read`, `append`, then for each frame `frame`, `match`, `write`,
`push`. A matching rule and a trigger are looked up under the `writer` lock in
the code; since the scenario is immutable once read, its lookup commutes with
everything else and shares a step with the lock.

**Lifecycle.** `inst` lists the `PortState`s of the process; `Held` says
whether some Arc to one is left: its reader's, the map's, a request's. Whoever
lets go last runs `Drop`, in two steps: `read_link`, then `remove_file`.
`spawn` takes the steps open, lstat, unlink, symlink, start, each of which can
fail and meet anything another party does to the path; `LinkFails` stands for
the failures that no party of the model causes (permissions, space), and the
`remove_file` of a `Drop` may fail for the same reasons. The file system, the
signal and the device belong to the outside and survive the process.

**Config.** A file is a record: whether it can be read and has the schema's
shape, and its ports. A byte literal carries, in a field `means` that the model
of the service never looks at, what its author meant; the properties compare
what runs with that. `ApplyPort` is one turn of the loops in `main` and
`reload`, which log a port that cannot run and go on, or end the process; the
races of a swap are `Port`'s, the symlinks and threads `Lifecycle`'s.

**Bytes.** A text to decode is a sequence of classes: the sixteen hex digits,
`x`, separators, anything else. Base64 belongs to a library; such a literal
carries what it decodes to.

**Http and Cli.** A request is sent in two parts (line, headers) or three (a
switch has a body), the answer comes in two. `srv` is the place of a
connection's thread: `line`, `headers`, `body`, `route`, `writer`, `respond`,
`closed`. Each side may find the other gone between any two parts. Headers that
end with the connection are taken for complete, as in `parse_request`, a body
is not. `FireTrigger` may never come: the line may be blocked, which is `Port`'s
business. Of the capture there remain the ids, `floor` and `last`, which is the
abstraction that `CaptureClients` is shown to implement. The client waits five
seconds for each read, so it may give up whenever the answer is not complete;
then its thread goes on without it. A command has one request, or a read and a
clear on two connections. Its output goes through the line-buffered standard
output of Rust's runtime: `printed` is what the command wrote to it, `seen` how
much of that has left the process. Events end in a newline and leave at once.
`cmd_capture_raw` writes bytes without a newline (`cli.rs:588-590`), of which
those after the last newline leave when the process exits, or not at all if it
is killed or its output is broken (`heard` is false). The histories are `effects`
(requests carried out for a client), `as_of` (the newest item when its read was
answered) and `wiped`.

**CaptureClients implements EventLog** through the mapping
`floor = next_id - 1 - Len(events)`: the abstract floor is the id of the last
event forgotten.

**PortRecord implements Framer** (`ImplementsFramer`): the reader's `spec`, `buf`
and `emitted` are `Framer`'s; its stream is what was read less the chunk in hand
(`FedStream`), its `reloads` the framings the reader took up (`taken`). A push is `Feed`, a poll that times out `Quiet`, a snapshot of
another framing `TakeUp`, and every other step of any thread a stutter.

## What the runs check

| Run | Shows | Bounds |
|---|---|---|
| `capture` | contiguous ids, `raw` as the tail of the stream, the polling client's guarantees, refinement of `EventLog` | rings of 2, at most 4 bytes between two clears, 4 events: both rings wrap twice |
| `framer` | bytes conserved, whole frames, backstop only for what is no message, chunking invisible, buffer settled after each push | 12 framings, 3 byte values, limit 3, streams of at most 5 bytes in chunks of up to 3, one change of framing from each to each |
| `port_safety` | Mutex held by the writer, responses serialize, answers match events, all bytes accounted for across a reload, coherence of `active` and `compiled`, at most one more chunk in the old framing and one more frame in the old scenario, `describe` names a scenario it lists, refinement of `Framer` | reader and 2 connections that trigger, switch, describe or clear, wire for 1 byte, responses of 1 and 2 bytes, 2 bytes in, rings of 1, buffer limit 1, a reload, to the same configuration or from lines without their delimiter to a quiet gap, another rule and one scenario less, the device may go away |
| `port_live` | what must happen | 1 connection, wire for 1 byte, 2 bytes in, 1 reload, hang-up |
| `lifecycle` | map follows configuration, no SIGHUP lost, kept ports untouched, links and users' files | 2 ports over one path, 3 spawns, 2 edits, 2 SIGHUPs, 2 processes, 1 tty, 2 PTYs, 1 user's file; any call on a link may fail |
| `config` | the verdict on a file is the documented one, an accepted file runs completely, every rule and trigger answers as its author meant | 59 files, each sound or flawed in one respect, edited, started from, reloaded and switched under in every order; 18 frames of up to 2 bytes |
| `cli` | exit codes tell what was done, a drain wipes unseen only what is recent, commands end | one client with any of 8 commands, another that clears; a capture for 1 item, 3 items for the first daemon and 1 for the next, one crash |
| `capture_unbounded`, `port_lost_switch`, `port_idle_reload`, `removed_port`, `shutdown` | a documented promise the code does not keep; see Findings | maxima of 0; one reload, or none |

`MCCapture` also assumes, which TLC evaluates when it starts, that the
byte-by-byte loop of `append_raw` computes the tail that `Capture` writes in one
line, for maxima from 0 to 3.

Why the bounds are enough. A ring of two entries is empty, partly filled, full
and wrapped, and more entries are alike; the theorems about `Capture` hold for
every size. A limit of three bytes lies below and above the fixed lengths,
delimiters and length fields that are used, so every branch of `drain` and the
backstop is taken, before and after a change of framing. A wire for one byte
makes each response longer than that block in `write_all`. Two connections and
the reader are three writers at one Mutex; `PortProofs` shows mutual exclusion
for any number. Two bytes on such a port are two frames, one frame torn by a read,
or a buffer beyond its limit, and a reload between them has the second framed
otherwise than the first; `PortRecordProofs` covers every stream. One reload
is the least with which a switch, a description, a frame or a read can overlap;
`PortProofs` covers any number of them. Two spawns at one path are the least in which
a `Drop` and a `create_symlink` meet, and a third covers a restart's. A file that
differs from a sound one in one respect shows that respect's check; two flaws in
one file only add a reason to refuse it. A drain needs one item before its read,
one after it, and one more to evict either in a capture of one; the second daemon
numbers from 1 again. More clients are
covered by `CliProofs`.

Every bound is a constant: `MaxStream`, `MaxFrames` (`CaptureClients`);
`MaxChunk`, `MaxStream`, `MaxReloads` (`Framer`); `MaxSent`, `MaxReloads`,
and one request per connection (`Port`); `MaxSpawns`, `MaxEdits`, `MaxHups`,
`MaxStarts`, `MaxMeddles` (`Lifecycle`); `MaxItems`, `MaxCrashes` (`Http`), and
one command for each client (`Cli`). `WireCap`, `MaxPtys`, `MaxRaw`, `MaxEvents`
and `Capacity` are limits of the real system, made small.
Deadlock is not reported where the environment's bounds let the system come to
rest: a port whose client has sent everything waits in `read` for ever, as does
a service nobody signals, and a client that has ended. The progress properties
say when that is right.
`MCConfig` assumes what makes its run that of the theorems: `And` is the library's
`&` on bytes, and the literals of the sound files say what they mean.
`port_safety` exploits that the two connections are alike; what it checks is
safety, and names no connection.

Some invariants speak of an exception, and each exception is a history that
names the interleaving exactly:

- `CoherentUnlessOverlapped`: `overlapped` is set when a reload replaces
  `compiled` while a switch is between its lookup and its store, or a switch
  stores between a reload's choice and its write of `active`. Without the
  exception its second part is `port_lost_switch`.
- `DescribeConsistent` spares requests in `torn`: one of their two reads fell
  between a reload's writes of `compiled` and `active`. Also spared are runs
  with an `overlapped` switch, after which the scenario may be unlisted for good.
- `WipedUnseenIsRecent` allows what the code can lose: items captured after the
  read, items `since` left out (both are cleared), items of a daemon that
  started between the two requests, and of a raw read the bytes that had not left
  the process: as long as the command runs, and for good if it was killed or
  nobody reads its standard output.
- `LinkServed` and `UserFilesKept` spare the paths in `raced`: one party
  changed the path while another was between its look and its change, or a
  `spawn` took down the link of a port that is still open and then could not make
  its own.
  `LinkServed` further spares an instance whose device is bound twice under the
  same path, and a port while any `spawn` is under way.

## Fairness

`Port!FairSpec` has weak fairness of the reader, of each connection thread and
of the reload thread: the operating system runs every thread that can run, and
the poll deadline fires. Nothing makes clients send, read, ask or reload. A
free writer Mutex is granted to a waiting thread: one connection and the reader
compete in the run, and each thread has finitely many writes left, so the weak
condition suffices and no order of granting is assumed. `CaptureNeverBlocked`
holds although the client may never read. `LineServed` and `IdleBytesFlushed`
have a client that reads as a premise, `WF_vars(ClientRead)`: a client that
does not read stalls the line, and the code has no timeout for it.

`Lifecycle!FairSpec` has weak fairness of the main thread, the reload thread,
`spawn`, each port's holders and each request in progress (which, in `Port`,
is `LineServed`). The outside - edits, signals, users, devices - is not fair.

`Cli!FairSpec` has weak fairness of each client, whose socket has a read
timeout, so that time alone ends its wait, and of each connection thread except
where it waits for the writer Mutex. Nothing frees the line, restarts the
daemon or captures. `CommandEnds` rests on the timeout: without it (its mutant)
a trigger on a blocked line keeps its client for ever. The server has none, and
`CommandEnds` says what follows from that: a thread ends once its client has
ended, unless it waits for the line.

## What is proved

Every safety invariant, action property and refinement that the passing runs
check is a theorem, except `VerdictAsDocumented`. A theorem holds for all values of the constants
that satisfy the assumptions named in the modules; each run evaluates those on
its instance.

### Sequences and framings

`FlattenSeq` and `Drain` are recursive functions, and an induction over data
cannot be stated as a theorem with an operator parameter. `SequenceLemmas` goes
back to the well-foundedness of the naturals instead: a set that fails to be
all of `Nat` misses a least number (`NatLeast`, `SetInduction`). That a
recursive function exists at all comes from the same argument
(`FlatteningExists`, `FlattenIs`).

The first part of `FramerProofs`, for every framing that is `WellTyped` and passes `Validate`
(`framing.rs`), and every sequence of bytes:

- each cut takes at least one byte off the buffer, by strategy (a delimiter is
  not empty, a fixed length is not 0, a message is no shorter than its length
  field or is flushed with the whole buffer), so `Drain` is well defined and can
  be reasoned about by its length (`DrainInduction`). Without `Validate` this is
  false: `drain` would cut empty frames of length 0 for ever;
- `DrainConserves`: frames, the delimiters dropped and the rest spell the
  buffer. `DrainWhole`: each frame is one whole message, or the flush of a
  malformed length. `DrainExtend`: a cut depends only on the bytes of its
  message, so draining in two goes cuts the same frames as in one, unless
  something malformed was flushed.

### One component each

`CaptureProofs`, for any alphabet, rings and bounds:

- `CaptureInvariance`: the inductive invariant `CaptureInv`, types with the
  numbering of the ring and `raw = LastOf(stream, MaxRaw)`. Contiguity needs the
  types to speak of positions; the ring needs no more than itself, by
  `LastOfAppend`: the tail of (the tail of a stream, then a chunk) is the tail
  of the whole, also for a maximum of 0, where the code keeps everything.
- `IdsAlwaysContiguous`, `RawAlwaysTailOfStream`. That the rings are bounded is
  no theorem: it is false for a maximum of 0 (`capture_unbounded`).
- `ClientsTyped`, `NothingSilentlyLost`, `NothingRedelivered`: `LogInv` numbers
  the ring and what the client has seen against the log of all that was ever
  recorded (the entry with id `i` is the `i`-th), and says that every id up to
  the client's last is seen or lost, and every id up to `Floor`, the
  last one that the ring let go, is lost.
- `CaptureIsALog`: `CaptureClients` implements `EventLog`, for every maximum. A push is `Record`, which forgets the oldest entry exactly when the ring is
  full, a clear is `Forget`, a poll or query is `Query`, and the rest stutter.
  A log of capacity 0 is never full, as the code's.

`FramerProofs`, for any set of valid configurations, any limit and any way of
cutting the stream into reads: `FramerTyped`, `NoByteLost`, `FramesAreWhole`,
`BackstopFlushesUnframed`, `ReadsDoNotShow`, and the action property
`PushesSettle`. `FramerInv` keeps, besides types and the bytes, that each frame
is whole or was flushed with cause, and that as long as nothing was flushed, for
a malformed length either, frames and buffer are those of the whole stream.
`FeedFacts` states what one read emits in terms of `Drain`; the rest follows
from what is proved of `Drain`.

`ConfigProofs`, for any files whose fields are lists (`FilesAssumption`; it
also says that what `regex::Regex` compiles, the regular expressions of bytes
compile too), any order of edits, starts, reloads and switches:

- `AcceptedAlwaysRuns`: `AcceptedRuns`. Each loop that applies a configuration
  only logs a port that does not compile, so the theorem rests on
  `ValidCompiles`: what passes `validate` has nothing left to fail at.
  `ConfigInv` says of a configuration being applied that the ports not in
  `todo` run as compiled, and that the others are its own; at the end `todo` is
  empty and the ports of the old configuration are removed.
- `RulesAlwaysAsDeclared`: `RulesAsDeclared`, for files whose literals decode to
  what their author meant (`SaysWhatItMeans`), if they load at all. `MCConfig`
  assumes that of its sound files and TLC evaluates it; the others do not load. The arguments: a pattern masked at compile time
  and a frame masked at match time agree exactly where the mask has a bit
  (`Weights` and `Bit` take a byte apart, and `MCConfig` compares `And` with
  the `&` of `Bitwise` on every pair of bytes); the least rule that
  matches is the least that applies; a validated configuration has distinct
  names, so a `HashMap` loses none.
- `HexRoundTrip`, `HexPieceByPiece`: what a hex literal means. `hex_encode`'s text
  decodes to the bytes encoded, and decoding goes piece by piece, whatever
  separators and prefixes stand anywhere. The exception is named: a piece that
  ends in `0` before one that begins with `x` is a prefix neither has.

`LifecycleProofs`, for any names, paths, files, devices, connections and
crashes, from `LifecycleAssumption` (a file lists ports with distinct names,
as `config::validate` demands; a user's file is no device):

- `LifecycleTyped` needs `ThreadInv`: what `main`, `reload` and `spawn` hold at
  each place of theirs.
- `ReloadServesFile`: `AppliedIsServed`, from `AppliedInv`, which says of each
  prefix of the configuration being applied that it is served.
- `SignalsAreAnswered`: `NoLostReload`, from `ReloadInv`: what runs and what is
  on the disk differ only with a signal pending, an edit without one, a reload
  about to load, or a file that does not parse.
- `ReloadKeepsPorts`: `KeptPortUntouched`, from `KeptInv`: what a reload keeps is
  named by its configuration, so it does not remove it; it stays in the map, and
  what the map holds is not dropped.
- `LinksLeadToDevices` and the action property `UserFilesSurvive`, from
  `LinkInv`: outside `raced`, what a spawn or a `Drop` saw at its look is still
  there at its change, and a link just made is its maker's.

### The port

`PortProofs`, for any connections, requests, configurations and queue sizes,
from `PortAssumption`:

- `ControlTypeCorrect`: each thread is at a place of its own kind and holds a
  scenario where its next step needs one; `active`, `compiled`, `framing` come
  from configurations. It takes the strengthening that a thread past its
  snapshot has read a scenario and that a reload in progress has a
  configuration.
- `WriterAlwaysHeld`, `MutualExclusion`: the writer Mutex is held exactly by
  the thread inside `write_all`. Inductive relative to the above; the argument
  is that a thread enters only when the Mutex is free, and leaves by releasing
  it, on success and on error.
- `AlwaysCoherent`: `CoherentUnlessOverlapped`. The inductive invariant adds
  what is in flight: a switch about to store holds a scenario of `compiled`,
  and a reload holds, before it replaces `compiled`, a scenario of its own
  configuration, and of the name last switched to. All steps that touch no
  configuration preserve it by one lemma (`QuietCoherence`).

- `StaleFramingBounded`, `StaleScenarioBounded`: once one chunk (one frame) has
  been handled late, the reader holds the new framing (scenario) until its next
  snapshot, which reads it anew.
- `DescribesConsistent`: between its two reads a describe holds a scenario
  listed by `compiled`, unless it is `torn`; a switch keeps that, by coherence.

`PortRecordProofs`, for the same, builds on those:

- `ResponsesAlwaysSerialize`: the line is what was written of each response, one
  after another. Whoever is inside `write_all` has left to write the rest of its
  own (`RestIsLeft`), which cannot change under it, since it comes from a
  snapshot. It needs `ResponsesAreBytes` and that the Mutex is held.
- `PortTyped`: `TypeOK` with the contents of all buffers. The reader has frames
  in hand exactly while it handles them, and a label of a rule while it writes
  (`ReaderTyped`). It needs `FramingsAreValid` - every configuration has passed
  `FramingConfig::validate`, as at startup and at reload - and cites
  `FramerProofs` for what a push cuts.
- `AnswersAlwaysMatch`: the labels of the responses that the reader wrote, or
  tried to write, are those of the events, with one pending between the response
  and the event; and each is on the line whole (`EndedWhole`) unless the device
  went away, in which case the event keeps its label although its response was
  cut or never sent (`port.rs:252-254`). It needs
  that a thread that gives up the Mutex is its holder, that only the reader
  records, and `NoneIsNoLabel`.
- `ReaderImplementsFramer`: `ImplementsFramer`. Each step of `Port` has, for the
  framer, one of six shapes (`ReaderShapes`): the reader's buffers stay
  (`Waits`), the framing is read anew (`Retakes`), a chunk arrives
  (`Arrives`), is pushed (`Feeds`), a gap flushes (`Flushes`), a frame is filed
  (`Files`). `FramerStep` maps each to a step of `Framer` or a stutter. `Framer`'s
  bounds are met because of `FedInv`: what was read is what was fed and the chunk
  in hand, it is no longer than what was sent, and the reader takes up no more
  framings than reloads have stored, one of which may be ahead of it. So
  every theorem about `Framer` holds of the reader of every port, in
  particular that no byte is lost and that the cut of the reads does not show.
- `EveryByteIsAccounted`: nothing read is lost before it is an event, whatever
  reloads and clears do. With the refinement at hand, `Framer`'s invariant is
  one of `Port`, and says that the frames emitted, the delimiters dropped and the
  buffer spell what was fed; `BytesInv` adds that the events recorded, then the
  frames in hand, are the frames emitted. So it holds for framings that drop
  delimiters, too.

### The client

`CliProofs`, for any clients, commands, captures and crashes, from
`HttpAssumption` and `CliAssumption`:

- `CliTypeCorrect`, and `ExitAlwaysTellsTheTruth`: `ExitTellsTheTruth`. What is
  claimed of the client is decided by the server, which goes on when the client
  has gone. The inductive invariant `Inv` ties the two: `Place(c)` says for each
  place of the client where its connection's thread can be; `Answers`, that a
  thread which has not answered has carried out the requests before this one
  and no more, and one that answered below 400 also this one. So an exit of 0
  finds the request done, an error status finds it not done, and whoever gave
  up leaves a thread that can still do it once. Each step of the server is a
  lemma about one connection (`HandlerInv`, `StatusResponse`, `EndInv`), and
  `PlaceFrame` carries the others.
- `WipedUnseenIsAlwaysRecent`: `DrainInv` follows what a drain's read was
  answered with (`as_of`, the answer on its way, then `printed` and `seen`). Ids
  only grow within a daemon, so what is there at the clear and was not printed was
  left out by `since` or came after the answer, or belongs to a daemon started
  since. What was printed is seen once the command has ended, unless it is the
  tail of a raw read and the process was killed or its output broken.

### Model-checked only

- Liveness (`CaptureNeverBlocked`, `LineServed`, `IdleBytesFlushed`,
  `RemovedTtyDropped`, `CommandEnds`): fairness and ENABLED are out of the proof
  system's reach here.
- `VerdictAsDocumented`: it compares the verdict on each of the files of
  `MCConfig` with one that the documentation gives for its flaw, written beside
  the file, so it has no meaning for other files. It says nothing of the three
  `Disputed` ones; see Findings. What a verdict entails is
  `AcceptedAlwaysRuns`, for every file.
- The five findings of a run, which are counterexamples.

## Findings

Each of these is a run that violates what the repository says.

1. **`capture_unbounded`**: capture maxima of 0 pass validation, and the rings
   then grow for ever: eviction tests equality with the maximum before it adds
   (`capture.rs:42`, `:58`). `capture.rs:1-6` says "Bounded capture buffers",
   "oldest dropped when full", "also bounded".
2. **`port_lost_switch`**: a switch answered 200 during a reload is undone
   (`port.rs:156`), although a reload "atomically replaces the live" configuration
   (`config.rs:3-5`). A switch that straddles a reload from its other side leaves
   a scenario active that the configuration no longer has (`port.rs:173`).
3. **`port_idle_reload`**: a reader already in `read` does not see a reload to
   `idle_timeout`; what it has buffered waits for the next byte (`port.rs:346`).
4. **`removed_port`**: a removed PTY port's reader never exits; it holds the Arc
   that holds the slave open, and goes on answering (`reload.rs:69`).
5. **`shutdown`**: no handler runs `Drop` on SIGTERM or SIGINT; the symlinks stay
   (`port.rs:73`).

The documentation and the code also disagree on four notations of a file. The
first three are the files `Disputed` of `MCConfig`, from whose verdicts
`VerdictAsDocumented` abstains; the fourth no file has, and `HexPieceByPiece`
says what the code makes of it.

- "Regexes use the Rust `regex` crate (bytes mode ...)" (`README.md:108`, also
  `:288`, and `config.rs:148-149` "compiled against the frame bytes"). Validation
  compiles with `regex::Regex`, matching with `regex::bytes::Regex`, so an
  expression that only bytes mode has, such as `(?-u)\xff`, is refused. None
  that passes validation fails later.
- "a plain YAML scalar -> its UTF-8 bytes" (`bytes.rs:7`): an unquoted number is
  a scalar and is refused.
- "a single-key encoding map" (`bytes.rs:8`): a map with a second key that is
  null is accepted.
- "Skip a `0x` / `0X` prefix wherever it appears between bytes" (`bytes.rs:51`):
  it is skipped within a byte too; `0x5 0x6` is the one byte 0x56.

And what no line promises otherwise:

- A trigger whose client gave up after five seconds fires when the line is free,
  and once more if the user repeats the command.
- Headers cut short by the end of the connection count as complete: a trigger or
  a clear whose client died half way is carried out.
- The client does not compare Content-Length: an answer cut after its head
  prints nothing and exits with 0.
- `--since N --clear` wipes the items up to N without showing them, and whatever
  is captured between its two requests.
- `capture raw --clear` deletes the capture while the bytes after its last newline
  are still in the client's memory. A client killed then loses them, and one
  whose standard output is broken does too and still exits with 0
  (`cli.rs:588-598`).
- An event keeps the label of its rule when the response could not be written
  (`port.rs:252-254`).
- Bytes in the framing buffer when a device goes away never become an event. A
  length-prefixed message above the buffer limit is flushed in two, and its rest
  read as a header. A port whose tty went away stays in the map without a reader,
  and a reload does not open the device again. A SIGHUP before the handler is
  installed ends the service. No property is about these four.

## Not modelled

- termios settings, terminal echo, the contents of devices: the kernel's.
- `poll` interrupted by a signal, which the code takes for readable.
- Timestamps of events, logging, the wording of answers, JSON escaping, the text
  of the completion scripts (a third of `cli.rs`): output without state.
- Replugging: a tty that went away stays away.
- `header_size + l + trailer_size` beyond 2^64, which takes a configured size of
  that order; a length field has at most four bytes. Numbers here are natural.
- A request line cut in the middle, unknown routes and methods: answered 404 or
  dropped without a change of state.
- Decoding of `%xx` in paths; the client sends names as they are.
- YAML, base64 and regular expressions themselves: libraries. A file says
  whether it parses, a literal what it decodes to, an expression what it finds.
- The composition of `Cli` with `Port` in one state space: `Http` keeps of a
  port its capture's ids and a wait that may or may not end, and `Port`'s runs
  show what that wait depends on.

## Plan

Built: every component but logging, its runs, and proofs of the safety
properties of all of them. In reach, should the code grow:

1. `Cli` over `Port`: the wait for the line in `Http` as an abstraction of a
   port's, and the capture's ids as those of `CaptureClients`.
2. Devices that come back: today the code does not open a tty again.
