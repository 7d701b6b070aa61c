# nfuzzer in TLA+

nfuzzer fuzzes Java web applications.  A modified afl-fuzz mutates inputs and
runs a small native target, `interface.c`, which sends each input to a request
server, `Nfuzzer.java`; that server posts it to an instrumented web application
and returns a verdict and the coverage the application has left in a shared
memory file.

This directory holds TLA+ modules for the parts of the program where the order
of events matters, TLC configurations that check them on small instances, and
proofs for every value of the constants.

## 1. The system

```
 afl-fuzz.c ----fork server pipes, trace_bits (shm)---- interface.c
   |  writes the test case file                             | TCP
   |                                                        v
   +------------------- read on demand ---------------> Nfuzzer.java
                                                        |         |  TCP
                                                   HTTP |         v
                                                        v      CovSend.java
                                            instrumented app      |
                                                   |  coverage()  |
                                                   +--> file <----+
                                                       (Mem.java)
```

| Component | State it keeps | Operations | Hard about it | What makes it correct |
|---|---|---|---|---|
| Request server `Nfuzzer.java`, `NacosWebClient.java` | `requestQueue` (10), a local `result` | accept thread: queue or reject; handler thread: read request, post, drain bitmap, reply | two threads; peers may be killed at any moment; every step may throw; the test case file is read late | a status belongs to its connection, and so does a bitmap whose drain was not disturbed; nothing accepted is forgotten; nothing is posted twice; a complete request is answered |
| Target `interface.c` | `try`, `nfuzzer_status`, a socket, `trace_bits` | fork server loop; connect, send, read status, read bitmap, retry or end | killed by the fuzzer's timer anywhere; retries repeat requests | the exit code tells of this run's input; a retry does not count twice; every run ends |
| afl-fuzz, one run: `write_to_testcase`, `run_target` | the test case file, `child_pid`, `trace_bits` | unlink, create, fill, start, reap, time out | the timer and Ctrl-C are signals; the last run's request may still be queued | as above |
| Coverage memory `Mem.java`, `CovSend.java` | the mapped file (edges, previous location, branches, their number), `mapBuf.position` | `coverage()` in the application; read, clear, reset, send, scan in CovSend | two processes, one thread of CovSend per request, one shared position | a bitmap is exactly the edges hit since the last one was cleared |
| afl-fuzz, the queue: `calibrate_case`, `update_bitmap_score`, `cull_queue`, `perform_dry_run`, `fuzz_one`, `trim_case`, `save_if_interesting` | `struct queue_entry`, `top_rated`, `virgin_bits`, the counters | calibrate, rate, cull, skip, trim, queue a finding, abandon | calibration fails half way and is repeated; targets are not deterministic; reference counts; unsigned counters | counts are exact, no freed trace is read, the favored entries cover all rated bytes, no entry starves, no coverage is lost |
| afl-fuzz and its target, process by process: `init_forkserver`, `run_target`, signal handlers; the fork servers of `interface.c` and of llvm_mode's run-time | two pipes, `forksrv_pid`, `child_pid`, `stop_soon`, `child_timed_out`, `prev_timed_out`; in the server `child_stopped`, `was_killed` | handshake, order a run, read pid and status, arm, kill, disarm; fork, continue or write off a stopped target | SIGALRM and SIGINT between any two steps; a stopped target keeps its pid over many runs | the pipes stay in step; a verdict is that of its own run; nothing writes to `trace_bits` between runs; a stop ends afl-fuzz |
| afl-fuzz, output directory and resuming | `queue/`, `_resume/`, `.state/`, `crashes/`, `hangs/`, `fuzzer_stats` | `maybe_delete_out_dir`, `read_testcases`, `pivot_inputs`, `nuke_resume_dir`, `find_start_position`; saving, trimming | a crash between any two file operations | nothing found is lost; nothing is queued twice |
| afl-fuzz, `sync_fuzzers` | a marker file per other fuzzer | read a queue, run its files, move the marker | the other fuzzer goes on writing; a stop in between | no file imported twice, none left out that was complete |
| afl-fuzz, stages of `fuzz_one` | `out_buf`, `eff_map`, scores and counts | flips, sums, interesting values, dictionary, havoc, splicing | what one stage leaves out because another has done it; borders of bytes and buffers | the buffer is restored; nothing is left out by mistake; every stage ends |
| afl-fuzz, dictionaries | `extras`, `a_extras`, `auto_changed` | collect, count, sort, evict, save, load | a cache at its limit that is sorted while its head is on disk | bounds, no duplicates, the best tokens in front and on disk |
| afl-tmin | `in_data`, block positions, modes | normalize and delete blocks, replace symbols and characters | blocks skipped because they look like the last; slow runs; Ctrl-C | the result does what the original did; nothing is left to delete |
| afl-fuzz, crashes and hangs | `virgin_tmout`, `virgin_crash`, unique counters, files | save, run again with the longer limit | the second run may end otherwise | each kind kept |
| afl-fuzz, chunks: `smart-chunks.c`, `higher_order_fuzzing` | a tree of chunks | copy, delete, reorder | - (see 6) | - |
| Instrumentor `Instrumentor.java`, `MethodTransformer.java` | set of used locations | rewrite class files | unique random locations | none used twice |
| afl-analyze | `in_data`, checksums, `b_data` | change a byte in four ways, classify it, label runs of bytes | each change builds on the last; hangs and Ctrl-C in between; borders kept as a bit that toggles | the checksums are those of the file with one byte changed; borders and labels say what the runs showed |
| the other tools: BuildPit, afl-showmap, afl-gotcpu, afl-gcc, afl-as, llvm_mode, qemu_mode, libdislocator, libtokencap | - | sequential or I/O | - | - |

How they interact: afl-fuzz and interface.c share pipes, a shared memory
segment and signals; interface.c and Nfuzzer a TCP connection per attempt, and,
when a path is sent, the test case file itself; Nfuzzer and CovSend a TCP
connection per request; CovSend and the application the mapped file under
`FileLock`s; several afl-fuzz processes may share one Nfuzzer.

## 2. The modules

| Module | What it models |
|---|---|
| `NfuzzerServer` | both threads of Nfuzzer.java and everything around them as an environment that may do anything |
| `FuzzBridge` | extends `NfuzzerServer`: its peers are interface.c processes of afl-fuzz runs; implements `NfuzzerServer` |
| `AflQueue` | afl-fuzz's queue, one action per run of the target and per byte of the rating and culling loops |
| `EdgeBitmap` | the promise of the coverage memory, in 50 lines |
| `CovMem` | Mem.java and CovSend.java, byte by byte and lock by lock; implements `EdgeBitmap` |
| `TargetRun` | what afl-fuzz needs of one execution of a target |
| `ForkServer` | afl-fuzz, the fork server and the target processes with pipes and signals; implements `TargetRun` |
| `Session` | the output directory over several sessions with crashes, and `sync_fuzzers` |
| `AutoExtras` | the dictionaries, above all the cache of collected tokens |
| `FuzzOne` | extends `AutoExtras`: the stages of `fuzz_one` on one queue entry |
| `Tmin` | afl-tmin |
| `Analyze` | afl-analyze |
| `NfuzzerServerProofs`, `FuzzBridgeProofs`, `AflQueueProofs`, `CovMemProofs`, `ForkServerProofs`, `SessionProofs`, `TestCaseProofs` (fuzz_one and afl-tmin), `AnalyzeProofs` | theorems and proofs |
| `MCNfuzzerServer`, `MCFuzzBridge`, `MCAflQueue`, `MCCovMem`, `MCSession`, `MCTestCase` | the values of the constants for TLC; `MCTestCase` extends `FuzzOne`, `Tmin` and `Analyze` and runs one of them |

Definitions marked "Mutant:" in a comment are variants of the one that follows
them, with a plausible mistake.  They occur in no specification; they record
which mistake each property tells from the code.

### NfuzzerServer

`Init` has the server listening, or gone because its port was taken.
`runServer` is `AcceptQueue`, `AcceptReject`, `AcceptRejectExit` (the reply to a
rejected peer throws, and the catch block ends the JVM).  `doFuzzerRuns` and
`handleFuzzRequest` are a program counter `hpc` with one action per blocking
step: `Poll`, `ReadHeader`, `ReadBodyFull`, `ReadBodyShort`, `ReadBodyNoFile`,
`PostAnswered`, `PostThrows`, `GetBitmap`, `GetBitmapOverlapped`, `Reply`,
`CloseRequest`; the actions ending in `Throws` are the `IOException`s of the same steps, all of which end in
`HandlerDies`.  The socket of a connection (`sock`) goes from the backlog of the
kernel to the queue, to the handler, and is shut, or orphaned when the handler
dies with it.  The environment connects, sends in pieces, closes, rewrites
files.  The application leaves the posted body itself in `bitmap`, so that the
model can say whose coverage a bitmap may hold; how much of it is there, and how
much of a bitmap the one `read()` of getBitmapInfo returns, is left open.  A body
whose post ended in an exception may go on running (`late`).

A drain takes and clears the bitmap (`GetBitmap`) only when no branch scan for an
earlier answer is running in CovSend.  When one is (`GetBitmapOverlapped`), the
scan moves the buffer position that the drain uses, exceptions are swallowed, and
the drain may send branches of anything that ever ran and leave the edges where
they are; `CovMem` has the steps.  What such a drain sends and leaves is
`Foreign`, coverage of nobody in particular, and so may be what an earlier session
has left (`Old`): no property claims anything of it.

### FuzzBridge

A connection is a triple fuzzer, run, try.  afl-fuzz is `Unlink`, `Create`,
`Fill` (write_to_testcase), `Start`, `Reap`, `Timeout` (run_target and its
signal handler); interface.c is `Connect` .. `Finish`, one action per step of
its retry loop, with `Die` for every `DIE` and `exit(1)`.  Here the start of a
process and its end are one step each; the pipes between them are in `ForkServer`.

### AflQueue

A target is a function from inputs to the set of traces an input may show; a
set with several elements is variable behavior.  A trace gives each byte of the
bitmap one of two buckets or zero, the checksum of a trace is the trace, and
`virgin_bits` is the set of buckets not seen yet.  The variables are the fields
of `struct queue_entry` and the globals of afl-fuzz.c under their own names;
`pc` names the function afl-fuzz is in, and `cal` holds the locals of
`calibrate_case`.  Ctrl-C (`Interrupt`) may come between any two steps.  Every
input may come out of a mutation stage.

### CovMem and EdgeBitmap

`CovMem` keeps the layout of the file (`MAP` bytes of edges, two bytes for the
previous location, `MAP` bytes of branches, two for their number), with bytes of
`BYTE` values and `MAP = BYTE * BYTE`.  Every call CovSend makes on `Mem` is
four steps: take the lock on the bytes meant (or be refused, when another thread
of CovSend holds some of them), set the position of the shared buffer, copy from
where the position is now, move it behind the copy.  The copy of a block is one
step.  A call of the application (`ReadPrev`, `WritePrev`, `WriteEdge`,
`WriteBranch`) is one step that waits for CovSend's locks.  Nfuzzer's single
handler thread sends a request when it has the last answer; as CovSend answers
before it scans the branches, the scan may still run.

`EdgeBitmap` says what Nfuzzer needs: taking a bitmap yields exactly the edges
hit since the last one was cleared, and only those hit between the reading and
the clearing of one drain are lost.  `PromiseKept` is that specification under a
refinement mapping of `CovMem`'s state.

### ForkServer and TargetRun

`mode` chooses the fork server: the loop of interface.c, the persistent one of
`afl-llvm-rt.o.c`, or none (`dumb_mode`).  `afl` is where afl-fuzz stands, from
`SpinUp` and `Handshake` over `Order`, `ReadPid`, `Arm`, `ReadStatus`, `Disarm`
to `Score`; `srv` is where the server stands, from `Hello` over `ReadOrder`,
`WriteOff`, `Clone` or `Continue`, `Tell` and `Wait` to `Report`.  The pipes are
sequences with an end of file.  `handle_timeout` and `handle_stop_sig` may come
between any two steps.  Targets end, crash, stop themselves (SIGSTOP of the
persistent loop) or hang.  run_target does not look at `stop_soon` when it begins:
after Ctrl-C, or after show_stats has set it inside a stage (`StopItself`), up to
`LastRuns` more runs begin before one of its callers looks.

`TargetRun` says what the rest of afl-fuzz takes for granted: a run begins, its
target ends in one way, and the run returns the verdict for that way.

### Session

One variable per directory or file on disk, which survive `Crash`, and the
globals of afl-fuzz, which do not.  A start is `Start`, then one action per step
of `setup_dirs_fds` and `maybe_delete_out_dir`, one entry of `read_testcases`
and `pivot_inputs` at a time; fuzzing saves (in two steps: create, write), trims
(unlink, write), marks entries, rewrites `fuzzer_stats` (truncate, write), and
imports the other fuzzer's queue.

### FuzzOne and AutoExtras

A step of a stage is all it does at one byte of the buffer.  The target comes
with the entry: which checksum a change of a byte's last bit gives, and which
bytes matter when flipped as a whole.  The deterministic stages keep the buffers
they have run in `tried`; of a buffer havoc has changed only the length is kept,
and havoc's tweaks are the lengths and places they may choose.  Collected tokens
are saved between two entries and, by show_stats, in a stage (`Save`).  `AutoExtras` has
the array of collected tokens as a function to use counts and its first
`USE_AUTO_EXTRAS` elements as the set `front`, which `qsort` may choose among
equals.

### Tmin

`dry_run`, then the stages of `minimize`: normalizing blocks, deleting blocks
from large to small, symbols, characters, and again until a pass deletes
nothing.  A run of the target is part of the step that looks at it; a slow run
may or may not beat the timer, and Ctrl-C may come at any step.

### Analyze

The first run, four runs for each byte (`TestByte`, which changes the buffer as
the last change has left it), `Classify`, and one `DumpRun` per printed run of
bytes.  A checksum is the classified trace with the crash, or `NoSum` for a run
that timed out, which is also what `prev_xff` and the others start with.  `seen`
is history: all checksums, byte by byte.

## 3. The runs

| Run | Instance | Checked |
|---|---|---|
| `server_work_flow` | 2 connections, fair threads; a violation | `WorkFlowCompletes` |
| `bridge_runs` | 1 fuzzer, 2 runs of 2 tries, 2 inputs, paths sent | `ServerInv`, `VerdictSound`, `CoverageSound`, `NothingForgotten`, `PostedOnce`, `BridgeInv`, `VerdictIsOwn`, `TraceIsOwn`, `MergedOnce`, `Spec` (the refinement) |
| `bridge_ends` | 1 fuzzer, 2 runs of 2 tries, bodies sent, fair | `RequestsEnd`, `RunsEnd` |
| `bridge_gives_up` | 1 fuzzer, 1 run; a violation | `GivesUpOnFailure` |
| `queue_variable` | 3 bytes, 4 inputs of which two flicker, queue of 3 | `QueueInv` (with `CountersExact`), `RefsExact`, `FavoredCover`, `PendingFavoredExact`, `RatingNeverWorsens` |
| `queue_steady` | 2 bytes, 4 inputs, all deterministic, queue of 4, fair | `SeenBitsRated`, `SeenIsQueued`, `EveryEntryFuzzed` |
| `cov_mem` | bytes of 4 values, 2 threads of CovSend, fair | `PromiseKept`, `BranchesGrow`, `Replied` |
| `cov_overlap` | the same, with an edge left by an earlier session; a violation | `SentIsEdges` |
| `fork_server` | all three servers, 4 runs, of which up to 3 after a stop, `__AFL_LOOP(2)`, fair | `ForkInv`, `TraceQuiet`, `RunPromise`, `RunsEnd` |
| `session` | 3 sessions, 2 test cases, one of them the seed and given twice, 2 files of another fuzzer, a crash anywhere but while `_resume/` is deleted | `SessionInv`, `NothingLost`, `SamplesKept`, `QueuedOnce`, `MarkerHonest` |
| `session_lost` | the same with a crash also there; a violation | `AbortedJobsResume` |
| `test_case` | fuzz_one on about 120 entries of up to 5 bytes, afl-tmin on 82 texts and 8 targets, afl-analyze on about 200 files of up to 6 bytes with their targets, fair | `FuzzInv`, `NothingSkipped`, `TokensAreRuns`, `AutoInv`, `Reproduces`, `NoByteSpare`, `AnalysisRight`, `ProgramsEnd` |

What they show:

* **Late and repeated requests mix nothing up** (`VerdictSound`, `CoverageSound`,
  and end to end `VerdictIsOwn`, `TraceIsOwn`).  The server reads the test case
  file when it handles a request, perhaps long after the run that sent it was
  killed, and the fuzzer may have rewritten the file since.  A reader would
  expect a wrong verdict; there is none, because the killed run's socket is
  closed and nobody reads its answer, and because the next run's request waits
  behind the stale one and gets a drain of its own.  For verdicts this is all.
  For coverage it is not: bodies whose post ended in an exception may be in a
  later bitmap, as the properties say, and nothing is claimed of a drain that
  meets the branch scan for the last answer, or finds memory such a drain has not
  cleared (violation 3 is one of those).  What is shown is that it takes such a
  meeting, and that the next drain without one makes up for it.
* **Requests leave the server** (`RequestsEnd`) unless its handler thread has died
  (violation 1), or one post or one bitmap never comes: the code sets no timeout
  on either.  A target that stops in the middle of its request is ended by
  afl-fuzz's timer.
* **Retries are harmless** (`MergedOnce`): of the attempts of a run that were
  posted, at most one goes into `trace_bits`.  A bitmap cut short does repeat a
  request that has run, which is why this needs checking.
* **Nothing accepted is forgotten, nothing posted twice** (`NothingForgotten`,
  `PostedOnce`), as long as the handler lives.
* **The queue's bookkeeping is exact** under calibrations that fail, repeated
  calibrations that start from another input's trace, trimming that rates an
  entry with a trace other than its calibration's, and Ctrl-C anywhere.
  `PendingFavoredExact` is the surprising one: an entry can be favored for bytes
  its `trace_mini` lacks, and `cull_queue` would count it twice if such an entry
  could be both not fuzzed yet and trimmed at a cull.  It cannot (see 5).
* **No coverage is lost for a deterministic target** (`SeenIsQueued`,
  `SeenBitsRated`) although `has_new_bits` is destructive, and every entry is
  fuzzed in the end (`EveryEntryFuzzed`).
* **Signals never attach a verdict to the wrong run** (`RunPromise`,
  `TraceQuiet`), although the timer may fire before, at or after the end of its
  target, kill a persistent target that has just stopped, or find `child_pid`
  still that of the run before.  What saves it is `prev_timed_out` and the
  server's `was_killed`: a stopped target killed too late is written off before
  the next one is forked.
* **Crashes lose nothing but in two places** (`NothingLost`, `SamplesKept`): the
  order in which a start renames, links and deletes keeps each test case in
  `queue/` or `_resume/`, and what a stop leaves half done is neither queued nor
  imported twice (`QueuedOnce`, `MarkerHonest`).  The two places: a crash while
  `_resume/` is deleted (violation 4), and a later start that does not resume,
  which leaves the `_resume/` of an interrupted one for the next resume to take.
* **The stages leave out only what was done** (`NothingSkipped`): a stage skips
  what `could_be_bitflip`, `could_be_arith` and `could_be_interest` ascribe to an
  earlier one.  The property names one exception, `AcrossBytes`: two or four
  bits in a row across the border of two bytes count as a flip, but FLIP_BIT
  numbers bits from the highest and never makes that pattern, so 0x00e0 + 32 is
  never run.  With `AFL_NO_ARITH` the later stages rely on sums that were not
  made; such entries are excepted too.
* **afl-tmin's result behaves as the original** (`Reproduces`), on Ctrl-C as
  well, and no single byte can still be deleted (`NoByteSpare`), although it
  skips a block that equals the one before.  That no character could still be
  replaced is not claimed, and does not hold: the last pass may delete and leave
  a character untried.
* **afl-analyze tests the file it prints** (`SumsOfTheFile`): the buffer is
  changed in place, four times per byte, and every checksum is still that of the
  file with one byte changed as meant.  The single bit in `b_data` that toggles
  draws the borders exactly where all four checksums change (`BordersRight`), and
  a run of bytes is labelled no-op, superficial, critical, or more than that,
  exactly when the checksums of its bytes are of that kind (`LabelsRight`; the
  documentation's meaning of the finer labels is not claimed, see 6).  The three
  are the conjuncts of `AnalysisRight`.
* **The coverage memory keeps its promise** as long as no request meets a branch
  scan that is still running, wherever `coverage()` stands in the application;
  and every request is answered even then (`Replied`).

The four violations are disagreements between the code and what it says of
itself:

1. `server_work_flow` - any `IOException` in one request ends the only handler
   thread (Nfuzzer.java:198) while the accept thread goes on queueing; the work
   flow of Nfuzzer.java:205-217 promises an answer to every request.
2. `bridge_gives_up` - interface.c:340 compares the number of tries before it
   looks at the status, so the last permitted try is thrown away even when it
   has succeeded; its comment and message speak of failure.
3. `cov_overlap` - CovSend answers before it scans the branches, so the scan may
   move the position of the one `mapBuf` under the next request, which then
   sends other bytes of the file as edges.
4. `session_lost` - a start that resumes moves `queue/` to `_resume/`, builds a
   new `queue/` and deletes `_resume/`.  After a crash during that deletion the
   next start takes what is left of `_resume/` for the old queue and deletes the
   complete new one, against docs/README:246 ("Any existing output directory can
   be also used to resume aborted jobs").

Other things seen on the way are recorded as hazards without a property: a
target whose traces vary can show bytes no entry is rated for (`calibrate_case`
rates its last trace alone); a `fuzzer_stats` truncated by a crash stops every
later start; a `_resume/` left by an interrupted start survives a start that
does not resume, and with `FreshStarts` 2 `NothingLost` fails; a persistent target
can be left stopped by Ctrl-C; negative 16-bit interesting values are never
recognized among collected tokens; a file of another fuzzer that is found
incomplete is never looked at again; a bitmap that arrives in pieces is sent on
with zeros for the rest; the previous location that `coverage()` starts from may
be the last run's.

### Bounds, and why they are enough

* Connections (2, or one per attempt): what can go wrong between connections
  needs one in the handler and one in the queue, in the backlog or rejected.
* `maxQueue` 1 (10 in the code) makes the queue full with two connections.
* `BodyChunks` 1: the header and the body are a piece each, either may be cut.
* `Runs` 2 in the bridge: a stale request meets the next run.  `MAX_TRIES` 0 (40
  in the code) still permits one repetition, for the count is compared before it
  is raised; one repetition is what a double count needs.  One fuzzer; the proofs
  cover any number.
* `MAP_SIZE` 2 or 3 bytes and two buckets: overlapping, disjoint and nested
  traces.  With three bytes an entry can lose one rated byte, keep another and
  win a third.  `CAL_CYCLES` 2 and 3 (8 and 40 in the code) keep the change to
  the longer calibration; `CAL_CHANCES` 2 (3 in the code) keeps a failed
  calibration that is repeated and one that is hopeless; `MaxUs` 1 tells entries
  apart by length alone; `ManyPaths` 1 (10 in the code) makes both rules of
  skipping reachable.  All of them are arbitrary in the theorems.
* `BYTE` 4, of which 1 is the positive value a hit leaves, so that `MAP` is 16:
  with the layout kept, a copy at a wrong position
  can still reach the branches, the previous location and the end of the file.
* `Runs` 4 and `MaxCnt` 2 in `fork_server`: a persistent target is killed late
  in one run, written off in the next and used again in the third, and its loop
  ends within the run.  `LastRuns` 3: a stop may come before a calibration of
  save_if_interesting, the next mutation and a calibration of fuzz_one.
* `Foreign` is one value for all coverage that is of no known body, and a drain
  that has met a scan gives nothing else: the properties would allow any mixture
  with it.  Such drains bring it in, so that `Old` may be empty where they do.
* `MaxStarts` 3: a session, a start that is cut short, and one that finds what
  it left.  `FreshStarts` 1: only the first session does not resume; a later
  fresh start meets the stale `_resume/` named above.  `Kinds` and `Bugs` are one
  each, since kinds do not interact; `PeerFiles` 2 has one file below and one
  above the marker.
* `W` 4 in `fuzz_one`: a byte of 16 values, tables with the lowest and highest
  values, -1, 0 and 1, `ARITH_MAX` 3 (35 in the code), so that carries, borrows
  and all three predicates occur; sizes of blocks and counts are small and keep
  their order.  `EFF_MAP_SCALE2` 0 (3 in the code): a slot of the effector map is
  one byte; with larger slots more is run, never less.
* `Chars` 3 in `test_case`: the digit '0' and two others; texts of four
  characters, and one of five that takes a third pass.
* `USE_AUTO_EXTRAS` 1 (50 in the code): one saved token, so that loading one twice
  is left to the theorem `CacheIsSound`.  What checksums single bytes give is
  enumerated up to their names.
* afl-analyze gets real bytes of 256 values, near the borders where they wrap
  around, and `MAX_AUTO_EXTRA` 6 (32 in the code), so that files of one to six
  bytes reach every case of dump_hex and every label.

### Fairness

* Threads of Nfuzzer and CovSend: weak fairness of each thread; they are
  ordinary runnable Java threads and every wait of the model is a guard.
  In `RequestsEnd` the handler's part (`HandlerSteps`) leaves out the post and the
  bitmap: the application and the bitmap server need not answer.  Only
  `server_work_flow` assumes that they do (`Answering`), and that a peer which
  stays goes on (`PeerGoesOn`), so that what it refutes is not refuted by an
  answer that never comes.
* `bridge_ends`: weak fairness of afl-fuzz, which is awake or has a timer armed
  (`setitimer` in run_target).  Nothing is assumed of the server for `RunsEnd`,
  which holds although it may stop for good; `RequestsEnd` is an implication
  that assumes weak fairness of the accept thread and of `HandlerSteps`.  That the
  peers go on, which
  `server_work_flow` assumes, follows there from afl-fuzz's timer.
* `fork_server`: weak fairness of afl-fuzz, of the server and of the armed
  timer.  Nothing is assumed of the target, which may hang, nor of the user.
* `test_case`: weak fairness of the one program that runs.
* `queue_steady`: weak fairness of afl-fuzz's one thread and of the end of its
  stages, which are finite loops; strong fairness of fuzzing an entry whose turn
  comes again and again, because it is skipped by a coin (`UR(100) <
  SKIP_TO_NEW_PROB` and the like) of probability below one.

Deadlock is checked in the queue and in the coverage memory.  The others really
may stop: the JVM exits, the handler dies, afl-fuzz ends, or the connections,
runs or sessions of the instance are used up.

## 4. Abstractions

* TCP delivers pieces in order or the connection ends; addresses, ports and
  buffers are left out.  The eight reads of interface.c for a bitmap are one
  step that gets all or is cut.
* Inputs are model values with a length.  What a mutation stage makes is any
  input.  Execution speed is a small number chosen at each calibration.
* Formatting, logging, statistics and the screen are left out everywhere;
  `calculate_score` is in `FuzzOne` with its thresholds.
* A process is numbered by the run that forked it: the reuse of pids is left
  out.  Nobody but afl-fuzz kills a target.
* On disk, a file operation is atomic; a file is complete or empty.  A test case
  stands for its coverage (`Finds`), which is the same in every session.
* In `Analyze` a checksum is the classified trace itself: two traces never have
  the same one, and none is zero.
* The deterministic stages run on real bytes with real sums; havoc and splicing
  keep lengths and places only.
* An exception of the HTTP client counts as a crash while the body may still be
  running in the application; that is `late`, marked external.
* `FileLock` is external: another process waits, another thread of the same
  process gets `OverlappingFileLockException`.
* A block copy of CovSend is atomic.  Torn copies would matter only where
  another thread copies the same bytes at a moved position, which `cov_overlap`
  already shows to be wrong.

## 5. The proofs

The theorems assume the `ASSUME` of each module, which TLC evaluates in its runs,
and what a theorem's own hypotheses add (`NothingIsLost`, `SeenBitsQueued`,
`SeenBytesRated`).

* **NfuzzerServer.**  `ServerInvariance`: `ServerInv` is inductive, for any
  number of connections, any queue length and any number of pieces.
  `VerdictSound` and `CoverageSound`, which excepts disturbed drains, are not
  inductive alone: one needs that a
  connection is in one place only (`Placement`: backlog, queue or handler, as
  its socket says, and once), that nothing was done for one not taken up
  (`Untouched`), how far the handler has come (`Progress`), and what may be in
  the bitmap between two requests once a drain has cleared it (`Drained`).  `VerdictsAreSound`,
  `CoverageIsSound`, `NothingIsForgotten` and `PostsAreUnique` follow.
* **FuzzBridge.**  `BridgeImplementsServer`: every step of the composition is a
  step of `NfuzzerServer` or leaves it alone, so its theorems hold of the
  composition.  The lemma needed is that a live target's connection exists
  (`MineOK`).  `BridgeCorrect`: `BridgeInv` is inductive, for any number of
  fuzzers, runs and tries.  A connection is a triple fuzzer, run, try; the
  invariant ties it to the run that opened it: the current run's number bounds
  all opened ones (`InRun`, `Opened`), attempts are opened in order and only the
  last may be under way (`InOrder`), a posted body belongs to the run's file
  (`Posted`, `OfRun`, `FileOwn`), what the target has read is its own
  connection's (`GotOwn`), and only the last attempt of a run can have been
  merged (`MergedLast`).  `VerdictsAreOwn`, `TracesAreOwn` and
  `MergedAtMostOnce` follow with the server's invariant.
* **AflQueue.**  `QueueInvariance`: `QueueInv` is inductive for every bitmap
  size, target, seed corpus, queue bound and number of cycles.  Its parts:
  `ControlInv` (which entry each function works on, and whether its calibration
  has failed), `FreshInv` (entries not there yet or not calibrated yet are
  unmarked and unrated), `RatedInv` (only entries whose calibration succeeded
  are rated), `RefsExact`, `ScoreInv` (in the rating loop `trace_mini` belongs
  to the trace in hand), `MiniInv`, `CullInv` (the loop invariant of
  `cull_queue`), and the counters.  The heart is `MiniInv`: an entry that has
  not been fuzzed has every byte it is rated for in its `trace_mini`, but for
  the one fuzz_one is trimming, and that one counts as fuzzed, or stops
  afl-fuzz, before the next cull.  From it follows that `cull_queue` never takes
  a pending entry twice, hence `PendingIsExact`.  `QueueTypeCorrect` contains
  that no counter falls below zero.  `RatingsImprove` is an action property:
  a rated byte never passes to a slower or longer entry, nor does its entry get
  worse under it; it rests on `RatedInv`, since only a failed calibration would
  time an entry again.
* **CovMem.**  `CovCorrect`: `CovInv` is inductive for every size of the memory,
  every application and any number of threads.  As long as no request has met a
  running scan, one thread works (`OneByOne`), at the position it has set
  itself, so that no lock is refused and no copy fails.  `PromiseCorrect` maps
  each step to one of `EdgeBitmap` or to a stutter: the first copy takes, the
  second clears, the answer sends, the application's write of an edge hits.
  `BranchesOnlyGrow`: a step leaves every branch counted.
* **ForkServer.**  `ForkCorrect`: `ForkInv` is inductive for any subset of the
  servers, any number of runs and any argument of `__AFL_LOOP`.  Its parts:
  `InStep` (what is in the pipes, by where both sides stand, also in a run begun
  after the stop, when the server may be gone), `Settled` (which flags, pids and
  timers go with which step),
  `Alone` (one target at most, alive only between fork and waitpid),
  `TargetKnown` and `StatusKnown` (what each place on the way from the process
  to the verdict knows of the target's end), and `KillKnown` (who knows that a
  stopped target was killed).  `QuietCorrect` (`TraceQuiet`) follows, and
  `RunCorrect`: run_target with its fork server implements `TargetRun`.
* **AflQueue, deterministic targets.**  `SeenBitsQueued` and `SeenBytesRated`
  assume `OneTrace` (every input shows one trace), as the run `queue_steady`
  does; without it both are false.  The invariant `SteadyInv` adds to `QueueInv`
  that a checksum is that of the entry's own trace (`KnownInv`), that this trace
  is the one in `trace_bits` while the entry is rated, and that an entry whose
  calibration has succeeded is rated for all it hits (`ShownInv`).  Bits are
  taken out of `virgin_bits` before it is known whether the calibration succeeds;
  that an aborted one loses none is what has to be shown.
* **Session.**  For any seeds, any number of sessions, any files of the other
  fuzzer, and crashes at any steps: `SessionCorrect`, `QueuedAtMostOnce`,
  `MarkerIsHonest` and `SamplesAreKept`.  The invariant `DiskInv` says that the
  files of `queue/` are the entries in memory, name for name, but for the one
  being written (`LinkInv`, `WorkInv`), that what a start has removed is gone
  (`ClearInv`), and that coverage comes before the queue (`CoverInv`), so that
  nothing found can be queued again.  `NothingIsLost` has two hypotheses, and
  each excludes a way in which the code does lose test cases: `"nuke" \notin
  CrashAt` (no crash while `_resume/` is deleted; `session_lost`), and
  `FreshStarts <= 1` (no later start that does not resume).  `LossInv` tells, for
  each step of a start, in which of the two directories all test cases are.
* **FuzzOne and AutoExtras.**  For every table of interesting values, limit,
  dictionary and entry: `BuffersRestored`, `CacheIsSound` and `TokensFound`.  `Inv`
  adds to the properties the types, what the buffer is in each stage (`BufInv`),
  and for the tokens a loop invariant over the bytes that flip1 has passed
  (`CollectInv`): `a_collect` is the longest run of neighbors that ends here, and
  all runs that ended before have been offered, the one at the end of the file
  included.
  `StagesComplete` has `TriedInv`, a loop invariant over all stages: by the stage
  fuzz_one is in and the byte it is at, which buffers are in `tried`, or were
  left out by which of the code's conditions.  Effectors need care: a byte
  without effect may be skipped by a stage only once the map has been filled in,
  and the map has to be the same for all later stages.
  `NothingIsSkipped` adds what the conditions are worth (`AllGood`).  A buffer
  that is wanted is the entry with a word replaced by a sum or a value, or with a
  token.  A stage may have left it out for one of four reasons.  The bytes have
  no effect, as the property allows.  Or it could be a flip (`GoodFlip`): what
  `could_be_bitflip` accepts is, byte by byte, nothing at all, bits in a row in
  one byte, which FLIP_BIT has made, whole bytes in a row, which the byte flips
  have made, or bits across a border, the exception (`Pattern`).  Or a sum does
  not carry out of its lower half (`SumsOfHalves`), or a word differs from the old
  one by a sum of some part (`GoodSum`): then the stage for shorter words stands
  for it, which may itself have left it out, hence the order of the sizes.  Or it
  could be a value of another table (`GoodValue`).  Under these lie lemmas on
  words and their values for every width of a byte.  Assumed of the constants:
  numbers are numbers (`NumberAssumption`), powers of two multiply
  (`PowerAssumption`), and `^` on bytes is exclusive or (`XorAssumption`); on
  longer words `^` works byte by byte (`WordXor`).
* **Tmin.**  `ReproducesAlways`: for every target, test case and block size; the
  invariant is that `in_data` does what the original did once the first run has
  been seen.  `NothingToSpare` rests on `SpareInv`: in a pass that has changed
  nothing yet and deletes byte by byte, all bytes passed are needed.  A byte that
  is skipped because it equals the last is needed as the last is: without either
  of the two the text is the same.  As in the property, a run that may be
  slow proves nothing.  `next_p2` gives a positive number for every value.
* **Analyze.**  `AnalysisIsRight`: for every file that is not empty
  (`AnalyzeAssumption`: read_initial_file refuses an empty one), every target,
  and every crash, hang or late run.  The buffer is changed in place, so the
  invariant has to know it at each step: `BufferInv` says that it is the file
  with at most the byte under test as the last run left it.  `KeptInv` follows a
  byte through its four runs and says of each byte passed that its response and
  its bit in `b_data` are those of four runs on the file (`Records`).  The bit
  alone does not say where a border is, only that it toggles there.  `DumpInv`
  is the loop of dump_hex: what has been printed covers the file up to the
  current byte, a run ends where the bit toggles and nowhere else, and its label
  is one the responses inside allow (`Labelled`), although the loop looks ahead
  with the index that the outer loop uses next.

Only model-checked: liveness (`WorkFlowCompletes`, `RequestsEnd`, the two
`RunsEnd`, `EveryEntryFuzzed`, `Replied`, `ProgramsEnd`), as fairness and
`ENABLED` are outside the prover's reach.  Every invariant and action property
of a passing run is stated by a theorem.  What a recursive definition computes
for every input (the passes of afl-tmin together) cannot be proved with the
installed provers, as the library's induction theorems take an operator.  Where
an induction was needed, for the loops of `next_p2`, of FLIP_BIT and over tokens
and for the value of a word, it is done on the set of counterexamples, which has
a least element.  No module here declares a `RECURSIVE` operator.

## 6. Not modelled, and what is left

* Pure input or output, output for the screen, upstream tools off this program's
  path, or compile-time tools for native targets: BuildPit, statistics and
  screen, afl-showmap, afl-gotcpu, afl-gcc, afl-as, llvm_mode,
  qemu_mode, libdislocator, libtokencap.
* Labels of afl-analyze beyond what the runs show: a run of bytes takes the
  highest response of any of them, so that a length field of which one byte
  responds in several ways is still a "suspected length field", which
  docs/technical_details.txt:546-548 keeps for a consistent change.
* Higher-order mutation on chunks: `higher_order_fuzzing` overwrites the
  operation it has drawn with `r = 1` and, after `splice_chunk`, calls
  `exit(0)`; with `-w` afl-fuzz ends there, and the operations on trees of chunks
  in smart-chunks.c that follow are not reached.
* The instrumentor: a sequential pass over class files.  Its result, the
  locations and their number, are constants of `CovMem`.
* Crashes and hangs: the second run of a hang with `hang_tmout` and the limits on
  unique samples.
* `find_timeout`, which reads `exec_timeout` from `fuzzer_stats`; -i with a
  directory that is not the output directory; `-M`'s share of the queue; files of
  another fuzzer that are read half written and not empty.

Left for later: `getNewLocationId` against a reference; the second run of a hang
composed with `AflQueue`.
