# MinerTim in TLA+

MinerTim is a CPU miner for Monero: worker threads compute RandomX hashes of the
pool's current job, one receiver thread keeps the Stratum connection, and a
donation schedule makes it log in with another wallet for a small part of the
time. This directory models the parts of it that carry state and threads, checks
them with TLC on small instances and proves the central properties with TLAPS
for all instances.

## The system

| Component | State | Operations | Interacts with |
|---|---|---|---|
| Pool session (`src/pool_connection.rs`) | the stream behind a fair mutex, `generation`, `current_job`, `session_id`, `wallet`, `user_wallet`, `pending_shares`, `submits_in_flight`, four share counters, `rotation_wait_since`; the receiver's locals | `connect`, `login`, `receiver_loop`, `handle_pool_message`, `reconnect`, `relogin_as`, `rotation_settled`, `submit_share`, `drain_pending_shares` | workers call `get_work` and `submit_share`; the pool answers and pushes jobs |
| Mining workers (`src/miner.rs`) | per thread: fetched job, blob buffers, nonce, VM with its pre-filled scratchpad, verifier, local hash count; shared: dataset cache, `mining_active`, `total_hashes` | `worker_loop`, `get_or_generate_dataset`, `ShareVerifier`, `start`, `stop` | reads the session's job, submits to it |
| Donation schedule (`src/donate.rs`) | the level | `beneficiary_at` | asked by `receiver_loop` on every iteration |
| Receiver's clocks (`src/pool_connection.rs`) | `rotation_wait_since`, `last_recv`, `active`, `last_want` | the timing half of `receiver_loop` | |
| Line framing (`src/pool_connection.rs`) | `read_line`'s line, the receiver's buffer | `read_line`, `take_complete_lines` | |
| Targets and hex (`src/miner.rs`, `src/pool_connection.rs`, `src/hex.rs`) | the job's target bytes, the difficulty shown | `hex_decode`, `parse_job`, `meets_target`, `target_to_difficulty` | the text comes from the pool, the result decides which hashes a worker submits |
| TLS pinning (`src/pool_connection.rs`) | the pin | `is_tls_port`, `connect`, the certificate verifiers | the pin comes from the command line; every later connection uses it |
| RandomX VM (`src/randomx/vm.rs`) | cache, dataset, key's programs, scratchpad, pipeline state, registers | `new*`, `reinit*`, `calculate_hash`, `prepare_scratchpad`, `calculate_hash_pipelined`, `compile_program`, `execute_bytecode` | owned by one worker, on whose thread it sets the rounding mode |
| RandomX JIT (`src/randomx/jit`) | code buffer with its kind and page protection, instruction offsets | `compile`, `compile_native_loop`, `write_code`, `get_fn`, `get_loop_fn` | owned by a VM |
| Cache and dataset (`argon2d.rs`, `dataset.rs`) | blocks of the fill; items, progress counter | `argon2d_cache`, `RandomXDataset::generate` | the dataset is shared and read-only once generated |
| SuperscalarHash generator (`superscalar.rs`) | program, ports by cycle, register table, throw-away count, latencies | `generate_superscalar`, `select_for_slot`, `schedule_mop`, `randomx_reciprocal` | eight programs per key, used for every dataset item |
| Primitives (`aes_hash.rs`, `soft_aes.rs`, `blake2b.rs`, `blake2gen.rs`) | none | AES, Blake2b | |
| Command line (`src/bin/minertim.rs`) | none after start-up | four option parsers over one argument list with environment variables, status line, the signal handler that calls `stop` | |

What is hard here: workers and the receiver share one stream, and everything
about a connection (session id, job, pending submissions, half-read lines) must
change together when the receiver replaces it while workers are in the middle of
a submission; the rotation gate looks at two counters without the lock; two
timeouts are measured across outages of any length; the workers hash one nonce
ahead, so a scratchpad, a blob buffer, a VM and a job that belong together are
filled at different times; and the dataset cache makes all workers wait on one.
`PROJECT.json` lists each such hazard at its line.

Correctness, component by component: every found share ends in exactly one
counter; nothing is written to a connection it was not made for; workers never
hold a job of a replaced connection; what is submitted is what it claims to be;
the verifier lets no fault of the native loop through and raises no false alarm;
a rotation waits for submissions to settle, but not for ever; a silent connection
is left in time and a healthy one never; lines survive any cut of the stream; `stop` returns; a
random program always ends and runs the same way in the interpreter and in
emitted code; a hash is the RandomX hash of its input whatever the VM did before;
the cache and the dataset are complete and made from the right parts; emitted
code computes what the interpreter computes and gives its caller back the stack
and the registers it must preserve; a SuperscalarHash
program keeps to the ports and latencies it was planned with; the shares are
exactly the hashes up to the target, in both widths; a pin that was given is
never lost, and a switch that is misspelt falls to its safe side.

## Modules

**PoolSession** models `pool_connection.rs`. A step is what one thread does
between two points where another can see or change shared state. `rx` is the
receiver's place in `receiver_loop` and in the functions it calls, `caller` says
which of them called `connect`/`login`, `wk[w]` is a worker's place in
`submit_share`. A connection is named by the value of `generation` at which it
was installed, a job by its stamp, a session id by the connection whose login
reply carried it, so that "the same session" is an equality. The stream mutex is
the variable `lock` only where a critical section is more than one step (the
write and registration in `write_and_register`; the login's request and reply);
critical sections of one step test that it is free. `HandleLine` removes the
pending entry and counts it in one step, because only the receiver touches
either. `counter` keeps, instead of four numbers, how often each share was
counted in each of them. The pool is external: it answers a request of the live
connection at most once, in any order, and pushes jobs that parse or do not.
Time is left out: each timeout may have run out or not whenever it is looked at.
The flag `connected` is only read by `start_receiver` and is left out;
`reconnect` returning false needs an empty address or wallet, which the program
refuses at start-up (`NoWallet \notin Beneficiaries`).

**ShareLedger** is the abstract promise of the accounting: a share moves
unfound → in hand → unsent, or → waiting → accepted, rejected or lost, and never
again. `PoolSession!Ledger` instantiates it with the refinement mapping `Place`.

**MiningWorkers** models `miner.rs`. A hash is represented by what determines
it: the blob and nonce the scratchpad was filled from, the seed of the dataset
and what miscomputed it, if anything did. `Faults` names the parts of the emitted
code that may be faulty: the instructions of `emit_body`, which every path with a
JIT runs, the native loop's scaffolding, and the frame of the per-iteration body,
which the reference path runs. The interpreter is taken as correct. A fault of
`emit_body` shows alike in the mined hash and in the reference if that VM has a
JIT, so it may pass, as `worker_loop` and the usage text say. `classify_share` has
its four verdicts and fails open. `ComputeHash` is the part of an iteration that touches no shared state.
The jobs appear through `InstallJob` and `ClearJob`, which is all a worker sees
of the session. Job ids and seeds may come back, as a pool may send them again.
A job is identified by its `Arc`. The nonce is a `u64` whose low four bytes are
written to the blob: `NonceSpace` stands for 2^32. `reset_share_counters` runs
before there are workers and is part of `Init`.

**ReceiverClock** models the timing half of `receiver_loop` with
`donate.rs`. The clock is kept modulo the donation cycle and every `Instant` as
its age up to a horizon beyond all limits, so time is unbounded although the
state space is finite. Four variables record what really happened (age of the
slice, of the connection, of the last byte, of the due rotation), so that the
properties compare the code's timers with facts. While a connection is being
made time passes freely; otherwise an iteration takes at most `MaxIteration`
ticks, which the 50 ms read timeout justifies.

**LineFraming** models both framers over one byte stream with three kinds of
byte. Each read returns any bytes; the reference the result is compared with is
defined from the positions of the newlines.

**VmProgram** models one program: the loop of `compile_program` with
`register_usage`, the JIT's pass over the same instructions with `offsets`, and
the interpreter. Programs are random bytes, so every sequence of instructions is
possible; here an instruction is kept as the registers it writes and whether it
branches. The interpreter's `pc` and the word at which the emitted code is run
side by side. Register contents are `Width`-bit words: whether a branch is taken
and how often depends on the carry of its immediate, so `BranchImm` sets and
clears the bits the code does. The values other instructions compute are
arbitrary.

**HashVm** models the VMs that one thread owns, as a state machine over calls in
any order. A hash is symbolic: it is the input that seeded the programs, the
input that filled the scratchpad, the seed of the data read, the version, and
whether every program ran as itself in the right rounding mode. The JIT's buffer
holds the code of one program for one of two calling conventions, in memory that
is writable or executable: by page protection on Linux, where `mprotect` may fail
at each call, and by a flag of the thread on macOS. `ready` remembers which input
the pipeline promises a hash of; a caller that mixes `calculate_hash` into a
pipeline is promised nothing, as the miner never does it.

**Argon2Cache** models the memory fill. A block carries the number of the write
that last wrote it, which is enough to state Argon2's rule for references
independently of the arithmetic in `index_alpha`. RandomX uses one lane, so the
branches for references into other lanes cannot be reached and are left out.

**DatasetBuild** models `RandomXDataset::generate`: disjoint chunks, one thread
each, and the shared progress counter. **RandomXData** composes the two as
`get_or_generate_dataset` does: the dataset is generated from the finished cache,
and a caller that has no cache is refused.

**VmLoop** models what VmProgram leaves out of the interpreter: every
instruction's effect in `execute_bytecode`, and the loop of `execute_vm_inner`
around it: scratchpad addresses, loads and stores, the exchange of `ma` and `mx`, the
dataset line. Floating-point operations are constants: functions of their operands
and of the control word. **MachineWords** gives the words it computes with:
16-bit words for `u64`, 8-bit words for `u32`, with the wrapping, sign extension,
high products and rotations of those widths.

**Arm64** models the ARM64 instructions `aarch64.rs` can emit, by their effect
on registers, flags and regions of memory (stack, register file, scratchpad,
dataset, ...); an access outside a region sets `wild`. The bit encodings are
left out: an instruction is a tuple of its name and operands. **NativeCode** models the emitter: each
`emit_*` function is the sequence of instructions it writes, the two kinds of
function are assembled from prologue, body and epilogue as `compile` and
`compile_native_loop` do, and a step runs the code emitted for one instruction or
for one end of an iteration (where a CBRANCH's code lands is VmProgram's part).
It implements VmLoop: `Interpreter` instantiates VmLoop with the state read back from ARM64 registers and memory
(`VmNow`, `AtNow`, `Left`), so LoopImplemented says that whatever the emitted
code does is a run of the interpreter.

**Superscalar** models the generator of SuperscalarHash: decode buffers, the
choice of instruction for a slot, of source and destination, the two-stage
scheduling of macro-ops on three ports, throwing instructions away, and the
conditions under which it stops. The Blake2 generator's bytes are free choices.
The pass over the finished program that chooses the address register, and the
reciprocal, do not depend on how the program came about; they are checked from
initial states of their own.

**CommandLine** models the four parsers, each a scan of the same token list, three
of them with an environment variable, what `main` does with their results, and the pin's way
through `connect` on every first and later connection. **ShareTarget** models a
target's way from its text to its bytes, to the hashes that meet it and to the
difficulty, in both widths. For TLC a digit is a bit and a half-word two bytes of
two digits; the proofs hold for every base and width, those of the code (16 and 4)
among them.

The **MC** modules instantiate these for TLC. MCInputs, MCJit and MCRandomXData
each put independent machines into one run: a behaviour belongs to one of
them from its initial state on, and the others do not move.
MCInputs and MCRandomXData extend the modules they run, so that the assumptions
of those modules are evaluated too.

Each **_proofs** module extends the modules it is about: **PoolSession_proofs**
(PoolSession and ShareLedger), **MiningWorkers_proofs**, **ReceiverClock_proofs**,
**Inputs_proofs** (LineFraming, CommandLine and ShareTarget), **VmProgram_proofs**,
**HashVm_proofs** and **RandomXData_proofs** (RandomXData and Superscalar).
**FoldLemmas** holds what several of them need: least and greatest numbers,
division, powers of two, and what folds over sets and sequences return.

Operators called "Faulty variant" are plausible mistakes in the definition that
follows them; each property is confirmed to fail when one of them takes its
place.

## Runs

| Run | Checks | Shows |
|---|---|---|
| `submits` | LedgerExact, OwnSession, PendingOnLiveStream, NoOrphanReply, LedgerRefined | two workers submitting against a receiver that reconnects and rotates |
| `rotation` | CountedAsAnswered, CreditedWallet, NoSplicedLine, SettledMeansSettled, JobOfLiveSession | one worker over several connections, with keepalives, split reads and deferred rotations |
| `flush` | UnsentNeverSeen (violated) | an unsent share may have reached the pool |
| `parked` | NoRotationOverParkedSubmit (violated) | the gate's answer may be stale when the stream is torn down |
| `pipeline` | ClaimsHold, VerdictsAreRight | one worker, three jobs, two seeds, a reused id, short blobs, JIT or not, faults in every part of the emitted code |
| `threads` | HashesAllCounted, NoDuplicateShare, StopReturns | two workers share cache and nonce space, which wraps; `stop` joins them wherever they are |
| `once` | GeneratedOncePerSeed (violated) | a late worker generates an old seed's dataset again |
| `timing` | DonatesItsLevel, RotationInTime, SilenceNoticed, DropsOnlyAfterFullWait, SilenceIsReal | rotations and silence under outages of any length |
| `inputs` | LinesDelivered, LimitOnLines, PinEnforced, SwitchesFailSafe, SharesAreBelowTarget | what comes from outside: all short streams in all cuts, all short command lines with their environment, all short target texts |
| `jit` | LoopsClosed, BoundedVisits, JitFollows, CallerUnharmed, LoopImplemented | every program of three instructions takes the same way in both engines and ends; the emitted code of every kind of instruction, in both calling conventions, implements the interpreter and leaves its caller unharmed |
| `vm_life` | HashIsReference, CodeIsCurrent, RoundingContained | two VMs on one thread, two keys, both versions, every order of calls, page protection that may fail (Linux) or the thread's write flag (macOS) |
| `data` | ReferencesAreTheWindow, FillsInOrder, DatasetComplete, MopsScheduledAsPlanned, AddressRegisterIsDeepest, ReciprocalIsExact, ResultsInOrder | three passes over lanes of 8 to 20 blocks with every pseudo-random word, then seven items on 0 to 9 threads; and the generator of the programs the items go through |

The three violations are disagreements between a comment and the code, quoted in
`PROJECT.json`. None loses a share from the accounts: LedgerExact holds through
all of them. The first makes a share the pool may have credited appear as
unsent, the second makes a share unsent that the gate was meant to wait for, the
third costs a dataset generation at a seed change.

**Bounds.** Two workers are enough for every interaction of two submissions;
further workers only add submissions that are independent given the lock (and
the proofs hold for any number). Two or three connections let a share of one
connection meet the next one and the one after. Three jobs with two seeds allow
a seed to be left and come back; the nonce space of `threads` wraps within the run,
which leaves faults of the emitted code to `pipeline`.
In `timing` a cycle of 14 ticks with levels 1, 50, 80 and 100 gives an
all-user schedule, odd and even donated parts and the two-value ring, with
slices longer and shorter than the limits. In `inputs` lines of up to 3 bytes
and streams of up to 9 contain several lines, overlong ones, blank ones and every
way to cut them; argument lists have up to three tokens, from the tokens of one
option and those that can be confused with them, which is what it takes for a
flag to swallow another or for a later value to follow an earlier one; target
texts are all those of up to seven characters and all decodable ones of eight and ten,
so that both widths, the lengths between and beyond them and zero occur. In `jit` three instructions are the least in which a branch can
close a loop over another instruction and be followed by a second branch; words
of three bits with condition bits at 1 and 2 let the immediate's low bits carry
into the condition, which is when a branch is taken twice in a row. The emitted
code is run for one-instruction programs of every kind with many operands
(small, negative and unencodable immediates, every rotation, every condition
shift) and for every pair of 14 kinds, with zero and two iterations: two are the
least in which what an iteration leaves is used. It starts from one scratchpad, one configuration and one
set of registers with irregular contents, since it contains no
branch on data but CBRANCH and CFROUND. Two chained
programs per hash show what one program hands to the next, and two VMs are what a
worker has (its own and its verifier's); VMs, keys and inputs are
interchangeable, so the run uses their symmetry. In `data` words of six bits are
more than twice the lane, so that every reference of the window can be chosen;
sizes that four does not divide lose the rest as in the code. The generator runs
with registers 0, 1 and 5 (5 is the one with a rule of its own), seven cycles, ten instructions,
and limits of two for the look-forward and the throw-aways, so that each of its
limits stops it in some run; the pass over a finished program sees
all of up to three instructions, and the reciprocal every divisor of a 12-bit word. The dataset has a
last chunk that is shorter, more threads than items, and chunks shorter and
longer than a progress step.

`data` and `inputs` are checked without deadlock detection: a finished dataset or
program and a job that has been read go no further. All other runs check for deadlock.

**Fairness.** Only StopReturns is a liveness question: each worker thread is weakly
fair (the operating system runs it) and so is the joining main thread. Nothing is
assumed of the pool, and the cache's mutex is only assumed to be obtained when it
stays free. The bounds of `ReceiverClock` are stated as safety properties over
time instead of liveness.

## Proofs

All theorems hold for every value of the constants allowed by the assumptions of
their modules:

- `SessionAssumption`, `MinerAssumption`, `ProgramAssumption`, `HashAssumption`,
  `ClockAssumption`, `DatasetAssumption`, `FramingAssumption`, `InputAssumption`,
  `TargetAssumption` and `GeneratorAssumption` say that the set of workers is
  finite, markers are distinct, bounds are naturals, there is at least one thread,
  item, register and chained program, an argument list is a sequence of tokens, a
  text one of digits and other characters, and a condition fits into an immediate.
- `LookForwardAssumption`: the look-forward is at most 5 cycles (4 in the code); only
  ResultsAlwaysInOrder uses it.
- `MemoryAssumption`: a segment has at least the two blocks that
  `fill_first_blocks` writes, and a word has at least twice as many values as the
  lane has blocks (2^32 against 2^18 in the code).
- `SliceAssumption`: a slice of the donation cycle that is not empty is longer
  than one iteration of the receiver's loop. The shortest one in the code is half
  of one percent of 100 minutes, 30 s; the loop polls the socket every 50 ms.
- `PowersOfTwo`, `RcpPowers` and the conjunct of `MemoryAssumption` on
  2^WordBits state what a power of two is, up to the widths in use: a natural, each
  twice the one before. These are facts of arithmetic that TLC evaluates and for
  which the provers have no theory; what follows from them (2^(a+b) = 2^a * 2^b, the
  order of powers) is proved in FoldLemmas. `WordPowers` says the same of the powers
  of a byte's base.

The provers cannot apply an induction theorem, whose predicate is a parameter. Where
a claim needs induction (over the position in a sequence, over the subsets of
a set, over the exponent) FoldLemmas supplies a least number of the set of
counterexamples instead, and the step shows that there is a smaller one. In this way
SetRecursion shows that the recursive function inside `MapThenFoldSet` exists, from
which each fold of the modules gets its equations, one element after the other.

Each safety property below is a consequence of an inductive invariant, which was
model-checked before it was proved.

*PoolSession.* `OwnSession` is not inductive: that a submission written to the
live stream carries its session id depends on the worker having read the id
after the job's login finished and on the stream not having been replaced since.
`ConnInv` adds, for each place of the receiver, whether there is a stream and
whether it is logged in (`StreamInv`), that a job exists only on a logged-in
stream (`JobInv`), that a share in hand whose job is of the live connection has
that connection's session id (`HandInv`), who holds the lock (`LockHeld`), and
that `submits_in_flight` is the number of workers inside `submit_share`
(`InFlightExact`; it makes the counter's type inductive). From it follow
TypeCorrect, SubmissionsInOwnSession, PendingNeverOutlivesStream and
JobsOfLiveSession. WalletAlwaysCredited needs `WalletInv`: whom a login under way
is for, from `login` until the pool has accepted it, and that the first login is
the user's. LinesNeverSpliced needs `TailInv`: the buffer may hold the old
connection's bytes after a tear-down, but not once the caller of `login` has
cleared it.

*The ledger.* `SessionInv` adds that request ids in use are below the next one
and distinct (`IdInv`) and that no two places hold the same share
(`UniqueInv`). Each action is shown to leave the ledger alone or to move one
share along one edge (`OneMove`); LedgerIsExact and ImplementsLedger (the
refinement) both follow from that lemma.

*The pool's replies.* These theorems follow a submission through the pool and back.
`ReplyInv` adds to `SessionInv` that each request that reached the pool has an id
of its own and no share is submitted twice (`RequestInv`); that what is pending,
draining or about to be registered did reach the pool (`SentInv`); that a line on
its way is the answer to one request, comes once and is in one place only
(`LineInv`); that a submission whose answer is still to come is pending, or about
to be registered under the lock that keeps the receiver from reading, or reported
as not sent (`PairInv`); and that a counter is only ahead of an answer that was
given (`CountInv`). It gives RepliesNeverOrphaned and CountersMatchAnswers. For
SettledIsSettled, `GateInv` says what `rotation_settled` has learnt from its first
read when that read is zero: the shares then outstanding were all pending, and a
share never goes back into a worker's hand.

*MiningWorkers.* `MinerInv` says what each local is worth at each place of the
loop: an `Arc` number determines its job (`ArcInv`), the blob buffers are those
of the fetched job (`BlobInv`), a miss is only acted on by the holder of the
mutex (`CacheInv`), VM and verifier are on the dataset of `current_key`
(`EngineInv`), a ready pipeline holds the next nonce of the buffered blob
(`PipelineInv`), and the hash in hand is the one the claim will be made for
(`HashInv`). It gives ClaimsAlwaysHold, CacheNeverRegenerates and
VerdictsAlwaysRight: the reference is a hash of the same input on the same dataset
(ShareDecided), so the two can differ only in what miscomputed them, and the
reference, which never runs the native loop, always differs from a hash whose loop
was faulty. NoSharedNonce rests on `LaneInv`, that every counter and
every claim of a worker is in the worker's residue class, and is stated under
`LanesKeepApart`: the number of threads divides the nonce space, or the counters
stay below it. Without either the classes shift when the nonce wraps, which takes
2^32 hashes on one job. EveryHashCounted rests on `CountInv`: at every step the
shared counter is the sum, over the workers, of the hashes computed less those in
the local count, and a worker that has stopped holds none back. That a flush moves
the counter by as much as its worker's term is SumOfOneChange.

*ReceiverClock.* The bounds on time need to know what the loop's clocks measure.
`ClockInv` says that `last_recv` is the connection's silence (`QuietInv`), that a
deferral never outlives its stream (`StreamInv`), that silence is looked at once
per iteration (`HearInv`), that the slice is at least as old as the schedule says
(`SliceInv`), that a deferral is for the target noted last, which is the present
one unless the slice began in this iteration (`WaitInv`; here `SliceAssumption`
enters), and that a rotation that is due came due in this iteration or its deferral
is counting (`DueInv`). From it follow RotationAlwaysInTime, SilenceAlwaysNoticed
and the two action properties DropsAfterFullWait and SilenceAlwaysReal.
LevelAlwaysDonated counts the seconds of each beneficiary as intervals.

*LineFraming.* Both framers are compared with the positions of the newlines in
everything received. `FramingInv` says what the two buffers hold between
reads: before the login reply is complete, all that was received, and afterwards the
unfinished line, with every whole line delivered (`LoginInv`, `ReceiveInv`). The
work is in the receiver's inner loop over one chunk, which is a recursive function
of the module: what it has cut off after k lines is again the k-th line of the
whole stream. EveryLineDelivered and LimitAlwaysOnLines follow for every stream,
chunk size and limit.

*CommandLine.* A parser's scan skips the token it took for a value, so the list it
folds over is not a plain selection of the arguments. The proof compares the
scan with `Written`, which has no order of evaluation: every value the scan
returns was written for the flag, what it skips never is, and the last opinion
decides the fold. `PinInv` then carries the resolved pin through every connection
to PinAlwaysEnforced, and `SwitchInv` the same for the two switches: one is in its
unsafe position only on one of the four words for it.

*ShareTarget.* The invariant is small (`TargetInv`: a job taken up carries the bytes of
its text and the difficulty of those bytes); the work is in the numbers. The text is
read from its first digit on, the bytes from their last one back, and both folds go
through the same partial numbers (FromLeBytes, SpeltDigits, OneReading), so the
threshold spelt is the threshold compared (SpeltIsRead). A compact target compares
only the high half of a hash: HighHalf shows that this is a comparison of the
whole hash with the last one that has that high half. For the difficulty the shares have to be
counted. Reading is one to one (NumbersDiffer) and onto the numbers below the value of
the next place (EveryNumberRead), so there are as many hashes up to a threshold as numbers
(CountUpTo), and the quotient by which target_to_difficulty goes is the floor that
SharesAreBelowTarget demands. SharesAlwaysBelowTarget holds for texts of any length.

*VmProgram.* The loops a CBRANCH closes are only right because
`register_usage` is: `UsageInv` says that its entry for a register is the last
instruction that writes it, or the last branch if that is later. `LoopsClosed`
then carries the fact over to every branch already compiled. For `JitFollows`,
`EmitInv` says that `offsets` are consecutive and that every emitted branch lands
on the first word of the instruction after its target. `ProgramInv` is their
conjunction with `TypeOK`; it gives TypeCorrect, LoopsAreClosed and JitAgrees for
programs of any length over any registers.

ProgramsEnd shows why programs are random and yet always end. An immediate, after
`compile_program` has set and cleared its bits, is an odd multiple of the
condition's lowest bit plus less than half of it (`BranchesOdd`). A branch is
taken when the condition bits of its register are clear, and adds the immediate
again on the next visit: so the condition is not clear then unless a carry came out
of the bit below, which leaves that bit clear, and a third time there is no carry
(SetThenClearOdd, CarryNeeded, TakenOnceMore). Since no loop holds a write of its
register or another branch, loops do not touch each other: the instructions of a
loop have run equally often (`LoopInv`) and what is still to come has run before only
in the loop the counter is in, as often as its branch was taken (`AheadInv`).

*HashVm.* `HashInv` relates what a call leaves behind to what the next one uses:
the data of a VM is its latest key's in whichever mode, and a prepared pipeline
has scratchpad and state of one input (`VmInv`); the rounding mode is the caller's
outside a hash and inside it what the program before left (`ModeInv`); code is
written and protected before it is called (`CodeInv`); and the hash under way has
used no other data than its key's (`RunInv`). It gives HashesAreReference,
CodeAlwaysCurrent and RoundingAlwaysContained for any number of VMs, keys, inputs
and chained programs.

*RandomXData.* `FillInv` gives every block its stamp in closed form: blocks before
the present offset were written in this pass, the others in the one before, each
in its turn (`StampInv`), at the place the loops are at (`PlaceInv`). `BuildInv`
says that each thread has filled its chunk as far as it has come, and the
arithmetic of `div_ceil` that the chunks lie in the dataset and cover it
(ChunksCover). They give AlwaysFillsInOrder and DatasetAlwaysComplete.
WindowAlwaysReached needs in addition that index_alpha reaches every position of
its area: the squared word, divided by the number of words, starts at 0, ends at
most two below that number and never grows by more than two from one word to the
next (SquareBound), so that scaled to an area of at most half as many blocks
it skips none (SquareScales, by taking the least word that is large enough).
Counted by their age, the blocks of the area are then the window's
(LaterReference, LaterWindow).

*Superscalar.* ReciprocalAlwaysExact is about the two-step division of
`randomx_reciprocal`: the shifted quotient may lose its top bits, and the shifted
rest, divided again, is what it lost (SplitDivision). For
AddressRegisterAlwaysDeepest, `Deep` says of the first k instructions that each
register's latency is the length of the longest chain among them that ends in it;
DeepStep extends a chain by the next instruction or takes it off again.

MopsAlwaysScheduledAsPlanned and ResultsAlwaysInOrder rest on one invariant of the
scheduler, GeneratorInv. `Position` says which macro-op can stand at which slot:
what is left of an instruction at the start of a decode cycle is the end of a wide
multiplication or of one by a reciprocal, and fetch_next then returns a buffer
that begins with its slot (FetchStep); select_for_slot starts longer instructions
only in the last slot (SelectedFits). `RoomInv` is why the cycle map is long enough:
until the ports are saturated nothing was committed in its last four cycles, and
every register is ready by the last of them, since no latency exceeds four.
Waiting for a register therefore never moves a macro-op past the end of the map
(SelectedSteps), and where the dry run found a cycle the commit finds one
(CommitPlanned): the saturation in the second schedule_mop is never reached.
`UopInv` counts the port cycles taken. `HalfWay` follows a wide multiplication
between the macro-op that selects its destination and the one that writes it: the
first may look forward to a register ready up to LOOK_FORWARD_CYCLES - 1 cycles later,
but the second is scheduled from the next decode cycle on and no longer waits for
it. Only there does the order of results depend on the look-forward, and the latency
of four allows up to 5.

Model-checked only:

- StopReturns: liveness.
- CallerUnharmed and LoopImplemented: they fold the effect of some sixty machine
  instructions over the emitted sequences, case by case; TLC enumerates those cases.

## Not modelled

AES, Blake2b and the Blake2 generator (bit-level arithmetic with test vectors);
`execute_superscalar`, which is straight-line 64-bit arithmetic; IEEE
arithmetic, which is represented by functions that tell operands and rounding
modes apart; the bit encodings of machine instructions; the derivation of a
program's constants from its entropy, which are constants of VmLoop; the
TLS handshake itself; `hex_encode`; and reporting: the status printer, the
hash-rate window, the best hash, the usage text, the log of the progress
counter, and the snapshot of the statistics, which reads counter by counter and
on which nothing acts.

## Plan

Done, in this order: the session and its ledger, the workers, the receiver's
clocks, the framing, programs, the life of a VM, cache and dataset, the
interpreter's loop and the emitted code that implements it, the SuperscalarHash
generator, targets, the command line with the pin. Left:

1. **StreamLock**: the ticket order of the stream's mutex, and that a parked
   submission gets its turn while the receiver polls.
2. `execute_superscalar` and the mixing of a dataset item, on MachineWords.
3. Proofs: the refinement of the interpreter by the emitted code, one kind of
   instruction at a time.
