# A verification model of the RV32I processor and the programs it runs

The repository is a five-stage in-order RV32I processor in SystemVerilog
(`hdl/`, `pkg/`), its test bench (`hvl/`) and programs that run on it
(`testcode/`): CoreMark with its ports and printing, three competition
programs, and a small baremetal library. This directory holds a TLA+ model of
the processor at the level of clock cycles and of the C programs at the level
of their loops and calls: TLC checks both on small instances, and TLAPS proves
the memory side, the data and control hazards and the predictor of the
processor, and main, the barrier, the comparisons, the memory layout, the merge
sort and the notifications of the programs, for instances of any size.

`README.rst` is the assignment the design was made for. It describes an
out-of-order machine with a reorder buffer; the code is in order, and the
model follows the code.

## Inventory

| Part | State | Operations | Talks to |
|---|---|---|---|
| L1 caches (`hdl/cache/param_cache`) | controller state; data, tag, valid, dirty and age arrays per way | hit, store hit, write-back, clean miss, refill | CPU port above, arbiter below |
| Arbiter (`hdl/cache/arbiter.sv`) | `decode`, `i_cache`, `d_cache` | choose a client, pass its request down and the answer up | both caches, adaptor |
| Cacheline adaptor (`hdl/cache/cacheline_adaptor.sv`) | macro state, beat count, line and address buffers | latch a request, move four beats, answer | arbiter, physical memory |
| Physical memory (`hvl/param_memory.sv`) | contents, open page, running task | read burst, write burst, protocol assertions | adaptor |
| Shadow memory (`hvl/shadow_memory.sv`) | two images | compare every answer with the reference | both CPU ports |
| Hazard control, forwarding unit | none | stall, choose the source of each operand | every pipeline register |
| Register file (`regfile.sv`) | 32 registers | write, transparent read | decode, write-back |
| Pipeline registers (`datapath.sv`) | IF_ID, ID_EX, EX_MEM, MEM_WB | advance together, or wait together; flush two of them | all of the above |
| Fetch (`datapath.sv`, `pc_reg.sv`) | PC register | +4, predicted target, redirect from EX | instruction cache, BTB, EX |
| BTB (`btb.sv`) | address, target and direction per entry | look up, update on every branch in EX | fetch, EX |
| Tournament predictor | two tables of 2-bit counters, history, selector, two shift registers | predict, train | fetch, EX |

| CoreMark's kernels (`core_list_join.c`, `core_state.c`, `core_matrix.c`) | a linked list, a text, three matrices, each in its block of memory | find, reverse, sort, remove and undo; scan and corrupt; matrix operations | the list's comparisons call the other two |
| CoreMark's main (`core_main.c`) | seeds, results per context, error count | lay out memory, calibrate, run, validate, report | kernels, port |
| Ports (`core_portme.c`) | timer values; thread, or pid with shared memory or socket, per context | read time; start and stop a context | main; the operating system |
| `ee_printf.c`, `cvt.c`, `parseval` | a format and its arguments | convert each directive; read seeds | main |
| `comp1.c`, `comp2.c`, `comp3.c` | loop counters, sums, a status register | tests of branches, gcd and lcm, notifications | none |
| `util.h` | a barrier's count and sense | compare arrays; wait for all threads | none |

The processor is clocked by one clock, so there are no races inside it. What is
hard there:

* **Two caches share one path to memory.** Requests arrive in any order, the
  data cache has priority, a data miss may take two transfers, and the one
  answer wire has to reach the right cache in the right cycle.
* **A miss lasts many cycles** during which the victim is overwritten while
  the arrays still call it the victim.
* **Up to three older instructions** may still owe an operand its value, each
  on another signal, and the cycle in which a value is there depends on the
  data cache.
* **Fetch runs ahead on a guess.** Wrong-path instructions, entries of the BTB
  that belong to other branches, and a redirect while younger branches are
  being predicted have to leave no trace.

In the programs:

* **A sort whose comparisons change what is compared**, in place, on a list
  that has to be back in its first order and contents after each iteration.
* **Contexts in parallel**, with two processes that race for a shared memory
  segment or a socket, calls that fail without anybody looking, and a wait
  that may return somebody else's child.
* **One number that counts errors and means three things**, a calibration by
  whole seconds in main alone for contexts that may have to share processors,
  and clocks that wrap, go down in one of their parts, or count the processor
  time of one process instead of the time.
* **A barrier used again** before all threads have left it.

All pipeline registers load in the same cycles: `pc_reg_load`, `ex_reg_load`,
`wb_reg_load` and the others have a second case for `rst_flush && !all_stall`,
but outside reset `rst_flush` implies `all_stall`, so that case never applies.
The model therefore has one condition for the whole pipeline. Note that the
signals called `stall` are active low: `all_stall` high means "advance".

What makes each part correct is stated in `PROJECT.json` under "hazards", line
by line, with the properties that watch over it.

## Conventions of the modules

A hardware module becomes a TLA+ module whose VARIABLES are its registers and
those input ports on which its outputs depend combinationally. Outputs are
operators named like the wires. Inputs that only the clock edge samples are
parameters of `Clock(...)`. Composition is substitution of wires for ports
(`INSTANCE ... WITH`) and conjunction of the `Clock` actions. Reset is the
initial state. An operator marked `MUTANT` before a definition is a plausible
bug in the code that definition models; no specification uses it, and
replacing the definition by it makes the property named in `PROJECT.json`
fail.

A C function is an operator where it computes a value and an action, or one
per turn of its loop, where it changes state that something else can see in
between. Integers have the program's widths where they may reach them; signed
arithmetic beyond the range of int, which C leaves undefined (the risk of a far
price in `comp3.c`), is a free choice of the outcome. In `CoreMark` the data are the
program's own, so that its CRCs are the ones main compares with; `EePrintf`
prints 16-bit numbers, a double is a sign, an integer and its exact decimal
digits, and the fixed buffers that digits go through (`buf[256]`, `tmp[80]`) are
sequences without a limit: widths and precisions beyond them are not considered.

## Modules

| Module | Models | Notes |
|---|---|---|
| `ParamCache` | one L1 cache | the loops of `get_index` are sets of ways and their first element; a line is a function from (word, byte lane) to bytes, so byte enables and the line adapter are exact |
| `L1Cache` | a cache between any CPU and any path to memory | the path is the most general one a single cache can see: it waits any time, latches the request, moves the line's cells in any grouping, answers for one cycle |
| `Arbiter`, `CachelineAdaptor`, `ParamMemory` | the path to memory | delays depend on the open page as in the code; all assertions of the memory set one `error` flag |
| `MemSystem` | `mp4.sv` with the CPU replaced by any sequence of requests | implements `L1Cache` for both caches at once |
| `ControlRom` | the control word | an instruction is its kind and its three register numbers |
| `Forwarding` | `forwarding_unit.sv` | five selections, two stalls |
| `Pipeline` | operands through ID_EX, EX_MEM, MEM_WB and the register file | data hazards |
| `Btb` | `btb.sv` | |
| `Fetch` | PC, IF_ID, ID_EX, flush, commit | control hazards; the direction predictor is free |
| `TournamentPredictor` | `tournament_predictor.sv`, `lbht.sv`, `gbht.sv`, `bht.sv` | |
| `FrontEnd` | `Fetch` and `TournamentPredictor` together | |
| `L1CacheProofs`, `MemSystemProofs`, `PipelineProofs`, `FetchProofs`, `FrontEndProofs` | theorems about the processor | |
| `Crc`, `CoreList`, `CoreState`, `CoreMatrix` | the functions of CoreMark's kernels | |
| `CoreSort` | `core_list_mergesort` and its comparisons | one action per turn of each of its loops; `SortSpec` runs it by itself on any list, any data and any results of `calc_func` |
| `CoreMark` | one context from seeds to validation | the steps of `CoreSort` and every kernel that a comparison calls are actions |
| `PortTimer`, `Harness` | timers; main around the benchmark | the benchmark is one step; threads, processes, shared memory, sockets and failures |
| `Blocks` | main's layout of memory | any number of contexts, any selection of algorithms |
| `EePrintf` | `ee_printf.c`, `cvt.c`, seeds on a command line | one action per directive |
| `Comp1`, `Comp2`, `Comp3` | the competition programs | |
| `Verify`, `Barrier` | `util.h` | each thread's steps in the barrier interleave |
| `HarnessProofs`, `BarrierProofs`, `ProgramProofs` (of `Verify`, `Blocks`, `Comp3` and `CoreSort`) | theorems about the programs | |
| `Testcode` | the seven modules of the four rows from `Blocks` to `Verify`, `Barrier` side by side | a behaviour is one of them; they share a run, not state |

**Ports.** The hosted ports (linux, linux64, cygwin) and the processor's port
contain the same functions, line by line, for the timer and the contexts. A
definition names the lines of one of them; what it says holds for the others.

**Data in `Pipeline`.** Where an operand comes from does not depend on what the
ALU computes, so a value is one bit and the result of an instruction is a free
choice of it. Each of an instruction's other signals (ALU output, immediate,
comparator, link address) carries the opposite bit: a multiplexer that picks
the wrong signal always yields the wrong value. In the real machine the two
could agree by accident; the model leaves the accident out because nothing may
rely on it. The history variable `isa` holds what the registers should be after
every instruction older than the one in EX.

**Programs in `Fetch`.** A program maps each word address to what the
instruction there does to the PC: falls through, branches to a target, jumps to
a target, or jumps to a register (any address). Addresses are `1 .. LastPC` and
wrap; 1 stands for the reset address `32'h80000000` and 0 for the zero the BTB
drives without a hit. The history variable `isa_pc` is the address of the next
instruction the instruction set would execute.

**Index bits.** The BTB and the tables are instantiated with 5 index bits, which
selects bits 5 to 1 of the address (a comment in `btb.sv` says "5:2"). Bit 1 of
an instruction's address is 0, so half of the entries are never used. The model
has the same indices.

## Runs

Every run finishes within the five minutes a run should take on two workers.

| Run | Instance | Shows |
|---|---|---|
| `l1` | 3 ways, 1 set, 4 tags, one word of one byte, bits as bytes | loads return what was stored; no line in two ways; no store lost; every fill is of the requested line; the victim is the least recently used line; a refilled line hits in the next cycle |
| `mem_system` | both caches with 1 way, 4 lines (2 of code, 2 stored to), 2 beats per line | both ports agree with the shadow memory; the memory's assertions hold; answers reach who asked; one pipeline step costs at most three transfers |
| `mem_live` | the same with 3 lines | the whole implements `L1Cache` for each of the two caches; the pipeline advances again and again |
| `pipe_operands` | lui, ALU, set-less-than, load, store and branch; x0 and two registers | operands are current outside the gaps; results reach the register file |
| `pipe_jump` | jumps, auipc, load, store | the link register is never read while in MEM; stalls end |
| `fetch_all` | all 10000 programs of 4 words, 4 BTB entries | the executed instructions are the program's; they commit; EX is never empty for ever |
| `front_end` | 2 looping programs, 2 index bits | predictions and pipeline stay in step; the local table learns |
| `gap` | ALU, set-less-than, load and store | an operand that is not current, see below |
| `coremark` | the performance, validation and profile runs with the sizes main knows; short lists; odd sizes | the list survives every sort and removal, kernels restore their blocks, scans stay inside, known runs give the known CRCs, the program ends |
| `harness` | up to 2 contexts, 1 or 2 processors, 4 methods, 5 speeds, 3 clocks, every call may fail | a failure stays with its context; the clock's time and the verdict are right; a run that main determines lasts 10 seconds, and less than 101 for each round of contexts; main ends |
| `harness_verdict` | unknown seeds | a short run with unknown seeds is validated, see below |
| `programs` | 3 threads for 3 rounds; 5136 formats; arrays of up to 5; 78 kinds of notification; 3 contexts | the competition programs succeed; the barrier holds and is passed; comparisons, printing, parsing and memory layout are right |

**Properties made of parts.** A property that says the same of several parts of
the system is a conjunction of named ones, each with its own comment in the
module, and a run checks the conjunction:

| Property | Parts |
|---|---|
| `ReadsMatch` (`MemSystem`) | `TypeOK`, `InstReadsMatch`, `DataReadsMatch` |
| `OperandsCurrent` (`Pipeline`) | `TypeOK`, `AluRs1Current`, `AluRs2Current`, `StoreDataCurrent`, `BranchOperandsCurrent`, `SltOperandsCurrent` |
| `Restored` (`CoreMark`) | `ListWhole`, `SortsCalledRight`, `ListRestored`, `KernelDataRestored` |
| `KernelsStayInBlocks` (`CoreMark`) | `ScanStaysInBlock`, `MatrixFits` |
| `PrintsRight` (`EePrintf`) | `FieldWidthKept`, `NumbersReadBack`, `SeedsReadBack`, `FloatIsRounded`, `AddressesRead` |
| `ProgramsSucceed` (`Testcode`) | `KernelKeepsLowOnes`, `Comp1Succeeds`, `CommonMultipleFitsInt`, `Comp2Succeeds`, `AcceptedInOrder`, `VerdictOnRisk` |

**Why the bounds are enough.** In the cache, sets do not interact: `index`
selects one in every array, so one set is enough, with one more line than ways
to force evictions; three ways are the fewest whose ages have an element that
is neither the oldest nor the youngest. Two byte values tell two lines apart.
That words and byte lanes do not mix is proved, for any number of them. In
`MemSystem` one way per cache makes most
accesses miss, which is where the caches meet; two beats are the
smallest burst with a first and a last beat, and the delays are different for
an open page and another one. An operand depends on at most three older
instructions, all of which the pipeline holds at once, and on whether their
registers equal one of two source registers: two registers besides x0 give all
cases. In `Fetch` a program of four words can have a branch, its target, its
fall-through and an alias of it in the BTB (addresses 1 and 3, and 2 and 4,
share an entry).

Symmetry is used where the elements are only compared for equality: tags in
`L1Cache`, the registers other than x0 in `pipe_operands`, where only
invariants are checked.

The processor's own run of CoreMark is computed in full, with its 2000 bytes.
In `Harness` two contexts are enough for one to take the other's child, its
segment or its verdict, or for two to need one round or two; the speeds make calibration end after one, two and
three rounds, at, under and over ten seconds, and one is too slow to calibrate
with; the boot time makes the counter
wrap and the nanoseconds go down inside the timed part. Three threads and three
rounds let one thread be a round ahead of another while a third is still
leaving. The formats are all combinations of twelve sets of flags, four widths,
four precisions and all conversions, with numbers at the ends of their ranges.
The prices of notifications are on both sides of each distance at which the
verdict changes, and of the one at which the risk leaves the range of int.

**Time in `Harness`.** Two numbers go on: the time (`wall`) and the processor time
of main's process (`cpu`). The RISC-V port's cycle counter and `clock_gettime`
show the first, `clock()` shows the second. What is assumed of the machine: only
the benchmark takes time, each iteration as long as any other; nothing else
runs; of n contexts as many run at once as there are processors, in rounds of
the length of one context (`Rounds`); a thread's iterations count as processor
time of main's process and a forked child's do not; and nobody sets the clock.
Contexts that were killed, or that main stopped waiting for, may or may not have
taken their part of the timed part.

**Fairness.** `CoreMark` is sequential: its one action is weakly fair while the
program has not ended. In `Harness` main and each child are weakly fair, as the
operating system schedules them; a signal that kills a child is not. In
`Barrier` each thread is weakly fair: each has a core of its own. `MemSystem`
assumes that the clock runs (`WF` of its only action) and nothing else: memory's delays count down by themselves. `PipelineAdvances`
then says that `all_stall`, as far as it depends on the caches, is high again
and again. `Pipeline` and `Fetch` assume just that, in the form of weak fairness
of the data cache's answer and of the advancing edge.

**The four gaps.** `Pipeline` states for each operand that it is current, with
exemptions. `gap` checks the same without them and finds the shortest program
that reads a wrong value, which is one of kind 4. With fewer kinds of
instruction in its configuration it shows the others.

1. For every instruction in MEM that is no load, the ALU output is forwarded.
   The result of a set-less-than is the comparator's. (The second ALU operand,
   the store data and the branch operands have the same gap, and there it
   includes lui.)
2. A load in WB is not forwarded to the second ALU operand.
3. When a load in MEM is answered, the store behind it takes the write-back
   value of the instruction before the load. A store whose base is its own data
   register gets no forwarded data at all.
4. The comparator's operands are forwarded for branches only.

**The verdict.** For seeds that main does not know, `total_errors` is -1, and a
measured time of less than ten seconds adds one. The sum is 0, for which main
prints "Correct operation validated" (`core_main.c`, lines 261, 300 and 324)
instead of "Cannot validate operation for these seed values". `harness` checks
`VerdictIsRight` for known seeds, `harness_verdict` shows the violation.

**The length of a run.** `core_main.c`, line 84, says of iterations that main
determines that "the benchmark will run between 10 to 100 secs". Main finds their
number by running alone (lines 197 to 213) and gives it to every context
(line 221), so the sentence is right only where each context has a processor:
in the model five contexts on one processor, each of 21.6 seconds, last 108. What
holds for any number of processors is `RunTimeBounded`, which `harness` checks: at
least 10 seconds, and less than 101 for each round of contexts, if an iteration
takes less than 10.1.

**Ten seconds by `clock()`.** The benchmark's `README.md`, line 42, says that
"Results are only valid for reporting if the benchmark ran for at least 10 secs!"
A hosted port built with `USE_CLOCK` measures with `clock()`
(`linux/core_portme.c`, line 83), which adds up the processor time of main's
threads: two threads that run for 5.5 seconds at the same time, 11 by `clock()`,
are validated. For forked children it shows next to
nothing, and main reports runs of any length as too short. `TimeIsMeasured`
therefore compares what is reported with the port's own clock.

**Inputs that are left out of the runs** because what the code says of itself
does not hold for them:

* CoreMark's list with seeds 6 and a size of 900 bytes: two items get the same
  index (`core_list_join.c`, line 250), and the list is not "back to original
  state" (line 129) after an iteration. `ListRestored`, a part of `Restored`, fails there.
* A selection of algorithms (fifth seed) with none of the three bits divides by
  zero (`core_main.c`, line 173); with some of them only, `calc_func` runs
  kernels that were never initialised.
* A matrix block whose size is not a multiple of four may reach two bytes past
  its end through the alignment of the result matrix.
* State texts with equal seeds whose low byte is one of the text's characters:
  the corruption turns that character into the terminator.
* A lost datagram: main waits for ever. `MainEnds` names this wait as its only
  exception.
* A counter whose period is shorter than the run, as on the processor (32 bits
  at 10^9 ticks a second): no run can be measured as ten seconds.

One more exemption is in `CommitsInstructions`: `commit` compares the addresses
in MEM and WB, and a flush leaves the reset address in the cleared slots, so a
branch or jump at the reset address that flushes never raises `commit`
(`mp4-cp2.s` begins with one). It concerns the monitor, not the execution.

## Proofs

The proof modules hold for all values of the constants, under the assumptions
that the modules name next to their constants and TLC evaluates in the runs:

| Module | Assumptions |
|---|---|
| `L1Cache` | at least one way, 0 is a byte |
| `MemSystem` | the same; a line is a whole number of beats, at least two; delays are positive; memory images are well typed; the program does not store to its code (`NoSelfModification`) |
| `Pipeline` | the instruction kinds are ones the control ROM decodes, x0 is a register |
| `Fetch`, `FrontEnd` | at least two addresses, one BTB entry and one index bit; programs are made of instruction words |
| `Harness`, `PortTimer` | numbers are naturals, resolutions positive; a second is a whole number of ticks; finitely many data types are wrong |
| `Barrier` | finitely many threads |
| `Comp3` | notifications have the types of their packed fields; counts of turns are naturals |
| `Verify`, `Blocks` | both arrays have the same length; layouts are well typed |

A property that holds is seldom inductive. What follows says for each module
which invariant was needed, and why.

**`L1CacheProofs`.** The theorems are `TypeCorrect`, `Invariance`,
`ReadsCorrect`, `OneWayPerLine`, `StoresSurvive`, `FillsAreOfTheRequest`,
`MissEndsInHit` and `VictimIsOldest`. "A load returns what was stored" is not inductive: it says
nothing of lines that are not being read, nor of the path to memory. The
inductive invariant has these parts:

* `UniqueTag` and `DirtyIsValid`, about the arrays alone;
* `HeldLinesCurrent`: a valid way agrees with the shadow memory, unless
  `read_mem` is overwriting it right now (`Refilling`);
* `MemoryCurrent`: memory agrees with the shadow memory wherever no dirty copy
  exists, and the way being refilled is not counted as a copy. This is what
  forces the write-back to be complete before `read_mem`;
* `FillIsMiss`: in `read_mem` the request still stands and still misses, so that
  the way chosen at the start stays chosen;
* `PathInv`: while the adaptor works for this cache, its buffers belong to the
  cache's present request; a fill is only granted once the dirty bit is clear
  (so that `pmem_address` is no longer the victim's), and in the cycle of the
  answer memory and line buffer agree.

There is one lemma per action of the cache (`IdleKeeps`, `HitKeeps`,
`WriteBackKeeps`, `CleanMissKeeps`, `FillingKeeps`, `FilledKeeps`), each with
one step per part of the invariant. That `get_index` returns a way, and a
hitting one if there is any, rests on the least element of a set of naturals.

`VictimIsOldest` needs an invariant of its own about the LRU counters, which
start equal, are incremented modulo `Ways`, and only for valid ways:

* `AgesFollowUse`: a way's counter is below another's exactly when it was used
  after it; counters differ unless both are `Ways - 1`; and a counter that is
  not `Ways - 1` counts the ways below it. From the last it follows that
  no way is second oldest while two are the oldest, so an increment never makes
  two counters equal and never wraps;
* `UsedIsValid`: a way whose counter left `Ways - 1` is valid, so the test of
  the valid bit in the code never keeps a counter from being incremented;
* `TwinsUnused`: two ways share a counter only while the first of them is
  invalid, or was just filled and hits in this cycle.

When all ways are valid and the access misses, all counters differ; by the
pigeonhole principle one of them is `Ways - 1`, and its way is the one selected.

**`MemSystemProofs`.** The theorems are `Invariance`, `NoAssertionFails`,
`AnswersGoToTheirClient`, `ThreeTransfersSuffice`, `BothPortsRead` and
`ImplementsBothCaches`. The refinement mapping shows each cache only its own
turn on the path: `Phase`, `LineAddrBuf` and `LineBuf` are those of the arbiter
and the adaptor while the arbiter serves this cache, and at rest otherwise.
`DP` and `IP` instantiate `L1CacheProofs` under the two mappings. A cycle of the whole
is shown to be a step of `L1Cache` in both views, from the cycle's own
invariants, and then `DP!NextIndInv` and `IP!NextIndInv` carry the cache's
invariant over. The parts of `SysInv` that are about the path:

* `PathOK`: adaptor and memory agree on the beat, the direction and the address
  of a burst (`Handshake`), which is what the memory's assertions ask; the beats
  moved so far are the same in the line buffer and in memory (`Buffered`);
* `ClientOK`: a transfer under way is what the arbiter's client asks for now;
* `InstClean`, `DirtyStored`: the instruction cache has nothing to write back,
  and the data cache only lines that the program stores to. A write-back
  therefore never changes a line of code under the instruction cache. In the
  instruction cache's view, lines outside the code are those of the image;
* `Budget`: the transfers made since the pipeline last advanced plus those that
  both requests still need are at most three. `TransfersCountDown` of
  `L1CacheProofs` says how the second number goes down.

With `ImplementsBothCaches` all theorems of `L1CacheProofs` hold for each of
the caches in the whole.

**`PipelineProofs`.** The theorems are `TypeCorrect`, `Invariance`,
`RegisterFile` and `Operands`. Neither property says anything of the values that
are on their way. The invariant adds:

* `ResultsCurrent`: the instruction in MEM has the architectural value of its
  register, and so has the one in WB unless the one in MEM writes the same;
* `LoadCaptured`: the data register in WB holds the value of the load there,
  though the pipeline may wait for the other cache;
* `DecodedCurrent`: what decode read is current unless an instruction in MEM or
  WB writes the register, which is where the forwarding unit looks;
* `WritersOnly`, `ZeroIsZero`: an instruction that writes no register names x0,
  so comparing register numbers is enough;
* `JumpCleared`: behind a jump in MEM is the slot that it cleared, so its link
  address is never needed there.

**`FetchProofs`.** The theorems are `TypeCorrect`, `Invariance`, `ControlFlow`,
`NextInstruction` and `Commits`. The inductive invariant:

* `SlotOK`: a slot of IF_ID and ID_EX holds the program's word at its address or
  is cleared, and only branches carry the prediction bit;
* `EntryOK`: a BTB entry that can hit is about a branch of the program and holds
  its target, whichever branch wrote the entry;
* `Chain`: the address in EX is `isa_pc`, the one in decode is where fetch went
  after it, and the PC register is where fetch went after that. "Where fetch
  went" is the target if the prediction bit is set and the next address
  otherwise, so a correct prediction keeps the chain and a wrong one is just
  what `rst_flush` detects;
* `Left`: what `commit` needs to know of the last two slots that left EX.

`Fetch` leaves the direction predictor free, so the theorems hold for the
tournament predictor and any other one.

**`FrontEndProofs`.** The theorems are `ImplementsFetch`, `Invariance`,
`SelectorTraining`, `LocalLearning` and `PredictedControlFlow`. The first shows
that every step with the tournament predictor is a step of `Fetch`; the last
uses it to carry `ControlFlow`, `NextInstruction` and `Commits` over. For
`SelectorTraining` a history follows the instructions, not the registers: each
slot of the pipeline remembers at which address the predictor was asked for its
instruction and what the two tables said, and a flush clears it as it clears the
slot. The shift registers have neither reset nor flush, so `OwnPrediction` says
that they hold what the slot remembers only where the slot has a fetched
branch, that the remembered address is the slot's, and that a slot which was
predicted taken has a table that said so. `Leaning` says what one outcome does to a
counter, without which two say nothing.

**`BarrierProofs`.** The theorems are `RoundsInOrder` and `NobodyIsAhead`, for
any finite number of threads and calls. `NobodyAhead` does not say why a
spinning thread may leave, nor why the count is full. The invariant names the
number g of complete rounds: the shared sense is its parity, every thread has
made g or g + 1 calls and its own sense is their parity, the count is the
number of threads that have arrived in the next round, and while a thread clears
the count and flips the sense all others spin.

**`HarnessProofs`.** The theorems are `Invariance`, `ContextsAreSeparate`,
`TimerIsRight`, `VerdictForKnownSeeds` and `RunLength`. The invariant says where a
context's results are at each step: with its thread, in its segment, or in
main (`ThreadsWrite`, `ForksRecorded`, `SocketsRecorded`, `Gathered`), and which
readings the timer holds (`ClockRead`). `ForksRecorded` has the condition that
every fork succeeded, as `FaultsStayLocal` has: after a failed one, waiting for
process -1 may reap any child. `TimerIsRight` rests on lemmas about quotients
and remainders (`Difference`): a counter that wrapped and nanoseconds that went
down give the same difference; it is about the port's own clock, whatever that
counts. `VerdictForKnownSeeds` excludes the seeds for
which `harness_verdict` shows the violation. `RunLength` proves `RunTimeBounded`,
for any number of contexts and processors, where main can measure at all
(`Measurable`): a second is at least eleven times the nanoseconds a tick can hide,
and the counter does not wrap within 101 seconds. That ten iterations take less
than 101 seconds is part of the property: where the first ten iterations of
calibration take longer, so does the run.
Its invariant follows the calibration (`Calibrated`: what main has tried so far
took less than a second, and what it settles on takes from 10 to 100), the
children (`ChildrenWaitedFor`: without a failure each context that main is
done with has finished its iterations) and the clock (`Elapsed`: the timed part
is one round of contexts at least, and no more rounds than all of them need);
lemmas on quotients (`SecondsMeasured`, `FactorFits`, `RoundsGrow`) bound the
measured time, the factor that main multiplies with and the rounds.

**`ProgramProofs`.** `ComparisonsAreRight`, for arrays of any length: the
unrolled loop of `verify` looks at pairs, so the index is even and everything
before it is equal. `BlocksAreApart`, for any number of contexts, sizes and
selections but the empty one: areas are apart, blocks are cut one behind the
other, and `j` counts the selected algorithms before `i`.

`SortStable`, for lists of any length, any items, either comparison and any
values that `calc_func` returns: the merge sort returns a list of the same
cells, sorted and stable (`SortIsStable`). The proof has to follow a list that
is in pieces. The invariant `SortInv` names two orders of the cells: L, the
list as it was when the pass began, and O, of which the first o places are
linked already (`Halves`: the cells that wait have the links they had in L, and
no cell is in both parts). `Merged` says how they compare: L is in sorted runs
of `insize` cells and O in runs of twice as many; between two runs the cells
are as they were before the sort, and that is what stability rests on. `InRuns`,
`InCount` and `InMerge` tie p, q, `psize`, `qsize` and `nmerges` to places in
L: the pair being merged begins after (2 * insize) * (nmerges - 1) cells. The
sort stops after a pass with one merge, when N <= 2 * insize, so that one run is
all. Because a comparison may rewrite the items it looks at, the order is only
claimed of items that have a value (`Ready`), and `DataKept` says what every step
leaves alone: the index of an item by `cmp_idx`, and a cached value by
`cmp_complex`. The list has a cell at least (an empty one would write through a
null `tail`, line 483, and no caller has one), and `insize` has no width: it
doubles until it reaches the length. That CoreMark calls the sort with such a
list is `SortsCalledRight`, a part of `Restored`, which `coremark` checks.

`NotificationsAreJudged`, for any messages and any number of turns:
`AcceptedInOrder` and `VerdictOnRisk`, the parts of `ProgramsSucceed` about
`comp3.c`. The last id that counted is an upper bound of all accepted ones; the
status is bad only if one of those judged so far was too far from its strike,
and is bad if one was by less than 2^28. Farther off, `vol << 2` and `risk += risk`
(lines 732 to 736) may leave the range of int; the model then allows either
verdict, and nothing is claimed. The lemmas decode what the packed fields mean
(`Fields`) and compare the arithmetic of int with the distance
(`RiskAndDistance`).

**Only model-checked.**

* `PipelineAdvances`, `StallsEnd`, `AlwaysExecutes`, `Ends`, `MainEnds` and
  `BarrierPassed` are liveness under fairness, which is out of the prover's
  reach.
* `Restored`, `KernelsStayInBlocks` and `KnownRunsValidate` of `CoreMark` and
  `PrintsRight` of `EePrintf`: their modules compute with recursive operators
  and bitwise exclusive or on concrete data (CRCs, texts, digits), neither of
  which a module with a theorem may reach.
* The parts of `ProgramsSucceed` about `comp1.c` and `comp2.c`: sums over loops
  and a greatest common divisor, which would need induction over data.
* `VerdictIsRight` for unknown seeds is not proved: `harness_verdict` shows that it
  fails.

## Not modelled

* ALU, comparator and immediates: combinational 32-bit arithmetic.
* Byte lanes between CPU and cache port: shifts by the low address bits, sign
  extension. The cache takes any byte enable.
* L2 cache and next-line prefetcher: their instances in `mp4.sv` are commented
  out. The strided prefetcher is never instantiated, and updates its tables in
  combinational code that reads what it writes.
* `prefetch_pc` drives nothing.
* The RVFI monitor, the logs and the statistics only observe. The registers
  that carry values to them are left out.
* Stores to code: the shadow memory keeps a separate instruction image which
  stores do not reach, and the caches do not snoop each other. `MemSystem`
  assumes there are none (`NoSelfModification`).
* Words that are no RV32I instruction, and CSR instructions, which the control
  ROM decodes to its defaults.
* Reset in the middle of an execution.
* `encoding.h`: constants generated from the instruction set's tables.
* The data of `comp3.c`: the notifications are any sequence of a small set.
* The e and g formats of `ee_printf.c`, which no directive reaches, and sending
  characters to a UART, which a port has to supply.
* Seeds from a system function (`SEED_FUNC`): no port has one.
* `lfsr`, `insn_len` and `stats` of `util.h`; debug prints.
* Failure of `malloc` and of `pthread_create`, which the code does not look at,
  and children that are stopped instead of killed.
* The assembly programs, scripts and logs.

## Plan

Done: the memory side, the data and control hazards of the CPU, the predictor,
CoreMark with its harness, timers, memory and printing, the competition
programs and the barrier; and the proofs above, which state every safety
property of the processor that the runs check, and those of the programs that
do not compute on concrete data. What could follow:

1. The bounds of CoreMark's list and text operations (`KernelsStayInBlocks`),
   with the recursive operators they use rewritten as folds and the exclusive
   or as a parameter.
2. A pure module for the byte lanes: byte enable, store shift, load shift and
   sign extension against the instruction set's definition, over small words.
