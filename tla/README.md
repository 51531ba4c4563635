# Models and proofs for debug-code

The repository is a collection of about thirty-five small, independent debug
tools: each directory under `src/` is one program (or one routine for another
one).  They share no code and no files.  What they share is the machine: process
groups and signals, the loop driver, the kernel log, `/proc`, the firmware's
variables, I/O ports.  This directory models the tools that have behaviour worth
checking, together with the part of the machine that interferes with them.

Conventions.  One module per program, named after it.  One action per step that
another process, a signal handler or a crash can observe.  Operators whose name
is that of an action followed by `_something` are deliberate mistakes ("mutant"):
each property of a run is known to fail when the action is replaced by one of
them, so no property holds merely by the shape of the model.  `Spec` is the
safety specification, `FairSpec` adds the fairness.  History variables are marked
"history" where they are declared; no action reads one in its guard.

## 1. Inventory

### Tools with concurrent, failing or long-running behaviour

| Tool | State it keeps | Operations | What is hard | Correct when |
|---|---|---|---|---|
| `rdrand-benchmark` | `start_test`, `end_test`, `info[]`, thread handles | per thread count: create, open the gate, measure, stop, join, sum | two unsynchronised flags written by every worker; failing `pthread_create`; rounds reuse the flags | all threads of a row run at once; no thread outlives its row; a row is summed from measured values; the benchmark ends |
| `cpu-hog` | `pids[8]`, `reaped` | fork loop, spin, SIGINT handler that kills and waits | SIGINT to parent or to the whole group at any moment; children that do not ignore it yet; failing `fork` recorded as -1 | a handled SIGINT leaves neither a hog nor a zombie; the handler never waits for a live hog |
| `latency-test` (pool) | heap array `cpu_pids`, children | start, load tests, sampling loop, complete, SIGINT handler; the handler and the array are inherited by every child | handler during start or complete; failed `calloc`/`fork` ignored by `main`, use after free, double free | at most the child being recorded survives; the program ends unless a sample is stuck, and at a SIGINT always |
| `hz-test` (pool) | the same | the same with an inverted test in the kill loop | `kill(0, SIGUSR1)` goes to the whole process group | Ctrl-C still ends everything; a partly filled pool is cleared |
| `loopy` | device numbers, count, backing files | get free device, make file, bind; then reopen, unlink, unbind, remove with unbounded retry | other users of the loop driver between any two calls; seven error paths | leftovers match each other; no other process's device is unbound; it returns but in two known situations |
| `process_watcher` | hash table of pids, samples, SIGINT flag | scan `/proc` every second, record differences, report | processes exiting between `readdir` and `open`, pid reuse, counters modulo 2^32, a table that never forgets, SIGINT anywhere | one slot per pid; differences add up; only gathered samples are reported; the report is reached |
| `IO-flash-benchmark` | options, block size, descriptor, buffer, scratch file | write rows, read rows, SIGINT handler | each of a dozen calls may fail or be short; SIGINT in any of them; `int` block count | scratch file gone, device kept; resources returned; timed loop moves the size |
| `kmesg` | buffer, file | size query, read-and-clear, append | partial and failing writes, a read the kernel refuses, kills between read and write, several instances on one file | nothing repeated, reordered or rewritten; the kernel's log keeps being emptied where the reads are allowed |
| `uefivar` | directory snapshot, variable buffer | remove by name, list, set | entries disappear and reappear between the snapshot and the use; prefix search; stale buffer | only variables of exactly the name disappear; a removal is complete |
| `io-4k-sector-test` | offset, count | write every block until refused, read back | the page cache in between; another process that moves or truncates the file during either test; a device smaller than it says | of a good device no complaint about a block that is there; a fake is found when the cache was cold |
| `fiemap`, `block-mapper-fibmap` | extent or block count | count, then map | the file changes between the calls; block numbers and the buffer size pass through an `int` | exact for a file that holds still, as far as the `int`s reach |
| `push-key-scancodes`, `led-flash-user-space`, `led-flash-assembler` | none | i8042 handshake | poll, then write; the controller is shared with the keyboard driver | alone, every byte arrives; together a bounded loss; the LEDs keep flashing |
| `cmos-reset`, `cmos_dump` | none | select a cell, read or write it | index and data are separate ports | alone, exact; `cli` protects against users on the same processor |
| `halt`, `reboot-from-user-space` | none | read-modify-write of power registers, reset writes | several registers in an order that matters | type before enable; disks synced before the reset |
| `beep-*`, `vga-palette*` | none | several bytes to one port | a device with an index of its own; two missing `ret` | speaker off, palette set |
| `eatpages` | size, jump targets | daemonise, map, poison, unmap | SIGBUS that jumps out of either call | not modelled |
| `qemu-serial-grub2-output-parser` | position in an escape sequence | strip escape sequences | sequences longer than it expects | not modelled |

### Tools without such behaviour (not modelled)

`smistat` (prints a counter every second), `uefiCSMvideo`, `dump-mtrr`,
`cpu-cstates`, `readtsc` (read once, print), `video-modes`, `e820` (ask the BIOS
through a library that is not in the repository), `rdrand` (retry one
instruction), `softlockup` (spin at real-time priority).  They are single-threaded, keep no state between steps and do nothing
that another process can disturb in an interesting way.  The floating-point
statistics that `latency-test` and `hz-test` compute from `/proc/stat`, the counter
and the clock, and the autotools files, are left out too.  `PROJECT.json` lists
every component with the reason.

### Interactions

There are no calls between the tools.  The interactions that matter are

* parent and children: `fork`, `kill`, `waitid`, inherited handlers and copied
  memory (`cpu-hog`, `latency-test`, `hz-test`);
* threads and volatile globals (`rdrand-benchmark`);
* a tool and other users of a kernel service: the loop driver (`loopy`), `/proc`
  (`process_watcher`), the kernel log (`kmesg`), EFI variables (`uefivar`);
* a tool and other users of a device, among them the kernel's own driver: keyboard
  controller, CMOS, speaker, DAC, power registers (the port tools);
* tools that look at one file while another one, the page cache or a defragmenter
  changes it (`iotest`, `fiemap`, `fibmap`);
* a tool and the terminal: SIGINT at any moment (`cpu-hog`, the pools,
  `process_watcher`, `IO-flash-benchmark`);
* a tool and failing system calls (all of them).

The other side of each is part of the module: `Interrupt`, `Die`, `Starts`,
`Runs`, `Exits`, `OtherBinds`, `OtherOpens`, `OtherDetaches`, `Emit`, `Kill`,
`Controller`, `Tick`, `Button`, `Signal`, `Writeback`, `Evict`, `Move`, `Truncate` are
actions of the environment.

## 2. Modules

### RdrandBench, RdrandBenchProofs

`rdrand.c`.  `mpc` and `i` are the place of `main()`/`test()` and its loop
counter, `pc[t]` and `count[t]` those of worker `t`.  Every access to `start_test`
and `end_test` is a step of its own: `TestEnter` (clear the gate), `Create`,
`OpenGate`, `Join`, `Report` for the main thread; `ResetEnd` (the worker's first
statement), `PassGate`, `LeaderBatch`, `LeaderStop`, `HelperBatch`, `HelperStop`,
`Store` for the workers.  Amounts of work are counted in batches of 32.  The
result of `pthread_create` is ignored by the code, so `Create` may leave the
thread absent; joining its uninitialised handle returns or faults.

Worth knowing: a worker executes `end_test = false` when it starts.  One that is
scheduled for the first time after the leader has raised the flag erases it, and
all remaining helpers run for ever.  `EndsIfOnTime` states exactly the condition
(`OnTime`) under which the benchmark ends.

### CpuHog, CpuHogProofs

`cpu-hog.c`.  `k` is the loop counter, `pids[s]` the recorded pid, `kid[s]` the
life of the child of slot `s`; `reap()` is three actions per slot, `Kill`, `Wait`,
`Clear`, because a child may die or a further SIGINT arrive between them.  A
failed `fork()` is recorded as -1 and later given to `kill()`, which signals every
process; `Kill` models it as a signal to all children.  The four burn functions
differ in arithmetic only.

### CpuConsume, CpuConsumeProofs

The pool of `latency-test.c` and of `hz-test.c`; `tool` says which program runs.
`heap` distinguishes the array before `calloc`, in use and freed; reads of freed
memory return the old pid, zero or junk.  `from` is where the parent was when the
handler began.  A child that gets SIGINT runs the inherited handler on its copy of
the array (`KidHandler`, `HzKidHandler`).  The kill loop is `Kill`, `Skip` and `Wait`
for `latency-test`, `HzKill` and `HzSkip` for `hz-test`: `hz-test.c:63` tests
`if (!cpu_pids[i])`, so a full pool is not killed at all and a free slot sends the
signal to the caller's process group (`GroupSignalled`), the caller included.

`Loads`, `Sample`, `SampleEnd`, `UsageEnd` and `Jitter` are the measurements that run
while the hogs do.  The only one with control of its own is the sampling loop of
`test_cpu_usage()`: it spins until the time stamp counter has advanced by 10^9.
`rd_clock()` of `latency-test.c:164-170` asks for the counter with `"=A"`, which on
x86-64 is one register, so a reading is the low or the high half, and with the
optimisation of its Makefile the compiler may read different halves before the loop
and in it.  `Reading` and `Parts` model this (`{"low", "high"}` for `latency-test`,
`{"whole"}` for `hz-test`), and `Stuck` is a sample whose end no reading reaches.

### Loopy, LoopyProofs

`loopy.c` with the loop driver.  `devnr`, `n`, `i` are the code's; `exists`,
`bound`, `held`, `autoclear` are the driver's; `leaked` are the descriptors that
line 87 does not close.  `GetFreeDev`, `MakeFile`, `SetFd` are the first loop,
`Reopen`, `ClrFd`, `Remove`, `Retry` the second.

### ProcessWatcher, ProcessWatcherProofs

`process-watcher.c`.  The table (`pid`, `last`, `active`), the samples and the
totals are arrays as in the code; the hash function and the probe sequence are the
code's with a smaller table.  `Visit(p)` is one turn of the `readdir` loop.
Counters are kept modulo `W`, a number of values of at least two (2^32 in the code).

### Benchmark, DiskProofs

`benchmark.c`, both tests, `main()` and the handler.  Sizes are in units of
`MIN_SIZE`.  `stored` is the length of the scratch file (-1: none), `fds` and
`buffer` what is open and allocated.  `opt.intact` marks the runs in which no call
fails and no transfer is short.  `drop_caches()` reports success whatever
happened, so it has no effect on the control flow and none in the model.

### PortTools, HardwareProofs

Eleven programs that only write and read I/O ports, and the devices behind the ports.
A program is a sequence of instructions: `PushKeycode`, `Led`, `FlashLed`,
`CmosReset`, `CmosDump`, `Vga`, `Flash`, `Beep`, `BeepAsm`, `Halt`, `Reboot`,
`RebootKeyb` are the sources' functions, instruction by instruction, without delays,
prints and `ioperm()`.  `Execute(t)` executes one instruction of program `t`: a poll, a
jump, a byte out or in, `cli`/`sti`, a 32-bit access to a power register, `sync()`.
The devices do what the programs rely on: the i8042 has one input buffer, in which a
second byte replaces the first, and remembers what the next data byte is for; the CMOS
has one index; the 8254 takes low and high byte in turn; the DAC takes six bits of
three colours and moves on; the power registers clear a status bit when 1 is written.
`users` is the set of programs that run together, on one processor or each on its own
(`apart`); the kernel's keyboard and RTC drivers (`AtKbd`, `RtcDriver`) are programs
that hold interrupts off.  `FallThrough` is what happens behind the last instruction of
`flash` and `beep_440hz`, which lack a `ret`: the next routine returns, or it crashes.
`PortTools` and `UefiVar` have one proof module, which extends both.

### FileTools, DiskProofs

`iotest.c`, `fiemap.c` and `fibmap.c` with one file.  `file` maps its blocks to those
of a device, `cache` holds pages, `disk` what the device holds.  The device is good, or
a fake that wraps around or drops what is beyond its real size.  `IoWrite` and `IoRead`
are turns of iotest's two loops; they go through the page cache, for the file is opened
without `O_DIRECT`.  `FibStat`/`FibMap` and `FieCount`/`FieRead` are the two halves of
the mappers, between which the file grows (under `iotest`), is moved or truncated.

* `Truncate` may come at any time.  If it cuts the file while iotest writes, the next
  write lands behind its end: `Placed` leaves holes there, which read back as zeros.  The
  ghost `io.cut` remembers it, and `NoFalseAlarm` says that this is the only case in which
  iotest blames a good device, and a hole all it then complains of.
* `Wrap` is what an `int` makes of a number.  It cuts down fibmap's count of blocks
  (`FibStat`) and the block number FIBMAP returns (`FibMap`), and fiemap's size of the
  extents (`FieCount`).  A negative size ends fiemap in `realloc()` or `memset()`; one
  that is too small lets the kernel write past the buffer, after which `FieRead` leaves
  open what is printed.  `MappersExact` promises nothing about numbers an `int` cannot hold.
* A FIBMAP that fails leaves the block's own number or 0, and fibmap prints it
  (`left` in `FibMap`); fibmap's earlier error exits are `FibFails`.
* `LIMIT` is the longest a file may be, holes included: further writes fail with EFBIG.
  The part of a block that a short last write leaves is not modelled: iotest never reads
  it, because it does not count it.

The file starts new, with two blocks of which the first may be a hole, or full.  `Benchmark` and `FileTools` have
one proof module, which extends both; the names `FileInit`, `FileNext`, `FileSpec` and
so on keep them apart.

### LossyLog, Kmesg, KmesgProofs

`LossyLog` is what a message logger promises: the log only grows, contains nothing
twice, nothing that was not produced, and each reader's part in order; it may miss
units.  `Kmesg` is `kmesg.c`: `Start`, `Poll` (one `klogctl(4)`, atomic in the
kernel), `Write` of any part of the rest, `WriteFails`, `Idle`, and `Kill` at any
moment.  `sz` is -1 when the size query failed; `denied` holds the instances that may
ask for the size but not read and clear the log, which the kernel decides separately.
Both idle for ever; `Idle` is also a read that found nothing or failed this time.
`IsLossyLog` states that `Kmesg` implements `LossyLog` with `produced` and
`log` mapped to themselves.

### UefiVar, HardwareProofs, MCUefiVar

`uefivar.c`.  A process runs one of the commands that option parsing accepts.
`snap` is the result of `scandir()`, `i` walks it in alphabetical order, `var` is
the `uefi_var` on the stack with what it held before.  `RmEntry` is a turn of the
loop up to the opening of `del_var`, `Del`/`DelFails` the write: other commands act
in between.  `Candidate` is the prefix comparison, `Exact` the second one.

## 3. Runs

Deadlock is checked in every run: each module has a stuttering action for the
states in which its program really has ended (or sleeps, `Kmesg!Idle`).

| Run | Shows |
|---|---|
| `rdrand_rounds` | rows are measured in parallel, are summed from stored values, and the benchmark ends when every round is on time |
| `cpu_hog` | a handled SIGINT ends the program with every child collected, whatever forks failed and however many SIGINTs follow; `waitid()` in the handler, where SIGINT is blocked, only waits for killed children |
| `cpu_consume` | latency-test's pool leaves at most one orphan; hz-test, with its inverted test, clears a partly filled pool and obeys Ctrl-C; both end unless a sample is stuck, and a SIGINT ends them even then |
| `loopy` | leftovers match, others keep their devices, it returns unless wedged in one of two ways |
| `process_watcher` | the table is consistent, the differences telescope, the report covers what was gathered and is reached unless the table overflows |
| `process_watcher_totals` | fails: system time is summed from the user-time member |
| `benchmark` | scratch file, device, descriptor, buffer, amount moved |
| `kmesg` | conservation of units, the refinement of `LossyLog`, and that no unit stays in the kernel's log or in a buffer while an instance that may read the log runs |
| `port_tools` | alone each program does exactly its work; `cli` protects the checksum bytes on one processor; the keyboard driver costs `keycode` at most one code per byte; sleep types come before the enable bit; the LEDs flash for ever |
| `file_tools` | iotest blames a good device only for a hole that a truncation during its write test made, and finds a fake if the cache was cold; the mappers are exact for a file that holds still and numbers that are `int`s, and fiemap prints past its buffer in one known case |
| `uefivar` | removal is exact and complete under interference |
| `uefivar_ls` | fails: a listing prints the previous variable, or garbage, for an entry that cannot be opened |

### Bounds, and why they are enough

* `RdrandBench.cfg`: three processors give rounds with no, one and two helpers, and
  two round changes; a quota of two batches lets the leader stop before, between and
  after any helper step.  `MaxBatch` only saturates a counter nobody tests.
* `CpuHog.cfg`, `CpuConsume.cfg`: three slots have a first, a middle
  and a last one; two SIGINTs let the second hit the handler of the first.  Five
  samples, more than there are slots, of two ticks with halves of four values: a sample may fit into the low half,
  or straddle its end, and the high half never gets far enough.
* `Loopy.cfg`: minors 0..2 of which one exists, at most two bound; three steps of
  others suffice to take, hold and give back a device in every window.
* `ProcessWatcher.cfg`: three pids for two slots collide and overflow; two-bit
  counters wrap; three steps of processes; two samples after the base one.
* `Benchmark.cfg`: block sizes 1, 2, 4, sizes that are and are not multiples, one
  whose block count overflows the (4-bit) `int`, `-r` inside and outside its range.
* `Kmesg.cfg`: two instances, a ring of three units and a buffer of two, five units
  (so the ring overruns, text is longer than the buffer, and writes split), two kills.
  `Drains` speaks of each unit, not of an empty log, and so does not lean on the bound:
  it would hold, too, if the kernel never stopped emitting.
* `MCUefiVar.cfg`: two commands out of all kinds, from all eight sets of three
  variables: a name under two guids, and a longer name that it is a prefix of.

* `PortTools.cfg`: every program alone, and with each one that shares its device; two
  on one processor or on two.  Three keys (six codes), one call of a kernel driver
  (two bytes to the keyboard), four cells of CMOS RAM of which one is the clock, three
  tones; the palettes are painted in full.  With more the same windows repeat, and the
  proofs of section 4 hold for every number.
* `FileTools.cfg`: a device of three blocks of which a fake has two, so one block is
  lost or shared; one change by another process; old contents that do and do not look
  like block 0.  Files have up to three blocks (`LIMIT`): a new one, every one of two
  blocks or of a hole and a block, and a full one, so a truncation can leave one or two
  holes before the next write.  The largest `int` is 2 and an extent takes 2 of it: the
  third block's number and a count of three do not fit, the size of two extents is
  negative, that of three is too small for them.  One extent fits, so fiemap's exactness
  is seen with one here and proved for every number.  The mappers run beside iotest on
  the good device only (`Watched`): what they return does not depend on the device.

### Fairness

Weak fairness of a program's own steps: Linux schedules every runnable process and
thread again, and every blocking call has a guard of its own.  In addition: a
signalled child dies (`Die`), and in `Loopy` other processes sooner or later close
and unbind what they use, and in `PortTools` the keyboard controller takes the byte it
was given.  A read of the kernel log that an instance is allowed does not fail for ever
(`Kmesg`).  Kernel drivers use their device a bounded number of times (`CALLS`).
Signals, kills, failures, the end of the 100000 second sleep, and processes starting
and exiting are never fair: nothing relies on them.

## 4. Proofs

The proofs hold for every value of the constants that satisfies the named
assumptions (`CpusAssumption`, `KidsAssumption`, and so on, in the modules).

* `RdrandBenchProofs`: `TypeCorrect`, `StartsTogether`, `RoundsDoNotOverlap`,
  `RowsAreMeasured`, for any number of processors and with or without failing thread
  creation.  `StartTogether` is not inductive alone: that no worker runs during
  creation needs `start_test` to be false then, which needs all workers of the
  previous round to be idle when `test()` is entered, which is what the join loop
  establishes.  `RoundInv` has one conjunct per place of the main thread
  (`EnterInv`, `CreateInv`, `JoinInv`, `EndInv`).  `DoneInv` (a thread that is done
  has stored its info) is proved separately and gives `RowsAreMeasured` with it.
* `CpuHogProofs`: `TypeCorrect`, `WaitsOnlyForDoomed`, `LeavesNothingBehind`, for
  any number of slots and SIGINTs and with failing forks.
  `HogInv` says of each slot whether it is still to be filled, `Recorded` or
  `Collected`, depending on the parent's place and the counter; the safety properties
  are consequences of it.
* `CpuConsumeProofs`: `TypeCorrect`, `LeavesOneAtMost`, for any size of the pool, any
  number of samples and SIGINTs, failing `calloc` and `fork`, and both programs.
  `OneOrphanAtMost` speaks of a parent that is gone; the invariant follows it there.
  `LostInv`: a child that runs and is not in `cpu_pids[]` is the one being recorded, or
  was when the handler began, and there is never a second one.  `LoopInv`: the kill
  loop has ended every recorded child before slot `k` (`latency-test`), or has met no
  empty slot before `k` (`hz-test`: it would not have survived).  `HeapInv`: after
  `free()` the pool is dead (or full), which makes the accesses to the freed array
  harmless to the children.  `PlaceInv` says what array there is at each point.
* `HardwareProofs`, on `UefiVar`: `DeletesOnlyNamed`, an action property, `TypeCorrect` and
  `RemovalIsComplete`, for any number of commands, names and variables.  `MatchInv`
  keeps, between the comparison and the write, that the command's copy bears the name
  it was asked for; only `Del` shrinks the store.  `RmInv` is the argument of the scan:
  every variable of the name that the directory listed is ahead in the list, is the copy
  about to be written, or has been gone since.  That no entry is passed over
  (`AfterNext`) needs a least element of a set of places, `MinExists`.
* `HardwareProofs`, on `PortTools`: `PortTypesHold`, `HaltsInOrder`, `ResetsTheChecksum`,
  `SoleUserDoesItsJob`, `KeysGetThrough`: every safety property of the module, for any
  set of companies, any number of keys, cells, tones and kernel calls, and every fill.
  A program is a fixed text, so the argument has two halves.  Lemmas about each text
  (`KeycodeText`, `FlashText`, `BeepText`, ...) say which instruction stands where,
  by the place modulo the length of the loop body; `Sound` says what kind of
  instruction a program may contain, hence what its step can do to which device
  (`Frames`).  The invariants then describe the device at each place of the one program
  they are about.  `PollInv`: whoever is alone at the controller has seen it empty
  before each write (`reboot_keyb`, which does not poll, writes one byte).  `KeyInv`: `n` codes are with the kernel, and the next one is
  announced or on its way.  `DumpInv`, `VgaInv`, `FlashInv`: what is read or painted so far, and
  that the index stands on the next cell.  `ResetInv` (`cmos-reset` on one
  processor): in the middle of its work it holds interrupts off, so nobody moves the
  index, no signal ends it, and bytes 46 and 47 are inverted one after the other.
  `HaltInv`: no register has `slp_en` before every control register has the type, and
  `val` never holds the button's status bit when it is written.  `SurviveInv`:
  the codes that got through and the bytes the driver has sent are together at least
  the codes pushed, less the one on its way; a byte that overwrites a code counts for
  it, and a byte taken for a code ends the controller's expectation.  The
  driver's own polling is not used: the bound holds for a driver that never polls.
  A fault of the model was found by these proofs and repaired: the `CASE`
  expressions in `ToPit`, `ToDac` and `PortRead` had overlapping guards, of which TLA+
  leaves open which is taken (TLC takes the first); they are disjunctions of exclusive
  alternatives now.
* `DiskProofs`, on `Benchmark`: `TypeCorrect`, `LeavesNoScratch`, `MovesTheSize`, for any sizes,
  block counts, options and units.  That `rates[j]` is in range needs `OptInv`: what
  `main()` checked of `-r` still holds within a row.  `RepeatInv` says where a
  descriptor is open and that a repeat has its file; `ScratchInv` adds that a row after
  the first starts without the scratch file, and a phase cannot end before a row when
  the maximum is at least one megabyte.  `TailInv` is the loop invariant of the timed
  loop: what is moved and the blocks still to go make up the size but for a tail.
* `DiskProofs`, on `FileTools`: `FileTypeCorrect`, `NeverAFalseAlarm`, `FindsTheFault`,
  `MapsExactly`, for any advertised and real size, any limit of the file's length, any
  `int` and size of an extent, any number of changes by others.  `MapInv`: the file's
  blocks that are not holes are on different blocks of the device, and a dirty page has
  one.  `CutInv`: unless the file was cut below the next write, none of the blocks
  written so far is a hole.  `GoodInv`: on a good device a clean page equals its cell, a
  page or cell of a block below `io.count` holds the block's number, and who complained
  read a hole.  `FakeInv`: nothing is stored beyond the real size, and with a cold cache
  every block read so far sits in its own cell; a read that ends without complaint would
  map all blocks into fewer cells.  `FibInv` and `FieInv` hold while `version` is what
  the mapper saw: what fibmap prints is a prefix of the map cut down to `int`s
  (`WrapOf`), fiemap has room for the extents it counted and all of them are listed
  (`ExtentStarts`, `LastExtent`, `PrefixOf`), and if their size is an `int` the buffer
  takes as many as there is room for (`ProductGrows`).
* `LoopyProofs`: `TypeCorrect`, `LeftoversAccounted` and the action property
  `OthersKeep`, for any number of minors and any number of steps of others.  The
  difficulty is that `devnr[]` may hold a device that was taken away in between, even
  twice.  `OursInv` says that a device the second loop will still come to is bound to
  loopy's file or was taken away, and that only such a one is in the array twice;
  `FilesInv` relates files and bound devices inside an iteration as well, `DriverInv`
  ties the driver's deferred unbinding to open descriptors.
* `ProcessWatcherProofs`: `TypeCorrect`, `LookupFinds`, `Telescopes`, for any number of
  pids, slots and samples and any counter width.  `PathInv`: each pid of the table is
  reached from its hash by probing other pids only; entries are never removed, so a
  path never breaks.  It gives the slot of a pid and that there is one only.
  `TeleInv`: the sum of a slot's samples is, modulo the width, the last reading minus
  the base one; adding a difference needs the sample to be still zero (`FreshInv`), which
  is why `Telescopes` is stated for `Junk = {0}`, memory that `malloc()` got fresh from
  the kernel.  With other contents the property is false: the code relies on it, for a
  process that starts late has samples that are never written.  The sum is the
  community modules' fold; `SumExists`, `SumIs` and `SumChange` derive what is needed of
  it from a function of partial sums, chosen by a least counterexample.
* `KmesgProofs`: `TypeCorrect`, `NothingShared`, `Implements`, for any number of
  instances, kills and units, any ring and buffer.  `CoverInv` and `ApartInv` say that
  every unit is in the ring, one buffer, the file or lost, and in one only; `RingInv`
  that the ring holds the newest units in order; `LogInv` that what an instance has
  written is in order and older than what it still holds.  A write of a part of the
  buffer moves a prefix of an ascending sequence behind all its predecessors.  The
  refinement is proved step by step: `Emit` produces, `Write` appends, all other
  steps stutter.  `AbstractInOrder` shows that `LossyLog` is the right abstraction: each
  log it allows has nothing twice and every reader's units in order (`InOrder`), which
  `FileInOrder` carries over to the file of `kmesg`.  For it `LossyLog!Write` now says that the log
  stays a sequence of entries, which it had left open.  `Conserved` also counts the file (`Cardinality`), by a bijection
  between places and units.

Finite sets and least elements.  Induction over numbers or sets takes an operator as a
parameter, which the installed provers cannot instantiate.  Where it is needed,
`MinExists` and `FiniteMin` stand in: a nonempty set of numbers (of parts of a finite
set) has a least element, from the library's theorem that strict inclusion is
well-founded on finite sets.  A claim for all numbers is then proved by looking at the
least one for which it fails.

Only model-checked: every liveness property (`EndsIfOnTime`, `InterruptEnds`, `Ends`,
`CtrlCClears`, `ReturnsUnlessWedged`, `ReportsUnlessFull`, `Drains`, `LedsFlash`), because
the provers know neither fairness nor `ENABLED`.  Every invariant and every action property
that a run checks is also proved.
`RoundsDoNotOverlap` and `InOrder` are proved and not checked again
by a run.

## 5. Divergences seen while modelling

Two have a run (`process_watcher_totals`, `uefivar_ls`).
Others, which no run asserts because no text of the repository promises the
contrary or because they are plain from the line:

* `rdrand.c:89`: a late `end_test = false` hangs the benchmark; `rdrand.c:167`: the
  result of `pthread_create` is ignored.
* `cpu-hog.c:106-110`: a failed fork is recorded as pid -1 and later killed.
* `latency-test.c:168`: half a time stamp counter on x86-64; `test_cpu_usage()` may
  spin for ever, and the hogs with it, until somebody presses Ctrl-C.
* `latency-test.c:136-141`: after a failed fork the pool is freed twice.
* `hz-test.c:63`: inverted test; a full pool survives the normal end.
* `loopy.c:87`: descriptor left open; `loopy.c:118`: retry without limit.
* `benchmark.c:391`: `-C` is in the option string and has no case, so it prints the
  usage and exits; `IO-flash-benchmark/README:10` documents it.  `Start` models it.
* `benchmark.c:198, 217`: with `-s 3 -m 3` the 2 MB row moves 2 MB and computes the
  rate for 3; `benchmark.c:396`: `-r 0` is accepted although the usage says "min 1";
  `benchmark.c:100`: a failed write to `drop_caches` is not reported.
* `beep.S:84-86` and `vga-palette.S:118-128` have no `ret`.
* `led_flash.S:60` jumps back to the first command when the controller is busy, so its
  off phase is skipped; `LedsFlash` promises only its on phase.
* `reboot.c:56` writes 0xfe without polling the controller (the method is compiled out).
* `halt.c:96` writes 32 bits to the PM1 event block and so clears the event enables.
* `vga.c:45` writes 0x80, 0x40, 0x20 to a DAC of six bits: the colour is (0, 0, 32).
* `cmos-reset.c:62`: `cli` after `iopl(3)` is modelled as what it did in the kernels of
  the program's time; later ones do not let user space switch interrupts off.
* `cmos-dump.c:179` labels the 24-hour bit by another bit, `:209-210` indexes a short
  table with four bits, `:231` computes the extended memory from byte 25 instead of 23.
* `fiemap.c:79`: if the file had no extents at the first call and has some at the second,
  `dump_fiemap()` reads past the buffer.
* `fiemap.c:68`: the size of the extents is an `int`; with some 38 million extents it is
  negative, with twice as many positive again and too small for what the kernel may write.
* `fibmap.c:69-73`: the block number is an `int`, and what is printed after a failed
  ioctl looks like a block number.
* `iotest.c:76-83`: if another process truncates the file during the write test, the next
  write leaves a hole, and the read test reports its zeros as wrong data.
* `iotest.c:58-60` aligns its buffer for `O_DIRECT` and opens the file without it, so the
  page cache may answer the read test.
* `kmesg.c:52, 59`: with a failed size query, or without the privilege to read and clear,
  the program idles for ever and does not say so.
* `uefivar.8` documents `-d`, the program has `-r`; `-s` without `-g` makes a new
  variable each time, because the guid is random.

## 6. Plan

Done: the modules of section 2, in this order of importance (processes and signals
first, then shared kernel services).

What is left to model, least connected last:

1. `ChildPool`: the abstract pool (spawn, then every member is collected once) that
   `CpuHog` and, up to its one orphan, `CpuConsume` implement.
2. `EatPages`: the jump targets and the mapping they assume (`eatpages.c:107`), the
   `fork` that fails unnoticed (`eatpages.c:87`).
3. `EscapeStripper` (`parse-output.c`) as a pure automaton compared with a reference
   definition over all short inputs; a third number after a semicolon
   (`parse-output.c:39`) stays in its output.

Next proofs, by value: that `CpuHog` implements `ChildPool`, once that is written, step by
step from `HogInv`; for `LedsFlash`, the safety half (from any place of `led` a round of its
loop sets mask 5 and then 0 unless the driver gets between).
