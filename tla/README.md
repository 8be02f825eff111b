# A formal model of minergate

minergate is the daemon of a bitcoin miner. It takes mining jobs from a client
over a UNIX socket, feeds them to up to 30 ASICs through an FPGA ("squid"),
returns the nonces the ASICs find, and keeps voltage, frequency, power and
temperature of every ASIC within bounds. This directory models the parts that
hold its own logic: the way of a job from the client to its completion, the
scaling of voltages and frequencies, the PLLs and engines and the BISTs that
find broken ones, the reading of registers with the tests and resets that
failed reads lead to, the power limits and the file they are kept in, and the
end of the process with the i2c bus it happens on. Paths below are relative to
`src/miner_gate/`.

## 1. The system

### Threads, mutexes, state

| thread | code | what it does |
| --- | --- | --- |
| main | miner_gate.c:2038-2049 | start-up, then accepts connections |
| RT thread | asic_lib.c:2751-2807 | every 2 ms, under `asic_mutex`: push jobs, poll wins; every second scaling |
| connection thread, one per client | miner_gate.c:373-489 | reads a packet, queues its jobs, answers |
| a signal | miner_gate.c:135-223 | interrupts the main thread wherever it is, and calls `exit_nicely` |

| mutex | protects | but |
| --- | --- | --- |
| `network_hw_mutex` | the request queue and the response packet of an adapter | |
| `asic_mutex` | the RT tick, the first half of "drop old work" | `reset_sw_rt_queue` at a new connection (miner_gate.c:390) and `stop_all_work` in the drop path (447) run without it |
| `i2c_mutex` | a transaction on the i2c bus: select, access, close | `exit_nicely` may come while it is held, resets the switches without it and unlocks it whoever holds it; board sensors do without |
| `i2cm` | one transfer on the bus (i2c.c) | stays locked if the transfer ends in `exit_nicely` |

### Components

| component | state | operations | what makes it correct | module |
| --- | --- | --- | --- | --- |
| real-time queue (real_time_queue.c) | ring of 4 slots, write and done index, size | add, one_done, reset | a FIFO window of the jobs in work; a win's job id leads to its slot | `RtQueue`, `RtQueueSpec`, `JobWindow`, `RtQueueLemmas`, `RtQueueProofs` |
| job pipeline (miner_gate.c, asic_lib.c) | adapters, request and response queues, MQ, ASIC fifo, latched wins | accept, packet, drop, pull, push, poll, complete | each job in one place; each win credited to its job; completion last | `JobPipeline`, `JobPipelineProofs` |
| scaling (asic_lib.c, pll.c, dc2dc.c) | per ASIC voltage, frequency, limits, cooling flag; per PSU power and cooling count; BIST countdown | start-up search, upvolt, BIST loop, power and temperature loops | limits respected, cooling ends | `Scaling`, `ScalingProofs` |
| PLLs and engines (pll.c, asic_lib.c:897) | per ASIC known good engines, frequency, wanted frequency; the count of disabled ASICs | program, wait, disable, BIST, drop engines | what mines is what the software counts with; waits end | `Plls`, `PllsProofs` |
| restart (miner_gate.c:1594) | all of the above | restart_asics_full | leaves a state the rest can go on with | in `JobPipeline` (jobs), `Scaling` (voltages), `FpgaReads` (its reads), `Plls` (engines, frequencies) and `ExitNicely` (the bus) |
| power supplies (ac2dc.c) | type, input voltage, last readings | detect, measure, errors, overload | assumed power is the largest of three readings; an overload lowers the limit of the supply that had it | in `Scaling` (readings), `WorkMode` (types, overloads), `ExitNicely` (bus) |
| DC2DC converters (dc2dc.c) | on, present, voltage | init, enable, disable, set voltage, statistics | off when the process has ended; an access reaches the converter it is for | in `ExitNicely`, voltages in `Scaling` |
| FPGA register access (squid.c) | read queue, serial fifo, error counters | push read, wait, test of the loops | a reply reaches the read it answers, or the wait for it says so; what failed reads set off comes to an end | `FpgaReads`, `FpgaReadsProofs` |
| temperature sensors (asic_lib.c:215) | threshold per ASIC | one step per poll | follows the real temperature | not yet |
| work mode (miner_gate.c:1095, 1310) | the user's file, the alternative one, limits of the PSUs | read, cap, lower, rewrite | the limits in force are what the supplies bear; the next start can read the file | `WorkMode`, `WorkModeProofs` |
| exit (miner_gate.c:148) | flags, both i2c mutexes | exit_nicely, signals | converters off, process ended | `ExitNicely`, `ExitNicelyProofs` |
| loops, addresses | enabled loops, present ASICs | discovery, giving addresses | an ASIC that was in use is found again, or the process ends | in `FpgaReads` and `Plls`; not as the start-up calls them |
| i2c bus, board sensors | switches | transfers | switches closed after use | in `ExitNicely` |
| fans, LEDs, nvm, watchdog, events | device I/O | | | not modelled |
| sha256.c | none | hash of a win | its verdict is used, not its bits | not modelled |
| queue.h; i2ctools, hammer_reg, miner_gate_tester | vendored; separate programs | | | not modelled |

How they interact: a connection thread puts jobs on its adapter
(`push_work_req`); the RT thread pulls them (`pull_work_req`), writes each into
the ring and the MQ; adding to a full ring completes the oldest job
(`push_work_rsp`); a win is looked up in the ring by its 8-bit job id (slot =
id / 60), hashed, and answered through the same response packet. Errors found
anywhere, in the replies to register reads first of all, call
`restart_asics_full`, which clears MQ, ASICs and wins, keeps the
ring, lowers every voltage and runs BISTs; so does every BIST.

### What is hard here

Interleavings of the RT thread with a connection that comes, goes or drops
work; job ids that are reused; completions that depend on younger jobs; a
restart in the middle of a BIST; counters kept per board and read per PSU;
steps of 10 against steps of 5; replies that come late, wrong or never, and
error handling that uses the very queue the error was found in; a restart inside
the setting of frequencies that a restart sets again; a file that is lowered
while its user edits it or the power fails; an exit from any place of a shared
bus. `PROJECT.json` lists these hazards at their
lines, with the properties that cover them or the reason none does.

## 2. Modules

### RtQueue, RtQueueSpec, JobWindow, RtQueueLemmas, RtQueueProofs

`RtQueue` holds the functions of real_time_queue.c on a record
`[slot, sw_write, hw_done, size]` (`rt_queue`, `rt_queue_sw_write`,
`rt_queue_hw_done`, `rt_queue_size`), and the arithmetic on job ids. It has no variables, so that
`JobPipeline` can run the steps of one call apart. `RtQueueSpec` is the queue
used by one caller at a time. `JobWindow` is what the queue promises: a
sequence of at most `Size` jobs, where adding to a full one removes the oldest.
`RtQueueSpec` implements it under `window <- JobsOf(rt)`, both checked and
proved. `RtQueueLemmas` has the facts about the ring's functions that the proofs
of the queue and those of the pipeline share.

### JobPipeline, MCJobPipeline, JobPipelineProofs

State: the ring, `adapters[0]`, the request and response queues of every
adapter, what each client was sent, `asic_mutex`, the program counter and
locals of every thread, MQ, ASICs, wins.

| action | code |
| --- | --- |
| `Accept`, `ClearOldJob`, `ClearDone` | a new connection registers its adapter and empties the ring one job at a time, without `asic_mutex` |
| `Receive`, `Wake`, `PushWorkReq`, `ReqsDone`, `DropLock`, `DropRing*`, `DropPull`, `DropPush`, `DropRequestsDone`, `DropStop`, `Send` and the disconnection | connection_handler_thread, miner_gate.c:373-489 |
| `Rt*` | one tick: BIST or restart, `try_push_job_to_mq` with `add_to_sw_rt_queue` split at every point another thread can see, win poll |
| `Win*`, `Poll*` | get_print_win_restart_if_error and the polling loops of the RT thread and of the drop path; `PollStuck` is the restart when the ASICs stay busy for all polls (asic_lib.c:88) |
| `HwLoad`, `HwFinish`, `HwWin` | the MQ feeds the ASICs, a job ends, an engine latches a win |

A failed `passert` sets `aborted` and stops the process.

Abstractions, beside leaving out statistics and logging:

* The MQ is consumed a job at a time; a job is `WORDS_PER_JOB` words (13
  register writes of two words).
* The ASICs hold a job and the next one; that END_CURRENT_JOB is written twice
  wherever they are emptied is the evidence for this depth.
* Each critical section of `network_hw_mutex` is one step, and so is `Send`.
  `DropRingJob` is `one_done` together with its `push_work_rsp`, under `asic_mutex`.
* Polls come at any time in a tick rather than in each fourth tick.
* `one_done_sw_rt_queue` inside the unlocked loop of a new connection is atomic;
  the race on the three counters at the level of instructions is left for
  `RtQueueRace`.
* An uninitialised `old_w` is any job or none, with any nonce (`RtEvict`). The
  jobs it has named are noted in the ghost `strays`.
* A client is honest about limits: it sends packets of 1 to `MaxPacket` jobs.
  `Lingers = FALSE` is an ASIC conductor that is idle as soon as its job is
  ended; TRUE lets it be busy for a while, as
  `stop_all_work_rt_restart_if_error` expects.
* Not modelled: `asics_shut_down_powersave`, the counter `consecutive_jobs`
  (BISTs may come at any tick), wins with nonce 0, the memory of an adapter after
  its connection is gone. An engine that is wrong often is disabled in `Plls`
  (`TickBadEngine`).

### Scaling, ScalingProofs

One thread does all of this, so nothing interleaves; the difficulty is what the
hardware answers between the steps. `vm` is a record with the fields of `vm`
that matter, `at` the place the thread is at, `resume` where it goes on after a
restart.

| action | code |
| --- | --- |
| `MinimalBist`, `RaiseStep` | set_initial_voltage_freq (asic_lib.c:1283) |
| `OvercurrentWarning`, `forget_all_limits`, `ErrorRestart` | what the RT thread does besides the scaling logic |
| `OnceSecond`, `Upvolt`, `NextPsu`, `Upscaled` | first half of once_second_scaling_logic (1454) |
| `BistLoop` | do_bist_loop_push_job (866) with do_bist_ok, on_failed_bist |
| `LazyAsics`, `PowerTooHigh`, `PowerDone`, `Temperature` | second half (1557-1648) |
| `RestartTest`, `RestartBist` | restart_asics_full (miner_gate.c:1594) |
| `EndTick` | did_asic_reset is cleared for the next tick |

The environment chooses which ASICs fail a BIST, which are left with fewer than
100 engines, which are hot, which converters are too warm, what a PSU reports
or whether its read fails, and when errors occur. That allows at least what
hardware does. Further:

* `BIST_MODE_MINIMAL`, stuck PLLs (in `Plls`) and errors inside a restart
  (which abort by `passert(0)`, miner_gate.c:1614) are left out; so is a fault of
  a PSU that ends the process in test_fix_ac2dc_limits (in `WorkMode`).
* When a BIST is interrupted by a restart, the ASICs not yet looked at are
  covered by one more BIST.
* The upvolt loop ends after 100 turns, "unlimited" as its comment says; here it
  has no bound.
* `vm.asic[-1]` (asic_lib.c:1602) is either skipped or refused by the passert of
  dc2dc_set_vtrim: the memory before `asic[0]` is an error counter and the
  firmware version.
* `restart_asics_full` clears `bist_failed_called` and then copies the ASICs it
  saved before back over it, so the flag is kept.
* `hot`, a ghost field of an ASIC, is set by `Temperature` for the rest of the
  second. Locals are set to their initial values when the tick ends.

### FpgaReads, FpgaReadsProofs

The RT thread again, alone; what is hard is that the functions call one another
with the queue of reads half worked off. `calls` is the stack of the calls in
progress, each a record with its place and its locals, and the last one runs.

| action | code |
| --- | --- |
| `PushWait`, `PushGarbage`, `PushRead` | push_asic_read with purge_fpga_queue (squid.c:488-557) |
| `WaitFlush` ... `WaitError` | squid_wait_asic_reads_restart_if_error with _read_reg_actual (squid.c:600-754) |
| `ReadDone`, `ReadAtOnce` | read_reg_asic (769) |
| `TestStart` ... `TestDisable` | test_all_loops_and_dc2dc (79), with disable_asic_forever (pll.c:609) |
| `TestSerial*` | test_serial (miner_gate.c:96) |
| `GotAddr`, `Lost*`, `Revive*` | test_lost_address (1570), revive_asics_if_one_got_reset (asic_lib.c:478) |
| `Restart*` | restart_asics_full (1594) with discover_good_loops_restart_12v (612) and allocate_addresses_to_devices (asic_lib.c:491) |
| `Begin`, `TaskWait`, `TaskDone` | a task of the RT thread that reads registers |
| `Arrive`, the choices of `Send` | the FPGA: replies lost, corrupted, late, in order |

The queue, its two pointers, the stack of packets not sent, `spi_timeout_count`,
`corruptions_count`, `bad_loop_count`, `in_asic_reset`, `did_asic_reset` and
`assert_serial_failures` are the code's. `answered` is a ghost: the task's reads
that got the reply to them, in this task.

* `MaxFaults` bounds what goes wrong in a behaviour: replies lost, corrupted or
  late, noise, trouble with a converter or a supply, an ASIC that has lost its
  address, a conductor that is busy.
* There is one ASIC per loop. `DeadLoops` are enabled loops whose ASIC is not in
  use; the run has none, see section 3.
* `ReadAtOnce` is a read of one register that nothing disturbs, in one step.
* A task's packets go out when it waits. In the code a full stack goes out
  earlier, but nothing looks at the replies before the wait.
* The registers read while a reset sets up clocks, engines and voltages are left
  out; the read of the conductor at its end (1750) fails in the same ways.
* What a register holds matters only as zero or not, and is free where hardware
  may answer either. Writes never fail visibly and are left out.
* `read_ac2dc_errors` resets the counts of all loops; in the code, those of one
  supply's board.

### Plls, PllsProofs

The RT thread once more, between two BISTs of the scaling. `todo` is the sequence
of the calls it has before it, and a call is replaced by the calls it makes; so
`restart_asics_full`, called in the middle of a wait, comes before what is left
of the wait, as on the stack. Software (`asic[a].good`, `freq_hw`, `wanted`,
`present`, `engines_down`) and hardware (`enable`, `pll`, `locked`) are apart:
the properties relate the two.

| action | code |
| --- | --- |
| `SetNothing`, `SetWanted`, `WantedOutOfRange`, `PollPlls`, `WaitWanted`, `EnableWanted` | set_plls_to_wanted with set_pll's assertions |
| `SetPll`, `RestartPllAbsent` | set_pll, and its loop in a restart |
| `WaitReady`, `WaitStuck`, `WaitLostAddress`, `WaitAny*` | wait_dll_ready_restart_if_error, for one ASIC and for all |
| `EnableEngines`, `Disable*` | enable_engines_asic, disable_asic_forever_rt_restart_if_error |
| `SquidWait`, `BistStart`, `Judge*`, `Failed*`, `DropEngines`, `BistAgain` | do_bist_ok, on_failed_bist, do_bist_loop_push_job |
| `Good*` | enable_good_engines_all_asics_ok_restart_if_error |
| `Restart`, `Restarted`, `NotRestarted` | restart_asics_full, the part that is about ASICs |
| `None` | an ASIC that a loop over all of them (`Those`) has nothing to do for |
| `Tick*` | what a tick of the RT thread may begin: BIST, cooling, heat, upscaling, a lazy ASIC, an engine with wrong wins |
| `LoseLock` | hardware: a PLL that was ready is not |

* `freq_bist_limit`, voltages and the choice of what to scale are `Scaling`'s;
  here any frequency not below the present one may be asked for. The passert on
  freq_bist_limit (asic_lib.c:909) is there as well.
* The registers read in on_failed_bist hold the engines of the BIST that was
  compared, unless a restart came in between (then any).
* All loops are enabled and keep working; what a failing one does is in
  `FpgaReads`. An ASIC may still not be found again, or found again after it was
  disabled. `enabled_engines_mask` has all engines.
* The start-up is not modelled: `Init` is any state in which mining can begin.
* The frequencies of an ASIC that is disabled, or lost in a restart, are not kept:
  nothing reads them again.
* A process that ended forgets everything (`Stop`), and a restart the result of
  the BIST it interrupts, which do_bist_loop_push_job does not repeat then.

### WorkMode, MCWorkMode, WorkModeProofs

State: the file the user edits and whether it is on the disk, the alternative
file in /tmp, the supplies, what ac2dc_init found, the settings in force, and the
stream of a rewrite in progress.

| action | code |
| --- | --- |
| `ac2dc_init` | detection of types and input voltages (ac2dc.c:162) |
| `ReadWorkMode` | read_work_mode (miner_gate.c:1310) up to the fix, with its assertions |
| `FixLimits`, `Updated` | update_work_mode (miner_gate.c:1095) into /tmp |
| `test_fix_ac2dc_limits`, `Lower` | an overload lowers the limit in the user's own file, if that is high, and the process ends (ac2dc.c:448) |
| `Truncate`, `Close` | update_work_mode on that file: fopen empties it; fclose writes it, after syncfs, and the process ends |
| `MeasurePower` | ac2dc_check_connected: a supply that was not found appears, and the process ends |
| `UserEdits`, `UserSetsFlag`, `Killed`, `Flush`, `PowerFails` | the world |

A file's numbers are the record it is parsed to; files that do not parse or fail
an assertion are one, `Empty`. Fan level and the fields that nothing here
depends on are left out. The process may be killed, and the power may fail, at any
place, between `Truncate` and `Close` too; the rewrite of /tmp is one step, but a kill
in it may leave that file empty. An exit() that another thread calls in a rewrite
writes what the stream holds or finds nothing there yet: it is `Close` or `Killed`.
`edited`, `mixed` and `cut` are ghosts: a user's edit since the file was read, a fix
computed from one version and applied to another, and a file lost in a rewrite.

### ExitNicely, ExitNicelyProofs

A thread is the sequence of the operations it has before it (`todo`): locks,
unlocks, transfers, calls. The functions of dc2dc.c, ac2dc.c, board.c and
exit_nicely are operators that return such sequences.

| action | code |
| --- | --- |
| `LockI2cMutex`, `UnlockI2cMutex` | i2c_mutex; what a transaction does is put before the thread when it has the mutex |
| `I2cTransfer` | a transfer under `i2cm` (i2c.c), which succeeds, is not acknowledged, or ends in exit_nicely |
| `Present`, `Enable`, `Choose`, `MayExit`, `Restart`, `Restarted`, `Start` | the conditions between transfers |
| `Enter`, `StopAllWork`, `Stopped`, `Exiting`, `UnlockAll`, `Sleep`, `Exit` | exit_nicely, from one access to shared state to the next |
| `RtTask`, `RtOut`, `ExitCalled`, `Signal`, `SecondSignal` | what starts all this |

* Writes to the switches in a row are one step, of which one may be lost; so is
  reading a supply or a sensor, from the selection to the closing of the
  switches.
* `main` runs dc2dc_init first, in_asic_reset is 2 then, and starts the RT
  thread. One supply stands for both, and in a restart one converter for all.
* An error branch for an unknown type of FET and `board_not_present` are left
  out.
* Ways to end: `full` (exit_nicely got to exit(0) at its end), `cut` (a second
  exit_nicely found `vm.exiting`), `recursive`, `killed`. `called`, the mutexes
  held at the call, and `disturbed` are ghosts.

## 3. Runs

### Passing runs

| run | question | bounds |
| --- | --- | --- |
| `sw_rt_queue` | does the ring implement the window, and do ids lead to slots? | the code's 4 slots and 60 increments, 3 jobs |
| `one_client` | one client, no drop: jobs stay in one place, wins and completions are right, the hardware's jobs keep their slots, younger jobs complete an older one; engines claim wrong nonces, and BISTs and restarts interrupt | 2 slots, 3 jobs, packets of 2, MQ and ASICs as deep as the ring |
| `drop_busy` | drops, with ASICs that go idle at once or stay busy: no job is lost or completed twice, packets are answered | 2 slots, 2 jobs |
| `reconnect` | a second connection takes over, and `old_w` may be uninitialised: each client's completions and nonces are its own, jobs that such an `old_w` named apart | 2 connections, 3 jobs, none pushed between a BIST and the end of its tick |
| `scaling_one` | types, BIST limit, upper limits, cooling count | 1 ASIC, 4 voltages allowed of 5, 350-380 MHz |
| `scaling_cooling` | power limit of the supply, cooling ends | 2 ASICs of one board and supply, 3 voltages allowed of 4, 350-360 MHz |
| `fpga_reads` | failed reads stay noticed, the queue stays sound, a wait that reports nothing has its answers, every task ends | 2 loops, tasks of 3 reads, 4 slots of which 2 are kept free, 3 faults |
| `work_mode` | the limits in force are ones the supplies bear, and nothing but a kill in a rewrite, a power failure and an edit during a run makes the file unreadable | 2 pairs of supplies, 3 files, 4 input voltages and a failed reading |
| `exit_nicely` | converters off, process ended, no wait for oneself but in an exit called with a mutex held, accesses reach their converter | 2 converters, at the same place of 2 boards, 1 fault |
| `plls` | what mines is what is counted with, every call ends | 2 ASICs of 2 engines, 350-360 MHz |

Why the bounds are enough. A ring of 2 slots wraps, fills and evicts as one
of 4 does, provided MQ and ASICs together hold as many jobs as it has
slots: `BIST_JOBS`, `WORDS_PER_JOB`, `MQ_TOO_FULL` and `ASIC_DEPTH` are chosen
for that (one job fewer in the ring violates `HardwareJobsAreLive`, which is the
mutant of that property). For every other ring and hardware the theorem
`HardwareKeepsSlots` says how they must fit. Three jobs in two slots reuse a slot. One client
with a request limit of 2 overflows. One latched win at a time is enough for a
win to be stale by one reuse of its slot. For `Scaling`, frequencies matter in
steps of 5, 10 and 20 above the minimum and below the maximum, which 350 to 380
contain; voltages in steps of 1 and 2; a PSU at 10 W has room for some
steps (limit 16 W) until what is booked for them has filled it, one at 30 W is
over its limit. BIST periods are 1 to 3 seconds
instead of 20 and 180: their length only decides how many quiet seconds come in
between. In `FpgaReads` three reads make push_asic_read wait in the middle of a
batch; two time-outs, two corrupted replies, two pieces of garbage or two
failures of a loop reach every limit, and three faults are enough to have one
while another is dealt with and a third in the reset that follows. A second loop
is what still works when the first does not. In `Plls` two ASICs are one that
has trouble and one that has not; 350, 355 and 360 MHz are the lowest frequency,
the one a step of 10 leads below it, and one more; one stuck reading and one more
reach both limits of the count of readings, and the count of disabled ASICs
starts at any value. In `WorkMode` the files have limits at both ends, just above
and just at a range's limit and at an overload's threshold, the start
voltages are on both sides of 660, the input voltages are one in each of the two
lowest ranges, one in the highest and one above it. In `ExitNicely` converters 8
and 23 share their offset on two boards, so that a lost selection can reach the
wrong one; the number of entries at which exit_nicely gives up is the code's
own, 5.

`FreqWithinBistLimit` is checked for one ASIC. With two it fails in one corner:
a runaway (limit at ASIC_FREQ_MAX) restarts all ASICs in the middle of the
upvolt loop while a frequency is wanted of another one that runs at the lowest. If that
one fails the restart's BIST it gets FREQ_AFTER_DISABLE as limit and keeps what
was wanted before, and that is set. `FreqsKept` (section 4) proves that there is
no other corner.

The runs that check for deadlock are those in which the process cannot end. In
`reconnect`, in all of `Scaling`, in `ExitNicely` and in `Plls` it can (failed
passert, exit_nicely), and so `CHECK_DEADLOCK FALSE` is set. (In `ExitNicely` a
thread may also block on itself for ever; `SelfBlockOnlyInExit` and `ExitEnds`
say when.) In `FpgaReads` a process that ended stutters
(`Gone`), so that deadlock is checked there.

### Violations: what the code does not keep

| run | property | what happens |
| --- | --- | --- |
| `drop_evict` | `EvictedJobHasNoNonce` | the drop path polls wins without `asic_mutex`; the RT thread evicts a slot between its nonce being set and reported; passert |
| `scaling_bist_limit` | `BistLimitAboveMin` | a restart inside a BIST makes the limit of an ASIC that failed in it stale; passert |

These take several steps of several actors. Others are seen by reading the code
once one knows where to look; the models behave like the code there, the
properties above are stated so as not to depend on it, and no run is kept:

* At the end of a connection a comment announces "Clear the real_time_queue from
  the old packets" (miner_gate.c:486). Nothing there does; the next connection
  empties the ring (390), without `asic_mutex`, so that a job the RT thread had
  pulled for the old connection can land in the ring after that, and its wins
  and completion go to the new client.
* A new connection that empties the ring between the RT thread's test for full
  and its eviction leaves `old_w` uninitialised (miner_gate.c:390,
  real_time_queue.c:55-61), and the job it happens to name is completed, to whoever
  is connected then. If that is a job of the new client, it completes twice, or has a
  win after its completion: `reconnect` goes on with any value of `old_w`, and without
  the exception for `strays` TLC finds `RepliesAreRight` violated.
* The drop bit also drops the jobs of its own packet (miner_gate.c:419, 441), and
  misses a job that the RT thread pulls between its two loops (438-441).
* Voltages fall under VTRIM_MIN by restarts and by steps of two (asic_lib.c:1255,
  186); a failure at 355 MHz asks for 345 (912); the start-up raises past
  ASIC_FREQ_MAX (1348). Each ends in a passert, in the model `vm.abort`.
* Head-room for a part of a frequency grants all of it (asic_lib.c:2194).
* On SP2x the cooling count of board 0 is read as that of PSU 0 (asic_lib.c:1513).
* A hot ASIC at the lowest voltage is not slowed (asic_lib.c:182).
* After a time-out, test_all_loops resets the queue that the interrupted wait is
  working on (squid.c:87), and its reads use the same slots. The rest of the
  batch is never written, and if a reset follows, the wait returns 1 all the same
  (622, 753); only `did_asic_reset` tells. The result of the interrupted read may
  go to the local of a read_reg_asic that has returned (722).
* push_asic_read reads what is queued when eight slots are left, and throws away
  what that wait returns (squid.c:525); a BIST, which queues more reads than that
  (asic_lib.c:1097), does not learn of a failure there from its last wait, whose
  result it throws away as well (asic_lib.c:1115). Only `did_asic_reset` is looked at.
  `OkMeansRead` therefore speaks of each wait by itself.
* A test_serial that fails leaves `assert_serial_failures` cleared
  (miner_gate.c:97). If that happens in a reset and to the last of the enabled
  loops, and none of its ASICs is in use, no ASIC is missing at the end, the
  process goes on, and no time-out or corrupted reply is noticed any more:
  with `DeadLoops = {2}`, TLC finds `FailuresAreReported` violated.
* With larger packets and ASICs that stay busy, drops also break
  `CompletionIsLast` and `WinsCreditTheirJob`. The unlocked poll beside the RT
  thread is the cause again, so `drop_busy` has packets of up to two jobs. That
  each job stays in one place and is completed once does not depend on that:
  section 4 has it for packets and queues of any size.
* `set_plls_to_wanted` leaves the mark 0xcafebabe in `wanted_pll_freq` while it
  waits. If an ASIC in trouble restarts all of them meanwhile, the restart's BIST
  takes the mark for a frequency, and the passert of set_pll fails (pll.c:496,
  504). `OutOfRangeIsKnown` says that this and the step from 355 to 345 MHz are
  the only ways it fails.
* A PLL that locks in each restart and loses its lock after it keeps `set_pll`
  restarting all ASICs for ever (pll.c:599), as `restart_asics_full` sets the
  count of disabled ASICs back to 0 (miner_gate.c:1597). `CallsEnd` excludes it
  by a premise.
* A stuck PLL met by the wait for all of them disables `vm.asic[ANY_ASIC]`, which
  is behind the array (asic_lib.c:1270).
* `disable_asic_forever` of an ASIC that mines only restarts all ASICs (pll.c:609):
  one with fewer than 100 good engines goes on mining, one that has none left
  ends the process at the restart's end.
* `reset_others` in enable_engines_asic writes the complement of the good engines
  ("TODO - Error?", pll.c:374); they stay wrong until the end of the BIST.
* The table of PLL settings has 187 entries, up to 1280 MHz; ASIC_FREQ_MAX is 1480.
* `update_work_mode` reads the limits from the file again without their type's
  cap: if either supply needs a fix, both lose their caps (miner_gate.c:1095).
  A start voltage stays high if the limit is just that of the range. If the user
  has meanwhile edited the file, a decrease is subtracted from what it says now,
  which may leave a limit of 65 that no start accepts.
* The user's file is rewritten in place, and synced before its stream is flushed
  (miner_gate.c:1139, 1152): a kill between fopen and fclose leaves it empty, and so
  does a power failure soon after; every start then ends in an assert.
* With /etc/mg_ignore_110_fcc, read_work_mode closes its stream twice
  (miner_gate.c:1402).
* A supply that does not answer at the start is not limited until
  ac2dc_check_connected finds it and ends the process; a failed reading of an
  input voltage counts as 0 and ends it as "voltage low". A maximal voltage of
  800 to 830 passes the asserts on the file and fails the passert on VTRIM_MAX.
* A second call of exit_nicely that finds `vm.exiting` calls exit(0) at once, in
  the middle of the first one's switching off; before, its reset_i2c has
  disturbed it. Converters may stay on.
* A thread that calls exit_nicely with `i2c_mutex` held (ac2dc.c:583) waits for
  itself if the ASICs stay busy and are restarted; one that holds `i2cm`, which a
  signal in a transfer or a failed ioctl leaves it with, waits at its first
  transfer.
* Of the writes that select a converter only the second is checked
  (dc2dc.c:533): two lost transfers reach another one. Of the writes that set up
  a channel only the first is, so that a converter may be present and off; and
  the `dc2dc_enable_dc2dc` of dc2dc_init_rb does nothing, as `dc2dc_present` is set
  after it.

### Fairness

Pipeline: every thread goes on when it can (WF), and whoever waits for
`asic_mutex` gets it sometime (SF, for the RT thread as for the connections):
the RT thread releases it and sleeps after each tick (asic_lib.c:2792, 2804), a
connection holds it for one drop of the ring. MQ and ASICs work their jobs off.
Clients and engines owe nothing: nobody has to send, and no nonce has to be found.
Scaling: the RT loop never stops (WF of `Next`), and its counter lets the
once-a-second task have its turn (SF of `OnceSecond`) whatever else happens in
the ticks between. That the temperature loop is reached again and again (no
restart in every second) is a premise of `CoolingEnds`, not an assumption.
FpgaReads: the RT thread goes on with a task it has begun (WF); nothing is asked
of the FPGA, and late replies may never arrive. `TaskEnds` holds for any number
of faults up to `MaxFaults`: it says that error handling does not feed itself,
not that hardware which fails for ever can be used.
ExitNicely: every thread is scheduled, and a mutex released again and again is
granted (SF of `Step(t)`); no thread has to start anything. Plls: the RT thread
goes on (WF of `Step`); a PLL need not lock, a reading need not succeed. That
PLLs lose a lock they had only finitely often is a premise of `CallsEnd`.
WorkMode needs no fairness.

## 4. Proofs

`RtQueueProofs`, checked by TLAPS for every `RT_QUEUE_SIZE`, first slot,
`MQ_INCREMENTS` and set of jobs that satisfy `RtQueueAssumption`:

* `Typing`: `Spec => []TypeOK`.
* `RingCorrect`: `Spec => []RingInv`. The code's own counters and marks describe
  one queue and every id leads back to its slot.
* `Implementation`: `Spec => ImplementsWindow`: the ring refines the window.

(`RtQueueLemmas` has the lemmas.) `RingInv` says this with `%`, as the code does, and is no good for induction:
the solvers do not handle a modulus of a variable. The inductive invariant
`IInv` therefore says how far a slot lies ahead of the done index by a case
distinction (`Ahead`), that the write index is `size` slots ahead, that exactly
the slots less than `size` ahead are marked, and that a marked slot has its own
id. `NextSlotValue` and `AheadValue` translate. `OneDoneOK` and `WriteSlotOK`
show that it is kept, `AddOK` composes them; `JobsOfSeq`, `WriteSlotWindow` and
`OneDoneWindow` say what each does to the sequence of jobs, from which the
refinement follows step by step.

`WorkModeProofs`, for every set of machines, of files that minergate can read and
of input voltages that satisfies `WorkModeAssumption`:

* `Typing`: `Spec => []TypeOK`.
* `FileReadable`: `Spec => []NextStartReads`. Overloads never take a file to where
  the next start refuses it, three exceptions apart, which the code has: a kill between
  the fopen that empties the file and its fclose or a power failure before what was
  written is on the disk (`cut`), and an edit in a run, applied to which a decrease may
  go too low (`mixed`). The inductive invariant `IInv` adds what the running
  process knows of the file (`FileRead`): it was read, and unless the user edited
  it since it can be read again and has no limit below the one in force. Only the
  last part makes an overload harmless: the threshold is tested on the limit in
  force, the decrease is made in the file (`OverloadReads`). `StreamReads` says the same of the
  stream that `Close` writes: it could be read by a start, unless the file was edited.
* `OverloadKeeps`: `Spec => OverloadKeepsPower`, from the same invariant.
* `LimitsAreBearable`: `Spec => []LimitInForce`. `read_work_mode` computes the fix
  from capped limits, `update_work_mode` subtracts it from uncapped ones;
  `FixSuffices` says what is left of a limit, for every range of the input
  voltage, since limits grow with the range (`AplGrows`) and the first one
  exceeded is obeyed (`FirstRange`). `LInv` adds that a fix about to be made is
  the one for the file that was read.
* `StartIsLow`: `Spec => []StartVoltageLowered`, and `AlternativeIsInForce`:
  `Spec => []AlternativeInForce`. Both say what read_work_mode leaves when it is
  done, through the detour of a fix that is written to /tmp and read again.

`JobPipelineProofs`, for every set of connections, of jobs and of packets, every
ring and every limit of `JobPipelineAssumption`, a client that disconnects or not,
ASICs that linger or not:

* `Typing`: `Spec => []TypeOK`. The inductive invariant `TInv` needs more than types
  of the RT thread, whose steps within one `add_to_sw_rt_queue` other threads may
  come between: it holds a job where it needs one, and the ring is well formed at
  each label (`RingOK`, from `RtQueueLemmas`). It would not be where it writes into
  a full ring, so `RtWrites` says that it is not full there, although the test was
  made four steps before: others only take jobs out. No job id leaves its 8 bits
  and no win is looked up outside the ring (`WinIdProperties`).
* `WinsAreCredited`: `Spec => []WinsCreditTheirJob` where no client sets the drop
  bit, for any number of connections that come and go. `WInv` says where a nonce
  may be: in a slot only while the RT thread reports it, and then it is the one of
  the slot's own job, as RtWriteSlot can not come in between. The premise is
  needed: a drop polls wins beside the RT thread (`drop_evict`).

Its second half assumes one client that stays connected (`OneClient`), for the
connection that follows throws away the jobs of the one before. Drops are
allowed, and so is the lingering poll after one:

* `JobsStayInOnePlace`: `Spec => []JobInOnePlace`.
* `DropsComplete`: `Spec => []DropsCompleteOnce`.

The inductive invariant is `PInv == Spread /\ OneEach /\ Control`: the jobs
submitted are spread over packet, request queue, the RT thread's `work`, ring,
`old_w` and responses, no two of these sets meet (`Spread`), and no place has a job
twice (`OneEach`). Sets and injectivity, rather than counts of occurrences, make
each step a move from one set to another (`MoveKeepsSpread`). `Control` ties the
thread's places to `asic_mutex`: it is why a drop of the ring and an
eviction do not meet.

The rest assumes beside that that the client never drops
(`NeverDrops`):

* `CompletionComesLast`: `Spec => []CompletionIsLast`, `ClientHearsRight`:
  `Spec => [](RepliesAreRight /\ NoneStrayed)`, `EvictionFindsNoNonce`:
  `Spec => []EvictedJobHasNoNonce`. `LInv` says in addition that a win that is being
  reported is for a slot in use. `NoneStrayed` (`strays = {}`) is that `old_w` is never
  uninitialised then, so that `RepliesAreRight` is about every job.
* `HardwareKeepsSlots`: `Spec => []HardwareJobsAreLive`, if `HardwareFits`: whenever
  the MQ takes a job there is room in the ring for all that it and the ASICs then
  hold. `HInv` says why: what ASICs and MQ hold, in their order, are the newest
  jobs of the ring in its order (`Newest`), and there are never more of them than
  slots (`Room`). Eviction takes the oldest, so that it can not reach them. The
  code's numbers fit exactly (`CodeFits`): a job of 26 words, an MQ that takes one
  below 50 words or 2 after a BIST, 2 jobs in the ASICs, 4 slots.

`ScalingProofs`, for every number of ASICs, of boards and of supplies, for all
limits that satisfy `ScalingAssumption` and whatever the hardware answers:

* `Typing`: `Spec => []TypeOK`.
* `LimitsHold`: `Spec => []UpperLimitsHold`.
* `CountNeverAhead`: `Spec => []CoolingCountNotAhead`.
* `PowerKept`: `Spec => UpscalingKeepsLimit`, an action property.
* `FreqsKeptOfOne`: `ASICS_COUNT = 1` implies `Spec => []FreqWithinBistLimit`.
* `FreqsKept`: `Spec /\ []NoneDropped => []FreqWithinBistLimit`, for any number.
  `NoneDropped` is the corner of section 3 put as a predicate: no restart that came
  from the upvolt loop finds something wanted of an ASIC at the lowest frequency.

The steps are compositions of calls, so the argument is about calls. `Sound(v)` says
of a value of `vm` that it has its types as long as no passert failed, that
no voltage above the maximum was asked for and that no count is ahead; `Keeps(w, v)`
that a call that makes `w` of `v` keeps this, asks for no frequency above the maximum
and takes no supply over its limit. It is transitive (`KeepsTwice`), each function
of the code has a lemma (`DownKeeps`, `UpKeeps`, `TooHotKeeps`, ...), and an action
follows from those it calls. Frequencies need their divisibility by 5 in the
types, or the guards (`freq_hw < ASIC_FREQ_MAX`) would not bound the steps; the
search at start-up, whose test allows one step too many, is the exception
`OnlyRaiseAsks`. `act_on_temperature` passes through a state that is not sound: it
stores a maximum that may be under VTRIM_MIN before the passert of
dc2dc_set_vtrim looks at it. The invariant is `SInv`.

For the limits of frequencies a second invariant, `LInv`, stands on `SInv`. Every ASIC is
settled (nothing wanted, no faster than its limit), or, while the first
frequencies are searched, has not failed yet, or just its limit is wanted of it,
which happens only in the upvolt loop and in restarts (`Limited`). That alone is
not inductive. A BIST that fails above the lowest frequency lowers limit and
wanted frequency together, but at the lowest it sets the limit only; so nothing may be
wanted there when a BIST is made (`AskedAboveMin`), which each restart has to keep.
And dc2dc_up raises the limit of an ASIC whose wanted frequency
it may leave as it was, so that the upvolt loop must not take one twice
(`AskedOnce`, by `revolted`). Where all are settled again - after set_plls_to_wanted
- no more is asked for than in the beginning, which is why the places between the
restarts need only `SettledAnywhere`. Each call has one more lemma (`FailLimited`,
`UpLimited`, `TooHotLimited`, ...).

`FpgaReadsProofs`, for every size of the queue, every number of reads, loops and
limits that satisfies `FpgaAssumption`, and whatever becomes of the replies:

* `QueueStaysSound`: `Spec => []QueueIsSound`. No assertion of push_asic_read or
  fpga_queue_status fails, the hardware's pointer does not pass the writer's, and
  a task leaves nothing behind, although tests and resets use the queue in the
  middle of a wait, whichever loops are dead. Of the slots that push_asic_read keeps free, one is enough: what
  is called while a wait works on the queue finds it empty or resets it before it
  pushes anything.

The stack of calls has no bound, so the inductive invariant `QInv` says of it what
can be said of two neighbours (`Linked`): a place that counts on an empty queue
(`SettledPlaces`) is on hold only for one of the functions that leave it empty when
they return (`Settling`). `Places` ties the running call to the pointers: the queue
is empty at a settled place; all is taken and nothing reset only where the wait
took the last read and what it calls has not begun (`TakenPlaces`); packets are not
sent only while a task pushes and until its wait flushes them. A step then changes
the last frame (`StayStep`), puts one on top (`CallStep`) or takes one away
(`ReturnStep`), and the actions are instances of the three.

* `ReportedAgain`: `DeadLoops = {}` implies `Spec => []FailuresAreReported`. The
  hypothesis is needed: with a dead loop TLC finds a counterexample (section 3).
  test_serial clears `assert_serial_failures`, and sets it again only if the loop
  answers; so the theorem is about who, of the calls in progress, will.

Its invariant `RInv` adds to `QInv` five things. `Covered`: the flag is set, or one of
the calls sees to it (`Covers`): a test of a loop that still runs; a restart that is
not at its end, or one at its end that misses an ASIC and will so end the process; a
test of all loops that has noted an error and was not called by a restart, with
the wait that hears of it, which restarts. `Called` says who calls the tests,
`Returned` that a test of a loop which returned "good" has set the flag. `InTests`:
a test of all loops that a restart at its end is waiting for disables a loop that
fails, so that an ASIC is missed. `Stages` ties `in_asic_reset` to the one restart
under way, whose ASICs were all there when it began: that is why its end, which
compares numbers, compares sets (`AllOfThem`), and where dead loops would break
it. A step is again one of a frame, a call or a return (`Stays`, `Pushes`, `Pops`),
and each part has a lemma of what keeps it in the three.

* `Typing`: `Spec => []TypeOK`. Part of it is that `spi_timeout_count` does not pass
  MAX_TIMEOUTS. The code tests it only when a read is delivered (squid.c:727), while
  each timeout of a read made meanwhile by a test or a reset counts as well.

That a count is at its limit is therefore tied to where the code is: the running
function is on the way to the reset, or counts no timeout (`Hot`, `NInv`). A test of
a loop that found nothing leaves `assert_serial_failures` cleared, so that the reads after
it time out uncounted; a restart sets the count to 0 first. This needs what each
place says of its loop, read or slot (`PlaceOK`, `CInv`). `AInv` says that a slot
whose result goes to the task holds one of the task's registers; an answer is
added to `answered` only from such a slot, and the index of the slot, kept in the
frame while other calls use the queue, is still one of the queue.

`PllsProofs`, for every number of ASICs and engines, all frequencies and every limit
on tries that satisfies `PllsAssumption`:

* `MiningEnginesHold`: `Spec => []MiningEngines`.
* `OutOfRangeIsKnownHolds`: `Spec => []OutOfRangeIsKnown`.

Both say something of the end of a call, or of one place in it, and so of everything
that the calls on the way leave for later ones. The inductive invariant `IInv`
therefore says of each ASIC that it is right or that one of the calls left will make
it right: its engines
(`Mended`: a BIST, a restart, enabling all engines or this ASIC's, or disabling it is
to come; or the mark, and the loop that enables the marked ones), its PLL
(`Clocked`: the restart sets it), what is asked for (`Asked`: it is a frequency, a
failed BIST's, or the mark, and only until the PLLs are set). Where a call is pending
that does this for some ASICs, it must not be lost, so `InOrder` says what each
call finds behind it: who judges a BIST, or drops engines, has the enabling of all
engines before it; who enables one ASIC has that or an ASIC that mines; a
restart is only ever the first call. `Stage` ties `in_asic_reset` to the one
"restarted" among the calls, and says why a restart ends with the ASICs of the
beginning: one that it finds again is disabled first, and their number has not
fallen. `Guarded` is the reason why the mark 0xcafebabe is taken for a frequency only
in a restart: whatever else sets PLLs comes after the loop that takes the mark
away. A step keeps this because of what a call is replaced by: `Over` says that the
new calls do all that the ones behind the old one do, and there is one lemma
for each way of putting calls in front (`InFront`, `ThoseFront`, `JudgeAllFront`,
`RestartFront`). Loops over ASICs are sequences with a `<<"none">>` for the
ASICs they skip, rather than filtered ones, so that the place of a call is known
without induction.

`ExitNicelyProofs`, for every set of converters, every number of boards, of other
threads and of failed transfers that satisfies `ExitAssumption`:

* `TypeCorrect`: `Spec => []TypeOK`.
* `OffAtTheEnd`: `Spec => []ConvertersOff`. `disturbed` is part of the statement:
  a use of the bus by another thread, or a failed transfer, past the sleep of an exit
  may leave a converter on (section 3).
* `BlocksInExitOnly`: `Spec => []SelfBlockOnlyInExit`.
* `AccessesItsConverter`: `Spec => AccessReachesItsConverter`, the action property. That
  nothing exits and at most one transfer fails is part of it.

A state is what each thread has before it, a sequence of operations whose length
grows with the converters and with what fails, so the inductive invariant `Inv`
is about sequences. `Program` says of each operation what comes after it: an exit
is last, with every converter's lock between it and its sleep, which follows
the freeing of the mutexes; what has `i2c_mutex` unlocks it before anything locks it
again (`Unlocks`), and does so on every path where a transfer may fail; before a
freeing there is no initialisation that could fail, and what locks within the restart
of an exit is followed by the end of that restart (`Recovers`). `HoldsI2cm`
and `HoldsMutex` tie the owners to this: who has a mutex unlocks it, or called
the exit with it. `TurnsOff` says of an exit past its sleep that every converter
that is on is still `Pending` in the sequence, and that an access reaches the
converter that was just selected (`SelectReaches`: whatever the switches were set to
before).

An action takes the first operation away or puts a function in its place, or,
where a transfer fails, leaves some more out (`After`). So each part of `Program`
is shown to hold of what is left (`SuffixIsProgram`) and of what is put in front
(`PrependIsProgram`), once, and the functions are shown to be such as may
be put in front (`TransactionIs`, `RestartIs`, `ExitIsProgram`, ...). `Advances`
is what a step must leave alone of the other threads. Two things needed induction
after all: that the converters can be put in order (`CanBeSorted`), and that their
initialisations in a row are a program (`AllInitIs`). Both are induction on the
numbers, as `Counting` states it for a set, which follows from the least element of
a set of numbers (`Least`).

`AccessesItsConverter` needs the switches followed through every transaction and its one
lost write. `BusInv`, which a step keeps where `Inv` holds, says while nothing
exits and at most one transfer has failed that only the `Actor` has anything before
it, `main` until it starts the RT thread and that one from then on, and that this is
`Ordered`: an access comes right after the selection of its converter or another
access to it, and the switches are closed behind it. `OnBus` says what is behind
the switches: an access that comes next reaches nothing but its converter; and as
long as no transfer has failed, nothing is behind them (`Clean`), or within a
transaction its converter alone (`Within`). A complete selection reaches its
converter whatever the switches were before; one that loses a write begins with
clean switches, for it is the first fault, and so reaches its converter or
nothing. An exit that a thread has before it stays there until the process ends,
so that behind an exit there is nothing to show.

What the theorems assume of constants are the `ASSUME`s of the modules, which the
runs evaluate on their instances; premises (`OneClient`, `NeverDrops`,
`HardwareFits`, no drop bit, `DeadLoops = {}`, `ASICS_COUNT = 1`) are stated in the
theorem. `one_client`, `fpga_reads` and `scaling_one` satisfy them. `NoneDropped` is a premise
on the behaviour: it leaves out those in which the restart comes just then.
`ExitAssumption` has at least one converter, for one stands for all in a restart,
and all of them on boards that there are.
`ScalingAssumption` has the lowest frequency more than a step of 5 above 0 (it is 350,
pll.h:29): 0 as a wanted frequency means that none is.

Model-checked only:

* Liveness throughout, which is out of the prover's reach, as is ENABLED.
* `RepliesAreRight` with several connections (`reconnect`) and everything about drops
  but the two theorems above.
* That `NoneDropped` holds of one ASIC: `FreqsKeptOfOne` does without it, and with
  more than one it may be false (section 3).
* Of `FpgaReads`, `OkMeansRead`, which is about each wait of a task. It is about which reply meets which slot, and the
  replies of a packet from which some are lost (`Answered`) are a SelectSeq: that the
  others keep their order is an induction over the sequence. Besides, late replies of
  tests may lie between those of the task, so that an invariant would have to follow how
  many of each are under way.

## 5. Plan

1. `RtQueue`, `RtQueueSpec`, `JobWindow`, `RtQueueProofs`: done.
2. `JobPipeline` with drop and reconnection: done. Next: the lifetime of the
   adapter (miner_gate.c:484), and an abstract `JobService` (a job is accepted,
   credited wins, completed once) that `JobPipeline` without drops and
   reconnections implements.
3. `Scaling`: done.
4. `FpgaReads`: done, with the recursion of resets first planned as a module of
   its own. Next: what the tasks of the RT thread do with results they did not
   get.
5. `Plls`, `WorkMode`, `ExitNicely`: done. Next: loops that fail at the beginning of
   a restart, composed with `Plls`.
6. `Thermal`: the threshold walk of the sensors. `RtQueueRace`: the unlocked drain,
   instruction by instruction. The whole suite should stay a matter of minutes, so
   that a new run takes the place of a narrower one.
7. Proofs: the queue, all of `WorkMode`, the safety of the pipeline with one client,
   of `Scaling` (`FreqWithinBistLimit` of several ASICs under `NoneDropped`), of
   `Plls`, of `ExitNicely` the invariants and the accesses, and of `FpgaReads` the queue, the
   counters and the reporting of failures: done. Next: of the pipeline, what holds with several
   connections (a completion only for a job in work, nothing twice).
