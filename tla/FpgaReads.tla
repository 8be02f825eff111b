----------------------------- MODULE FpgaReads -----------------------------
(***************************************************************************)
(* Register reads of the ASICs through the FPGA (squid.c).  A caller       *)
(* queues reads with pointers to their destinations (push_asic_read), then *)
(* sends them and collects the replies in order                            *)
(* (squid_wait_asic_reads_restart_if_error).  Replies may be late, lost or *)
(* corrupted, and what is done about that reads registers itself, through  *)
(* the same queue and while it is being worked on: the test of all loops,  *)
(* the search for an ASIC that lost its address, restart_asics_full.  The  *)
(* calls in progress are a stack of frames, the last one running.          *)
(***************************************************************************)
EXTENDS Integers, Sequences, FiniteSets

CONSTANTS
  MAX_FPGA_CMD_QUEUE,  \* slots of cmd_queue (64)
  CMD_QUEUE_ROOM,      \* slots push_asic_read keeps free (8)
  Batch,               \* reads a task of the RT thread queues before it waits
  LOOP_COUNT,
  MAX_LOOP_FAIL,       \* tests a loop may fail before it is given up (4)
  MAX_TIMEOUTS,        \* spi_timeout_count that restarts (20)
  MAX_CORRUPTIONS,     \* corruptions_count that does not restart yet (40)
  MAX_GARBAGE,         \* replies purge_fpga_queue may find (195)
  MAX_BUSY,            \* polls of the conductor at the end of a reset (10000)
  MaxReplies,          \* bound: replies the FPGA can hold
  MaxFaults,           \* bound: faults in all
  DeadLoops            \* enabled loops without an ASIC in use

VARIABLES
  cmd_queue,           \* [reg, to] by slot: the register, and the address of the result
  current_cmd_queue_ptr, current_cmd_hw_queue_ptr,
  asic_serial_stack,   \* registers of the reads not sent yet
  wire, rx,            \* replies under way, and in the FPGA's serial fifo
  vm,                  \* fields of vm, and assert_serial_failures
  calls,               \* the calls in progress
  answered,            \* the task's reads that got the reply to them
  faults,              \* what went wrong so far: replies lost, corrupted or late, ...
  ended                \* how the process ended, if it did

queueVars == <<cmd_queue, current_cmd_queue_ptr, current_cmd_hw_queue_ptr>>
fpgaVars  == <<asic_serial_stack, wire, rx, faults>>
vars == <<queueVars, fpgaVars, vm, calls, answered, ended>>

Loops == 1 .. LOOP_COUNT
Slots == 0 .. MAX_FPGA_CMD_QUEUE - 1
Regs  == 1 .. Batch                      \* read by the task, in this order
ADDR_VERSION == Batch + 1
ADDR_INTR_BC_GOT_ADDR_NOT == Batch + 2
ADDR_INTR_BC_CONDUCTOR_BUSY == Batch + 3
Corrupted == 0                           \* what is no register at all

ASSUME FpgaAssumption ==
  /\ {MAX_FPGA_CMD_QUEUE, CMD_QUEUE_ROOM, Batch, LOOP_COUNT, MAX_LOOP_FAIL,
      MAX_TIMEOUTS, MaxReplies} \subseteq Nat \ {0}
  /\ {MAX_CORRUPTIONS, MAX_GARBAGE, MAX_BUSY, MaxFaults} \subseteq Nat
  /\ CMD_QUEUE_ROOM < MAX_FPGA_CMD_QUEUE
  /\ DeadLoops \subseteq Loops /\ DeadLoops # Loops

(* A frame: the function, where it is, the loop or read it deals with, its *)
(* error flag, its flag argument, the register and result of a read, and   *)
(* what the last function it called returned.                              *)
Frame(fn) == [fn |-> fn, pc |-> "start", n |-> 1, err |-> FALSE, flag |-> FALSE,
              reg |-> Corrupted, value |-> "unwritten", val |-> "none"]

Read(reg)  == [Frame("read_reg_asic") EXCEPT !.reg = reg]
Wait       == Frame("squid_wait_asic_reads")
Test(disable_failed) == [Frame("test_all_loops") EXCEPT !.flag = disable_failed]
TestSerial == Frame("test_serial")
TestLostAddress == Frame("test_lost_address")
Revive     == Frame("revive_asics")
Restart    == Frame("restart_asics_full")

Depth == Len(calls)
Top   == calls[Depth]

In(fn, pc) == ended = "no" /\ calls # <<>> /\ Top.fn = fn /\ Top.pc = pc

(* The running frame goes on at pc, calls f and goes on at pc with its     *)
(* result, or returns v.                                                   *)
At(pc)      == [calls EXCEPT ![Depth].pc = pc]
Call(f, pc) == calls' = Append(At(pc), f)
Return(v)   == calls' = [SubSeq(calls, 1, Depth - 1) EXCEPT ![Depth - 1].val = v]

\* passert() and exit_nicely() end the process.
Exit(how) == ended' = how /\ UNCHANGED calls

ResetKeepsHwPtr ==
  /\ current_cmd_queue_ptr' = 0
  /\ UNCHANGED <<current_cmd_hw_queue_ptr, cmd_queue>>

reset_asic_queue ==
  /\ current_cmd_queue_ptr' = 0 /\ current_cmd_hw_queue_ptr' = 0
  /\ UNCHANGED cmd_queue

EmptyQueue == [s \in Slots |-> [reg |-> Corrupted, to |-> <<0, 0>>]]

Init ==
  /\ cmd_queue = EmptyQueue
  /\ current_cmd_queue_ptr = 0 /\ current_cmd_hw_queue_ptr = 0
  /\ asic_serial_stack = <<>> /\ wire = <<>> /\ rx = <<>> /\ faults = 0
  /\ vm = [assert_serial_failures |-> TRUE, in_asic_reset |-> 0, did_asic_reset |-> FALSE,
           tryed_power_cycle |-> FALSE, spi_timeout_count |-> 0, corruptions_count |-> 0,
           bad_loop_count |-> [l \in Loops |-> 0],
           enabled |-> Loops, present |-> Loops \ DeadLoops, asics |-> {}]
  /\ calls = <<>>
  /\ answered = {}
  /\ ended = "no"
-----------------------------------------------------------------------------
(* The FPGA and the ASICs, as the code relies on them.                     *)

(* flush_spi_write(): a request sent gets its reply, a corrupted one, or   *)
(* none.  Replies keep their order; they may be held up.  Those to the     *)
(* task that runs are fresh.                                               *)
Outcomes(reqs) == [1 .. Len(reqs) -> {"good", "corrupted", "lost"}]

Answered(reqs, outcome) ==
  LET ks == SelectSeq([k \in 1 .. Len(reqs) |-> k], LAMBDA k : outcome[k] # "lost")
  IN  [i \in 1 .. Len(ks) |->
         [reg |-> IF outcome[ks[i]] = "good" THEN reqs[ks[i]] ELSE Corrupted, fresh |-> TRUE]]

(* What goes wrong counts: a reply lost, corrupted or late, noise, trouble *)
(* with a converter or a supply, an ASIC without its address, a conductor  *)
(* that is busy.                                                           *)
Faults(n) == faults' = faults + n /\ faults' <= MaxFaults
Fault(is) == Faults(IF is THEN 1 ELSE 0)

Send(reqs, held) ==
  /\ asic_serial_stack' = <<>>
  /\ \E outcome \in Outcomes(reqs) :
       LET room == MaxReplies - Len(wire) - Len(held)
           all == Answered(reqs, outcome)
           replies == IF Len(all) > room THEN SubSeq(all, 1, room) ELSE all
           spoilt == Cardinality({k \in DOMAIN reqs : outcome[k] # "good"})
       IN  \/ /\ wire = <<>> /\ Faults(spoilt)
              /\ rx' = held \o replies /\ UNCHANGED wire
           \/ /\ \/ wire # <<>> /\ Faults(spoilt)
                 \/ wire = <<>> /\ replies # <<>> /\ Faults(spoilt + 1)
              /\ wire' = wire \o replies /\ rx' = held

\* Late replies arrive.
Arrive ==
  /\ ended = "no" /\ wire # <<>>
  /\ rx' = rx \o wire /\ wire' = <<>>
  /\ UNCHANGED <<queueVars, asic_serial_stack, faults, vm, calls, answered, ended>>

\* What a register that was read holds, when only zero or not matters.
NonZero(value) == IF value = "failed" THEN {FALSE} ELSE BOOLEAN

\* read_ac2dc_errors() starts the loops' counts anew when it finds one.
Ac2dcErrors(v, found) ==
  IF found THEN [v EXCEPT !.bad_loop_count = [l \in Loops |-> 0]] ELSE v
-----------------------------------------------------------------------------
(* push_asic_read, called by a task (fn, the n-th of its reads) and by     *)
(* read_reg_asic.                                                          *)
Readers == {"task", "read_reg_asic"}

PushLimit == MAX_FPGA_CMD_QUEUE - CMD_QUEUE_ROOM

Pushing == Top.fn = "read_reg_asic" \/ Top.n <= Batch

\* No room: what is queued is read first.
PushWait(fn) ==
  /\ In(fn, "start") /\ Pushing
  /\ current_cmd_queue_ptr >= PushLimit
  /\ Call(Wait, "room")
  /\ UNCHANGED <<queueVars, fpgaVars, vm, answered, ended>>

AtPurge(fn) ==
  \/ In(fn, "start") /\ Pushing /\ current_cmd_queue_ptr < PushLimit
  \/ In(fn, "room")

Purges == current_cmd_queue_ptr = 0 /\ vm.assert_serial_failures

\* How the wait for room went is told to nobody.
Pushed(fn) ==
  IF fn = "task"
  THEN [calls EXCEPT ![Depth] = [Top EXCEPT !.pc = "start", !.n = Top.n + 1, !.val = "none"]]
  ELSE At("done")

\* purge_fpga_queue() finds too much: a restart, and the read is not queued (nor is
\* anything else, so that the wait of read_reg_asic() returns at once).
PushGarbage(fn) ==
  /\ AtPurge(fn) /\ Purges /\ Len(rx) > MAX_GARBAGE
  /\ reset_asic_queue
  /\ rx' = <<>>
  /\ calls' = Append(Pushed(fn), Restart)
  /\ UNCHANGED <<asic_serial_stack, wire, faults, vm, answered, ended>>

\* Nothing is under way that could get between a read and its reply.
Undisturbed ==
  /\ current_cmd_queue_ptr = 0 /\ current_cmd_hw_queue_ptr = 0
  /\ wire = <<>>
  /\ rx = <<>> \/ (Purges /\ Len(rx) <= MAX_GARBAGE)
  /\ vm.spi_timeout_count < MAX_TIMEOUTS

\* Then a read_reg_asic() whose reply comes at once is one step: what PushRead,
\* WaitSlot, WaitTake, WaitDeliver, WaitDone and ReadDone do, no other step
\* being possible before it is over.
ReadAtOnce ==
  /\ In("read_reg_asic", "start") /\ Undisturbed
  /\ cmd_queue' = [cmd_queue EXCEPT ![0] = [reg |-> Top.reg, to |-> <<Depth, Top.reg>>]]
  /\ rx' = <<>>
  /\ Return("own")
  /\ UNCHANGED <<current_cmd_queue_ptr, current_cmd_hw_queue_ptr, asic_serial_stack, wire, faults,
                 vm, answered, ended>>

\* read_reg_asic() sends its read at once.  A task's go out when it waits: if
\* the stack fills up earlier, nothing looks at the replies before that.
PushRead(fn) ==
  /\ AtPurge(fn) /\ ~(Purges /\ Len(rx) > MAX_GARBAGE)
  /\ LET reg == IF fn = "task" THEN Top.n ELSE Top.reg
         stack == Append(asic_serial_stack, reg)
         purged == IF Purges THEN <<>> ELSE rx
     IN  IF current_cmd_queue_ptr + 1 >= MAX_FPGA_CMD_QUEUE
         THEN Exit("queue") /\ UNCHANGED <<queueVars, fpgaVars>>
         ELSE /\ cmd_queue' = [cmd_queue EXCEPT ![current_cmd_queue_ptr] =
                                 [reg |-> reg, to |-> <<Depth, reg>>]]
              /\ current_cmd_queue_ptr' = current_cmd_queue_ptr + 1
              /\ \/ /\ fn = "task" /\ calls' = Pushed(fn)
                    /\ asic_serial_stack' = stack /\ rx' = purged /\ UNCHANGED <<wire, faults>>
                 \/ /\ fn = "read_reg_asic" /\ Send(stack, purged)
                    /\ ~(Undisturbed /\ rx' = <<[reg |-> reg, fresh |-> TRUE]>>)
                    /\ calls' = Append(At("done"), [Wait EXCEPT !.pc = "loop"])
              /\ UNCHANGED <<current_cmd_hw_queue_ptr, ended>>
  /\ UNCHANGED <<vm, answered>>
-----------------------------------------------------------------------------
(* squid_wait_asic_reads_restart_if_error.  The slot being dealt with is   *)
(* the frame's n; what it holds is looked up again after the calls made    *)
(* meanwhile, which may have used the slot themselves.                     *)
WaitFlush ==
  /\ In("squid_wait_asic_reads", "start")
  /\ Send(asic_serial_stack, rx)
  /\ calls' = At("loop")
  /\ UNCHANGED <<queueVars, vm, answered, ended>>

\* fpga_queue_status()
Working == current_cmd_queue_ptr # 0 /\ current_cmd_hw_queue_ptr # current_cmd_queue_ptr

\* with failed reads, the loop of the wait is over
AfterReviveOn == "loop"
AfterRevive == "error"

WaitDone ==
  /\ In("squid_wait_asic_reads", "loop") /\ ~Working
  /\ IF current_cmd_queue_ptr = 0 /\ current_cmd_hw_queue_ptr # 0
     THEN Exit("queue") /\ UNCHANGED queueVars
     ELSE /\ IF Top.err THEN reset_asic_queue /\ Call(Revive, AfterRevive)
                        ELSE Return("ok") /\ UNCHANGED queueVars
          /\ UNCHANGED ended
  /\ UNCHANGED <<fpgaVars, vm, answered>>

Taken == [calls EXCEPT ![Depth].n = current_cmd_hw_queue_ptr, ![Depth].value = "failed"]

WaitSlot ==
  /\ In("squid_wait_asic_reads", "loop") /\ Working
  /\ current_cmd_hw_queue_ptr' = current_cmd_hw_queue_ptr + 1
  /\ CASE rx # <<>> ->
            calls' = [Taken EXCEPT ![Depth].pc = "take"] /\ UNCHANGED vm
       [] rx = <<>> /\ vm.assert_serial_failures ->
            /\ vm' = [vm EXCEPT !.spi_timeout_count = @ + 1]
            /\ calls' = Append([Taken EXCEPT ![Depth].pc = "tested"], Test(vm.in_asic_reset # 0))
       [] OTHER ->
            calls' = [Taken EXCEPT ![Depth].pc = "deliver"] /\ UNCHANGED vm
  /\ UNCHANGED <<cmd_queue, current_cmd_queue_ptr, fpgaVars, answered, ended>>

\* After a timeout and the test of all loops.
Unusable(ac2dc, tested) == ac2dc \/ tested = "problem"

WaitTested ==
  /\ In("squid_wait_asic_reads", "tested")
  /\ \E ac2dc \in BOOLEAN :
       /\ vm' = Ac2dcErrors(vm, ac2dc) /\ Fault(ac2dc)
       /\ IF Unusable(ac2dc, Top.val) /\ vm.in_asic_reset = 0
          THEN Call(Restart, "deliver")
          ELSE calls' = At("take")
  /\ UNCHANGED <<queueVars, asic_serial_stack, wire, rx, answered, ended>>

MatchesAny(reply, slot) == TRUE
Matches(reply, slot) == reply.reg = slot.reg

\* An empty fifo reads as something else.
WaitTake ==
  /\ In("squid_wait_asic_reads", "take")
  /\ rx' = IF rx = <<>> THEN <<>> ELSE Tail(rx)
  /\ CASE rx # <<>> /\ Matches(Head(rx), cmd_queue[Top.n]) ->
            /\ calls' = [At("deliver") EXCEPT ![Depth].value =
                           IF Head(rx) = [reg |-> cmd_queue[Top.n].reg, fresh |-> TRUE]
                           THEN "own" ELSE "stale"]
            /\ UNCHANGED vm
       [] vm.assert_serial_failures ->
            /\ vm' = [vm EXCEPT !.corruptions_count = @ + 1]
            /\ IF vm.corruptions_count + 1 > MAX_CORRUPTIONS
               THEN Call(Restart, "deliver")
               ELSE calls' = [At("deliver") EXCEPT ![Depth].err = TRUE]
       [] OTHER -> calls' = At("deliver") /\ UNCHANGED vm
  /\ UNCHANGED <<queueVars, asic_serial_stack, wire, faults, answered, ended>>

AllTakenLate == current_cmd_hw_queue_ptr > current_cmd_queue_ptr
AllTaken == current_cmd_hw_queue_ptr = current_cmd_queue_ptr

\* *(e->p_value) = e->value: the result's place is gone when the slot is one
\* that was used by a call made meanwhile.
WaitDeliver ==
  /\ In("squid_wait_asic_reads", "deliver")
  /\ LET to == cmd_queue[Top.n].to
         stored == [calls EXCEPT ![to[1]].value = Top.value]
         kept == IF to[1] \in 2 .. Depth - 1 THEN stored ELSE calls
     IN  /\ answered' = IF to[1] = 1 /\ Top.value = "own" THEN answered \cup {to[2]} ELSE answered
         /\ IF vm.spi_timeout_count >= MAX_TIMEOUTS
            THEN /\ vm' = [vm EXCEPT !.spi_timeout_count = 0]
                 /\ calls' = Append([kept EXCEPT ![Depth].pc = "error"], Restart)
                 /\ UNCHANGED queueVars
            ELSE /\ calls' = [kept EXCEPT ![Depth].pc = "loop"]
                 /\ IF AllTaken
                    THEN reset_asic_queue
                    ELSE UNCHANGED queueVars
                 /\ UNCHANGED vm
  /\ UNCHANGED <<fpgaVars, ended>>

WaitError ==
  /\ In("squid_wait_asic_reads", "error")
  /\ Return("error")
  /\ UNCHANGED <<queueVars, fpgaVars, vm, answered, ended>>

\* read_reg_asic
ReadDone ==
  /\ In("read_reg_asic", "done")
  /\ Return(Top.value)
  /\ UNCHANGED <<queueVars, fpgaVars, vm, answered, ended>>
-----------------------------------------------------------------------------
(* test_serial: reads through the loops that are not bypassed.  Only a     *)
(* test that succeeds sets assert_serial_failures again.                   *)
TestSerialDrain ==
  /\ In("test_serial", "start")
  /\ vm' = [vm EXCEPT !.assert_serial_failures = FALSE]
  /\ rx' = <<>>
  /\ \E noise \in BOOLEAN :
       /\ noise => rx # <<>>
       /\ Fault(noise)
       /\ IF noise THEN Return("bad") ELSE Call(Read(ADDR_VERSION), "version")
  /\ UNCHANGED <<queueVars, asic_serial_stack, wire, answered, ended>>

TestSerialVersion ==
  /\ In("test_serial", "version")
  /\ \E good \in NonZero(Top.val) :
       /\ Top.val \in {"own", "stale"} => good
       /\ vm' = [vm EXCEPT !.assert_serial_failures = good]
       /\ Return(IF good THEN "good" ELSE "bad")
  /\ UNCHANGED <<queueVars, fpgaVars, answered, ended>>

\* The running frame goes on at pc, with its next loop.
GoOn(pc) == [calls EXCEPT ![Depth] = [Top EXCEPT !.pc = pc, !.n = Top.n + 1]]
NextLoop == GoOn("loop")

(* test_all_loops_and_dc2dc                                                *)
TestStart ==
  /\ In("test_all_loops", "start")
  /\ reset_asic_queue
  /\ \E dc2dc \in BOOLEAN :
       calls' = [At("loop") EXCEPT ![Depth].err = dc2dc] /\ Fault(dc2dc)
  /\ UNCHANGED <<asic_serial_stack, wire, rx, vm, answered, ended>>

TestLoop ==
  /\ In("test_all_loops", "loop") /\ Top.n <= LOOP_COUNT
  /\ IF Top.n \in vm.enabled THEN Call(TestSerial, "tested")
                             ELSE calls' = NextLoop
  /\ UNCHANGED <<queueVars, fpgaVars, vm, answered, ended>>

TestEnd ==
  /\ In("test_all_loops", "loop") /\ Top.n > LOOP_COUNT
  /\ Return(IF Top.err THEN "problem" ELSE "fine")
  /\ UNCHANGED <<queueVars, fpgaVars, vm, answered, ended>>

\* A loop that failed too often, or at all in a reset, is given up: what
\* disable_asic_forever_rt_restart_if_error() does for its ASIC.
TestLoopTested ==
  /\ In("test_all_loops", "tested")
  /\ LET l == Top.n
         count == IF vm.bad_loop_count[l] = MAX_LOOP_FAIL THEN MAX_LOOP_FAIL
                  ELSE vm.bad_loop_count[l] + 1
         counted == [vm EXCEPT !.bad_loop_count[l] = count]
         failed == [NextLoop EXCEPT ![Depth].err = TRUE]
         disable == (count = MAX_LOOP_FAIL \/ Top.flag) /\ l \in vm.present
     IN  CASE Top.val = "good" ->
                calls' = NextLoop /\ UNCHANGED <<vm, ended>>
           [] Top.val = "bad" /\ disable /\ vm.in_asic_reset = 0 ->
                /\ vm' = counted
                /\ calls' = Append([failed EXCEPT ![Depth].pc = "disable"], TestLostAddress)
                /\ UNCHANGED ended
           [] Top.val = "bad" /\ disable /\ vm.in_asic_reset = 2 ->
                IF vm.present = {l}
                THEN Exit("nicely") /\ UNCHANGED vm
                ELSE /\ vm' = [counted EXCEPT !.present = @ \ {l}]
                     /\ calls' = failed
                     /\ UNCHANGED ended
           [] OTHER ->
                vm' = counted /\ calls' = failed /\ UNCHANGED ended
  /\ UNCHANGED <<queueVars, fpgaVars, answered>>

\* an ASIC is disabled at run time: test_lost_address() is over
TestDisable ==
  /\ In("test_all_loops", "disable")
  /\ Call(Restart, "loop")
  /\ UNCHANGED <<queueVars, fpgaVars, vm, answered, ended>>

(* test_lost_address, and revive_asics_if_one_got_reset before it          *)
GotAddr(fn) ==
  /\ In(fn, "start")
  /\ Call(Read(ADDR_INTR_BC_GOT_ADDR_NOT), "got")
  /\ UNCHANGED <<queueVars, fpgaVars, vm, answered, ended>>

ReviveGot ==
  /\ In("revive_asics", "got")
  /\ \E lost \in NonZero(Top.val) :
       /\ Fault(lost)
       /\ IF lost THEN Call(TestLostAddress, "lost") ELSE Return("none")
  /\ UNCHANGED <<queueVars, asic_serial_stack, wire, rx, vm, answered, ended>>

ReviveLost ==
  /\ In("revive_asics", "lost")
  /\ IF Top.val = "lost" THEN Call(Restart, "end") ELSE Return("none")
  /\ UNCHANGED <<queueVars, fpgaVars, vm, answered, ended>>

ReviveEnd ==
  /\ In("revive_asics", "end")
  /\ Return("none")
  /\ UNCHANGED <<queueVars, fpgaVars, vm, answered, ended>>

LostGot ==
  /\ In("test_lost_address", "got")
  /\ \E lost \in NonZero(Top.val) :
       IF lost THEN calls' = At("loop") ELSE Return("none")
  /\ UNCHANGED <<queueVars, fpgaVars, vm, answered, ended>>

LostLoop ==
  /\ In("test_lost_address", "loop")
  /\ CASE Top.n > LOOP_COUNT -> Return(IF Top.err THEN "lost" ELSE "none")
       [] Top.n \in vm.enabled -> Call(Read(ADDR_VERSION), "version")
       [] OTHER -> calls' = NextLoop
  /\ UNCHANGED <<queueVars, fpgaVars, vm, answered, ended>>

LostVersion ==
  /\ In("test_lost_address", "version")
  /\ \E there \in NonZero(Top.val) :
       /\ Top.val \in {"own", "stale"} => there
       /\ calls' = [NextLoop EXCEPT ![Depth].err = @ \/ (~there /\ Top.n \in vm.present)]
  /\ UNCHANGED <<queueVars, fpgaVars, vm, answered, ended>>
-----------------------------------------------------------------------------
(* restart_asics_full.  in_asic_reset is 1 while what there was is tested, *)
(* 2 while the loops are found and the ASICs get their addresses.          *)
RestartStart ==
  /\ In("restart_asics_full", "start")
  /\ IF vm.in_asic_reset # 0
     THEN Exit("recursive") /\ UNCHANGED vm
     ELSE /\ vm' = [vm EXCEPT !.in_asic_reset = 1, !.spi_timeout_count = 0,
                              !.corruptions_count = 0, !.asics = vm.present]
          /\ Call(Test(FALSE), "tested")
          /\ UNCHANGED ended
  /\ answered' = {}
  /\ UNCHANGED <<queueVars, fpgaVars>>

RestartTested ==
  /\ In("restart_asics_full", "tested")
  /\ \E ac2dc \in BOOLEAN :
       /\ vm' = Ac2dcErrors(vm, ac2dc) /\ Fault(ac2dc)
       /\ IF ac2dc \/ Top.val = "problem" THEN Call(Test(FALSE), "reset") ELSE calls' = At("reset")
  /\ UNCHANGED <<queueVars, asic_serial_stack, wire, rx, answered, ended>>

\* discover_good_loops_restart_12v() resets the FPGA's fifos first.
RestartReset ==
  /\ In("restart_asics_full", "reset")
  /\ vm' = [vm EXCEPT !.in_asic_reset = 2]
  /\ wire' = <<>> /\ rx' = <<>>
  /\ calls' = [At("discover") EXCEPT ![Depth].n = 1]
  /\ UNCHANGED <<queueVars, asic_serial_stack, faults, answered, ended>>

RestartDiscover ==
  /\ In("restart_asics_full", "discover")
  /\ Call(TestSerial, IF Top.n <= LOOP_COUNT THEN "discovered" ELSE "good_loops")
  /\ UNCHANGED <<queueVars, fpgaVars, vm, answered, ended>>

\* A loop that fails gets a power cycle, once, if try_12v_fix is set.
RestartDiscovered ==
  /\ In("restart_asics_full", "discovered")
  /\ \/ /\ Top.val = "good"
        /\ vm' = [vm EXCEPT !.enabled = @ \cup {Top.n}, !.present = @ \cup {Top.n}]
        /\ calls' = GoOn("discover")
     \/ /\ Top.val = "bad"
        /\ vm' = [vm EXCEPT !.enabled = @ \ {Top.n}, !.present = @ \ {Top.n}]
        /\ calls' = GoOn("discover")
     \/ /\ Top.val = "bad" /\ ~vm.tryed_power_cycle
        /\ vm' = [vm EXCEPT !.enabled = @ \ {Top.n}, !.tryed_power_cycle = TRUE]
        /\ calls' = At("reset")
  /\ UNCHANGED <<queueVars, fpgaVars, answered, ended>>

\* allocate_addresses_to_devices(): nothing has an address any more, ...
RestartGoodLoops ==
  /\ In("restart_asics_full", "good_loops")
  /\ IF vm.enabled = {}
     THEN Exit("passert")
     ELSE Call(Read(ADDR_INTR_BC_GOT_ADDR_NOT), "none") /\ UNCHANGED ended
  /\ UNCHANGED <<queueVars, fpgaVars, vm, answered>>

RestartNone ==
  /\ In("restart_asics_full", "none")
  /\ \E left \in NonZero(Top.val) :
       IF left THEN calls' = [At("loop") EXCEPT ![Depth].n = 1] /\ UNCHANGED ended
               ELSE Exit("passert")
  /\ UNCHANGED <<queueVars, fpgaVars, vm, answered>>

\* ... and loop by loop the ASICs that ask for one get theirs, ...
RestartLoop ==
  /\ In("restart_asics_full", "loop")
  /\ CASE Top.n > LOOP_COUNT -> Call(Read(ADDR_INTR_BC_GOT_ADDR_NOT), "all")
       [] Top.n \in vm.enabled -> Call(Read(ADDR_INTR_BC_GOT_ADDR_NOT), "asks")
       [] OTHER -> calls' = NextLoop
  /\ UNCHANGED <<queueVars, fpgaVars, vm, answered, ended>>

RestartAsks ==
  /\ In("restart_asics_full", "asks")
  /\ \E asks \in NonZero(Top.val) :
       /\ Fault(Top.val # "failed" /\ ~asks)
       /\ vm' = [vm EXCEPT !.present = IF asks THEN @ \cup {Top.n} ELSE @ \ {Top.n}]
  /\ Call(Read(ADDR_INTR_BC_GOT_ADDR_NOT), "given")
  /\ UNCHANGED <<queueVars, asic_serial_stack, wire, rx, answered, ended>>

RestartGiven ==
  /\ In("restart_asics_full", "given")
  /\ \E left \in NonZero(Top.val) :
       IF left THEN Exit("passert") ELSE calls' = NextLoop /\ UNCHANGED ended
  /\ UNCHANGED <<queueVars, fpgaVars, vm, answered>>

\* ... until none is left without.
RestartAll ==
  /\ In("restart_asics_full", "all")
  /\ \E left \in NonZero(Top.val) :
       IF left THEN Exit("passert") ELSE Call(TestSerial, "serial") /\ UNCHANGED ended
  /\ UNCHANGED <<queueVars, fpgaVars, vm, answered>>

\* The ASICs that were not in use before are disabled again.
RestartSerial ==
  /\ In("restart_asics_full", "serial")
  /\ CASE Top.val = "bad" -> Exit("passert") /\ UNCHANGED vm
       [] Top.val = "good" /\ vm.present \cap vm.asics = {} /\ vm.present # {} ->
            Exit("nicely") /\ UNCHANGED vm
       [] OTHER ->
            /\ vm' = [vm EXCEPT !.present = @ \cap vm.asics]
            /\ calls' = [At("conductor") EXCEPT ![Depth].n = 1]
            /\ UNCHANGED ended
  /\ UNCHANGED <<queueVars, fpgaVars, answered>>

\* The registers read while clocks and voltages are set up stay out; the last
\* one, read when all is set up, fails in the same ways.
RestartConductor ==
  /\ In("restart_asics_full", "conductor")
  /\ Call(Read(ADDR_INTR_BC_CONDUCTOR_BUSY), "busy")
  /\ UNCHANGED <<queueVars, fpgaVars, vm, answered, ended>>

\* The conductor is busy: it is polled again, but not for ever.
RestartBusy ==
  /\ In("restart_asics_full", "busy")
  /\ TRUE \in NonZero(Top.val)
  /\ Fault(TRUE)
  /\ IF Top.n > MAX_BUSY THEN Exit("nicely")
                         ELSE calls' = GoOn("conductor") /\ UNCHANGED ended
  /\ UNCHANGED <<queueVars, asic_serial_stack, wire, rx, vm, answered>>

AnyRecovered == vm.present # {}
AllRecovered == Cardinality(vm.present) >= Cardinality(vm.asics)

\* All is well only if no ASIC got lost on the way.
RestartEnd ==
  /\ In("restart_asics_full", "busy")
  /\ \E ac2dc \in BOOLEAN :
       /\ Fault(ac2dc)
       /\ vm' = [Ac2dcErrors(vm, ac2dc) EXCEPT !.did_asic_reset = TRUE, !.in_asic_reset = 0]
  /\ IF AllRecovered THEN Return("none") /\ UNCHANGED ended ELSE Exit("nicely")
  /\ UNCHANGED <<queueVars, asic_serial_stack, wire, rx, answered>>
-----------------------------------------------------------------------------
(* A task of the RT thread: it queues its reads, sends them and uses the   *)
(* results.  The next one starts with did_asic_reset cleared, and every    *)
(* three hours the counters are.                                           *)
Begin ==
  /\ ended = "no" /\ calls = <<>>
  /\ calls' = <<Frame("task")>>
  /\ \/ UNCHANGED vm
     \/ vm' = [vm EXCEPT !.spi_timeout_count = 0, !.corruptions_count = 0,
                         !.tryed_power_cycle = FALSE]
  /\ UNCHANGED <<queueVars, fpgaVars, answered, ended>>

Old(replies) == [i \in DOMAIN replies |-> [replies[i] EXCEPT !.fresh = FALSE]]

TaskWait ==
  /\ In("task", "start") /\ ~Pushing
  /\ Call(Wait, "done")
  /\ UNCHANGED <<queueVars, fpgaVars, vm, answered, ended>>

\* What is told at the end of a wait, for room or for the last reads: that it failed,
\* or that the ASICs were reset.
WasTold == Top.val = "error" \/ vm.did_asic_reset

\* What nothing reads again before it is written is forgotten.
TaskDone ==
  /\ In("task", "done")
  /\ calls' = <<>>
  /\ cmd_queue' = EmptyQueue
  /\ answered' = {}
  /\ vm' = [vm EXCEPT !.asics = {}, !.did_asic_reset = FALSE]
  /\ rx' = Old(rx) /\ wire' = Old(wire) /\ UNCHANGED faults
  /\ UNCHANGED <<current_cmd_queue_ptr, current_cmd_hw_queue_ptr, asic_serial_stack, ended>>

Gone == ended # "no" /\ UNCHANGED vars

TaskStep ==
  \/ Begin \/ TaskWait \/ TaskDone \/ ReadAtOnce
  \/ \E fn \in Readers : PushWait(fn) \/ PushGarbage(fn) \/ PushRead(fn)
WaitStep ==
  \/ WaitFlush \/ WaitDone \/ WaitSlot \/ WaitTested \/ WaitTake \/ WaitDeliver \/ WaitError
  \/ ReadDone
TestStep ==
  \/ TestSerialDrain \/ TestSerialVersion
  \/ TestStart \/ TestLoop \/ TestEnd \/ TestLoopTested \/ TestDisable
  \/ \E fn \in {"test_lost_address", "revive_asics"} : GotAddr(fn)
  \/ ReviveGot \/ ReviveLost \/ ReviveEnd \/ LostGot \/ LostLoop \/ LostVersion
RestartStep ==
  \/ RestartStart \/ RestartTested \/ RestartReset \/ RestartDiscover \/ RestartDiscovered
  \/ RestartGoodLoops \/ RestartNone \/ RestartLoop \/ RestartAsks \/ RestartGiven
  \/ RestartAll \/ RestartSerial \/ RestartConductor \/ RestartBusy \/ RestartEnd
Running == TaskStep \/ WaitStep \/ TestStep \/ RestartStep

Next == Running \/ Arrive \/ Gone

(* The RT thread goes on with what it is doing.  Its clock makes it begin  *)
(* tasks; nothing here asks that it does.                                  *)
Spec == Init /\ [][Next]_vars /\ WF_vars(Running /\ calls # <<>>)
-----------------------------------------------------------------------------
Functions == {"task", "read_reg_asic", "squid_wait_asic_reads", "test_all_loops", "test_serial",
              "test_lost_address", "revive_asics", "restart_asics_full"}

TypeOK ==
  /\ current_cmd_queue_ptr \in Slots /\ current_cmd_hw_queue_ptr \in 0 .. current_cmd_queue_ptr
  /\ Len(asic_serial_stack) <= current_cmd_queue_ptr
  /\ vm.in_asic_reset \in 0 .. 2
  /\ vm.spi_timeout_count \in 0 .. MAX_TIMEOUTS
  /\ vm.corruptions_count \in 0 .. MAX_CORRUPTIONS + 1
  /\ vm.bad_loop_count \in [Loops -> 0 .. MAX_LOOP_FAIL]
  /\ vm.enabled \subseteq Loops /\ vm.present \subseteq Loops /\ vm.asics \subseteq Loops
  /\ \A d \in 1 .. Depth : calls[d].fn \in Functions /\ (calls[d].fn = "task") = (d = 1)
  /\ answered \subseteq Regs
  /\ ended \in {"no", "queue", "recursive", "passert", "nicely"}

Idle == calls = <<>> /\ ended = "no"

(* Between two tasks failed reads are reported again: test_serial clears   *)
(* assert_serial_failures, a test that fails leaves it cleared, and no     *)
(* path through the tests and resets ends a task like that.                *)
FailuresAreReported == Idle => vm.assert_serial_failures

(* The reads made for a failed read use the queue it is in: still neither  *)
(* an overrun nor pointers in disorder trip the assertions of              *)
(* push_asic_read and fpga_queue_status, and a task leaves nothing queued. *)
QueueIsSound ==
  /\ ended # "queue"
  /\ Idle => current_cmd_queue_ptr = 0 /\ asic_serial_stack = <<>>

\* The reads queued since the last time there was no room.
Awaited == {r \in Regs : r < Top.n /\ (r - 1) \div PushLimit = (Top.n - 2) \div PushLimit}
WaitIsOver == In("task", "room") \/ In("task", "done")

(* A wait that reports no failure, and that no reset interrupted, has got  *)
(* the answers to the very reads it was for: not those to reads given up   *)
(* earlier, and none is missing.  So of each wait by itself: a task that   *)
(* goes by its last wait does not know of the others, whose reports        *)
(* push_asic_read drops.                                                   *)
OkMeansRead == WaitIsOver /\ ~WasTold => Awaited \subseteq answered

(* A task ends, or the process does: the tests, the search for lost ASICs  *)
(* and the resets that failed reads lead to read registers themselves, and *)
(* do not keep one another going.                                          *)
TaskEnds == calls # <<>> ~> (calls = <<>> \/ ended # "no")
=============================================================================
