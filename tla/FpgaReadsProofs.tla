-------------------------- MODULE FpgaReadsProofs --------------------------
(***************************************************************************)
(* Proofs about the queue of register reads, for every size of it, every   *)
(* number of loops and whatever becomes of the replies: the calls that     *)
(* work on the queue while a wait is working on it leave it in order       *)
(* (QInv), where they clear assert_serial_failures one of them sets it     *)
(* again or ends the process (RInv), and the counters of vm, the calls and *)
(* the answers stay within their bounds (CInv, NInv, AInv).                *)
(***************************************************************************)
EXTENDS FpgaReads, SequenceTheorems, FiniteSetTheorems, TLAPS

Pcs ==
  {"start", "room", "done", "loop", "take", "tested", "deliver", "error", "version", "disable",
   "got", "lost", "end", "reset", "discover", "discovered", "good_loops", "none", "asks",
   "given", "all", "serial", "conductor", "busy"}

Results ==
  {"unwritten", "none", "failed", "own", "stale", "ok", "error", "good", "bad", "problem",
   "fine", "lost"}

Frames ==
  [fn : Functions, pc : Pcs, n : Int, err : BOOLEAN, flag : BOOLEAN, reg : Int,
   value : Results, val : Results]

(* Functions that leave the queue empty when they return, ...              *)
Settling == {"read_reg_asic", "squid_wait_asic_reads", "test_lost_address", "revive_asics",
             "restart_asics_full"}

(* ... the places where the queue is empty as one of them has returned, ... *)
SettledPlaces ==
  {<<"task", "room">>, <<"task", "done">>, <<"read_reg_asic", "room">>,
   <<"read_reg_asic", "done">>, <<"squid_wait_asic_reads", "error">>,
   <<"revive_asics", "got">>, <<"revive_asics", "lost">>, <<"revive_asics", "end">>,
   <<"test_lost_address", "got">>, <<"test_lost_address", "loop">>,
   <<"test_lost_address", "version">>, <<"restart_asics_full", "busy">>}

(* ... and those where the last reply was taken and the pointers are not   *)
(* reset yet: by the wait itself or by the test of the loops.              *)
TakenPlaces ==
  {<<"squid_wait_asic_reads", "take">>, <<"squid_wait_asic_reads", "tested">>,
   <<"squid_wait_asic_reads", "deliver">>, <<"test_all_loops", "start">>,
   <<"restart_asics_full", "start">>}

Settled(f)   == <<f.fn, f.pc>> \in SettledPlaces
LastTaken(f) == <<f.fn, f.pc>> \in TakenPlaces

(* A task at the bottom; a place that counts on an empty queue has called  *)
(* what leaves it empty.                                                   *)
Linked(c) ==
  /\ c \in Seq(Frames)
  /\ \A d \in 1 .. Len(c) : (c[d].fn = "task") = (d = 1)
  /\ \A d \in 1 .. Len(c) - 1 : Settled(c[d]) => c[d + 1].fn \in Settling

WithTop(c, f) == [c EXCEPT ![Len(c)] = f]

(* The pointers are in order, the last one in the room that is kept.       *)
Pointers ==
  /\ current_cmd_queue_ptr \in 0 .. PushLimit
  /\ current_cmd_hw_queue_ptr \in 0 .. current_cmd_queue_ptr
  /\ asic_serial_stack \in Seq(Int)
  /\ Len(asic_serial_stack) <= current_cmd_queue_ptr

(* Only a task has reads that are not sent, until its wait sends them.     *)
IsFlush(f) == f.fn = "squid_wait_asic_reads" /\ f.pc = "start"
Sending(c) == Len(c) = 1 \/ (Len(c) = 2 /\ IsFlush(c[2]))

Places ==
  IF calls = <<>> THEN current_cmd_queue_ptr = 0
  ELSE /\ Settled(Top) => current_cmd_queue_ptr = 0
       /\ current_cmd_hw_queue_ptr = current_cmd_queue_ptr
            => current_cmd_queue_ptr = 0 \/ LastTaken(Top)
       /\ asic_serial_stack # <<>> => Sending(calls)

QInv == Linked(calls) /\ Pointers /\ Places /\ ended # "queue"
-----------------------------------------------------------------------------
(* The calls.                                                              *)

(* The running frame goes on.                                              *)
LEMMA WithTopIs ==
  ASSUME NEW c, Linked(c), c # <<>>, NEW g \in Frames, g.fn = c[Len(c)].fn
  PROVE  /\ Linked(WithTop(c, g)) /\ WithTop(c, g) # <<>>
         /\ Len(WithTop(c, g)) = Len(c) /\ WithTop(c, g)[Len(c)] = g
<1> DEFINE w == WithTop(c, g)
<1>1. c \in Seq(Frames) /\ Len(c) \in 1 .. Len(c)
  BY DEF Linked
<1>2. w \in Seq(Frames) /\ Len(w) = Len(c)
  BY <1>1 DEF WithTop
<1>3. \A d \in 1 .. Len(c) : w[d] = IF d = Len(c) THEN g ELSE c[d]
  BY <1>1 DEF WithTop
<1> HIDE DEF w
<1>4. \A d \in 1 .. Len(w) : (w[d].fn = "task") = (d = 1)
  BY <1>1, <1>2, <1>3 DEF Linked
<1>5. ASSUME NEW d \in 1 .. Len(w) - 1, Settled(w[d])
      PROVE  w[d + 1].fn \in Settling
  <2>1. d \in 1 .. Len(c) - 1 /\ d + 1 \in 1 .. Len(c) /\ d # Len(c)
    BY <1>1, <1>2
  <2>2. c[d + 1].fn \in Settling
    BY <1>3, <1>5, <2>1 DEF Linked
  <2> QED
    BY <1>3, <2>1, <2>2
<1>6. w # <<>> /\ w[Len(c)] = g
  BY <1>1, <1>2, <1>3
<1> QED
  BY <1>2, <1>4, <1>5, <1>6 DEF Linked, w

(* It calls another.                                                       *)
LEMMA AppendIs ==
  ASSUME NEW c, Linked(c), c # <<>>, NEW f \in Frames, f.fn # "task",
         Settled(c[Len(c)]) => f.fn \in Settling
  PROVE  /\ Linked(Append(c, f)) /\ Append(c, f) # <<>>
         /\ Len(Append(c, f)) = Len(c) + 1 /\ Append(c, f)[Len(c) + 1] = f
<1> DEFINE w == Append(c, f)
<1>1. c \in Seq(Frames) /\ Len(c) \in 1 .. Len(c)
  BY DEF Linked
<1>2. w \in Seq(Frames) /\ Len(w) = Len(c) + 1 /\ w # <<>>
  BY <1>1
<1>3. \A d \in 1 .. Len(w) : w[d] = IF d = Len(c) + 1 THEN f ELSE c[d]
  BY <1>1
<1> HIDE DEF w
<1>4. \A d \in 1 .. Len(w) : (w[d].fn = "task") = (d = 1)
  BY <1>1, <1>2, <1>3 DEF Linked
<1>5. ASSUME NEW d \in 1 .. Len(w) - 1, Settled(w[d])
      PROVE  w[d + 1].fn \in Settling
  <2>1. CASE d = Len(c)
    BY <1>1, <1>2, <1>3, <1>5, <2>1
  <2>2. CASE d # Len(c)
    <3>1. d \in 1 .. Len(c) - 1 /\ d + 1 \in 1 .. Len(c)
      BY <1>1, <1>2, <2>2
    <3>2. c[d + 1].fn \in Settling
      BY <1>2, <1>3, <1>5, <3>1 DEF Linked
    <3> QED
      BY <1>2, <1>3, <3>1, <3>2
  <2> QED
    BY <2>1, <2>2
<1> QED
  BY <1>1, <1>2, <1>3, <1>4, <1>5 DEF Linked, w

(* It returns.                                                             *)
LEMMA ReturnIs ==
  ASSUME NEW c, Linked(c), c # <<>>, c[Len(c)].fn # "task", NEW v \in Results,
         NEW w, w = [SubSeq(c, 1, Len(c) - 1) EXCEPT ![Len(c) - 1].val = v]
  PROVE  /\ Linked(w) /\ w # <<>> /\ Len(w) = Len(c) - 1
         /\ Settled(w[Len(w)]) => c[Len(c)].fn \in Settling
<1> DEFINE s == SubSeq(c, 1, Len(c) - 1)
           g == [s[Len(c) - 1] EXCEPT !.val = v]
<1>1. c \in Seq(Frames) /\ Len(c) \in Nat /\ Len(c) >= 2
  <2>1. c \in Seq(Frames) /\ Len(c) \in 1 .. Len(c)
    BY DEF Linked
  <2> QED
    BY <2>1 DEF Linked
<1>2. s \in Seq(Frames) /\ Len(s) = Len(c) - 1 /\ \A d \in 1 .. Len(s) : s[d] = c[d]
  BY <1>1
<1>3. w = [s EXCEPT ![Len(c) - 1] = g]
  OBVIOUS
<1> HIDE DEF s
<1>4. g \in Frames /\ g.fn = s[Len(c) - 1].fn /\ g.pc = s[Len(c) - 1].pc
  <2>1. Len(c) - 1 \in 1 .. Len(s)
    BY <1>1, <1>2
  <2>2. s[Len(c) - 1] \in Frames
    BY <1>2, <2>1
  <2> QED
    BY <2>2 DEF Frames
<1>5. Linked(s) /\ s # <<>> /\ Len(s) \in Nat
  <2>1. \A d \in 1 .. Len(s) : (s[d].fn = "task") = (d = 1)
    BY <1>1, <1>2 DEF Linked
  <2>2. ASSUME NEW d \in 1 .. Len(s) - 1, Settled(s[d])
        PROVE  s[d + 1].fn \in Settling
    <3>1. d \in 1 .. Len(c) - 1 /\ d \in 1 .. Len(s) /\ d + 1 \in 1 .. Len(s)
      BY <1>1, <1>2
    <3>2. Settled(c[d]) /\ s[d + 1] = c[d + 1]
      BY <1>2, <2>2, <3>1
    <3> QED
      BY <3>1, <3>2 DEF Linked
  <2> QED
    BY <1>1, <1>2, <2>1, <2>2 DEF Linked
<1>6. w = WithTop(s, g)
  BY <1>2, <1>3 DEF WithTop
<1> HIDE DEF g
<1>7. Linked(w) /\ w # <<>> /\ Len(w) = Len(c) - 1 /\ w[Len(w)] = g
  <2>1. g.fn = s[Len(s)].fn
    BY <1>2, <1>4
  <2>2. /\ Linked(WithTop(s, g)) /\ WithTop(s, g) # <<>>
        /\ Len(WithTop(s, g)) = Len(s) /\ WithTop(s, g)[Len(s)] = g
    BY <1>4, <1>5, <2>1, WithTopIs
  <2> QED
    BY <1>2, <1>6, <2>2
<1>8. Settled(g) => Settled(c[Len(c) - 1])
  <2>1. g.fn = c[Len(c) - 1].fn /\ g.pc = c[Len(c) - 1].pc
    BY <1>1, <1>2, <1>4
  <2> QED
    BY <2>1 DEF Settled
<1>9. Settled(c[Len(c) - 1]) => c[Len(c)].fn \in Settling
  <2>1. Len(c) - 1 \in 1 .. Len(c) - 1 /\ (Len(c) - 1) + 1 = Len(c)
    BY <1>1
  <2> QED
    BY <2>1 DEF Linked
<1> QED
  BY <1>7, <1>8, <1>9

-----------------------------------------------------------------------------
(* The steps.                                                              *)

Facts ==
  /\ Linked(calls) /\ calls # <<>> /\ Depth \in Nat /\ Depth >= 1
  /\ Top \in Frames /\ (Top.fn = "task") = (Depth = 1)

(* A function is running.                                                  *)
LEMMA InFacts ==
  ASSUME QInv, calls # <<>>
  PROVE  Facts
<1>1. calls \in Seq(Frames) /\ Depth \in Nat /\ Depth >= 1
  BY DEF QInv, Linked, Depth
<1>2. Linked(calls) /\ Depth \in 1 .. Len(calls)
  BY <1>1 DEF QInv, Depth
<1>3. Top \in Frames /\ (Top.fn = "task") = (Depth = 1)
  BY <1>1, <1>2 DEF Linked, Top
<1> QED
  BY <1>1, <1>2, <1>3 DEF Facts

(* What a step starts from: the calls, perhaps with a result delivered.    *)
Base(c) == Linked(c) /\ c # <<>> /\ Len(c) = Depth /\ c[Depth] = Top

(* The calls themselves, with nothing else changed, are such a stack.      *)
LEMMA CallsAreBase ==
  ASSUME Facts
  PROVE  Base(calls)
  BY DEF Facts, Base, Depth, Top

(* The running frame goes on, as g.                                        *)
LEMMA StayStep ==
  ASSUME QInv, Facts, NEW c, Base(c), NEW g \in Frames, g.fn = Top.fn, calls' = WithTop(c, g),
         Pointers', ended' # "queue",
         Settled(g) => current_cmd_queue_ptr' = 0,
         current_cmd_hw_queue_ptr' = current_cmd_queue_ptr'
           => current_cmd_queue_ptr' = 0 \/ LastTaken(g),
         asic_serial_stack' # <<>> => Depth = 1
  PROVE  QInv'
<1>1. /\ Linked(calls') /\ calls' # <<>> /\ Len(calls') = Depth /\ calls'[Depth] = g
  BY WithTopIs DEF Base
<1>2. Top' = g
  BY <1>1 DEF Top, Depth
<1> QED
  BY <1>1, <1>2 DEF QInv, Places, Sending, Depth

(* It calls f, to go on as g.                                              *)
LEMMA CallStep ==
  ASSUME QInv, Facts, NEW c, Base(c), NEW g \in Frames, g.fn = Top.fn,
         NEW f \in Frames, f.fn # "task", calls' = Append(WithTop(c, g), f),
         Settled(g) => f.fn \in Settling, ~Settled(f),
         Pointers', ended' # "queue",
         current_cmd_hw_queue_ptr' = current_cmd_queue_ptr'
           => current_cmd_queue_ptr' = 0 \/ LastTaken(f),
         asic_serial_stack' # <<>> => Depth = 1 /\ IsFlush(f)
  PROVE  QInv'
<1> DEFINE w == WithTop(c, g)
<1>1. Linked(w) /\ w # <<>> /\ Len(w) = Depth /\ w[Depth] = g
  BY WithTopIs DEF Base
<1>2. calls' = Append(w, f)
  OBVIOUS
<1> HIDE DEF w
<1>3. Settled(w[Len(w)]) => f.fn \in Settling
  BY <1>1
<1>4. /\ Linked(Append(w, f)) /\ Append(w, f) # <<>>
      /\ Len(Append(w, f)) = Len(w) + 1 /\ Append(w, f)[Len(w) + 1] = f
  BY <1>1, <1>3, AppendIs
<1>5. Linked(calls') /\ calls' # <<>> /\ Len(calls') = Depth + 1 /\ calls'[Depth + 1] = f
  BY <1>1, <1>2, <1>4
<1>6. Top' = f
  BY <1>5 DEF Top, Depth
<1>7. Depth = 1 => Len(calls') = 2 /\ calls'[2] = f
  BY <1>5
<1> QED
  BY <1>5, <1>6, <1>7 DEF QInv, Places, Sending

(* It returns: if the caller counts on it, the queue is empty.             *)
LEMMA ReturnStep ==
  ASSUME QInv, Facts, Top.fn # "task", NEW v \in Results, Return(v),
         Top.fn \in Settling => current_cmd_queue_ptr = 0,
         current_cmd_hw_queue_ptr = current_cmd_queue_ptr => current_cmd_queue_ptr = 0,
         asic_serial_stack = <<>>,
         UNCHANGED <<current_cmd_queue_ptr, current_cmd_hw_queue_ptr, asic_serial_stack, ended>>
  PROVE  QInv'
<1>1. calls' = [SubSeq(calls, 1, Depth - 1) EXCEPT ![Depth - 1].val = v]
  BY DEF Return
<1>2. /\ Linked(calls') /\ calls' # <<>> /\ Len(calls') = Depth - 1
      /\ Settled(calls'[Len(calls')]) => Top.fn \in Settling
  BY <1>1, ReturnIs DEF Facts, Top, Depth
<1>3. Pointers'
  BY DEF QInv, Pointers
<1> QED
  BY <1>2, <1>3 DEF QInv, Places, Top, Depth

(* The running frame goes on at q, by itself or when f has returned.       *)
GoesTo(q) ==
  \E g \in Frames : g.fn = Top.fn /\ g.pc = q /\ calls' = WithTop(calls, g)

Calls(f, q) ==
  \E g \in Frames :
    g.fn = Top.fn /\ g.pc = q /\ calls' = Append(WithTop(calls, g), f)

(* Most steps leave the queue alone.                                       *)
Quiet == UNCHANGED <<queueVars, asic_serial_stack>> /\ ended' # "queue"

(* A step that leaves the queue alone keeps the order of the pointers.     *)
LEMMA QuietFacts ==
  ASSUME QInv, NEW fn, NEW p, In(fn, p), <<fn, p>> # <<"squid_wait_asic_reads", "start">>,
         Quiet
  PROVE  /\ Facts /\ Top.fn = fn /\ Top.pc = p /\ Pointers'
         /\ current_cmd_queue_ptr' = current_cmd_queue_ptr
         /\ current_cmd_hw_queue_ptr' = current_cmd_hw_queue_ptr
         /\ fn # "task" => asic_serial_stack = <<>> /\ asic_serial_stack' = <<>>
<1>1. Facts /\ Top.fn = fn /\ Top.pc = p
  BY InFacts DEF In
<1>2. Pointers'
  BY DEF QInv, Quiet, Pointers, queueVars
<1>3. Sending(calls) => fn = "task"
  <2>1. CASE Depth = 1
    BY <1>1, <2>1 DEF Facts
  <2>2. CASE Depth = 2 /\ IsFlush(calls[2])
    BY <1>1, <2>2 DEF IsFlush, Top
  <2> QED
    BY <2>1, <2>2 DEF Sending, Depth
<1>4. fn # "task" => asic_serial_stack = <<>>
  BY <1>1, <1>3 DEF QInv, Places, Facts
<1> QED
  BY <1>1, <1>2, <1>4 DEF Quiet, queueVars

(* The running frame goes on, the process ends, a function is called, it   *)
(* returns.                                                                *)
LEMMA ExitQuiet ==
  ASSUME QInv, UNCHANGED calls, Quiet
  PROVE  QInv'
  BY DEF QInv, Quiet, queueVars, Pointers, Places, Top, Depth

(* A call made by a step that leaves the queue alone.                      *)
LEMMA CallQuiet ==
  ASSUME QInv, NEW fn, NEW p, In(fn, p), fn # "task",
         <<fn, p>> # <<"squid_wait_asic_reads", "start">>, Quiet,
         NEW f \in Frames, f.fn # "task", NEW q, Calls(f, q),
         <<fn, q>> \in SettledPlaces => f.fn \in Settling, ~Settled(f),
         <<fn, p>> \in TakenPlaces => LastTaken(f)
  PROVE  QInv'
<1>1. /\ Facts /\ Top.fn = fn /\ Top.pc = p /\ Pointers' /\ asic_serial_stack' = <<>>
      /\ current_cmd_queue_ptr' = current_cmd_queue_ptr
      /\ current_cmd_hw_queue_ptr' = current_cmd_hw_queue_ptr
  BY QuietFacts
<1>2. PICK g \in Frames :
        g.fn = fn /\ g.pc = q /\ calls' = Append(WithTop(calls, g), f)
  BY <1>1 DEF Calls
<1>3. Settled(g) => f.fn \in Settling
  BY <1>2 DEF Settled
<1>4. current_cmd_hw_queue_ptr' = current_cmd_queue_ptr'
        => current_cmd_queue_ptr' = 0 \/ LastTaken(f)
  BY <1>1 DEF QInv, Places, Facts, LastTaken
<1> QED
  BY <1>1, <1>2, <1>3, <1>4, CallStep, CallsAreBase DEF Quiet

(* A return made by a step that leaves the queue alone.                    *)
LEMMA ReturnQuiet ==
  ASSUME QInv, NEW fn, NEW p, In(fn, p), fn # "task",
         <<fn, p>> # <<"squid_wait_asic_reads", "start">>, Quiet, UNCHANGED ended,
         NEW v \in Results, Return(v),
         fn \in Settling => <<fn, p>> \in SettledPlaces, <<fn, p>> \notin TakenPlaces
  PROVE  QInv'
<1>1. Facts /\ Top.fn = fn /\ Top.pc = p /\ asic_serial_stack = <<>>
  BY QuietFacts
<1>2. /\ Top.fn \in Settling => current_cmd_queue_ptr = 0
      /\ current_cmd_hw_queue_ptr = current_cmd_queue_ptr => current_cmd_queue_ptr = 0
  BY <1>1 DEF QInv, Places, Facts, Settled, LastTaken
<1> QED
  BY <1>1, <1>2, ReturnStep DEF Quiet, queueVars

(* The frames of the calls.                                                *)
LEMMA FrameIs ==
  \A fn \in Functions : Frame(fn) \in Frames /\ Frame(fn).fn = fn /\ Frame(fn).pc = "start"
<1>1. ASSUME NEW fn \in Functions
      PROVE  Frame(fn) \in Frames
  <2>1. 1 \in Int /\ Corrupted \in Int /\ FALSE \in BOOLEAN
    BY DEF Corrupted
  <2>2. "start" \in Pcs /\ "unwritten" \in Results /\ "none" \in Results
    BY DEF Pcs, Results
  <2> QED
    BY <1>1, <2>1, <2>2, Zenon DEF Frames, Frame
<1> QED
  BY <1>1 DEF Frame

(* The frame a task begins with.                                           *)
LEMMA TaskFrame ==
  Frame("task") \in Frames /\ Frame("task").fn = "task" /\ Frame("task").pc = "start"
<1>1. "task" \in Functions
  BY DEF Functions
<1> QED
  BY <1>1, FrameIs

(* The frames the calls are made with.                                     *)
LEMMA FramesMade ==
  /\ \A r \in Int : /\ Read(r) \in Frames /\ Read(r).fn = "read_reg_asic"
                     /\ Read(r).pc = "start"
  /\ \A b \in BOOLEAN : /\ Test(b) \in Frames /\ Test(b).fn = "test_all_loops"
                         /\ Test(b).pc = "start"
  /\ Wait \in Frames /\ Wait.fn = "squid_wait_asic_reads" /\ Wait.pc = "start"
  /\ TestSerial \in Frames /\ TestSerial.fn = "test_serial" /\ TestSerial.pc = "start"
  /\ /\ TestLostAddress \in Frames /\ TestLostAddress.fn = "test_lost_address"
     /\ TestLostAddress.pc = "start"
  /\ Revive \in Frames /\ Revive.fn = "revive_asics" /\ Revive.pc = "start"
  /\ Restart \in Frames /\ Restart.fn = "restart_asics_full" /\ Restart.pc = "start"
<1>1. \A fn \in Functions : Frame(fn) \in Frames /\ Frame(fn).fn = fn /\ Frame(fn).pc = "start"
  BY FrameIs
<1>2. {"read_reg_asic", "test_all_loops", "squid_wait_asic_reads", "test_serial",
       "test_lost_address", "revive_asics", "restart_asics_full"} \subseteq Functions
  BY DEF Functions
<1>3. ASSUME NEW r \in Int
      PROVE  Read(r) \in Frames /\ Read(r).fn = "read_reg_asic" /\ Read(r).pc = "start"
  BY <1>1, <1>2 DEF Read, Frames
<1>4. ASSUME NEW b \in BOOLEAN
      PROVE  Test(b) \in Frames /\ Test(b).fn = "test_all_loops" /\ Test(b).pc = "start"
  BY <1>1, <1>2 DEF Test, Frames
<1> QED
  BY <1>1, <1>2, <1>3, <1>4 DEF Wait, TestSerial, TestLostAddress, Revive, Restart

(* The registers that are read.                                            *)
LEMMA RegsAreInts ==
  /\ ADDR_VERSION \in Int /\ ADDR_INTR_BC_GOT_ADDR_NOT \in Int
  /\ ADDR_INTR_BC_CONDUCTOR_BUSY \in Int
  BY FpgaAssumption DEF ADDR_VERSION, ADDR_INTR_BC_GOT_ADDR_NOT, ADDR_INTR_BC_CONDUCTOR_BUSY

(* The running frame as it goes on.                                        *)
LEMMA GoingOn ==
  ASSUME Facts, NEW q \in Pcs
  PROVE  /\ \E g \in Frames : /\ g.fn = Top.fn /\ g.pc = q
                              /\ At(q) = WithTop(calls, g)
         /\ \E g \in Frames : /\ g.fn = Top.fn /\ g.pc = q
                              /\ GoOn(q) = WithTop(calls, g)
<1> DEFINE g == [Top EXCEPT !.pc = q]
           h == [Top EXCEPT !.pc = q, !.n = @ + 1]
<1>1. g \in Frames /\ g.fn = Top.fn /\ g.pc = q
  BY DEF Facts, Frames
<1>2. h \in Frames /\ h.fn = Top.fn /\ h.pc = q
  <2>1. Top \in Frames /\ Top.n + 1 \in Int
    BY DEF Facts, Frames
  <2> QED
    BY <2>1 DEF Frames
<1>3. At(q) = WithTop(calls, g)
  BY DEF At, WithTop, Top, Depth
<1>4. GoOn(q) = WithTop(calls, h)
  <2>1. GoOn(q) = [calls EXCEPT ![Depth] = h]
    BY Zenon DEF GoOn, Top
  <2> HIDE DEF h
  <2> QED
    BY <2>1 DEF WithTop, Depth
<1> QED
  BY <1>1, <1>2, <1>3, <1>4

(* The ways the actions put it.                                            *)
LEMMA CallIs ==
  ASSUME Facts, NEW q \in Pcs, NEW f, Call(f, q)
  PROVE  Calls(f, q)
  BY GoingOn DEF Call, Calls

(* The running frame changes twice.                                        *)
LEMMA TopTwice ==
  ASSUME Facts, NEW g
  PROVE  LET w == WithTop(calls, g) IN
         \A h : [w EXCEPT ![Depth] = h] = WithTop(calls, h) /\ w[Depth] = g
<1> DEFINE w == WithTop(calls, g)
<1>1. calls \in Seq(Frames) /\ Depth \in 1 .. Depth /\ Len(calls) = Depth
  BY DEF Facts, Linked, Depth
<1>2. \A h : [w EXCEPT ![Depth] = h] = WithTop(calls, h) /\ w[Depth] = g
  <2>1. DOMAIN calls = 1 .. Depth /\ calls = [d \in 1 .. Depth |-> calls[d]]
    BY <1>1
  <2>2. \A h : WithTop(calls, h) = [d \in 1 .. Depth |-> IF d = Depth THEN h ELSE calls[d]]
    BY <1>1, <2>1 DEF WithTop
  <2>3. w = [d \in 1 .. Depth |-> IF d = Depth THEN g ELSE calls[d]]
    BY <2>2
  <2> HIDE DEF w
  <2>4. \A h : [w EXCEPT ![Depth] = h] = [d \in 1 .. Depth |-> IF d = Depth THEN h ELSE calls[d]]
    BY <1>1, <2>3
  <2> QED
    BY <1>1, <2>2, <2>3, <2>4
<1> QED
  BY <1>2

(* The ways the code goes on in its own frame, with a local or without.    *)
LEMMA AtIs ==
  ASSUME Facts, NEW q \in Pcs,
         \/ calls' = At(q) \/ calls' = GoOn(q)
         \/ \E b \in BOOLEAN : \/ calls' = [At(q) EXCEPT ![Depth].err = b]
                               \/ calls' = [GoOn(q) EXCEPT ![Depth].err = b]
         \/ \E n \in Int : calls' = [At(q) EXCEPT ![Depth].n = n]
         \/ \E r \in Results : calls' = [At(q) EXCEPT ![Depth].value = r]
  PROVE  GoesTo(q)
<1>1. CASE calls' = At(q) \/ calls' = GoOn(q)
  BY <1>1, GoingOn DEF GoesTo
<1> SUFFICES ASSUME ~(calls' = At(q) \/ calls' = GoOn(q))
             PROVE  GoesTo(q)
  BY <1>1
<1>2. PICK g \in Frames :
        /\ g.fn = Top.fn /\ g.pc = q
        /\ LET w == WithTop(calls, g) IN
           \/ \E b \in BOOLEAN : calls' = [w EXCEPT ![Depth].err = b]
           \/ \E n \in Int : calls' = [w EXCEPT ![Depth].n = n]
           \/ \E r \in Results : calls' = [w EXCEPT ![Depth].value = r]
  BY GoingOn
<1> DEFINE w == WithTop(calls, g)
<1>4. \A h : [w EXCEPT ![Depth] = h] = WithTop(calls, h) /\ w[Depth] = g
  BY TopTwice
<1> HIDE DEF w
<1>5. CASE \E b \in BOOLEAN : calls' = [w EXCEPT ![Depth].err = b]
  <2>1. PICK b \in BOOLEAN : calls' = [w EXCEPT ![Depth].err = b]
    BY <1>5
  <2> DEFINE h == [g EXCEPT !.err = b]
  <2>2. h \in Frames /\ h.fn = g.fn /\ h.pc = g.pc
    BY DEF Frames
  <2>3. calls' = [w EXCEPT ![Depth] = h]
    BY <1>4, <2>1
  <2> HIDE DEF h
  <2> QED
    BY <1>2, <1>4, <2>2, <2>3 DEF GoesTo
<1>6. CASE \E n \in Int : calls' = [w EXCEPT ![Depth].n = n]
  <2>1. PICK n \in Int : calls' = [w EXCEPT ![Depth].n = n]
    BY <1>6
  <2> DEFINE h == [g EXCEPT !.n = n]
  <2>2. h \in Frames /\ h.fn = g.fn /\ h.pc = g.pc
    BY DEF Frames
  <2>3. calls' = [w EXCEPT ![Depth] = h]
    BY <1>4, <2>1
  <2> HIDE DEF h
  <2> QED
    BY <1>2, <1>4, <2>2, <2>3 DEF GoesTo
<1>7. CASE \E r \in Results : calls' = [w EXCEPT ![Depth].value = r]
  <2>1. PICK r \in Results : calls' = [w EXCEPT ![Depth].value = r]
    BY <1>7
  <2> DEFINE h == [g EXCEPT !.value = r]
  <2>2. h \in Frames /\ h.fn = g.fn /\ h.pc = g.pc
    BY DEF Frames
  <2>3. calls' = [w EXCEPT ![Depth] = h]
    BY <1>4, <2>1
  <2> HIDE DEF h
  <2> QED
    BY <1>2, <1>4, <2>2, <2>3 DEF GoesTo
<1> QED
  BY <1>2, <1>5, <1>6, <1>7 DEF w

(* A loop is given up: the search for a lost address is called.            *)
GivesUp ==
  calls' = Append([[NextLoop EXCEPT ![Depth].err = TRUE] EXCEPT ![Depth].pc = "disable"],
                  TestLostAddress)

(* A loop is given up: the frame goes on, and calls for what disables it.  *)
LEMMA GivesUpIs ==
  ASSUME Facts, GivesUp
  PROVE  Calls(TestLostAddress, "disable")
<1> DEFINE g == [Top EXCEPT !.pc = "loop", !.n = Top.n + 1]
           h == [g EXCEPT !.err = TRUE]
           k == [h EXCEPT !.pc = "disable"]
           w == WithTop(calls, g)
<1>1. g \in Frames /\ g.fn = Top.fn
  <2>1. Top \in Frames /\ Top.n + 1 \in Int /\ "loop" \in Pcs
    BY DEF Facts, Frames, Pcs
  <2> QED
    BY <2>1 DEF Frames
<1>2. NextLoop = w
  BY DEF NextLoop, GoOn, WithTop, Depth
<1> HIDE DEF g
<1>3. h \in Frames /\ h.fn = Top.fn
  BY <1>1 DEF Frames
<1> HIDE DEF h
<1>4. k \in Frames /\ k.fn = Top.fn /\ k.pc = "disable"
  BY <1>3 DEF Frames, Pcs
<1>5. calls' = Append(WithTop(calls, k), TestLostAddress)
  <2> DEFINE u == WithTop(calls, h)
  <2>1. [w EXCEPT ![Depth].err = TRUE] = u
    BY TopTwice DEF h
  <2> HIDE DEF w
  <2>2. [u EXCEPT ![Depth].pc = "disable"] = WithTop(calls, k)
    BY TopTwice
  <2> HIDE DEF u
  <2> QED
    BY <1>2, <2>1, <2>2 DEF GivesUp
<1> HIDE DEF k
<1> QED
  BY <1>4, <1>5 DEF Calls

(* It goes on at q without an access to the queue.                         *)
LEMMA AtQuiet ==
  ASSUME QInv, NEW fn, NEW p, In(fn, p), fn # "task",
         <<fn, p>> # <<"squid_wait_asic_reads", "start">>, Quiet, NEW q, GoesTo(q),
         <<fn, q>> \in SettledPlaces => <<fn, p>> \in SettledPlaces,
         <<fn, p>> \in TakenPlaces => <<fn, q>> \in TakenPlaces
  PROVE  QInv'
<1>1. /\ Facts /\ Top.fn = fn /\ Top.pc = p /\ Pointers' /\ asic_serial_stack' = <<>>
      /\ current_cmd_queue_ptr' = current_cmd_queue_ptr
      /\ current_cmd_hw_queue_ptr' = current_cmd_hw_queue_ptr
  BY QuietFacts
<1>2. PICK g \in Frames : g.fn = fn /\ g.pc = q /\ calls' = WithTop(calls, g)
  BY <1>1 DEF GoesTo
<1>3. Settled(g) => <<fn, p>> \in SettledPlaces
  BY <1>2 DEF Settled
<1>4. <<fn, p>> \in TakenPlaces => LastTaken(g)
  BY <1>2 DEF LastTaken
<1>5. /\ Settled(g) => current_cmd_queue_ptr' = 0
      /\ current_cmd_hw_queue_ptr' = current_cmd_queue_ptr'
           => current_cmd_queue_ptr' = 0 \/ LastTaken(g)
  BY <1>1, <1>3, <1>4 DEF QInv, Places, Facts, Settled, LastTaken
<1> QED
  BY <1>1, <1>2, <1>5, StayStep, CallsAreBase DEF Quiet

(* A result is delivered to a call below the wait.                         *)
LEMMA DeliveredIs ==
  ASSUME Facts, NEW k \in 2 .. Depth - 1, NEW r \in Results
  PROVE  Base([calls EXCEPT ![k].value = r])
<1> DEFINE w == [calls EXCEPT ![k].value = r]
           h == [calls[k] EXCEPT !.value = r]
<1>1. calls \in Seq(Frames) /\ Depth \in Nat /\ Len(calls) = Depth /\ k \in 1 .. Depth
  BY DEF Facts, Linked, Depth
<1>2. h \in Frames /\ h.fn = calls[k].fn /\ h.pc = calls[k].pc
  <2>1. calls[k] \in Frames
    BY <1>1
  <2> QED
    BY <2>1 DEF Frames
<1>3. w = [calls EXCEPT ![k] = h]
  OBVIOUS
<1> HIDE DEF h
<1>4. /\ w \in Seq(Frames) /\ Len(w) = Depth
      /\ \A d \in 1 .. Depth : w[d] = IF d = k THEN h ELSE calls[d]
  BY <1>1, <1>2, <1>3
<1> HIDE DEF w
<1>5. \A d \in 1 .. Depth : w[d].fn = calls[d].fn /\ w[d].pc = calls[d].pc
  BY <1>1, <1>2, <1>4
<1>6. \A d \in 1 .. Depth : (w[d].fn = "task") = (d = 1)
  BY <1>1, <1>5 DEF Facts, Linked
<1>7. ASSUME NEW d \in 1 .. Depth - 1, Settled(w[d])
      PROVE  w[d + 1].fn \in Settling
  <2>1. d \in 1 .. Depth /\ d + 1 \in 1 .. Depth
    BY <1>1
  <2>2. Settled(calls[d])
    BY <1>5, <1>7, <2>1 DEF Settled
  <2>3. calls[d + 1].fn \in Settling
    BY <1>1, <2>2 DEF Facts, Linked
  <2> QED
    BY <1>5, <2>1, <2>3
<1>8. w[Depth] = Top /\ w # <<>>
  BY <1>1, <1>4 DEF Top
<1> QED
  BY <1>4, <1>6, <1>7, <1>8 DEF Base, Linked, w
-----------------------------------------------------------------------------
(* What the functions do to the queue.                                        *)

(* The wait, where it does not move the pointers.                          *)
LEMMA WaitQuiets ==
  ASSUME QInv, WaitTested \/ WaitTake \/ WaitError \/ ReadDone
  PROVE  QInv'
<1>1. CASE WaitTested
  <2>1. In("squid_wait_asic_reads", "tested") /\ Quiet /\ Facts
    BY <1>1, InFacts DEF WaitTested, In, Quiet, QInv, fpgaVars, Exit
  <2>2. \/ Call(Restart, "deliver")
        \/ calls' = At("take")
    BY <1>1, <2>1 DEF WaitTested, Results, In
  <2>3. CASE Call(Restart, "deliver")
    BY <2>1, <2>3, CallIs, CallQuiet, FramesMade, RegsAreInts
       DEF SettledPlaces, TakenPlaces, Settled, LastTaken, Settling, Pcs
  <2>4. CASE calls' = At("take")
    BY <2>1, <2>4, AtIs, AtQuiet DEF SettledPlaces, TakenPlaces, Pcs
  <2> QED
    BY <2>2, <2>3, <2>4
<1>2. CASE WaitTake
  <2>1. In("squid_wait_asic_reads", "take") /\ Quiet /\ Facts
    BY <1>2, InFacts DEF WaitTake, In, Quiet, QInv, fpgaVars, Exit
  <2>2. \/ Call(Restart, "deliver")
        \/ calls' = At("deliver")
        \/ (\E b \in BOOLEAN : calls' = [At("deliver") EXCEPT ![Depth].err = b])
        \/ (\E r \in Results : calls' = [At("deliver") EXCEPT ![Depth].value = r])
    BY <1>2, <2>1 DEF WaitTake, Results, In
  <2>3. CASE Call(Restart, "deliver")
    BY <2>1, <2>3, CallIs, CallQuiet, FramesMade, RegsAreInts
       DEF SettledPlaces, TakenPlaces, Settled, LastTaken, Settling, Pcs
  <2>4. CASE calls' = At("deliver")
    BY <2>1, <2>4, AtIs, AtQuiet DEF SettledPlaces, TakenPlaces, Pcs
  <2>5. CASE (\E b \in BOOLEAN : calls' = [At("deliver") EXCEPT ![Depth].err = b])
    <3>1. "deliver" \in Pcs
      BY DEF Pcs
    <3>2. GoesTo("deliver")
      BY <2>1, <2>5, <3>1, AtIs
    <3> QED
      BY <2>1, <3>2, AtQuiet DEF SettledPlaces, TakenPlaces
  <2>6. CASE (\E r \in Results : calls' = [At("deliver") EXCEPT ![Depth].value = r])
    <3>1. "deliver" \in Pcs
      BY DEF Pcs
    <3>2. GoesTo("deliver")
      BY <2>1, <2>6, <3>1, AtIs
    <3> QED
      BY <2>1, <3>2, AtQuiet DEF SettledPlaces, TakenPlaces
  <2> QED
    BY <2>2, <2>3, <2>4, <2>5, <2>6
<1>3. CASE WaitError
  <2>1. In("squid_wait_asic_reads", "error") /\ Quiet /\ Facts
    BY <1>3, InFacts DEF WaitError, In, Quiet, QInv, fpgaVars, Exit
  <2>2. (UNCHANGED ended /\ \E v \in Results : Return(v))
    BY <1>3, <2>1 DEF WaitError, Results, In
  <2>3. CASE (UNCHANGED ended /\ \E v \in Results : Return(v))
    BY <2>1, <2>3, ReturnQuiet DEF SettledPlaces, TakenPlaces, Settling
  <2> QED
    BY <2>2, <2>3
<1>4. CASE ReadDone
  <2>1. In("read_reg_asic", "done") /\ Quiet /\ Facts
    BY <1>4, InFacts DEF ReadDone, In, Quiet, QInv, fpgaVars, Exit
  <2>2. (UNCHANGED ended /\ \E v \in Results : Return(v))
    BY <1>4, <2>1 DEF ReadDone, Results, In, Facts, Frames
  <2>3. CASE (UNCHANGED ended /\ \E v \in Results : Return(v))
    BY <2>1, <2>3, ReturnQuiet DEF SettledPlaces, TakenPlaces, Settling
  <2> QED
    BY <2>2, <2>3
<1> QED
  BY <1>1, <1>2, <1>3, <1>4

(* The tests of the loops, after their start, and the search for an ASIC   *)
(* that lost its address.                                                  *)
LEMMA TestQuiets ==
  ASSUME QInv, TestStep, ~TestStart
  PROVE  QInv'
<1>1. CASE TestSerialDrain
  <2>1. In("test_serial", "start") /\ Quiet /\ Facts
    BY <1>1, InFacts DEF TestSerialDrain, In, Quiet, QInv, fpgaVars, Exit
  <2>2. \/ (UNCHANGED ended /\ \E v \in Results : Return(v))
        \/ Call(Read(ADDR_VERSION), "version")
    BY <1>1, <2>1 DEF TestSerialDrain, Results, In
  <2>3. CASE (UNCHANGED ended /\ \E v \in Results : Return(v))
    BY <2>1, <2>3, ReturnQuiet DEF SettledPlaces, TakenPlaces, Settling
  <2>4. CASE Call(Read(ADDR_VERSION), "version")
    BY <2>1, <2>4, CallIs, CallQuiet, FramesMade, RegsAreInts
       DEF SettledPlaces, TakenPlaces, Settled, LastTaken, Settling, Pcs
  <2> QED
    BY <2>2, <2>3, <2>4
<1>2. CASE TestSerialVersion
  <2>1. In("test_serial", "version") /\ Quiet /\ Facts
    BY <1>2, InFacts DEF TestSerialVersion, In, Quiet, QInv, fpgaVars, Exit
  <2>2. (UNCHANGED ended /\ \E v \in Results : Return(v))
    BY <1>2, <2>1 DEF TestSerialVersion, Results, In
  <2>3. CASE (UNCHANGED ended /\ \E v \in Results : Return(v))
    BY <2>1, <2>3, ReturnQuiet DEF SettledPlaces, TakenPlaces, Settling
  <2> QED
    BY <2>2, <2>3
<1>3. CASE TestLoop
  <2>1. In("test_all_loops", "loop") /\ Quiet /\ Facts
    BY <1>3, InFacts DEF TestLoop, In, Quiet, QInv, fpgaVars, Exit
  <2>2. \/ Call(TestSerial, "tested")
        \/ calls' = GoOn("loop")
    BY <1>3, <2>1 DEF TestLoop, Results, In, NextLoop
  <2>3. CASE Call(TestSerial, "tested")
    BY <2>1, <2>3, CallIs, CallQuiet, FramesMade, RegsAreInts
       DEF SettledPlaces, TakenPlaces, Settled, LastTaken, Settling, Pcs
  <2>4. CASE calls' = GoOn("loop")
    BY <2>1, <2>4, AtIs, AtQuiet DEF SettledPlaces, TakenPlaces, Pcs
  <2> QED
    BY <2>2, <2>3, <2>4
<1>4. CASE TestEnd
  <2>1. In("test_all_loops", "loop") /\ Quiet /\ Facts
    BY <1>4, InFacts DEF TestEnd, In, Quiet, QInv, fpgaVars, Exit
  <2>2. (UNCHANGED ended /\ \E v \in Results : Return(v))
    BY <1>4, <2>1 DEF TestEnd, Results, In
  <2>3. CASE (UNCHANGED ended /\ \E v \in Results : Return(v))
    BY <2>1, <2>3, ReturnQuiet DEF SettledPlaces, TakenPlaces, Settling
  <2> QED
    BY <2>2, <2>3
<1>5. CASE TestDisable
  <2>1. In("test_all_loops", "disable") /\ Quiet /\ Facts
    BY <1>5, InFacts DEF TestDisable, In, Quiet, QInv, fpgaVars, Exit
  <2>2. Call(Restart, "loop")
    BY <1>5, <2>1 DEF TestDisable, Results, In
  <2>3. CASE Call(Restart, "loop")
    BY <2>1, <2>3, CallIs, CallQuiet, FramesMade, RegsAreInts
       DEF SettledPlaces, TakenPlaces, Settled, LastTaken, Settling, Pcs
  <2> QED
    BY <2>2, <2>3
<1>6. CASE GotAddr("test_lost_address")
  <2>1. In("test_lost_address", "start") /\ Quiet /\ Facts
    BY <1>6, InFacts DEF GotAddr, In, Quiet, QInv, fpgaVars, Exit
  <2>2. Call(Read(ADDR_INTR_BC_GOT_ADDR_NOT), "got")
    BY <1>6, <2>1 DEF GotAddr, Results, In
  <2>3. CASE Call(Read(ADDR_INTR_BC_GOT_ADDR_NOT), "got")
    BY <2>1, <2>3, CallIs, CallQuiet, FramesMade, RegsAreInts
       DEF SettledPlaces, TakenPlaces, Settled, LastTaken, Settling, Pcs
  <2> QED
    BY <2>2, <2>3
<1>7. CASE GotAddr("revive_asics")
  <2>1. In("revive_asics", "start") /\ Quiet /\ Facts
    BY <1>7, InFacts DEF GotAddr, In, Quiet, QInv, fpgaVars, Exit
  <2>2. Call(Read(ADDR_INTR_BC_GOT_ADDR_NOT), "got")
    BY <1>7, <2>1 DEF GotAddr, Results, In
  <2>3. CASE Call(Read(ADDR_INTR_BC_GOT_ADDR_NOT), "got")
    BY <2>1, <2>3, CallIs, CallQuiet, FramesMade, RegsAreInts
       DEF SettledPlaces, TakenPlaces, Settled, LastTaken, Settling, Pcs
  <2> QED
    BY <2>2, <2>3
<1>8. CASE ReviveGot
  <2>1. In("revive_asics", "got") /\ Quiet /\ Facts
    BY <1>8, InFacts DEF ReviveGot, In, Quiet, QInv, fpgaVars, Exit
  <2>2. \/ Call(TestLostAddress, "lost")
        \/ (UNCHANGED ended /\ \E v \in Results : Return(v))
    BY <1>8, <2>1 DEF ReviveGot, Results, In
  <2>3. CASE Call(TestLostAddress, "lost")
    BY <2>1, <2>3, CallIs, CallQuiet, FramesMade, RegsAreInts
       DEF SettledPlaces, TakenPlaces, Settled, LastTaken, Settling, Pcs
  <2>4. CASE (UNCHANGED ended /\ \E v \in Results : Return(v))
    BY <2>1, <2>4, ReturnQuiet DEF SettledPlaces, TakenPlaces, Settling
  <2> QED
    BY <2>2, <2>3, <2>4
<1>9. CASE ReviveLost
  <2>1. In("revive_asics", "lost") /\ Quiet /\ Facts
    BY <1>9, InFacts DEF ReviveLost, In, Quiet, QInv, fpgaVars, Exit
  <2>2. \/ Call(Restart, "end")
        \/ (UNCHANGED ended /\ \E v \in Results : Return(v))
    BY <1>9, <2>1 DEF ReviveLost, Results, In
  <2>3. CASE Call(Restart, "end")
    BY <2>1, <2>3, CallIs, CallQuiet, FramesMade, RegsAreInts
       DEF SettledPlaces, TakenPlaces, Settled, LastTaken, Settling, Pcs
  <2>4. CASE (UNCHANGED ended /\ \E v \in Results : Return(v))
    BY <2>1, <2>4, ReturnQuiet DEF SettledPlaces, TakenPlaces, Settling
  <2> QED
    BY <2>2, <2>3, <2>4
<1>10. CASE ReviveEnd
  <2>1. In("revive_asics", "end") /\ Quiet /\ Facts
    BY <1>10, InFacts DEF ReviveEnd, In, Quiet, QInv, fpgaVars, Exit
  <2>2. (UNCHANGED ended /\ \E v \in Results : Return(v))
    BY <1>10, <2>1 DEF ReviveEnd, Results, In
  <2>3. CASE (UNCHANGED ended /\ \E v \in Results : Return(v))
    BY <2>1, <2>3, ReturnQuiet DEF SettledPlaces, TakenPlaces, Settling
  <2> QED
    BY <2>2, <2>3
<1>11. CASE LostGot
  <2>1. In("test_lost_address", "got") /\ Quiet /\ Facts
    BY <1>11, InFacts DEF LostGot, In, Quiet, QInv, fpgaVars, Exit
  <2>2. \/ calls' = At("loop")
        \/ (UNCHANGED ended /\ \E v \in Results : Return(v))
    BY <1>11, <2>1 DEF LostGot, Results, In
  <2>3. CASE calls' = At("loop")
    BY <2>1, <2>3, AtIs, AtQuiet DEF SettledPlaces, TakenPlaces, Pcs
  <2>4. CASE (UNCHANGED ended /\ \E v \in Results : Return(v))
    BY <2>1, <2>4, ReturnQuiet DEF SettledPlaces, TakenPlaces, Settling
  <2> QED
    BY <2>2, <2>3, <2>4
<1>12. CASE LostLoop
  <2>1. In("test_lost_address", "loop") /\ Quiet /\ Facts
    BY <1>12, InFacts DEF LostLoop, In, Quiet, QInv, fpgaVars, Exit
  <2>2. \/ (UNCHANGED ended /\ \E v \in Results : Return(v))
        \/ Call(Read(ADDR_VERSION), "version")
        \/ calls' = GoOn("loop")
    BY <1>12, <2>1 DEF LostLoop, Results, In, NextLoop
  <2>3. CASE (UNCHANGED ended /\ \E v \in Results : Return(v))
    BY <2>1, <2>3, ReturnQuiet DEF SettledPlaces, TakenPlaces, Settling
  <2>4. CASE Call(Read(ADDR_VERSION), "version")
    BY <2>1, <2>4, CallIs, CallQuiet, FramesMade, RegsAreInts
       DEF SettledPlaces, TakenPlaces, Settled, LastTaken, Settling, Pcs
  <2>5. CASE calls' = GoOn("loop")
    BY <2>1, <2>5, AtIs, AtQuiet DEF SettledPlaces, TakenPlaces, Pcs
  <2> QED
    BY <2>2, <2>3, <2>4, <2>5
<1>13. CASE LostVersion
  <2>1. In("test_lost_address", "version") /\ Quiet /\ Facts
    BY <1>13, InFacts DEF LostVersion, In, Quiet, QInv, fpgaVars, Exit
  <2>2. (\E b \in BOOLEAN : calls' = [GoOn("loop") EXCEPT ![Depth].err = b])
    BY <1>13, <2>1 DEF LostVersion, Results, In, NextLoop
  <2>3. CASE (\E b \in BOOLEAN : calls' = [GoOn("loop") EXCEPT ![Depth].err = b])
    <3>1. "loop" \in Pcs
      BY DEF Pcs
    <3>2. GoesTo("loop")
      BY <2>1, <2>3, <3>1, AtIs
    <3> QED
      BY <2>1, <3>2, AtQuiet DEF SettledPlaces, TakenPlaces
  <2> QED
    BY <2>2, <2>3
<1>14. CASE TestLoopTested
  <2>1. In("test_all_loops", "tested") /\ Quiet /\ Facts
    BY <1>14, InFacts DEF TestLoopTested, In, Quiet, QInv, fpgaVars, Exit
  <2>2. \/ calls' = GoOn("loop")
        \/ (\E b \in BOOLEAN : calls' = [GoOn("loop") EXCEPT ![Depth].err = b])
        \/ GivesUp
        \/ UNCHANGED calls
    BY <1>14, <2>1 DEF TestLoopTested, Results, In, Exit, NextLoop, GivesUp
  <2>3. CASE calls' = GoOn("loop")
    BY <2>1, <2>3, AtIs, AtQuiet DEF SettledPlaces, TakenPlaces, Pcs
  <2>4. CASE (\E b \in BOOLEAN : calls' = [GoOn("loop") EXCEPT ![Depth].err = b])
    <3>1. "loop" \in Pcs
      BY DEF Pcs
    <3>2. GoesTo("loop")
      BY <2>1, <2>4, <3>1, AtIs
    <3> QED
      BY <2>1, <3>2, AtQuiet DEF SettledPlaces, TakenPlaces
  <2>5. CASE GivesUp
    BY <2>1, <2>5, GivesUpIs, CallQuiet, FramesMade
       DEF SettledPlaces, TakenPlaces, Settled, LastTaken, Settling
  <2>6. CASE UNCHANGED calls
    BY <2>1, <2>6, ExitQuiet
  <2> QED
    BY <2>2, <2>3, <2>4, <2>5, <2>6
<1> QED
  BY <1>1, <1>2, <1>3, <1>4, <1>5, <1>6, <1>7, <1>8, <1>9, <1>10, <1>11, <1>12,
     <1>13, <1>14 DEF TestStep

(* The restart does not move the pointers itself.                          *)
LEMMA RestartQuiets ==
  ASSUME QInv, RestartStep
  PROVE  QInv'
<1>1. CASE RestartStart
  <2>1. In("restart_asics_full", "start") /\ Quiet /\ Facts
    BY <1>1, InFacts DEF RestartStart, In, Quiet, QInv, fpgaVars, Exit
  <2>2. \/ Call(Test(FALSE), "tested")
        \/ UNCHANGED calls
    BY <1>1, <2>1 DEF RestartStart, Results, In, Exit
  <2>3. CASE Call(Test(FALSE), "tested")
    <3> DEFINE f == Test(FALSE)
    <3>1. f \in Frames /\ f.fn = "test_all_loops" /\ f.pc = "start"
      BY FramesMade
    <3>2. Call(f, "tested")
      BY <2>3
    <3> HIDE DEF f
    <3> QED
      BY <2>1, <3>1, <3>2, CallIs, CallQuiet
         DEF SettledPlaces, TakenPlaces, Settled, LastTaken, Settling, Pcs
  <2>4. CASE UNCHANGED calls
    BY <2>1, <2>4, ExitQuiet
  <2> QED
    BY <2>2, <2>3, <2>4
<1>2. CASE RestartTested
  <2>1. In("restart_asics_full", "tested") /\ Quiet /\ Facts
    BY <1>2, InFacts DEF RestartTested, In, Quiet, QInv, fpgaVars, Exit
  <2>2. \/ Call(Test(FALSE), "reset")
        \/ calls' = At("reset")
    BY <1>2, <2>1 DEF RestartTested, Results, In
  <2>3. CASE Call(Test(FALSE), "reset")
    <3> DEFINE f == Test(FALSE)
    <3>1. f \in Frames /\ f.fn = "test_all_loops" /\ f.pc = "start"
      BY FramesMade
    <3>2. Call(f, "reset")
      BY <2>3
    <3> HIDE DEF f
    <3> QED
      BY <2>1, <3>1, <3>2, CallIs, CallQuiet
         DEF SettledPlaces, TakenPlaces, Settled, LastTaken, Settling, Pcs
  <2>4. CASE calls' = At("reset")
    BY <2>1, <2>4, AtIs, AtQuiet DEF SettledPlaces, TakenPlaces, Pcs
  <2> QED
    BY <2>2, <2>3, <2>4
<1>3. CASE RestartReset
  <2>1. In("restart_asics_full", "reset") /\ Quiet /\ Facts
    BY <1>3, InFacts DEF RestartReset, In, Quiet, QInv, fpgaVars, Exit
  <2>2. calls' = [At("discover") EXCEPT ![Depth].n = 1]
    BY <1>3, <2>1 DEF RestartReset, Results, In
  <2>3. CASE calls' = [At("discover") EXCEPT ![Depth].n = 1]
    <3>1. "discover" \in Pcs /\ 1 \in Int
      BY DEF Pcs
    <3>2. GoesTo("discover")
      BY <2>1, <2>3, <3>1, AtIs
    <3> QED
      BY <2>1, <3>2, AtQuiet DEF SettledPlaces, TakenPlaces
  <2> QED
    BY <2>2, <2>3
<1>4. CASE RestartDiscover
  <2>1. In("restart_asics_full", "discover") /\ Quiet /\ Facts
    BY <1>4, InFacts DEF RestartDiscover, In, Quiet, QInv, fpgaVars, Exit
  <2>2. \/ Call(TestSerial, "discovered")
        \/ Call(TestSerial, "good_loops")
    BY <1>4, <2>1 DEF RestartDiscover, Results, In
  <2>3. CASE Call(TestSerial, "discovered")
    BY <2>1, <2>3, CallIs, CallQuiet, FramesMade, RegsAreInts
       DEF SettledPlaces, TakenPlaces, Settled, LastTaken, Settling, Pcs
  <2>4. CASE Call(TestSerial, "good_loops")
    BY <2>1, <2>4, CallIs, CallQuiet, FramesMade, RegsAreInts
       DEF SettledPlaces, TakenPlaces, Settled, LastTaken, Settling, Pcs
  <2> QED
    BY <2>2, <2>3, <2>4
<1>5. CASE RestartDiscovered
  <2>1. In("restart_asics_full", "discovered") /\ Quiet /\ Facts
    BY <1>5, InFacts DEF RestartDiscovered, In, Quiet, QInv, fpgaVars, Exit
  <2>2. \/ calls' = GoOn("discover")
        \/ calls' = At("reset")
    BY <1>5, <2>1 DEF RestartDiscovered, Results, In
  <2>3. CASE calls' = GoOn("discover")
    BY <2>1, <2>3, AtIs, AtQuiet DEF SettledPlaces, TakenPlaces, Pcs
  <2>4. CASE calls' = At("reset")
    BY <2>1, <2>4, AtIs, AtQuiet DEF SettledPlaces, TakenPlaces, Pcs
  <2> QED
    BY <2>2, <2>3, <2>4
<1>6. CASE RestartGoodLoops
  <2>1. In("restart_asics_full", "good_loops") /\ Quiet /\ Facts
    BY <1>6, InFacts DEF RestartGoodLoops, In, Quiet, QInv, fpgaVars, Exit
  <2>2. \/ UNCHANGED calls
        \/ Call(Read(ADDR_INTR_BC_GOT_ADDR_NOT), "none")
    BY <1>6, <2>1 DEF RestartGoodLoops, Results, In, Exit
  <2>3. CASE UNCHANGED calls
    BY <2>1, <2>3, ExitQuiet
  <2>4. CASE Call(Read(ADDR_INTR_BC_GOT_ADDR_NOT), "none")
    BY <2>1, <2>4, CallIs, CallQuiet, FramesMade, RegsAreInts
       DEF SettledPlaces, TakenPlaces, Settled, LastTaken, Settling, Pcs
  <2> QED
    BY <2>2, <2>3, <2>4
<1>7. CASE RestartNone
  <2>1. In("restart_asics_full", "none") /\ Quiet /\ Facts
    BY <1>7, InFacts DEF RestartNone, In, Quiet, QInv, fpgaVars, Exit
  <2>2. \/ UNCHANGED calls
        \/ calls' = [At("loop") EXCEPT ![Depth].n = 1]
    BY <1>7, <2>1 DEF RestartNone, Results, In, Exit
  <2>3. CASE UNCHANGED calls
    BY <2>1, <2>3, ExitQuiet
  <2>4. CASE calls' = [At("loop") EXCEPT ![Depth].n = 1]
    <3>1. "loop" \in Pcs /\ 1 \in Int
      BY DEF Pcs
    <3>2. GoesTo("loop")
      BY <2>1, <2>4, <3>1, AtIs
    <3> QED
      BY <2>1, <3>2, AtQuiet DEF SettledPlaces, TakenPlaces
  <2> QED
    BY <2>2, <2>3, <2>4
<1>8. CASE RestartLoop
  <2>1. In("restart_asics_full", "loop") /\ Quiet /\ Facts
    BY <1>8, InFacts DEF RestartLoop, In, Quiet, QInv, fpgaVars, Exit
  <2>2. \/ Call(Read(ADDR_INTR_BC_GOT_ADDR_NOT), "all")
        \/ Call(Read(ADDR_INTR_BC_GOT_ADDR_NOT), "asks")
        \/ calls' = GoOn("loop")
    BY <1>8, <2>1 DEF RestartLoop, Results, In, NextLoop
  <2>3. CASE Call(Read(ADDR_INTR_BC_GOT_ADDR_NOT), "all")
    BY <2>1, <2>3, CallIs, CallQuiet, FramesMade, RegsAreInts
       DEF SettledPlaces, TakenPlaces, Settled, LastTaken, Settling, Pcs
  <2>4. CASE Call(Read(ADDR_INTR_BC_GOT_ADDR_NOT), "asks")
    BY <2>1, <2>4, CallIs, CallQuiet, FramesMade, RegsAreInts
       DEF SettledPlaces, TakenPlaces, Settled, LastTaken, Settling, Pcs
  <2>5. CASE calls' = GoOn("loop")
    BY <2>1, <2>5, AtIs, AtQuiet DEF SettledPlaces, TakenPlaces, Pcs
  <2> QED
    BY <2>2, <2>3, <2>4, <2>5
<1>9. CASE RestartAsks
  <2>1. In("restart_asics_full", "asks") /\ Quiet /\ Facts
    BY <1>9, InFacts DEF RestartAsks, In, Quiet, QInv, fpgaVars, Exit
  <2>2. Call(Read(ADDR_INTR_BC_GOT_ADDR_NOT), "given")
    BY <1>9, <2>1 DEF RestartAsks, Results, In
  <2>3. CASE Call(Read(ADDR_INTR_BC_GOT_ADDR_NOT), "given")
    BY <2>1, <2>3, CallIs, CallQuiet, FramesMade, RegsAreInts
       DEF SettledPlaces, TakenPlaces, Settled, LastTaken, Settling, Pcs
  <2> QED
    BY <2>2, <2>3
<1>10. CASE RestartGiven
  <2>1. In("restart_asics_full", "given") /\ Quiet /\ Facts
    BY <1>10, InFacts DEF RestartGiven, In, Quiet, QInv, fpgaVars, Exit
  <2>2. \/ UNCHANGED calls
        \/ calls' = GoOn("loop")
    BY <1>10, <2>1 DEF RestartGiven, Results, In, Exit, NextLoop
  <2>3. CASE UNCHANGED calls
    BY <2>1, <2>3, ExitQuiet
  <2>4. CASE calls' = GoOn("loop")
    BY <2>1, <2>4, AtIs, AtQuiet DEF SettledPlaces, TakenPlaces, Pcs
  <2> QED
    BY <2>2, <2>3, <2>4
<1>11. CASE RestartAll
  <2>1. In("restart_asics_full", "all") /\ Quiet /\ Facts
    BY <1>11, InFacts DEF RestartAll, In, Quiet, QInv, fpgaVars, Exit
  <2>2. \/ UNCHANGED calls
        \/ Call(TestSerial, "serial")
    BY <1>11, <2>1 DEF RestartAll, Results, In, Exit
  <2>3. CASE UNCHANGED calls
    BY <2>1, <2>3, ExitQuiet
  <2>4. CASE Call(TestSerial, "serial")
    BY <2>1, <2>4, CallIs, CallQuiet, FramesMade, RegsAreInts
       DEF SettledPlaces, TakenPlaces, Settled, LastTaken, Settling, Pcs
  <2> QED
    BY <2>2, <2>3, <2>4
<1>12. CASE RestartSerial
  <2>1. In("restart_asics_full", "serial") /\ Quiet /\ Facts
    BY <1>12, InFacts DEF RestartSerial, In, Quiet, QInv, fpgaVars, Exit
  <2>2. \/ UNCHANGED calls
        \/ calls' = [At("conductor") EXCEPT ![Depth].n = 1]
    BY <1>12, <2>1 DEF RestartSerial, Results, In, Exit
  <2>3. CASE UNCHANGED calls
    BY <2>1, <2>3, ExitQuiet
  <2>4. CASE calls' = [At("conductor") EXCEPT ![Depth].n = 1]
    <3>1. "conductor" \in Pcs /\ 1 \in Int
      BY DEF Pcs
    <3>2. GoesTo("conductor")
      BY <2>1, <2>4, <3>1, AtIs
    <3> QED
      BY <2>1, <3>2, AtQuiet DEF SettledPlaces, TakenPlaces
  <2> QED
    BY <2>2, <2>3, <2>4
<1>13. CASE RestartConductor
  <2>1. In("restart_asics_full", "conductor") /\ Quiet /\ Facts
    BY <1>13, InFacts DEF RestartConductor, In, Quiet, QInv, fpgaVars, Exit
  <2>2. Call(Read(ADDR_INTR_BC_CONDUCTOR_BUSY), "busy")
    BY <1>13, <2>1 DEF RestartConductor, Results, In
  <2>3. CASE Call(Read(ADDR_INTR_BC_CONDUCTOR_BUSY), "busy")
    BY <2>1, <2>3, CallIs, CallQuiet, FramesMade, RegsAreInts
       DEF SettledPlaces, TakenPlaces, Settled, LastTaken, Settling, Pcs
  <2> QED
    BY <2>2, <2>3
<1>14. CASE RestartBusy
  <2>1. In("restart_asics_full", "busy") /\ Quiet /\ Facts
    BY <1>14, InFacts DEF RestartBusy, In, Quiet, QInv, fpgaVars, Exit
  <2>2. \/ UNCHANGED calls
        \/ calls' = GoOn("conductor")
    BY <1>14, <2>1 DEF RestartBusy, Results, In, Exit
  <2>3. CASE UNCHANGED calls
    BY <2>1, <2>3, ExitQuiet
  <2>4. CASE calls' = GoOn("conductor")
    BY <2>1, <2>4, AtIs, AtQuiet DEF SettledPlaces, TakenPlaces, Pcs
  <2> QED
    BY <2>2, <2>3, <2>4
<1>15. CASE RestartEnd
  <2>1. In("restart_asics_full", "busy") /\ Quiet /\ Facts
    BY <1>15, InFacts DEF RestartEnd, In, Quiet, QInv, fpgaVars, Exit
  <2>2. \/ UNCHANGED calls
        \/ (UNCHANGED ended /\ \E v \in Results : Return(v))
    BY <1>15, <2>1 DEF RestartEnd, Results, In, Exit
  <2>3. CASE UNCHANGED calls
    BY <2>1, <2>3, ExitQuiet
  <2>4. CASE (UNCHANGED ended /\ \E v \in Results : Return(v))
    BY <2>1, <2>4, ReturnQuiet DEF SettledPlaces, TakenPlaces, Settling
  <2> QED
    BY <2>2, <2>3, <2>4
<1> QED
  BY <1>1, <1>2, <1>3, <1>4, <1>5, <1>6, <1>7, <1>8, <1>9, <1>10, <1>11, <1>12,
     <1>13, <1>14, <1>15 DEF RestartStep
-----------------------------------------------------------------------------
(* The steps that move the pointers.                                       *)

(* Nothing is waiting to be sent where no read is queued.                  *)
LEMMA EmptyQueueIs ==
  ASSUME Pointers, current_cmd_queue_ptr = 0
  PROVE  current_cmd_hw_queue_ptr = 0 /\ asic_serial_stack = <<>>
  BY DEF Pointers

(* What a place says of the queue.                                         *)
LEMMA PlaceSays ==
  ASSUME QInv, NEW fn, NEW p, In(fn, p)
  PROVE  /\ Facts /\ Pointers /\ Top.fn = fn /\ Top.pc = p /\ ended # "queue"
         /\ <<fn, p>> \in SettledPlaces => current_cmd_queue_ptr = 0
         /\ current_cmd_hw_queue_ptr = current_cmd_queue_ptr
              => current_cmd_queue_ptr = 0 \/ <<fn, p>> \in TakenPlaces
         /\ asic_serial_stack # <<>>
              => fn = "task" \/ <<fn, p>> = <<"squid_wait_asic_reads", "start">>
<1>1. Facts /\ Top.fn = fn /\ Top.pc = p
  BY InFacts DEF In
<1>2. Sending(calls) => fn = "task" \/ <<fn, p>> = <<"squid_wait_asic_reads", "start">>
  <2>1. CASE Depth = 1
    BY <1>1, <2>1 DEF Facts
  <2>2. CASE Depth = 2 /\ IsFlush(calls[2])
    BY <1>1, <2>2 DEF IsFlush, Top
  <2> QED
    BY <2>1, <2>2 DEF Sending, Depth
<1> QED
  BY <1>1, <1>2 DEF QInv, Places, Facts, Settled, LastTaken

(* The caller of push_asic_read() when its read is queued.                 *)
LEMMA PushedIs ==
  ASSUME Facts, NEW fn \in Readers, Top.fn = fn
  PROVE  \E g \in Frames : /\ g.fn = fn /\ g.pc = IF fn = "task" THEN "start" ELSE "done"
                           /\ fn = "task" => /\ g.n = Top.n + 1 /\ g.val = "none"
                                             /\ g.err = Top.err
                           /\ Pushed(fn) = WithTop(calls, g)
<1>1. CASE fn = "task"
  <2> DEFINE g == [Top EXCEPT !.pc = "start", !.n = Top.n + 1, !.val = "none"]
  <2>1. /\ Top \in Frames /\ Top.n + 1 \in Int /\ Top.err \in BOOLEAN
        /\ "start" \in Pcs /\ "none" \in Results
    BY DEF Facts, Frames, Pcs, Results
  <2>2. /\ g \in Frames /\ g.fn = fn /\ g.pc = "start"
        /\ g.n = Top.n + 1 /\ g.val = "none" /\ g.err = Top.err
    BY <2>1 DEF Frames
  <2>3. Pushed(fn) = WithTop(calls, g)
    BY <1>1 DEF Pushed, WithTop, Depth
  <2> HIDE DEF g
  <2> QED
    BY <1>1, <2>2, <2>3
<1>2. CASE fn = "read_reg_asic"
  <2>1. Pushed(fn) = At("done") /\ "done" \in Pcs
    BY <1>2 DEF Pushed, Pcs
  <2> QED
    BY <1>2, <2>1, GoingOn
<1> QED
  BY <1>1, <1>2 DEF Readers

(* No room: the caller waits.                                              *)
LEMMA PushWaitStep ==
  ASSUME QInv, NEW fn \in Readers, PushWait(fn)
  PROVE  QInv'
<1>1. /\ Facts /\ Pointers /\ Top.fn = fn /\ ended # "queue"
      /\ current_cmd_hw_queue_ptr = current_cmd_queue_ptr => current_cmd_queue_ptr = 0
      /\ asic_serial_stack # <<>> => Depth = 1
  BY PlaceSays DEF PushWait, Readers, TakenPlaces, Facts
<1>2. Calls(Wait, "room")
  BY <1>1, CallIs DEF PushWait, Pcs
<1>3. PICK g \in Frames : g.fn = fn /\ g.pc = "room" /\ calls' = Append(WithTop(calls, g), Wait)
  BY <1>1, <1>2 DEF Calls
<1>4. /\ Wait \in Frames /\ Wait.fn # "task" /\ ~Settled(Wait) /\ IsFlush(Wait)
      /\ Wait.fn \in Settling
  BY FramesMade DEF Settled, SettledPlaces, IsFlush, Settling
<1>5. Pointers'
  BY <1>1 DEF PushWait, Pointers, queueVars, fpgaVars
<1> QED
  BY <1>1, <1>3, <1>4, <1>5, CallStep, CallsAreBase DEF PushWait, queueVars, fpgaVars

(* A task waits for its reads.                                             *)
LEMMA TaskWaitStep ==
  ASSUME QInv, TaskWait
  PROVE  QInv'
<1>1. /\ Facts /\ Pointers /\ Top.fn = "task" /\ ended # "queue"
      /\ current_cmd_hw_queue_ptr = current_cmd_queue_ptr => current_cmd_queue_ptr = 0
      /\ Depth = 1
  BY PlaceSays DEF TaskWait, TakenPlaces, Facts
<1>2. Calls(Wait, "done")
  BY <1>1, CallIs DEF TaskWait, Pcs
<1>3. PICK g \in Frames :
        g.fn = "task" /\ g.pc = "done" /\ calls' = Append(WithTop(calls, g), Wait)
  BY <1>1, <1>2 DEF Calls
<1>4. /\ Wait \in Frames /\ Wait.fn # "task" /\ ~Settled(Wait) /\ IsFlush(Wait)
      /\ Wait.fn \in Settling
  BY FramesMade DEF Settled, SettledPlaces, IsFlush, Settling
<1>5. Pointers'
  BY <1>1 DEF TaskWait, Pointers, queueVars, fpgaVars
<1> QED
  BY <1>1, <1>3, <1>4, <1>5, CallStep, CallsAreBase DEF TaskWait, queueVars, fpgaVars

(* Too much garbage: a restart with an empty queue.                        *)
LEMMA PushGarbageStep ==
  ASSUME QInv, NEW fn \in Readers, PushGarbage(fn)
  PROVE  QInv'
<1>1. In(fn, "start") \/ In(fn, "room")
  BY DEF PushGarbage, AtPurge
<1>2. /\ Facts /\ Pointers /\ Top.fn = fn /\ ended # "queue" /\ current_cmd_queue_ptr = 0
  BY <1>1, PlaceSays DEF PushGarbage, Purges
<1>3. asic_serial_stack' = <<>>
  BY <1>2, EmptyQueueIs DEF PushGarbage
<1>4. PICK g \in Frames : g.fn = fn /\ calls' = Append(WithTop(calls, g), Restart)
  BY <1>2, PushedIs DEF PushGarbage
<1>5. /\ Restart \in Frames /\ Restart.fn # "task" /\ ~Settled(Restart)
      /\ Restart.fn \in Settling
  BY FramesMade DEF Settled, SettledPlaces, Settling
<1>6. Pointers' /\ current_cmd_queue_ptr' = 0 /\ ended' # "queue"
  BY <1>2, <1>3, FpgaAssumption DEF PushGarbage, reset_asic_queue, Pointers, PushLimit
<1> QED
  BY <1>2, <1>3, <1>4, <1>5, <1>6, CallStep, CallsAreBase

(* A read is queued: there is room, and not all is taken.                  *)
LEMMA PushReadStep ==
  ASSUME QInv, NEW fn \in Readers, PushRead(fn)
  PROVE  QInv'
<1>1. In(fn, "start") \/ In(fn, "room")
  BY DEF PushRead, AtPurge
<1>2. Facts /\ Pointers /\ Top.fn = fn /\ ended # "queue" /\ Top.n \in Int /\ Top.reg \in Int
  BY <1>1, PlaceSays DEF Facts, Frames
<1>3. current_cmd_queue_ptr < PushLimit /\ PushLimit \in Nat /\ PushLimit < MAX_FPGA_CMD_QUEUE
  <2>1. PushLimit \in Nat /\ 0 < PushLimit /\ PushLimit < MAX_FPGA_CMD_QUEUE
    BY FpgaAssumption DEF PushLimit
  <2>2. In(fn, "room") => current_cmd_queue_ptr = 0
    BY PlaceSays DEF Readers, SettledPlaces
  <2>3. In(fn, "start") => current_cmd_queue_ptr < PushLimit
    BY DEF PushRead, AtPurge, In
  <2> QED
    BY <1>1, <2>1, <2>2, <2>3
<1>4. ~(current_cmd_queue_ptr + 1 >= MAX_FPGA_CMD_QUEUE)
  BY <1>2, <1>3, FpgaAssumption DEF Pointers
<1>5. /\ current_cmd_queue_ptr' = current_cmd_queue_ptr + 1
      /\ UNCHANGED <<current_cmd_hw_queue_ptr, ended>>
      /\ \/ /\ fn = "task" /\ calls' = Pushed(fn)
            /\ asic_serial_stack' = Append(asic_serial_stack, Top.n)
         \/ /\ fn = "read_reg_asic" /\ asic_serial_stack' = <<>>
            /\ calls' = Append(At("done"), [Wait EXCEPT !.pc = "loop"])
  BY <1>4 DEF PushRead, Send
<1>6. Pointers' /\ current_cmd_hw_queue_ptr' # current_cmd_queue_ptr'
  <2>1. /\ current_cmd_queue_ptr \in Nat /\ current_cmd_hw_queue_ptr \in 0 .. current_cmd_queue_ptr
        /\ asic_serial_stack \in Seq(Int) /\ Len(asic_serial_stack) <= current_cmd_queue_ptr
    BY <1>2, <1>3 DEF Pointers
  <2>2. /\ asic_serial_stack' \in Seq(Int)
        /\ Len(asic_serial_stack') <= current_cmd_queue_ptr + 1
    <3>1. CASE asic_serial_stack' = Append(asic_serial_stack, Top.n)
      BY <1>2, <2>1, <3>1
    <3>2. CASE asic_serial_stack' = <<>>
      BY <2>1, <3>2
    <3> QED
      BY <1>5, <3>1, <3>2
  <2> QED
    BY <1>3, <1>5, <2>1, <2>2 DEF Pointers, PushLimit
<1>7. CASE fn = "task" /\ calls' = Pushed(fn)
  <2>1. PICK g \in Frames : g.fn = fn /\ g.pc = "start" /\ calls' = WithTop(calls, g)
    BY <1>2, <1>7, PushedIs
  <2>2. ~Settled(g)
    BY <1>7, <2>1 DEF Settled, SettledPlaces
  <2>3. Depth = 1
    BY <1>2, <1>7 DEF Facts
  <2> QED
    BY <1>2, <1>5, <1>6, <2>1, <2>2, <2>3, StayStep, CallsAreBase
<1>8. CASE /\ fn = "read_reg_asic" /\ asic_serial_stack' = <<>>
           /\ calls' = Append(At("done"), [Wait EXCEPT !.pc = "loop"])
  <2> DEFINE f == [Wait EXCEPT !.pc = "loop"]
  <2>1. /\ f \in Frames /\ f.fn = "squid_wait_asic_reads" /\ f.pc = "loop"
    BY FramesMade DEF Frames, Pcs
  <2>2. calls' = Append(At("done"), f)
    BY <1>8
  <2> HIDE DEF f
  <2>3. PICK g \in Frames : g.fn = fn /\ g.pc = "done" /\ calls' = Append(WithTop(calls, g), f)
    <3>1. "done" \in Pcs
      BY DEF Pcs
    <3> QED
      BY <1>2, <2>2, <3>1, GoingOn
  <2>4. ~Settled(f) /\ f.fn \in Settling /\ f.fn # "task"
    BY <2>1 DEF Settled, SettledPlaces, Settling
  <2> QED
    BY <1>2, <1>5, <1>6, <1>8, <2>1, <2>3, <2>4, CallStep, CallsAreBase
<1> QED
  BY <1>5, <1>7, <1>8

(* A read whose reply comes at once.                                       *)
LEMMA ReadAtOnceStep ==
  ASSUME QInv, ReadAtOnce
  PROVE  QInv'
<1>1. /\ Facts /\ Pointers /\ Top.fn = "read_reg_asic" /\ ended # "queue"
      /\ current_cmd_queue_ptr = 0
  BY PlaceSays DEF ReadAtOnce, Undisturbed
<1>2. Return("own") /\ "own" \in Results
  BY DEF ReadAtOnce, Results
<1> QED
  BY <1>1, <1>2, EmptyQueueIs, ReturnStep DEF ReadAtOnce

(* The wait sends what a task has queued.                                  *)
LEMMA WaitFlushStep ==
  ASSUME QInv, WaitFlush
  PROVE  QInv'
<1>1. /\ Facts /\ Pointers /\ Top.fn = "squid_wait_asic_reads" /\ ended # "queue"
      /\ current_cmd_hw_queue_ptr = current_cmd_queue_ptr => current_cmd_queue_ptr = 0
  <2>1. In("squid_wait_asic_reads", "start")
    BY DEF WaitFlush
  <2>2. <<"squid_wait_asic_reads", "start">> \notin TakenPlaces
    BY DEF TakenPlaces
  <2> QED
    BY <2>1, <2>2, PlaceSays
<1>2. PICK g \in Frames : g.fn = Top.fn /\ g.pc = "loop" /\ calls' = WithTop(calls, g)
  BY <1>1, GoingOn DEF WaitFlush, Pcs
<1>3. ~Settled(g)
  BY <1>1, <1>2 DEF Settled, SettledPlaces
<1>4. asic_serial_stack' = <<>>
  BY DEF WaitFlush, Send
<1>5. Pointers'
  BY <1>1, <1>4 DEF WaitFlush, Pointers, queueVars
<1> QED
  BY <1>1, <1>2, <1>3, <1>4, <1>5, StayStep, CallsAreBase DEF WaitFlush, queueVars

(* Its loop ends with an empty queue.                                      *)
LEMMA WaitDoneStep ==
  ASSUME QInv, WaitDone
  PROVE  QInv'
<1>1. /\ Facts /\ Pointers /\ Top.fn = "squid_wait_asic_reads" /\ ended # "queue"
      /\ current_cmd_queue_ptr = 0
  BY PlaceSays DEF WaitDone, TakenPlaces, Working
<1>2. current_cmd_hw_queue_ptr = 0 /\ asic_serial_stack = <<>>
  BY <1>1, EmptyQueueIs
<1>3. /\ UNCHANGED <<current_cmd_queue_ptr, current_cmd_hw_queue_ptr, asic_serial_stack, ended>>
      /\ \/ Call(Revive, AfterRevive)
         \/ Return("ok")
  BY <1>1, <1>2 DEF WaitDone, reset_asic_queue, queueVars, fpgaVars
<1>4. CASE Call(Revive, AfterRevive)
  <2>1. PICK g \in Frames : /\ g.fn = Top.fn /\ g.pc = "error"
                            /\ calls' = Append(WithTop(calls, g), Revive)
    BY <1>1, <1>4, CallIs DEF Calls, AfterRevive, Pcs
  <2>2. /\ Revive \in Frames /\ Revive.fn # "task" /\ ~Settled(Revive) /\ Revive.fn \in Settling
    BY FramesMade DEF Settled, SettledPlaces, Settling
  <2>3. Pointers'
    BY <1>1, <1>3 DEF Pointers
  <2> QED
    BY <1>1, <1>2, <1>3, <2>1, <2>2, <2>3, CallStep, CallsAreBase
<1>5. CASE Return("ok")
  BY <1>1, <1>2, <1>3, <1>5, ReturnStep DEF Results
<1> QED
  BY <1>3, <1>4, <1>5

(* A read is taken: it moves the second pointer, and not past the first.   *)
LEMMA WaitSlotStep ==
  ASSUME QInv, WaitSlot
  PROVE  QInv'
<1> DEFINE g(q) == [Top EXCEPT !.n = current_cmd_hw_queue_ptr, !.value = "failed", !.pc = q]
<1>1. /\ Facts /\ Pointers /\ Top.fn = "squid_wait_asic_reads" /\ ended # "queue"
      /\ asic_serial_stack = <<>>
  BY PlaceSays DEF WaitSlot
<1>2. /\ current_cmd_queue_ptr' = current_cmd_queue_ptr
      /\ current_cmd_hw_queue_ptr' = current_cmd_hw_queue_ptr + 1
      /\ current_cmd_hw_queue_ptr # current_cmd_queue_ptr
      /\ asic_serial_stack' = <<>> /\ ended' # "queue"
  BY <1>1 DEF WaitSlot, Working, fpgaVars
<1>3. Pointers'
  BY <1>1, <1>2 DEF Pointers, PushLimit
<1>4. ASSUME NEW q \in {"take", "tested", "deliver"}
      PROVE  /\ g(q) \in Frames /\ g(q).fn = Top.fn /\ g(q).pc = q
             /\ [Taken EXCEPT ![Depth].pc = q] = WithTop(calls, g(q))
             /\ ~Settled(g(q)) /\ LastTaken(g(q))
  <2>1. Top \in Frames /\ current_cmd_hw_queue_ptr \in Int /\ q \in Pcs /\ "failed" \in Results
    BY <1>1 DEF Facts, Pointers, Pcs, Results
  <2> DEFINE k == [Top EXCEPT !.n = current_cmd_hw_queue_ptr]
             h == [k EXCEPT !.value = "failed"]
             z == [h EXCEPT !.pc = q]
             w == WithTop(calls, k)
             u == WithTop(calls, h)
  <2>2. z = g(q)
    BY <2>1 DEF Frames
  <2>3. z \in Frames /\ z.fn = Top.fn /\ z.pc = q
    BY <2>1 DEF Frames
  <2>4. Taken = [w EXCEPT ![Depth].value = "failed"]
    BY DEF Taken, WithTop, Top, Depth
  <2> HIDE DEF g, k
  <2>5. [w EXCEPT ![Depth].value = "failed"] = u
    BY <1>1, TopTwice DEF h
  <2> HIDE DEF w, h
  <2>6. [u EXCEPT ![Depth].pc = q] = WithTop(calls, z)
    BY <1>1, TopTwice DEF z
  <2> HIDE DEF u, z
  <2>7. ~Settled(z) /\ LastTaken(z)
    BY <1>1, <2>3 DEF Settled, LastTaken, SettledPlaces, TakenPlaces
  <2> QED
    BY <2>2, <2>3, <2>4, <2>5, <2>6, <2>7
<1> HIDE DEF g
<1>5. \/ calls' = [Taken EXCEPT ![Depth].pc = "take"]
      \/ calls' = Append([Taken EXCEPT ![Depth].pc = "tested"], Test(vm.in_asic_reset # 0))
      \/ calls' = [Taken EXCEPT ![Depth].pc = "deliver"]
  BY DEF WaitSlot
<1>6. ASSUME NEW q \in {"take", "deliver"}, calls' = [Taken EXCEPT ![Depth].pc = q]
      PROVE  QInv'
  BY <1>1, <1>2, <1>3, <1>4, <1>6, StayStep, CallsAreBase
<1>7. CASE calls' = Append([Taken EXCEPT ![Depth].pc = "tested"], Test(vm.in_asic_reset # 0))
  <2> DEFINE f == Test(vm.in_asic_reset # 0)
  <2>1. f \in Frames /\ f.fn = "test_all_loops" /\ f.pc = "start"
    BY FramesMade
  <2>2. calls' = Append([Taken EXCEPT ![Depth].pc = "tested"], f)
    BY <1>7
  <2> HIDE DEF f
  <2>3. ~Settled(f) /\ LastTaken(f) /\ f.fn # "task"
    BY <2>1 DEF Settled, LastTaken, SettledPlaces, TakenPlaces
  <2> QED
    BY <1>1, <1>2, <1>3, <1>4, <2>1, <2>2, <2>3, CallStep, CallsAreBase
<1> QED
  BY <1>5, <1>6, <1>7

(* Its result is delivered; when all are taken the queue is empty.         *)
LEMMA WaitDeliverStep ==
  ASSUME QInv, WaitDeliver
  PROVE  QInv'
<1> DEFINE to == cmd_queue[Top.n].to
           stored == [calls EXCEPT ![to[1]].value = Top.value]
           c == IF to[1] \in 2 .. Depth - 1 THEN stored ELSE calls
<1>1. /\ Facts /\ Pointers /\ Top.fn = "squid_wait_asic_reads" /\ ended # "queue"
      /\ asic_serial_stack = <<>>
  <2>1. In("squid_wait_asic_reads", "deliver")
    BY DEF WaitDeliver
  <2>2. <<"squid_wait_asic_reads", "deliver">> # <<"squid_wait_asic_reads", "start">>
        /\ "squid_wait_asic_reads" # "task"
    OBVIOUS
  <2> QED
    BY <2>1, <2>2, PlaceSays
<1>2. /\ asic_serial_stack' = <<>> /\ ended' # "queue"
  BY <1>1 DEF WaitDeliver, fpgaVars
<1>3. Base(c)
  <2>1. Top.value \in Results
    BY <1>1 DEF Facts, Frames
  <2>2. ASSUME to[1] \in 2 .. Depth - 1
        PROVE  Base(stored)
    BY <1>1, <2>1, <2>2, DeliveredIs
  <2> QED
    BY <1>1, <2>2, CallsAreBase
<1>4. \/ /\ calls' = Append([c EXCEPT ![Depth].pc = "error"], Restart)
         /\ UNCHANGED <<current_cmd_queue_ptr, current_cmd_hw_queue_ptr>>
      \/ /\ calls' = [c EXCEPT ![Depth].pc = "loop"]
         /\ IF AllTaken THEN reset_asic_queue ELSE UNCHANGED queueVars
  BY DEF WaitDeliver, queueVars
<1> HIDE DEF c
<1>5. ASSUME NEW q \in {"error", "loop"}
      PROVE  \E g \in Frames : /\ g.fn = Top.fn /\ g.pc = q
                               /\ [c EXCEPT ![Depth].pc = q] = WithTop(c, g)
  <2> DEFINE g == [Top EXCEPT !.pc = q]
  <2>1. g \in Frames /\ g.fn = Top.fn /\ g.pc = q
    BY <1>1 DEF Facts, Frames, Pcs
  <2>2. [c EXCEPT ![Depth].pc = q] = WithTop(c, g)
    BY <1>3 DEF Base, WithTop
  <2> QED
    BY <2>1, <2>2
<1>6. CASE /\ calls' = Append([c EXCEPT ![Depth].pc = "error"], Restart)
           /\ UNCHANGED <<current_cmd_queue_ptr, current_cmd_hw_queue_ptr>>
  <2>1. PICK g \in Frames : /\ g.fn = Top.fn /\ g.pc = "error"
                            /\ calls' = Append(WithTop(c, g), Restart)
    BY <1>5, <1>6
  <2>2. /\ Restart \in Frames /\ Restart.fn # "task" /\ ~Settled(Restart)
        /\ Restart.fn \in Settling /\ LastTaken(Restart)
    BY FramesMade DEF Settled, LastTaken, SettledPlaces, TakenPlaces, Settling
  <2>3. Pointers'
    BY <1>1, <1>2, <1>6 DEF Pointers
  <2> QED
    BY <1>1, <1>2, <1>3, <2>1, <2>2, <2>3, CallStep
<1>7. CASE /\ calls' = [c EXCEPT ![Depth].pc = "loop"]
           /\ IF AllTaken THEN reset_asic_queue ELSE UNCHANGED queueVars
  <2>1. PICK g \in Frames : g.fn = Top.fn /\ g.pc = "loop" /\ calls' = WithTop(c, g)
    BY <1>5, <1>7
  <2>2. ~Settled(g)
    BY <1>1, <2>1 DEF Settled, SettledPlaces
  <2>3. /\ Pointers'
        /\ current_cmd_hw_queue_ptr' = current_cmd_queue_ptr' => current_cmd_queue_ptr' = 0
    BY <1>1, <1>2, <1>7, FpgaAssumption
       DEF Pointers, AllTaken, reset_asic_queue, queueVars, PushLimit
  <2> QED
    BY <1>1, <1>2, <1>3, <2>1, <2>2, <2>3, StayStep
<1> QED
  BY <1>4, <1>6, <1>7

(* The test of the loops begins with an empty queue.                       *)
LEMMA TestStartStep ==
  ASSUME QInv, TestStart
  PROVE  QInv'
<1>1. /\ Facts /\ Pointers /\ Top.fn = "test_all_loops" /\ ended # "queue"
      /\ asic_serial_stack = <<>>
  <2>1. In("test_all_loops", "start")
    BY DEF TestStart
  <2>2. <<"test_all_loops", "start">> # <<"squid_wait_asic_reads", "start">>
        /\ "test_all_loops" # "task"
    OBVIOUS
  <2> QED
    BY <2>1, <2>2, PlaceSays
<1>2. GoesTo("loop")
  BY <1>1, AtIs DEF TestStart, Pcs
<1>3. PICK g \in Frames : g.fn = Top.fn /\ g.pc = "loop" /\ calls' = WithTop(calls, g)
  BY <1>2 DEF GoesTo
<1>4. ~Settled(g)
  BY <1>1, <1>3 DEF Settled, SettledPlaces
<1>5. Pointers' /\ current_cmd_queue_ptr' = 0 /\ asic_serial_stack' = <<>>
  BY <1>1, FpgaAssumption DEF TestStart, reset_asic_queue, Pointers, PushLimit
<1> QED
  BY <1>1, <1>3, <1>4, <1>5, StayStep, CallsAreBase DEF TestStart

(* A task begins, and ends.                                                *)
LEMMA BeginStep ==
  ASSUME QInv, Begin
  PROVE  QInv'
<1> DEFINE f == Frame("task")
<1>1. f \in Frames /\ f.fn = "task" /\ f.pc = "start"
  BY TaskFrame
<1>2. calls' = <<f>> /\ calls = <<>>
  BY DEF Begin
<1> HIDE DEF f
<1>3. /\ calls' \in Seq(Frames) /\ calls' # <<>> /\ Len(calls') = 1 /\ calls'[1] = f
  BY <1>1, <1>2
<1>4. Linked(calls')
  BY <1>1, <1>3 DEF Linked
<1>5. Top' = f /\ ~Settled(f)
  BY <1>1, <1>3 DEF Top, Depth, Settled, SettledPlaces
<1>6. Pointers /\ current_cmd_queue_ptr = 0 /\ ended # "queue"
  BY <1>2 DEF QInv, Places
<1>7. Pointers' /\ current_cmd_queue_ptr' = 0 /\ ended' # "queue"
  BY <1>6 DEF Begin, Pointers, queueVars, fpgaVars
<1> QED
  BY <1>3, <1>4, <1>5, <1>7 DEF QInv, Places, Sending

(* The task ends, and leaves nothing in the queue.                         *)
LEMMA TaskDoneStep ==
  ASSUME QInv, TaskDone
  PROVE  QInv'
<1>1. Pointers /\ current_cmd_queue_ptr = 0 /\ ended # "queue"
  BY PlaceSays DEF TaskDone, SettledPlaces
<1>2. calls' = <<>>
  BY DEF TaskDone
<1>3. Pointers' /\ current_cmd_queue_ptr' = 0 /\ ended' # "queue"
  BY <1>1 DEF TaskDone, Pointers
<1>4. Linked(<<>>)
  BY DEF Linked
<1> QED
  BY <1>2, <1>3, <1>4 DEF QInv, Places
-----------------------------------------------------------------------------
(* The theorems.                                                           *)
LEMMA Initially ==
  ASSUME Init
  PROVE  QInv
<1>1. Linked(<<>>)
  BY DEF Linked
<1>2. Pointers
  BY FpgaAssumption DEF Init, Pointers, PushLimit
<1> QED
  BY <1>1, <1>2 DEF Init, QInv, Places

(* Every step keeps it.                                                    *)
LEMMA Step ==
  ASSUME QInv, [Next]_vars
  PROVE  QInv'
<1>1. CASE \E fn \in Readers : PushWait(fn) \/ PushGarbage(fn) \/ PushRead(fn)
  BY <1>1, PushWaitStep, PushGarbageStep, PushReadStep
<1>2. CASE TaskStep
  BY <1>1, <1>2, BeginStep, TaskWaitStep, TaskDoneStep, ReadAtOnceStep DEF TaskStep
<1>3. CASE WaitStep
  BY <1>3, WaitFlushStep, WaitDoneStep, WaitSlotStep, WaitDeliverStep, WaitQuiets DEF WaitStep
<1>4. CASE TestStep
  BY <1>4, TestStartStep, TestQuiets
<1>5. CASE RestartStep
  BY <1>5, RestartQuiets
<1>6. CASE Arrive \/ Gone \/ UNCHANGED vars
  <2>1. Quiet /\ UNCHANGED calls
    BY <1>6 DEF Arrive, Gone, vars, queueVars, fpgaVars, Quiet, QInv
  <2> QED
    BY <2>1, ExitQuiet
<1> QED
  BY <1>2, <1>3, <1>4, <1>5, <1>6 DEF Next, Running

(* Theorem.  Whatever calls of tests, resets and searches the failed reads *)
(* lead to, and however deep they lie in one another: the pointers of the  *)
(* queue are in order, and every place of the code that counts on an empty *)
(* queue finds it empty.                                                   *)
THEOREM Invariance == Spec => []QInv
  BY Initially, Step, PTL DEF Spec

(* Theorem.  No assertion of push_asic_read() or fpga_queue_status() fails *)
(* and a task leaves nothing in the queue, whatever the size of the queue  *)
(* and however few slots push_asic_read() keeps free: one is enough.       *)
THEOREM QueueStaysSound == Spec => []QueueIsSound
<1>1. QInv => QueueIsSound
  BY EmptyQueueIs DEF QInv, Places, QueueIsSound, Idle
<1> QED
  BY <1>1, Invariance, PTL
-----------------------------------------------------------------------------
(* Failed reads are reported again.                                        *)
(*                                                                         *)
(* assert_serial_failures is cleared while the loops are tested.  Where it *)
(* is, a call in progress will set it again or end the process: a test of  *)
(* a loop, a reset, a test of all loops that found a problem and was not   *)
(* called by a reset, and the wait it tells of that.  The end of a reset   *)
(* does so only if an ASIC got lost meanwhile, which ends the process.     *)

Restarts(f) == f.fn = "restart_asics_full"
Active(f)   == Restarts(f) /\ f.pc # "start"
AtEnd(f)    == Restarts(f) /\ f.pc \in {"conductor", "busy"}
Tests(f)    == f.fn = "test_all_loops"
Tested(f)   == Tests(f) /\ f.pc = "tested"
Serial(f)   == Restarts(f) /\ f.pc = "serial"
Waits(f)    == f.fn = "squid_wait_asic_reads"

(* Who calls the tests.                                                    *)
CalledBy(g, f) ==
  /\ f.fn = "test_serial"
       => Tested(g) \/ (Restarts(g) /\ g.pc \in {"discovered", "good_loops", "serial"})
  /\ Tests(f)
       => \/ Waits(g) /\ g.pc = "tested"
          \/ Restarts(g) /\ g.pc \in {"tested", "reset"}
  /\ Tested(g) \/ Serial(g) => f.fn = "test_serial"

Called == \A d \in 1 .. Depth - 1 : CalledBy(calls[d], calls[d + 1])

(* The loop a test of all loops is at, and its flag in the end of a reset. *)
TestOK(f) ==
  Tests(f) => /\ f.n \in Int /\ f.n >= 1
              /\ f.pc = "tested" => f.n <= LOOP_COUNT
              /\ f.pc = "start" => ~f.err

InTests ==
  \A d \in 1 .. Depth :
    /\ TestOK(calls[d])
    /\ Tests(calls[d]) => \A e \in 1 .. d - 1 : AtEnd(calls[e]) => calls[d].flag

(* What in_asic_reset says of the one reset under way, and the ASICs there *)
(* are: all of them, but for what a reset does to them after its tests.    *)
StageOf(f, v) ==
  /\ v.in_asic_reset # 0
  /\ f.pc = "tested" => v.in_asic_reset = 1
  /\ f.pc \notin {"tested", "reset"} => v.in_asic_reset = 2
  /\ AtEnd(f) => v.present \subseteq Loops

Stages ==
  /\ \A d \in 1 .. Depth : Active(calls[d]) =>
       StageOf(calls[d], vm) /\ \A e \in 1 .. Depth : Active(calls[e]) => e = d
  /\ vm.in_asic_reset # 0 => \E d \in 1 .. Depth : Active(calls[d])
  /\ vm.in_asic_reset # 0 => vm.asics = Loops
  /\ vm.in_asic_reset # 2 => vm.present = Loops

(* What a test of a loop has returned.                                     *)
Result(f, v) ==
  Tested(f) \/ Serial(f) => f.val = "bad" \/ (f.val = "good" /\ v.assert_serial_failures = TRUE)

Returned == calls # <<>> => Result(Top, vm)

(* The calls that will see to it that failures are reported again.         *)
Covers(d) ==
  \/ calls[d].fn = "test_serial"
  \/ Restarts(calls[d]) /\ (AtEnd(calls[d]) => vm.present # Loops)
  \/ Tests(calls[d]) /\ calls[d].err = TRUE /\ \A e \in 1 .. d - 1 : ~Active(calls[e])
  \/ d = Depth /\ Tested(calls[d]) /\ calls[d].val = "bad"
  \/ /\ d = Depth /\ Waits(calls[d]) /\ calls[d].pc = "tested" /\ calls[d].val = "problem"
     /\ vm.in_asic_reset = 0

Covered == vm.assert_serial_failures = TRUE \/ \E d \in 1 .. Depth : Covers(d)

VmFields ==
  /\ DOMAIN vm = {"assert_serial_failures", "in_asic_reset", "did_asic_reset",
                  "tryed_power_cycle", "spi_timeout_count", "corruptions_count",
                  "bad_loop_count", "enabled", "present", "asics"}
  /\ vm.assert_serial_failures \in BOOLEAN
  /\ vm.in_asic_reset \in 0 .. 2

RParts == Called /\ InTests /\ Stages /\ Returned /\ Covered

RInv == VmFields /\ (ended = "no" => RParts)
-----------------------------------------------------------------------------
(* What a step does to the calls, as far as it matters here.               *)
Like(f, g) ==
  f.fn = g.fn /\ f.pc = g.pc /\ f.n = g.n /\ f.err = g.err /\ f.flag = g.flag

Keeps(k) == \A d \in 1 .. k : Like(calls'[d], calls[d])

(* The running frame goes on as g, ...                                     *)
Stays(g) == Len(calls') = Depth /\ calls'[Depth] = g /\ Keeps(Depth - 1)

(* ... calls f and waits as g, ...                                         *)
Pushes(g, f) ==
  /\ Len(calls') = Depth + 1 /\ calls'[Depth + 1] = f /\ calls'[Depth] = g
  /\ Keeps(Depth - 1)

(* ... or returns v.                                                       *)
Pops(v) ==
  Depth >= 2 /\ Len(calls') = Depth - 1 /\ Keeps(Depth - 1) /\ calls'[Depth - 1].val = v

(* The frame goes on.                                                      *)
LEMMA StaysIs ==
  ASSUME Facts, NEW g, calls' = WithTop(calls, g)
  PROVE  Stays(g)
<1>1. calls \in Seq(Frames) /\ Depth \in Nat /\ Depth >= 1 /\ Len(calls) = Depth
  BY DEF Facts, Linked, Depth
<1>2. Len(calls') = Depth /\ calls'[Depth] = g /\ \A d \in 1 .. Depth - 1 : calls'[d] = calls[d]
  BY <1>1 DEF WithTop
<1> QED
  BY <1>2 DEF Stays, Keeps, Like

(* It calls.                                                               *)
LEMMA PushesIs ==
  ASSUME Facts, NEW g \in Frames, NEW f \in Frames, calls' = Append(WithTop(calls, g), f)
  PROVE  Pushes(g, f)
<1> DEFINE w == WithTop(calls, g)
<1>1. calls \in Seq(Frames) /\ Depth \in Nat /\ Depth >= 1 /\ Len(calls) = Depth
  BY DEF Facts, Linked, Depth
<1>2. /\ w \in Seq(Frames) /\ Len(w) = Depth /\ w[Depth] = g
      /\ \A d \in 1 .. Depth - 1 : w[d] = calls[d]
  BY <1>1 DEF WithTop
<1>3. calls' = Append(w, f)
  OBVIOUS
<1> HIDE DEF w
<1>4. /\ Len(calls') = Depth + 1 /\ calls'[Depth + 1] = f
      /\ \A d \in 1 .. Depth : calls'[d] = w[d]
  BY <1>1, <1>2, <1>3
<1> QED
  BY <1>1, <1>2, <1>4 DEF Pushes, Keeps, Like

(* It returns.                                                             *)
LEMMA PopsIs ==
  ASSUME Facts, Top.fn # "task", NEW v, Return(v)
  PROVE  Pops(v)
<1> DEFINE s == SubSeq(calls, 1, Depth - 1)
           g == [s[Depth - 1] EXCEPT !.val = v]
<1>1. calls \in Seq(Frames) /\ Depth \in Nat /\ Depth >= 2 /\ Len(calls) = Depth
  <2>1. calls \in Seq(Frames) /\ Len(calls) = Depth
    BY DEF Facts, Linked, Depth
  <2>2. Depth \in Nat /\ Depth >= 1 /\ Depth # 1
    BY DEF Facts
  <2> QED
    BY <2>1, <2>2
<1>2. s \in Seq(Frames) /\ Len(s) = Depth - 1 /\ \A d \in 1 .. Depth - 1 : s[d] = calls[d]
  BY <1>1
<1>3. calls' = [s EXCEPT ![Depth - 1] = g]
  BY DEF Return
<1> HIDE DEF s
<1>4. g.val = v /\ Like(g, s[Depth - 1])
  <2>1. s[Depth - 1] \in Frames
    BY <1>1, <1>2
  <2> QED
    BY <2>1 DEF Frames, Like
<1> HIDE DEF g
<1>5. /\ Len(calls') = Depth - 1 /\ calls'[Depth - 1] = g
      /\ \A d \in 1 .. Depth - 2 : calls'[d] = s[d]
  BY <1>1, <1>2, <1>3
<1>6. Keeps(Depth - 1)
  BY <1>1, <1>2, <1>4, <1>5 DEF Keeps, Like
<1> QED
  BY <1>1, <1>4, <1>5, <1>6 DEF Pops
-----------------------------------------------------------------------------
(* Who calls the tests is kept.                                            *)
LEMMA CalledKept ==
  ASSUME Facts, Called
  PROVE  /\ \A g : Stays(g) /\ g.fn = Top.fn => Called'
         /\ \A g, f : Pushes(g, f) /\ g.fn = Top.fn /\ CalledBy(g, f) => Called'
         /\ \A v : Pops(v) => Called'
<1>1. Depth \in Nat /\ Depth >= 1
  BY DEF Facts
<1>2. ASSUME NEW g, g.fn = Top.fn, Keeps(Depth - 1),
             calls'[Depth] = g, NEW d \in 1 .. Depth - 1
      PROVE  CalledBy(calls[d], calls[d + 1])'
  <2>1. CalledBy(calls[d], calls[d + 1]) /\ d \in 1 .. Depth - 1
    BY DEF Called
  <2>2. Like(calls'[d], calls[d])
    BY <1>2 DEF Keeps
  <2>3. calls'[d + 1].fn = calls[d + 1].fn
    <3>1. CASE d + 1 = Depth
      BY <1>2, <3>1 DEF Top
    <3>2. CASE d + 1 # Depth
      <4>1. d + 1 \in 1 .. Depth - 1
        BY <1>1, <3>2
      <4> QED
        BY <1>2, <4>1 DEF Keeps, Like
    <3> QED
      BY <3>1, <3>2
  <2> QED
    BY <2>1, <2>2, <2>3 DEF CalledBy, Like, Tests, Tested, Waits, Restarts, Serial
<1>3. ASSUME NEW g, Stays(g), g.fn = Top.fn
      PROVE  Called'
  BY <1>1, <1>2, <1>3 DEF Stays, Called, Depth
<1>4. ASSUME NEW g, NEW f, Pushes(g, f), g.fn = Top.fn, CalledBy(g, f)
      PROVE  Called'
  <2>1. Len(calls') = Depth + 1 /\ calls'[Depth + 1] = f /\ calls'[Depth] = g /\ Keeps(Depth - 1)
    BY <1>4 DEF Pushes
  <2>2. ASSUME NEW d \in 1 .. Depth
        PROVE  CalledBy(calls[d], calls[d + 1])'
    <3>1. CASE d = Depth
      BY <1>4, <2>1, <3>1 DEF CalledBy, Tests, Tested, Waits, Restarts, Serial
    <3>2. CASE d # Depth
      <4>1. d \in 1 .. Depth - 1
        BY <1>1, <3>2
      <4> QED
        BY <1>2, <1>4, <2>1, <4>1
    <3> QED
      BY <3>1, <3>2
  <2> QED
    BY <1>1, <2>1, <2>2 DEF Called, Depth
<1>5. ASSUME NEW v, Pops(v)
      PROVE  Called'
  <2>1. Len(calls') = Depth - 1 /\ Keeps(Depth - 1)
    BY <1>5 DEF Pops
  <2>2. ASSUME NEW d \in 1 .. Depth - 2
        PROVE  CalledBy(calls[d], calls[d + 1])'
    <3>1. CalledBy(calls[d], calls[d + 1]) /\ d \in 1 .. Depth - 1 /\ d + 1 \in 1 .. Depth - 1
      BY <1>1 DEF Called
    <3>2. Like(calls'[d], calls[d]) /\ Like(calls'[d + 1], calls[d + 1])
      BY <2>1, <3>1 DEF Keeps
    <3> QED
      BY <3>1, <3>2 DEF CalledBy, Like, Tests, Tested, Waits, Restarts, Serial
  <2>3. Depth' = Depth - 1 /\ 1 .. (Depth - 1) - 1 = 1 .. Depth - 2
    BY <1>1, <2>1 DEF Depth
  <2> QED
    BY <2>2, <2>3 DEF Called
<1> QED
  BY <1>3, <1>4, <1>5

(* The tests keep their loops and flags.                                   *)
LEMMA InTestsKept ==
  ASSUME Facts, InTests
  PROVE  /\ \A g : /\ Stays(g) /\ g.fn = Top.fn /\ TestOK(g)
                   /\ Tests(g) => g.flag = Top.flag
                   => InTests'
         /\ \A g, f : /\ Pushes(g, f) /\ g.fn = Top.fn /\ TestOK(g) /\ TestOK(f)
                      /\ Tests(g) => g.flag = Top.flag
                      /\ Tests(f) => \/ f.flag
                                     \/ /\ ~AtEnd(g)
                                        /\ \A e \in 1 .. Depth - 1 : ~AtEnd(calls[e])
                      => InTests'
         /\ \A v : Pops(v) => InTests'
<1>1. Depth \in Nat /\ Depth >= 1
  BY DEF Facts
<1> DEFINE OK(d) == /\ TestOK(calls'[d])
                    /\ Tests(calls'[d])
                         => \A e \in 1 .. d - 1 : AtEnd(calls'[e]) => calls'[d].flag
<1>2. ASSUME Keeps(Depth - 1), NEW d \in 1 .. Depth - 1
      PROVE  OK(d)
  <2>1. Like(calls'[d], calls[d])
    BY <1>2 DEF Keeps
  <2>2. TestOK(calls[d])
    BY <1>1 DEF InTests
  <2>3. TestOK(calls'[d])
    BY <2>1, <2>2 DEF TestOK, Like, Tests
  <2>4. ASSUME Tests(calls'[d]), NEW e \in 1 .. d - 1, AtEnd(calls'[e])
        PROVE  calls'[d].flag
    <3>1. e \in 1 .. Depth - 1 /\ d \in 1 .. Depth
      BY <1>1
    <3>2. Like(calls'[e], calls[e])
      BY <1>2, <3>1 DEF Keeps
    <3>3. AtEnd(calls[e]) /\ Tests(calls[d])
      BY <2>1, <2>4, <3>2 DEF Like, AtEnd, Tests, Restarts
    <3>4. calls[d].flag
      BY <3>1, <3>3 DEF InTests
    <3> QED
      BY <2>1, <3>4 DEF Like
  <2> QED
    BY <2>3, <2>4
<1>3. ASSUME Keeps(Depth - 1), NEW g, calls'[Depth] = g, g.fn = Top.fn, TestOK(g),
             Tests(g) => g.flag = Top.flag
      PROVE  OK(Depth)
  <2>1. ASSUME Tests(g), NEW e \in 1 .. Depth - 1, AtEnd(calls'[e])
        PROVE  g.flag
    <3>1. Like(calls'[e], calls[e]) /\ e \in 1 .. Depth /\ Depth \in 1 .. Depth
      BY <1>1, <1>3 DEF Keeps
    <3>2. AtEnd(calls[e]) /\ Tests(calls[Depth])
      BY <1>3, <2>1, <3>1 DEF Like, AtEnd, Tests, Restarts, Top
    <3>3. calls[Depth].flag
      BY <3>1, <3>2 DEF InTests
    <3> QED
      BY <1>3, <2>1, <3>3 DEF Top
  <2> QED
    BY <1>3, <2>1
<1> HIDE DEF OK
<1>4. ASSUME NEW n \in Nat, Len(calls') = n, \A d \in 1 .. n : OK(d)
      PROVE  InTests'
  BY <1>4 DEF InTests, OK, Depth
<1>5. ASSUME NEW g, Stays(g), g.fn = Top.fn, Tests(g) => g.flag = Top.flag, TestOK(g)
      PROVE  InTests'
  <2>1. Len(calls') = Depth /\ Keeps(Depth - 1) /\ calls'[Depth] = g
    BY <1>5 DEF Stays
  <2>2. OK(Depth) /\ \A d \in 1 .. Depth - 1 : OK(d)
    BY <1>2, <1>3, <1>5, <2>1
  <2>3. \A d \in 1 .. Depth : OK(d)
    BY <1>1, <2>2
  <2> QED
    BY <1>1, <1>4, <2>1, <2>3
<1>6. ASSUME NEW g, NEW f, Pushes(g, f), g.fn = Top.fn, TestOK(g), TestOK(f),
             Tests(g) => g.flag = Top.flag,
             Tests(f) => f.flag \/ (~AtEnd(g) /\ \A e \in 1 .. Depth - 1 : ~AtEnd(calls[e]))
      PROVE  InTests'
  <2>1. /\ Len(calls') = Depth + 1 /\ Keeps(Depth - 1) /\ calls'[Depth] = g
        /\ calls'[Depth + 1] = f
    BY <1>6 DEF Pushes
  <2>2. OK(Depth) /\ \A d \in 1 .. Depth - 1 : OK(d)
    BY <1>2, <1>3, <1>6, <2>1
  <2>3. ASSUME Tests(f), NEW e \in 1 .. Depth, AtEnd(calls'[e])
        PROVE  f.flag
    <3>1. CASE e = Depth
      BY <1>6, <2>1, <2>3, <3>1
    <3>2. CASE e # Depth
      <4>1. e \in 1 .. Depth - 1
        BY <1>1, <3>2
      <4>2. Like(calls'[e], calls[e])
        BY <2>1, <4>1 DEF Keeps
      <4>3. AtEnd(calls[e])
        BY <2>3, <4>2 DEF Like, AtEnd, Restarts
      <4> QED
        BY <1>6, <2>3, <4>1, <4>3
    <3> QED
      BY <3>1, <3>2
  <2>4. OK(Depth + 1)
    BY <1>1, <1>6, <2>1, <2>3 DEF OK
  <2>5. \A d \in 1 .. Depth + 1 : OK(d)
    BY <1>1, <2>2, <2>4
  <2> QED
    BY <1>1, <1>4, <2>1, <2>5
<1>7. ASSUME NEW v, Pops(v)
      PROVE  InTests'
  BY <1>1, <1>2, <1>4, <1>7 DEF Pops
<1> QED
  BY <1>5, <1>6, <1>7

(* Where no reset starts, goes on or ends, the stages keep what they say.  *)
SameStage ==
  /\ vm'.in_asic_reset = vm.in_asic_reset /\ vm'.asics = vm.asics
  /\ \/ vm'.present = vm.present
     \/ vm.in_asic_reset = 2 /\ vm'.present \subseteq vm.present

(* The stages are kept by calls and returns of what is no reset.           *)
LEMMA StagesKept ==
  ASSUME Facts, Stages, SameStage, ~Active(Top)
  PROVE  /\ \A g : Stays(g) /\ ~Active(g) => Stages'
         /\ \A g, f : Pushes(g, f) /\ ~Active(g) /\ ~Active(f) => Stages'
         /\ \A v : Pops(v) => Stages'
<1>1. Depth \in Nat /\ Depth >= 1 /\ Top = calls[Depth]
  BY DEF Facts, Top
<1>2. ASSUME NEW n \in Nat, Len(calls') = n, n >= Depth - 1, Keeps(Depth - 1),
             \A d \in 1 .. n : d > Depth - 1 => ~Active(calls'[d])
      PROVE  Stages'
  <2>1. ASSUME NEW d \in 1 .. n
        PROVE  /\ Active(calls'[d]) => d \in 1 .. Depth - 1
               /\ d \in 1 .. Depth - 1 => /\ Active(calls'[d]) = Active(calls[d])
                                          /\ calls'[d].pc = calls[d].pc
                                          /\ AtEnd(calls'[d]) = AtEnd(calls[d])
    BY <1>1, <1>2 DEF Keeps, Like, Active, Restarts, AtEnd
  <2>2. ASSUME NEW d \in 1 .. n, Active(calls'[d])
        PROVE  StageOf(calls'[d], vm') /\ \A e \in 1 .. n : Active(calls'[e]) => e = d
    <3>1. d \in 1 .. Depth - 1 /\ d \in 1 .. Depth /\ Active(calls[d])
      BY <1>1, <2>1, <2>2
    <3>2. StageOf(calls[d], vm)
      BY <3>1 DEF Stages
    <3>3. StageOf(calls'[d], vm')
      BY <2>1, <3>1, <3>2 DEF StageOf, SameStage
    <3>4. ASSUME NEW e \in 1 .. n, Active(calls'[e])
          PROVE  e = d
      <4>1. e \in 1 .. Depth - 1 /\ e \in 1 .. Depth /\ Active(calls[e])
        BY <1>1, <2>1, <3>4
      <4> QED
        BY <3>1, <4>1 DEF Stages
    <3> QED
      BY <3>3, <3>4
  <2>3. ASSUME vm.in_asic_reset # 0
        PROVE  \E d \in 1 .. n : Active(calls'[d])
    <3>1. PICK d \in 1 .. Depth : Active(calls[d])
      BY <2>3 DEF Stages
    <3>2. d \in 1 .. Depth - 1
      BY <1>1, <3>1
    <3>3. d \in 1 .. n
      BY <1>1, <1>2, <3>2
    <3> QED
      BY <2>1, <3>1, <3>2, <3>3
  <2>4. /\ vm'.in_asic_reset # 0 => vm'.asics = Loops
        /\ vm'.in_asic_reset # 2 => vm'.present = Loops
    BY DEF Stages, SameStage
  <2>5. Depth' = n
    BY <1>2 DEF Depth
  <2> QED
    BY <2>2, <2>3, <2>4, <2>5 DEF Stages, SameStage
<1>3. ASSUME NEW g, Stays(g), ~Active(g)
      PROVE  Stages'
  BY <1>1, <1>2, <1>3 DEF Stays
<1>4. ASSUME NEW g, NEW f, Pushes(g, f), ~Active(g), ~Active(f)
      PROVE  Stages'
  <2>1. \A d \in 1 .. Depth + 1 : d > Depth - 1 => d = Depth \/ d = Depth + 1
    BY <1>1
  <2>2. \A d \in 1 .. Depth + 1 : d > Depth - 1 => ~Active(calls'[d])
    BY <1>4, <2>1 DEF Pushes
  <2> QED
    BY <1>1, <1>2, <1>4, <2>2 DEF Pushes
<1>5. ASSUME NEW v, Pops(v)
      PROVE  Stages'
  BY <1>1, <1>2, <1>5 DEF Pops
<1> QED
  BY <1>3, <1>4, <1>5

(* The reset under way goes on, as g.                                      *)
LEMMA StagesOn ==
  ASSUME Facts, Stages, NEW g, Active(g), StageOf(g, vm'),
         Active(Top) \/ \A d \in 1 .. Depth : ~Active(calls[d]),
         Stays(g) \/ \E f : Pushes(g, f) /\ ~Active(f),
         vm'.asics = Loops, vm'.in_asic_reset # 2 => vm'.present = Loops
  PROVE  Stages'
<1>1. Depth \in Nat /\ Depth >= 1 /\ Top = calls[Depth] /\ Depth \in 1 .. Depth
  BY DEF Facts, Top
<1>2. \A d \in 1 .. Depth - 1 : ~Active(calls[d])
  <2>1. \A d \in 1 .. Depth - 1 : d \in 1 .. Depth /\ d # Depth
    BY <1>1
  <2> QED
    BY <1>1, <2>1 DEF Stages
<1>3. Keeps(Depth - 1) /\ calls'[Depth] = g
  BY DEF Stays, Pushes
<1>4. \A d \in 1 .. Depth - 1 : ~Active(calls'[d])
  BY <1>2, <1>3 DEF Keeps, Like, Active, Restarts
<1>5. Depth' \in {Depth, Depth + 1} /\ \A d \in 1 .. Depth' : Active(calls'[d]) => d = Depth
  <2>1. CASE Stays(g)
    BY <1>1, <1>3, <1>4, <2>1 DEF Stays, Depth
  <2>2. CASE \E f : Pushes(g, f) /\ ~Active(f)
    <3>1. PICK f : Pushes(g, f) /\ ~Active(f)
      BY <2>2
    <3>2. Depth' = Depth + 1 /\ ~Active(calls'[Depth + 1])
      BY <3>1 DEF Pushes, Depth
    <3>3. \A d \in 1 .. Depth + 1 : d \in 1 .. Depth - 1 \/ d = Depth \/ d = Depth + 1
      BY <1>1
    <3> QED
      BY <1>4, <3>2, <3>3
  <2> QED
    BY <2>1, <2>2
<1>6. Depth \in 1 .. Depth'
  BY <1>1, <1>5
<1> QED
  BY <1>3, <1>5, <1>6 DEF Stages
-----------------------------------------------------------------------------
(* What a test of a loop returned.                                         *)
LEMMA ReturnedKept ==
  ASSUME Facts, Called
  PROVE  /\ \A g : Stays(g) /\ Result(g, vm') => Returned'
         /\ \A g, f : Pushes(g, f) /\ Result(f, vm') => Returned'
         /\ \A v : Pops(v) /\ (\/ Top.fn # "test_serial" \/ v = "bad"
                               \/ v = "good" /\ vm'.assert_serial_failures = TRUE) => Returned'
<1>1. Depth \in Nat /\ Depth >= 1 /\ Top = calls[Depth]
  BY DEF Facts, Top
<1>2. ASSUME NEW g, Stays(g), Result(g, vm')
      PROVE  Returned'
  BY <1>2 DEF Stays, Returned, Top, Depth
<1>3. ASSUME NEW g, NEW f, Pushes(g, f), Result(f, vm')
      PROVE  Returned'
  BY <1>3 DEF Pushes, Returned, Top, Depth
<1>4. ASSUME NEW v, Pops(v),
             Top.fn # "test_serial" \/ v = "bad"
               \/ (v = "good" /\ vm'.assert_serial_failures = TRUE)
      PROVE  Returned'
  <2>1. /\ Depth - 1 \in 1 .. Depth - 1 /\ Len(calls') = Depth - 1 /\ calls'[Depth - 1].val = v
        /\ Like(calls'[Depth - 1], calls[Depth - 1])
    BY <1>1, <1>4 DEF Pops, Keeps
  <2>2. Top' = calls'[Depth - 1]
    BY <2>1 DEF Top, Depth
  <2>3. CalledBy(calls[Depth - 1], Top)
    <3>1. (Depth - 1) + 1 = Depth
      BY <1>1
    <3> QED
      BY <1>1, <2>1, <3>1 DEF Called
  <2>4. Tested(Top') \/ Serial(Top') => Top.fn = "test_serial"
    BY <2>1, <2>2, <2>3 DEF CalledBy, Like, Tested, Serial, Tests, Restarts
  <2>5. Result(Top', vm')
    BY <1>4, <2>1, <2>2, <2>4 DEF Result
  <2> QED
    BY <2>5 DEF Returned
<1> QED
  BY <1>2, <1>3, <1>4

(* A call below the running one that sees to it goes on doing so.          *)
LEMMA CoversKept ==
  ASSUME Facts, Keeps(Depth - 1), Len(calls') \in Nat, NEW d \in 1 .. Depth - 1, Covers(d),
         vm.present # Loops /\ AtEnd(calls[d]) => vm'.present # Loops
  PROVE  Covers(d)'
<1>1. Depth \in Nat /\ Depth >= 1 /\ d # Depth /\ Like(calls'[d], calls[d])
  BY DEF Facts, Keeps
<1>2. CASE calls[d].fn = "test_serial"
  BY <1>1, <1>2 DEF Covers, Like
<1>3. CASE Restarts(calls[d]) /\ (AtEnd(calls[d]) => vm.present # Loops)
  BY <1>1, <1>3 DEF Covers, Like, Restarts, AtEnd
<1>4. CASE Tests(calls[d]) /\ calls[d].err = TRUE /\ \A e \in 1 .. d - 1 : ~Active(calls[e])
  <2>1. \A e \in 1 .. d - 1 : Like(calls'[e], calls[e])
    BY <1>1 DEF Keeps
  <2>2. \A e \in 1 .. d - 1 : ~Active(calls'[e])
    BY <1>4, <2>1 DEF Like, Active, Restarts
  <2>3. Tests(calls'[d]) /\ calls'[d].err = TRUE
    BY <1>1, <1>4 DEF Like, Tests
  <2> QED
    BY <2>2, <2>3 DEF Covers
<1> QED
  BY <1>1, <1>2, <1>3, <1>4 DEF Covers

(* Failures are reported, or will be, after a step.                        *)
LEMMA CoveredKept ==
  ASSUME Facts, Covered, Keeps(Depth - 1), Len(calls') \in Nat, Len(calls') >= Depth - 1,
         vm.assert_serial_failures = TRUE => vm'.assert_serial_failures = TRUE,
         \A d \in 1 .. Depth - 1 :
           vm.present # Loops /\ AtEnd(calls[d]) => vm'.present # Loops,
         Covers(Depth) => Covered'
  PROVE  Covered'
<1>1. Depth \in Nat /\ Depth >= 1
  BY DEF Facts
<1>2. ASSUME NEW d \in 1 .. Depth - 1, Covers(d)
      PROVE  Covered'
  <2>1. Covers(d)'
    BY <1>2, CoversKept
  <2>2. d \in 1 .. Depth'
    BY <1>1 DEF Depth
  <2> QED
    BY <2>1, <2>2 DEF Covered
<1>3. ASSUME NEW d \in 1 .. Depth, Covers(d)
      PROVE  Covered'
  <2>1. CASE d = Depth
    BY <1>3, <2>1
  <2>2. CASE d # Depth
    BY <1>1, <1>2, <1>3, <2>2
  <2> QED
    BY <2>1, <2>2
<1> QED
  BY <1>3 DEF Covered
-----------------------------------------------------------------------------
(* The running frame as it goes on at q, with the loop n and the error e.  *)
As(g, q, n, e) ==
  g \in Frames /\ g.fn = Top.fn /\ g.pc = q /\ g.n = n /\ g.err = e /\ g.flag = Top.flag

Goes(q, n, e) == \E g : As(g, q, n, e) /\ Stays(g)

(* It goes on as it is, or with its next loop.                             *)
LEMMA GoesAs ==
  ASSUME Facts, NEW q \in Pcs
  PROVE  /\ \E g : As(g, q, Top.n, Top.err) /\ At(q) = WithTop(calls, g)
         /\ \E g : As(g, q, Top.n + 1, Top.err) /\ GoOn(q) = WithTop(calls, g)
<1> DEFINE g == [Top EXCEPT !.pc = q]
           h == [Top EXCEPT !.pc = q, !.n = @ + 1]
<1>1. As(g, q, Top.n, Top.err)
  BY DEF Facts, Frames, As
<1>2. As(h, q, Top.n + 1, Top.err)
  <2>1. Top \in Frames /\ Top.n + 1 \in Int
    BY DEF Facts, Frames
  <2> QED
    BY <2>1 DEF Frames, As
<1>3. At(q) = WithTop(calls, g)
  BY DEF At, WithTop, Top, Depth
<1>4. GoOn(q) = WithTop(calls, h)
  <2>1. GoOn(q) = [calls EXCEPT ![Depth] = h]
    BY Zenon DEF GoOn, Top
  <2> HIDE DEF h
  <2> QED
    BY <2>1 DEF WithTop, Depth
<1> HIDE DEF g, h
<1> QED
  BY <1>1, <1>2, <1>3, <1>4

(* The ways the actions put it.                                            *)
LEMMA GoesIs ==
  ASSUME Facts, NEW q \in Pcs
  PROVE  /\ calls' = At(q) => Goes(q, Top.n, Top.err)
         /\ calls' = GoOn(q) => Goes(q, Top.n + 1, Top.err)
  BY GoesAs, StaysIs DEF Goes

(* It goes on at another loop.                                             *)
LEMMA GoesIsN ==
  ASSUME Facts, NEW q \in Pcs, NEW n \in Int, calls' = [At(q) EXCEPT ![Depth].n = n]
  PROVE  Goes(q, n, Top.err)
<1>1. PICK g : As(g, q, Top.n, Top.err) /\ At(q) = WithTop(calls, g)
  BY GoesAs
<1> DEFINE w == WithTop(calls, g)
           h == [g EXCEPT !.n = n]
<1>2. \A z : [w EXCEPT ![Depth] = z] = WithTop(calls, z) /\ w[Depth] = g
  BY TopTwice
<1>3. calls' = [w EXCEPT ![Depth].n = n]
  BY <1>1
<1> HIDE DEF w
<1>4. calls' = [w EXCEPT ![Depth] = h]
  BY <1>2, <1>3
<1>5. As(h, q, n, Top.err)
  BY <1>1 DEF As, Frames
<1> HIDE DEF h
<1> QED
  BY <1>2, <1>4, <1>5, StaysIs DEF Goes

(* It goes on with an error, or without.                                   *)
LEMMA GoesIsErr ==
  ASSUME Facts, NEW q \in Pcs, NEW b \in BOOLEAN
  PROVE  /\ calls' = [At(q) EXCEPT ![Depth].err = b] => Goes(q, Top.n, b)
         /\ calls' = [GoOn(q) EXCEPT ![Depth].err = b] => Goes(q, Top.n + 1, b)
<1>1. ASSUME NEW n \in Int, NEW g, As(g, q, n, Top.err),
             calls' = [WithTop(calls, g) EXCEPT ![Depth].err = b]
      PROVE  Goes(q, n, b)
  <2> DEFINE w == WithTop(calls, g)
             h == [g EXCEPT !.err = b]
  <2>2. \A z : [w EXCEPT ![Depth] = z] = WithTop(calls, z) /\ w[Depth] = g
    BY TopTwice
  <2>3. calls' = [w EXCEPT ![Depth].err = b]
    BY <1>1
  <2> HIDE DEF w
  <2>4. calls' = [w EXCEPT ![Depth] = h]
    BY <2>2, <2>3
  <2>5. As(h, q, n, b)
    BY <1>1 DEF As, Frames
  <2> HIDE DEF h
  <2> QED
    BY <2>2, <2>4, <2>5, StaysIs DEF Goes
<1>2. Top.n \in Int /\ Top.n + 1 \in Int
  BY DEF Facts, Frames
<1>3. ASSUME calls' = [At(q) EXCEPT ![Depth].err = b]
      PROVE  Goes(q, Top.n, b)
  <2>1. PICK g : As(g, q, Top.n, Top.err) /\ At(q) = WithTop(calls, g)
    BY GoesAs
  <2> QED
    BY <1>1, <1>2, <1>3, <2>1
<1>4. ASSUME calls' = [GoOn(q) EXCEPT ![Depth].err = b]
      PROVE  Goes(q, Top.n + 1, b)
  <2>1. PICK g : As(g, q, Top.n + 1, Top.err) /\ GoOn(q) = WithTop(calls, g)
    BY GoesAs
  <2> QED
    BY <1>1, <1>2, <1>4, <2>1
<1> QED
  BY <1>3, <1>4

(* It calls f.                                                             *)
Makes(f, q, n, e) == \E g : As(g, q, n, e) /\ Pushes(g, f)

(* The way the actions put it.                                             *)
LEMMA MakesIs ==
  ASSUME Facts, NEW q \in Pcs, NEW f \in Frames, Call(f, q)
  PROVE  Makes(f, q, Top.n, Top.err)
<1>1. PICK g : As(g, q, Top.n, Top.err) /\ At(q) = WithTop(calls, g)
  BY GoesAs
<1>2. calls' = Append(WithTop(calls, g), f)
  BY <1>1 DEF Call
<1> QED
  BY <1>1, <1>2, PushesIs DEF As, Makes

(* A test of all loops gives a loop up.                                    *)
LEMMA MakesUp ==
  ASSUME Facts, GivesUp
  PROVE  Makes(TestLostAddress, "disable", Top.n + 1, TRUE)
<1>1. PICK g : As(g, "loop", Top.n + 1, Top.err) /\ NextLoop = WithTop(calls, g)
  <2>1. "loop" \in Pcs
    BY DEF Pcs
  <2> QED
    BY <2>1, GoesAs DEF NextLoop
<1> DEFINE h == [g EXCEPT !.err = TRUE]
           k == [h EXCEPT !.pc = "disable"]
           w == WithTop(calls, g)
           u == WithTop(calls, h)
<1>2. As(h, "loop", Top.n + 1, TRUE)
  BY <1>1 DEF As, Frames
<1>3. As(k, "disable", Top.n + 1, TRUE)
  <2> HIDE DEF h
  <2> QED
    BY <1>2 DEF As, Frames, Pcs
<1>4. calls' = Append(WithTop(calls, k), TestLostAddress)
  <2>1. [w EXCEPT ![Depth].err = TRUE] = u
    BY TopTwice DEF h
  <2> HIDE DEF w, h
  <2>2. [u EXCEPT ![Depth].pc = "disable"] = WithTop(calls, k)
    BY TopTwice
  <2> HIDE DEF u, k
  <2> QED
    BY <1>1, <2>1, <2>2 DEF GivesUp, w
<1> HIDE DEF h, k
<1> QED
  BY <1>3, <1>4, PushesIs, FramesMade DEF As, Makes
-----------------------------------------------------------------------------
(* The steps of the functions that neither test nor reset.                 *)
VmQuiet ==
  /\ VmFields' /\ vm'.in_asic_reset = vm.in_asic_reset /\ vm'.asics = vm.asics
  /\ vm'.present = vm.present /\ vm'.assert_serial_failures = vm.assert_serial_failures

Plain(f) ==
  f.fn \in {"task", "read_reg_asic", "squid_wait_asic_reads", "test_lost_address", "revive_asics"}

PlainMove ==
  \/ \E g : g.fn = Top.fn /\ Stays(g)
  \/ \E g, f : g.fn = Top.fn /\ Pushes(g, f) /\ (Plain(f) \/ (Restarts(f) /\ f.pc = "start"))
  \/ \E v : Pops(v)

(* What a running function can rely on.                                    *)
LEMMA RFacts ==
  ASSUME QInv, RInv, NEW fn, NEW p, In(fn, p)
  PROVE  Facts /\ VmFields /\ RParts /\ Top.fn = fn /\ Top.pc = p /\ ended = "no"
  BY InFacts DEF In, RInv

(* Such a step changes nothing of what the tests and resets rely on.       *)
LEMMA PlainStep ==
  ASSUME Facts, RParts, VmQuiet, Plain(Top), ~(Waits(Top) /\ Top.pc = "tested"), PlainMove
  PROVE  RInv'
<1>1. Depth \in Nat /\ Depth >= 1 /\ Top = calls[Depth]
  BY DEF Facts, Top
<1>2. ~Active(Top) /\ ~Tests(Top) /\ ~Restarts(Top) /\ Top.fn # "test_serial"
  BY DEF Plain, Active, Tests, Restarts
<1>3. SameStage /\ ~Covers(Depth)
  BY <1>1, <1>2 DEF VmQuiet, SameStage, Covers, Tested
<1> DEFINE Rest == /\ vm.assert_serial_failures = TRUE => vm'.assert_serial_failures = TRUE
                   /\ \A d \in 1 .. Depth - 1 :
                        vm.present # Loops /\ AtEnd(calls[d]) => vm'.present # Loops
<1>8. Rest
  BY DEF VmQuiet
<1>9. ASSUME Keeps(Depth - 1), Len(calls') \in Nat, Len(calls') >= Depth - 1
      PROVE  Covered'
  BY <1>3, <1>8, <1>9, CoveredKept DEF RParts
<1> HIDE DEF Rest
<1>4. ASSUME NEW g, g.fn = Top.fn
      PROVE  ~Active(g) /\ ~Tests(g) /\ ~Tested(g) /\ ~Serial(g) /\ TestOK(g) /\ Result(g, vm')
  BY <1>2, <1>4 DEF Active, Tests, Tested, Serial, Restarts, TestOK, Result
<1>5. ASSUME NEW g, g.fn = Top.fn, Stays(g)
      PROVE  Called' /\ InTests' /\ Stages' /\ Returned' /\ Covered'
  <2>1. Called' /\ InTests' /\ Stages' /\ Returned'
    BY <1>2, <1>3, <1>4, <1>5, CalledKept, InTestsKept, StagesKept, ReturnedKept DEF RParts
  <2>2. Covered'
    BY <1>1, <1>5, <1>9 DEF Stays
  <2> QED
    BY <2>1, <2>2
<1>6. ASSUME NEW g, NEW f, g.fn = Top.fn, Pushes(g, f),
             Plain(f) \/ (Restarts(f) /\ f.pc = "start")
      PROVE  Called' /\ InTests' /\ Stages' /\ Returned' /\ Covered'
  <2>1. /\ ~Active(f) /\ ~Tests(f) /\ ~Tested(f) /\ ~Serial(f) /\ TestOK(f) /\ Result(f, vm')
        /\ f.fn # "test_serial"
    BY <1>6 DEF Plain, Active, Tests, Tested, Serial, Restarts, TestOK, Result
  <2>2. CalledBy(g, f)
    BY <1>4, <1>6, <2>1 DEF CalledBy
  <2>3. Called' /\ Stages' /\ Returned'
    BY <1>2, <1>3, <1>4, <1>6, <2>1, <2>2, CalledKept, StagesKept, ReturnedKept DEF RParts
  <2>4. InTests'
    BY <1>4, <1>6, <2>1, InTestsKept DEF RParts
  <2>5. Covered'
    BY <1>1, <1>6, <1>9 DEF Pushes
  <2> QED
    BY <2>3, <2>4, <2>5
<1>7. ASSUME NEW v, Pops(v)
      PROVE  Called' /\ InTests' /\ Stages' /\ Returned' /\ Covered'
  <2>1. Called' /\ InTests' /\ Stages' /\ Returned'
    BY <1>2, <1>3, <1>7, CalledKept, InTestsKept, StagesKept, ReturnedKept DEF RParts
  <2>2. Covered'
    BY <1>1, <1>7, <1>9 DEF Pops
  <2> QED
    BY <2>1, <2>2
<1> QED
  BY <1>5, <1>6, <1>7 DEF PlainMove, RInv, RParts, VmQuiet

(* The ways such a step goes on, calls or returns.                         *)
LEMMA PlainGoes ==
  ASSUME Facts
  PROVE  /\ \A q : GoesTo(q) => PlainMove
         /\ \A f \in Frames : \A q :
              Calls(f, q) /\ (Plain(f) \/ (Restarts(f) /\ f.pc = "start"))
              => PlainMove
         /\ \A v : Return(v) /\ Top.fn # "task" => PlainMove
<1>1. \A q : GoesTo(q) => PlainMove
  BY StaysIs DEF GoesTo, PlainMove
<1>2. \A f \in Frames : \A q :
        Calls(f, q) /\ (Plain(f) \/ (Restarts(f) /\ f.pc = "start")) => PlainMove
  BY PushesIs DEF Calls, PlainMove
<1>3. \A v : Return(v) /\ Top.fn # "task" => PlainMove
  BY PopsIs DEF PlainMove
<1> QED
  BY <1>1, <1>2, <1>3

(* Nothing happens to vm.                                                  *)
LEMMA VmUnchanged ==
  ASSUME VmFields, UNCHANGED vm
  PROVE  VmQuiet
  BY DEF VmFields, VmQuiet

(* The process ends.                                                       *)
LEMMA ExitKeeps ==
  ASSUME VmFields', ended' # "no"
  PROVE  RInv'
  BY DEF RInv

(* A task, and read_reg_asic(), queue reads.                               *)
LEMMA PushKeeps ==
  ASSUME QInv, RInv, NEW fn \in Readers, PushWait(fn) \/ PushGarbage(fn) \/ PushRead(fn)
  PROVE  RInv'
<1>1. In(fn, "start") \/ In(fn, "room")
  BY DEF PushWait, PushGarbage, PushRead, AtPurge
<1>2. Facts /\ VmFields /\ RParts /\ Top.fn = fn /\ ended = "no"
  BY <1>1, RFacts
<1>3. VmQuiet
  BY <1>2, VmUnchanged DEF PushWait, PushGarbage, PushRead
<1>4. Plain(Top) /\ ~Waits(Top)
  BY <1>2 DEF Readers, Plain, Waits
<1>5. CASE PushWait(fn)
  <2>1. Calls(Wait, "room")
    BY <1>2, <1>5, CallIs DEF PushWait, Pcs
  <2>2. Wait \in Frames /\ Plain(Wait)
    BY FramesMade DEF Plain
  <2>3. PlainMove
    BY <1>2, <2>1, <2>2, PlainGoes
  <2> QED
    BY <1>2, <1>3, <1>4, <2>3, PlainStep
<1>6. CASE PushGarbage(fn)
  <2>1. PICK g \in Frames : g.fn = fn /\ calls' = Append(WithTop(calls, g), Restart)
    BY <1>2, <1>6, PushedIs DEF PushGarbage
  <2>2. Restart \in Frames /\ Restarts(Restart) /\ Restart.pc = "start"
    BY FramesMade DEF Restarts
  <2>3. Pushes(g, Restart)
    BY <1>2, <2>1, <2>2, PushesIs
  <2>4. PlainMove
    BY <1>2, <2>1, <2>2, <2>3 DEF PlainMove
  <2> QED
    BY <1>2, <1>3, <1>4, <2>4, PlainStep
<1>7. CASE PushRead(fn)
  <2>1. \/ ended' # "no"
        \/ fn = "task" /\ calls' = Pushed(fn)
        \/ fn = "read_reg_asic" /\ calls' = Append(At("done"), [Wait EXCEPT !.pc = "loop"])
    BY <1>7 DEF PushRead, Exit
  <2>2. CASE ended' # "no"
    BY <1>3, <2>2, ExitKeeps DEF VmQuiet
  <2>3. CASE fn = "task" /\ calls' = Pushed(fn)
    <3>1. PICK g \in Frames : g.fn = fn /\ calls' = WithTop(calls, g)
      BY <1>2, <2>3, PushedIs
    <3>2. PlainMove
      BY <1>2, <3>1, StaysIs DEF PlainMove
    <3> QED
      BY <1>2, <1>3, <1>4, <3>2, PlainStep
  <2>4. CASE fn = "read_reg_asic" /\ calls' = Append(At("done"), [Wait EXCEPT !.pc = "loop"])
    <3> DEFINE f == [Wait EXCEPT !.pc = "loop"]
    <3>1. f \in Frames /\ Plain(f)
      BY FramesMade DEF Frames, Pcs, Plain
    <3>2. calls' = Append(At("done"), f)
      BY <2>4
    <3> HIDE DEF f
    <3>3. PICK g \in Frames : g.fn = fn /\ calls' = Append(WithTop(calls, g), f)
      <4>1. "done" \in Pcs
        BY DEF Pcs
      <4> QED
        BY <1>2, <3>2, <4>1, GoingOn
    <3>4. PlainMove
      BY <1>2, <3>1, <3>3, PushesIs DEF PlainMove
    <3> QED
      BY <1>2, <1>3, <1>4, <3>4, PlainStep
  <2> QED
    BY <2>1, <2>2, <2>3, <2>4
<1> QED
  BY <1>5, <1>6, <1>7

(* A task waits for its reads; a read gets its reply at once.              *)
LEMMA TaskKeeps ==
  ASSUME QInv, RInv, TaskWait \/ ReadAtOnce
  PROVE  RInv'
<1>1. CASE TaskWait
  <2>1. Facts /\ VmFields /\ RParts /\ Top.fn = "task"
    BY <1>1, RFacts DEF TaskWait
  <2>2. VmQuiet /\ Plain(Top) /\ ~Waits(Top)
    BY <1>1, <2>1, VmUnchanged DEF TaskWait, Plain, Waits
  <2>3. Calls(Wait, "done") /\ Wait \in Frames /\ Plain(Wait)
    BY <1>1, <2>1, CallIs, FramesMade DEF TaskWait, Pcs, Plain
  <2> QED
    BY <2>1, <2>2, <2>3, PlainGoes, PlainStep
<1>2. CASE ReadAtOnce
  <2>1. Facts /\ VmFields /\ RParts /\ Top.fn = "read_reg_asic"
    BY <1>2, RFacts DEF ReadAtOnce
  <2>2. VmQuiet /\ Plain(Top) /\ ~Waits(Top)
    BY <1>2, <2>1, VmUnchanged DEF ReadAtOnce, Plain, Waits
  <2>3. Return("own")
    BY <1>2 DEF ReadAtOnce
  <2> QED
    BY <2>1, <2>2, <2>3, PlainGoes, PlainStep
<1> QED
  BY <1>1, <1>2

(* The wait, where it makes no test and none is over.                      *)
LEMMA WaitKeeps ==
  ASSUME QInv, RInv, WaitFlush \/ WaitDone \/ WaitTake \/ WaitError \/ ReadDone
  PROVE  RInv'
<1>1. CASE WaitFlush
  <2>1. Facts /\ VmFields /\ RParts /\ Top.fn = "squid_wait_asic_reads" /\ Top.pc = "start"
    BY <1>1, RFacts DEF WaitFlush
  <2>2. VmQuiet /\ Plain(Top) /\ ~(Waits(Top) /\ Top.pc = "tested")
    BY <1>1, <2>1, VmUnchanged DEF WaitFlush, Plain
  <2>3. GoesTo("loop")
    BY <1>1, <2>1, AtIs DEF WaitFlush, Pcs
  <2> QED
    BY <2>1, <2>2, <2>3, PlainGoes, PlainStep
<1>2. CASE WaitDone
  <2>1. Facts /\ VmFields /\ RParts /\ Top.fn = "squid_wait_asic_reads" /\ Top.pc = "loop"
    BY <1>2, RFacts DEF WaitDone
  <2>2. VmQuiet /\ Plain(Top) /\ ~(Waits(Top) /\ Top.pc = "tested")
    BY <1>2, <2>1, VmUnchanged DEF WaitDone, Plain
  <2>3. ended' # "no" \/ Call(Revive, AfterRevive) \/ Return("ok")
    BY <1>2 DEF WaitDone, Exit
  <2>4. CASE ended' # "no"
    BY <2>2, <2>4, ExitKeeps DEF VmQuiet
  <2>5. CASE Call(Revive, AfterRevive)
    <3>1. Calls(Revive, "error") /\ Revive \in Frames /\ Plain(Revive)
      BY <2>1, <2>5, CallIs, FramesMade DEF AfterRevive, Pcs, Plain
    <3> QED
      BY <2>1, <2>2, <3>1, PlainGoes, PlainStep
  <2>6. CASE Return("ok")
    BY <2>1, <2>2, <2>6, PlainGoes, PlainStep
  <2> QED
    BY <2>3, <2>4, <2>5, <2>6
<1>3. CASE WaitTake
  <2>1. Facts /\ VmFields /\ RParts /\ Top.fn = "squid_wait_asic_reads" /\ Top.pc = "take"
    BY <1>3, RFacts DEF WaitTake
  <2>2. Plain(Top) /\ ~(Waits(Top) /\ Top.pc = "tested")
    BY <2>1 DEF Plain
  <2>3. UNCHANGED vm \/ vm' = [vm EXCEPT !.corruptions_count = @ + 1]
    BY <1>3 DEF WaitTake
  <2>4. VmQuiet
    BY <2>1, <2>3 DEF VmFields, VmQuiet
  <2>5. \/ Call(Restart, "deliver")
        \/ calls' = At("deliver")
        \/ (\E b \in BOOLEAN : calls' = [At("deliver") EXCEPT ![Depth].err = b])
        \/ (\E r \in Results : calls' = [At("deliver") EXCEPT ![Depth].value = r])
    BY <1>3 DEF WaitTake, Results
  <2>6. "deliver" \in Pcs
    BY DEF Pcs
  <2>7. CASE Call(Restart, "deliver")
    <3>1. /\ Calls(Restart, "deliver") /\ Restart \in Frames /\ Restarts(Restart)
          /\ Restart.pc = "start"
      BY <2>1, <2>6, <2>7, CallIs, FramesMade DEF Restarts
    <3> QED
      BY <2>1, <2>2, <2>4, <3>1, PlainGoes, PlainStep
  <2>8. CASE ~Call(Restart, "deliver")
    <3>1. GoesTo("deliver")
      BY <2>1, <2>5, <2>6, <2>8, AtIs
    <3> QED
      BY <2>1, <2>2, <2>4, <3>1, PlainGoes, PlainStep
  <2> QED
    BY <2>7, <2>8
<1>4. CASE WaitError
  <2>1. Facts /\ VmFields /\ RParts /\ Top.fn = "squid_wait_asic_reads" /\ Top.pc = "error"
    BY <1>4, RFacts DEF WaitError
  <2>2. VmQuiet /\ Plain(Top) /\ ~(Waits(Top) /\ Top.pc = "tested") /\ Return("error")
    BY <1>4, <2>1, VmUnchanged DEF WaitError, Plain
  <2> QED
    BY <2>1, <2>2, PlainGoes, PlainStep
<1>5. CASE ReadDone
  <2>1. Facts /\ VmFields /\ RParts /\ Top.fn = "read_reg_asic"
    BY <1>5, RFacts DEF ReadDone
  <2>2. VmQuiet /\ Plain(Top) /\ ~Waits(Top) /\ Return(Top.value)
    BY <1>5, <2>1, VmUnchanged DEF ReadDone, Plain, Waits
  <2> QED
    BY <2>1, <2>2, PlainGoes, PlainStep
<1> QED
  BY <1>1, <1>2, <1>3, <1>4, <1>5

(* A result delivered to a call below the wait is nothing the tests and    *)
(* resets look at.                                                         *)
LEMMA DeliveredLike ==
  ASSUME Facts, NEW k \in 2 .. Depth - 1, NEW r
  PROVE  \A d \in 1 .. Depth - 1 : Like([calls EXCEPT ![k].value = r][d], calls[d])
<1> DEFINE w == [calls EXCEPT ![k].value = r]
           h == [calls[k] EXCEPT !.value = r]
<1>1. calls \in Seq(Frames) /\ Depth \in Nat /\ Len(calls) = Depth /\ k \in 1 .. Depth
  BY DEF Facts, Linked, Depth
<1>2. Like(h, calls[k])
  <2>1. calls[k] \in Frames
    BY <1>1
  <2> QED
    BY <2>1 DEF Frames, Like
<1>3. w = [calls EXCEPT ![k] = h]
  OBVIOUS
<1> HIDE DEF h
<1>4. \A d \in 1 .. Depth : w[d] = IF d = k THEN h ELSE calls[d]
  BY <1>1, <1>3
<1> HIDE DEF w
<1>5. \A d \in 1 .. Depth - 1 : Like(w[d], calls[d])
  BY <1>1, <1>2, <1>4 DEF Like
<1> QED
  BY <1>5 DEF w

(* The wait delivers a result.                                             *)
LEMMA DeliverKeeps ==
  ASSUME QInv, RInv, WaitDeliver
  PROVE  RInv'
<1> DEFINE to == cmd_queue[Top.n].to
           stored == [calls EXCEPT ![to[1]].value = Top.value]
           c == IF to[1] \in 2 .. Depth - 1 THEN stored ELSE calls
<1>1. Facts /\ VmFields /\ RParts /\ Top.fn = "squid_wait_asic_reads" /\ Top.pc = "deliver"
  BY RFacts DEF WaitDeliver
<1>2. UNCHANGED vm \/ vm' = [vm EXCEPT !.spi_timeout_count = 0]
  BY DEF WaitDeliver
<1>3. VmQuiet /\ Plain(Top) /\ ~(Waits(Top) /\ Top.pc = "tested")
  BY <1>1, <1>2 DEF VmFields, VmQuiet, Plain
<1>4. Base(c) /\ \A d \in 1 .. Depth - 1 : Like(c[d], calls[d])
  <2>1. Top.value \in Results
    BY <1>1 DEF Facts, Frames
  <2>2. CASE to[1] \in 2 .. Depth - 1
    <3>1. Base(stored) /\ \A d \in 1 .. Depth - 1 : Like(stored[d], calls[d])
      BY <1>1, <2>1, <2>2, DeliveredIs, DeliveredLike
    <3> QED
      BY <2>2, <3>1
  <2>3. CASE ~(to[1] \in 2 .. Depth - 1)
    BY <1>1, <2>3, CallsAreBase DEF Like
  <2> QED
    BY <2>2, <2>3
<1>5. \/ calls' = Append([c EXCEPT ![Depth].pc = "error"], Restart)
      \/ calls' = [c EXCEPT ![Depth].pc = "loop"]
  BY DEF WaitDeliver
<1> HIDE DEF c
<1>6. ASSUME NEW q \in {"error", "loop"}
      PROVE  \E g \in Frames : /\ g.fn = Top.fn
                               /\ [c EXCEPT ![Depth].pc = q] = WithTop(c, g)
  <2> DEFINE g == [Top EXCEPT !.pc = q]
  <2>1. g \in Frames /\ g.fn = Top.fn
    BY <1>1 DEF Facts, Frames, Pcs
  <2>2. [c EXCEPT ![Depth].pc = q] = WithTop(c, g)
    BY <1>4 DEF Base, WithTop
  <2> QED
    BY <2>1, <2>2
<1>7. ASSUME NEW g \in Frames
      PROVE  LET w == WithTop(c, g) IN
             /\ w \in Seq(Frames) /\ Len(w) = Depth /\ w[Depth] = g
             /\ \A d \in 1 .. Depth - 1 : w[d] = c[d]
  <2>1. c \in Seq(Frames) /\ Len(c) = Depth /\ Depth \in 1 .. Depth
    BY <1>1, <1>4 DEF Base, Linked, Facts
  <2> QED
    BY <2>1 DEF WithTop
<1>8. CASE calls' = Append([c EXCEPT ![Depth].pc = "error"], Restart)
  <2>1. PICK g \in Frames : /\ g.fn = Top.fn
                            /\ [c EXCEPT ![Depth].pc = "error"] = WithTop(c, g)
    BY <1>6
  <2> DEFINE w == WithTop(c, g)
  <2>2. calls' = Append(w, Restart) /\ Restart \in Frames
    BY <1>8, <2>1, FramesMade
  <2>3. /\ w \in Seq(Frames) /\ Len(w) = Depth /\ w[Depth] = g
        /\ \A d \in 1 .. Depth - 1 : w[d] = c[d]
    BY <1>7
  <2> HIDE DEF w
  <2>4. /\ Len(calls') = Depth + 1 /\ calls'[Depth + 1] = Restart
        /\ calls'[Depth] = g /\ \A d \in 1 .. Depth - 1 : calls'[d] = c[d]
    BY <1>1, <2>2, <2>3 DEF Facts
  <2>5. Pushes(g, Restart) /\ Restarts(Restart) /\ Restart.pc = "start"
    BY <1>4, <2>4, FramesMade DEF Pushes, Keeps, Restarts
  <2>6. PlainMove
    BY <2>1, <2>5 DEF PlainMove
  <2> QED
    BY <1>1, <1>3, <2>6, PlainStep
<1>9. CASE calls' = [c EXCEPT ![Depth].pc = "loop"]
  <2>1. PICK g \in Frames : /\ g.fn = Top.fn
                            /\ [c EXCEPT ![Depth].pc = "loop"] = WithTop(c, g)
    BY <1>6
  <2>2. /\ Len(calls') = Depth /\ calls'[Depth] = g
        /\ \A d \in 1 .. Depth - 1 : calls'[d] = c[d]
    <3> DEFINE w == WithTop(c, g)
    <3>1. calls' = w
      BY <1>9, <2>1
    <3>2. Len(w) = Depth /\ w[Depth] = g /\ \A d \in 1 .. Depth - 1 : w[d] = c[d]
      BY <1>7
    <3> HIDE DEF w
    <3> QED
      BY <3>1, <3>2
  <2>3. PlainMove
    BY <1>4, <2>1, <2>2 DEF PlainMove, Stays, Keeps
  <2> QED
    BY <1>1, <1>3, <2>3, PlainStep
<1> QED
  BY <1>5, <1>8, <1>9

(* The search for an ASIC that lost its address.                           *)
LEMMA LostKeeps ==
  ASSUME QInv, RInv,
         \/ GotAddr("test_lost_address") \/ GotAddr("revive_asics")
         \/ ReviveGot \/ ReviveLost \/ ReviveEnd \/ LostGot \/ LostLoop \/ LostVersion
  PROVE  RInv'
<1>1. /\ Facts /\ VmFields /\ RParts
      /\ Top.fn = "test_lost_address" \/ Top.fn = "revive_asics"
  BY RFacts DEF GotAddr, ReviveGot, ReviveLost, ReviveEnd, LostGot, LostLoop, LostVersion
<1>2. UNCHANGED vm
  BY DEF GotAddr, ReviveGot, ReviveLost, ReviveEnd, LostGot, LostLoop, LostVersion, fpgaVars
<1>3. VmQuiet /\ Plain(Top) /\ ~Waits(Top)
  BY <1>1, <1>2, VmUnchanged DEF Plain, Waits
<1>4. /\ ADDR_VERSION \in Int /\ ADDR_INTR_BC_GOT_ADDR_NOT \in Int
      /\ {"got", "lost", "end", "loop", "version"} \subseteq Pcs
  BY RegsAreInts DEF Pcs
<1>5. \/ \E r \in Int, q \in Pcs : Call(Read(r), q)
      \/ Call(TestLostAddress, "lost") \/ Call(Restart, "end")
      \/ \E v : Return(v)
      \/ calls' = At("loop") \/ calls' = GoOn("loop")
      \/ \E b \in BOOLEAN : calls' = [GoOn("loop") EXCEPT ![Depth].err = b]
  <2>1. CASE GotAddr("test_lost_address") \/ GotAddr("revive_asics")
    BY <1>4, <2>1 DEF GotAddr
  <2>2. CASE ReviveGot \/ ReviveLost \/ ReviveEnd
    BY <2>2 DEF ReviveGot, ReviveLost, ReviveEnd
  <2>3. CASE LostGot \/ LostLoop
    BY <1>4, <2>3 DEF LostGot, LostLoop, NextLoop
  <2>4. CASE LostVersion
    BY <2>4 DEF LostVersion, NextLoop
  <2> QED
    BY <2>1, <2>2, <2>3, <2>4
<1>6. CASE \E r \in Int, q \in Pcs : Call(Read(r), q)
  <2>1. PICK r \in Int, q \in Pcs : Call(Read(r), q)
    BY <1>6
  <2>2. Calls(Read(r), q) /\ Read(r) \in Frames /\ Plain(Read(r))
    BY <1>1, <2>1, CallIs, FramesMade DEF Plain
  <2> QED
    BY <1>1, <1>3, <2>2, PlainGoes, PlainStep
<1>7. CASE Call(TestLostAddress, "lost")
  <2>1. Calls(TestLostAddress, "lost") /\ TestLostAddress \in Frames /\ Plain(TestLostAddress)
    BY <1>1, <1>4, <1>7, CallIs, FramesMade DEF Plain
  <2> QED
    BY <1>1, <1>3, <2>1, PlainGoes, PlainStep
<1>8. CASE Call(Restart, "end")
  <2>1. /\ Calls(Restart, "end") /\ Restart \in Frames /\ Restarts(Restart)
        /\ Restart.pc = "start"
    BY <1>1, <1>4, <1>8, CallIs, FramesMade DEF Restarts
  <2> QED
    BY <1>1, <1>3, <2>1, PlainGoes, PlainStep
<1>9. CASE \E v : Return(v)
  BY <1>1, <1>3, <1>9, PlainGoes, PlainStep
<1>10. CASE \/ calls' = At("loop") \/ calls' = GoOn("loop")
            \/ \E b \in BOOLEAN : calls' = [GoOn("loop") EXCEPT ![Depth].err = b]
  <2>1. GoesTo("loop")
    BY <1>1, <1>4, <1>10, AtIs
  <2> QED
    BY <1>1, <1>3, <2>1, PlainGoes, PlainStep
<1> QED
  BY <1>5, <1>6, <1>7, <1>8, <1>9, <1>10
-----------------------------------------------------------------------------
(* The steps of the tests, and of the wait that makes them.                *)

(* The frames of the tests as they are made.                               *)
LEMMA TestIs ==
  ASSUME NEW b \in BOOLEAN
  PROVE  /\ Test(b) \in Frames /\ Tests(Test(b)) /\ Test(b).pc = "start" /\ Test(b).n = 1
         /\ Test(b).err = FALSE /\ Test(b).flag = b
<1>1. Test(b) \in Frames /\ Test(b).fn = "test_all_loops" /\ Test(b).pc = "start"
  BY FramesMade
<1>2. Test(b).n = 1 /\ Test(b).err = FALSE /\ Test(b).flag = b
  BY DEF Test, Frame
<1> QED
  BY <1>1, <1>2 DEF Tests

(* What is made of the parts when the calls grow or stay as long.          *)
LEMMA Whole ==
  ASSUME VmFields', Called', InTests', Stages', Returned', Covered'
  PROVE  RInv'
  BY DEF RInv, RParts

(* A call that sees to it.                                                 *)
LEMMA CoveredBy ==
  ASSUME NEW k \in 1 .. Len(calls'),
         \/ calls'[k].fn = "test_serial"
         \/ Restarts(calls'[k]) /\ (AtEnd(calls'[k]) => vm'.present # Loops)
         \/ Tests(calls'[k]) /\ calls'[k].err = TRUE /\ \A e \in 1 .. k - 1 : ~Active(calls'[e])
         \/ k = Len(calls') /\ Tested(calls'[k]) /\ calls'[k].val = "bad"
         \/ /\ k = Len(calls') /\ Waits(calls'[k]) /\ calls'[k].pc = "tested"
            /\ calls'[k].val = "problem" /\ vm'.in_asic_reset = 0
  PROVE  Covered'
<1>1. Covers(k)' /\ k \in 1 .. Depth'
  BY DEF Covers, Depth
<1> QED
  BY <1>1 DEF Covered

(* Where in_asic_reset is 0 no reset is under way.                         *)
LEMMA NoReset ==
  ASSUME Facts, Stages, vm.in_asic_reset = 0
  PROVE  \A d \in 1 .. Depth : ~Active(calls[d]) /\ ~AtEnd(calls[d])
  BY DEF Stages, StageOf, Active, AtEnd

(* And where it is not, one is.                                            *)
LEMMA SomeReset ==
  ASSUME Facts, Stages, VmFields, \A d \in 1 .. Depth : ~Active(calls[d])
  PROVE  vm.in_asic_reset = 0
  BY DEF Stages

(* A wait takes the next read, whose slot it notes.                        *)
LEMMA TakenIs ==
  ASSUME Facts, current_cmd_hw_queue_ptr \in Int, NEW q \in Pcs
  PROVE  \E g \in Frames : /\ As(g, q, current_cmd_hw_queue_ptr, Top.err) /\ g.value = "failed"
                           /\ [Taken EXCEPT ![Depth].pc = q] = WithTop(calls, g)
<1> DEFINE k == [Top EXCEPT !.n = current_cmd_hw_queue_ptr]
           h == [k EXCEPT !.value = "failed"]
           z == [h EXCEPT !.pc = q]
           w == WithTop(calls, k)
           u == WithTop(calls, h)
<1>1. As(z, q, current_cmd_hw_queue_ptr, Top.err) /\ z.value = "failed"
  BY DEF Facts, Frames, Results, As
<1>2. Taken = [w EXCEPT ![Depth].value = "failed"]
  BY DEF Taken, WithTop, Top, Depth
<1> HIDE DEF k
<1>3. [w EXCEPT ![Depth].value = "failed"] = u
  BY TopTwice DEF h
<1> HIDE DEF w, h
<1>4. [u EXCEPT ![Depth].pc = q] = WithTop(calls, z)
  BY TopTwice DEF z
<1> HIDE DEF u, z
<1> QED
  BY <1>1, <1>2, <1>3, <1>4 DEF As

(* With nothing there, the loops are tested.                               *)
LEMMA SlotKeeps ==
  ASSUME QInv, RInv, WaitSlot
  PROVE  RInv'
<1>1. Facts /\ VmFields /\ RParts /\ Top.fn = "squid_wait_asic_reads" /\ Top.pc = "loop"
  BY RFacts DEF WaitSlot
<1>2. UNCHANGED vm \/ vm' = [vm EXCEPT !.spi_timeout_count = @ + 1]
  BY DEF WaitSlot
<1>3. VmQuiet /\ Plain(Top) /\ ~(Waits(Top) /\ Top.pc = "tested")
  BY <1>1, <1>2 DEF VmFields, VmQuiet, Plain
<1>4. ASSUME NEW q \in Pcs
      PROVE  \E g \in Frames : /\ g.fn = Top.fn /\ g.pc = q
                               /\ [Taken EXCEPT ![Depth].pc = q] = WithTop(calls, g)
  <2>1. current_cmd_hw_queue_ptr \in Int
    BY DEF QInv, Pointers
  <2> QED
    BY <1>1, <2>1, TakenIs DEF As
<1>5. {"take", "deliver", "tested"} \subseteq Pcs
  BY DEF Pcs
<1>6. \/ calls' = [Taken EXCEPT ![Depth].pc = "take"]
      \/ calls' = [Taken EXCEPT ![Depth].pc = "deliver"]
      \/ /\ calls' = Append([Taken EXCEPT ![Depth].pc = "tested"], Test(vm.in_asic_reset # 0))
         /\ vm.assert_serial_failures = TRUE
  BY <1>1 DEF WaitSlot, VmFields
<1>7. ASSUME NEW q \in Pcs, calls' = [Taken EXCEPT ![Depth].pc = q]
      PROVE  RInv'
  <2>1. PICK g \in Frames : g.fn = Top.fn /\ calls' = WithTop(calls, g)
    BY <1>4, <1>7
  <2>2. PlainMove
    BY <1>1, <2>1, StaysIs DEF PlainMove
  <2> QED
    BY <1>1, <1>3, <2>2, PlainStep
<1>8. CASE /\ calls' = Append([Taken EXCEPT ![Depth].pc = "tested"], Test(vm.in_asic_reset # 0))
           /\ vm.assert_serial_failures = TRUE
  <2> DEFINE f == Test(vm.in_asic_reset # 0)
  <2>1. /\ f \in Frames /\ Tests(f) /\ f.pc = "start" /\ f.n = 1
        /\ f.err = FALSE /\ f.flag = (vm.in_asic_reset # 0)
    BY TestIs
  <2>2. PICK g \in Frames : /\ g.fn = Top.fn /\ g.pc = "tested"
                            /\ [Taken EXCEPT ![Depth].pc = "tested"] = WithTop(calls, g)
    BY <1>4, <1>5
  <2>3. calls' = Append(WithTop(calls, g), f)
    BY <1>8, <2>2
  <2> HIDE DEF f
  <2>4. Pushes(g, f)
    BY <1>1, <2>1, <2>3, PushesIs
  <2>5. Waits(g) /\ ~Tests(g) /\ ~Tested(g) /\ ~Serial(g) /\ ~Active(g) /\ ~AtEnd(g)
    BY <1>1, <2>2 DEF Waits, Tests, Tested, Serial, Active, AtEnd, Restarts
  <2>6. /\ ~Active(f) /\ ~Tested(f) /\ ~Serial(f) /\ f.fn # "test_serial" /\ CalledBy(g, f)
        /\ TestOK(g) /\ TestOK(f) /\ Result(f, vm')
    BY <2>1, <2>2, <2>5
       DEF Active, Restarts, Tested, Tests, Serial, CalledBy, TestOK, Result
  <2>7. Called' /\ Returned'
    BY <1>1, <2>2, <2>4, <2>6, CalledKept, ReturnedKept DEF RParts
  <2>8. f.flag \/ \A e \in 1 .. Depth - 1 : ~AtEnd(calls[e])
    <3>1. CASE vm.in_asic_reset = 0
      BY <1>1, <3>1, NoReset DEF RParts, Facts
    <3> QED
      BY <2>1, <3>1
  <2>9. InTests'
    BY <1>1, <2>2, <2>4, <2>5, <2>6, <2>8, InTestsKept DEF RParts
  <2>10. Stages'
    <3>1. SameStage /\ ~Active(Top)
      BY <1>1, <1>3 DEF VmQuiet, SameStage, Active, Restarts
    <3> QED
      BY <1>1, <2>4, <2>5, <2>6, <3>1, StagesKept DEF RParts
  <2>11. Covered' /\ VmFields'
    BY <1>3, <1>8 DEF Covered, VmQuiet
  <2> QED
    BY <2>7, <2>9, <2>10, <2>11, Whole
<1> QED
  BY <1>5, <1>6, <1>7, <1>8

(* The test is over: a problem is answered by a reset, but not in one.     *)
LEMMA TestedKeeps ==
  ASSUME QInv, RInv, WaitTested
  PROVE  RInv'
<1>1. Facts /\ VmFields /\ RParts /\ Top.fn = "squid_wait_asic_reads" /\ Top.pc = "tested"
  BY RFacts DEF WaitTested
<1>2. \E found \in BOOLEAN : vm' = Ac2dcErrors(vm, found)
  BY DEF WaitTested
<1>3. VmQuiet
  BY <1>1, <1>2 DEF VmFields, VmQuiet, Ac2dcErrors
<1>4. \/ Call(Restart, "deliver")
      \/ calls' = At("take") /\ ~(Top.val = "problem" /\ vm.in_asic_reset = 0)
  BY DEF WaitTested, Unusable
<1>5. "deliver" \in Pcs /\ "take" \in Pcs
  BY DEF Pcs
<1>6. SameStage /\ ~Active(Top)
  BY <1>1, <1>3 DEF VmQuiet, SameStage, Active, Restarts
<1>7. Depth \in Nat /\ Depth >= 1
  BY <1>1 DEF Facts
<1>8. ASSUME NEW g, g.fn = Top.fn
      PROVE  /\ ~Active(g) /\ ~Tests(g) /\ ~Tested(g) /\ ~Serial(g) /\ TestOK(g)
             /\ Result(g, vm')
  BY <1>1, <1>8 DEF Active, Tests, Tested, Serial, Restarts, TestOK, Result
<1>9. CASE Call(Restart, "deliver")
  <2>1. PICK g : As(g, "deliver", Top.n, Top.err) /\ Pushes(g, Restart)
    BY <1>1, <1>5, <1>9, MakesIs, FramesMade DEF Makes
  <2>2. /\ Restarts(Restart) /\ ~Active(Restart) /\ ~AtEnd(Restart) /\ ~Tests(Restart)
        /\ TestOK(Restart) /\ Result(Restart, vm') /\ Restart.fn # "test_serial"
    BY FramesMade
       DEF Restarts, Active, AtEnd, Tests, Tested, Serial, TestOK, Result
  <2>3. g.fn = Top.fn /\ CalledBy(g, Restart)
    BY <1>8, <2>1, <2>2 DEF As, CalledBy
  <2>4. Called' /\ Returned' /\ Stages'
    BY <1>1, <1>6, <1>8, <2>1, <2>2, <2>3, CalledKept, ReturnedKept, StagesKept DEF RParts
  <2>5. InTests'
    BY <1>1, <1>8, <2>1, <2>2, <2>3, InTestsKept DEF RParts
  <2>6. Len(calls') = Depth + 1 /\ calls'[Depth + 1] = Restart
    BY <2>1 DEF Pushes
  <2>7. Covered'
    <3>1. Depth + 1 \in 1 .. Len(calls')
      BY <1>7, <2>6
    <3> QED
      BY <2>2, <2>6, <3>1, CoveredBy
  <2> QED
    BY <1>3, <2>4, <2>5, <2>7, Whole DEF VmQuiet
<1>10. CASE calls' = At("take") /\ ~(Top.val = "problem" /\ vm.in_asic_reset = 0)
  <2>1. PICK g : As(g, "take", Top.n, Top.err) /\ Stays(g)
    BY <1>1, <1>5, <1>10, GoesIs DEF Goes
  <2>2. g.fn = Top.fn
    BY <2>1 DEF As
  <2>3. Called' /\ Returned' /\ Stages'
    BY <1>1, <1>6, <1>8, <2>1, <2>2, CalledKept, ReturnedKept, StagesKept DEF RParts
  <2>4. InTests'
    BY <1>1, <1>8, <2>1, <2>2, InTestsKept DEF RParts
  <2>5. ~Covers(Depth)
    BY <1>1, <1>8, <1>10 DEF Covers, Top, Waits, Restarts
  <2>6. /\ Keeps(Depth - 1) /\ Len(calls') = Depth
        /\ vm.assert_serial_failures = TRUE => vm'.assert_serial_failures = TRUE
        /\ \A d \in 1 .. Depth - 1 : vm.present # Loops /\ AtEnd(calls[d]) => vm'.present # Loops
    BY <1>3, <2>1 DEF Stays, VmQuiet
  <2>7. Covered'
    <3>1. Facts /\ Covered
      BY <1>1 DEF RParts
    <3>2. Len(calls') \in Nat /\ Len(calls') >= Depth - 1
      BY <1>7, <2>6
    <3> QED
      BY <2>5, <2>6, <3>1, <3>2, CoveredKept
  <2> QED
    BY <1>3, <2>3, <2>4, <2>7, Whole DEF VmQuiet
<1> QED
  BY <1>4, <1>9, <1>10

(* An error of a test of all loops that no reset has called.               *)
LEMMA ErrCovers ==
  ASSUME Facts, NEW g, calls'[Depth] = g, Len(calls') \in Nat, Len(calls') >= Depth,
         Keeps(Depth - 1), Tests(g), g.err = TRUE,
         \A e \in 1 .. Depth - 1 : ~Active(calls[e])
  PROVE  Covered'
<1>1. \A e \in 1 .. Depth - 1 : ~Active(calls'[e])
  BY DEF Keeps, Like, Active, Restarts
<1>2. Depth \in 1 .. Len(calls')
  BY DEF Facts
<1> QED
  BY <1>1, <1>2, CoveredBy

(* A test of all loops goes on with a loop: what it may do to vm.          *)
VmTests ==
  /\ VmFields' /\ SameStage
  /\ vm'.assert_serial_failures = vm.assert_serial_failures
  /\ vm.present # Loops => vm'.present # Loops

(* It goes on with a loop: the parts are kept, and where it was the test   *)
(* that was to see to it, something still does.                            *)
LEMMA TestStays ==
  ASSUME Facts, RParts, VmTests, Tests(Top), NEW n \in Int, n >= 1, NEW e,
         Goes("loop", n, e), Covers(Depth) => Covered'
  PROVE  RInv'
<1>1. PICK g : As(g, "loop", n, e) /\ Stays(g)
  BY DEF Goes
<1>2. /\ g.fn = Top.fn /\ Tests(g) /\ ~Tested(g) /\ ~Serial(g) /\ ~Active(g) /\ ~Active(Top)
      /\ TestOK(g) /\ Result(g, vm') /\ g.flag = Top.flag
  BY <1>1 DEF As, Tests, Tested, Serial, Active, Restarts, TestOK, Result
<1>3. Called' /\ Returned'
  BY <1>1, <1>2, CalledKept, ReturnedKept DEF RParts
<1>4. Stages'
  BY <1>1, <1>2, StagesKept DEF RParts, VmTests
<1>5. InTests'
  BY <1>1, <1>2, InTestsKept DEF RParts
<1>6. Covered'
  <2>1. Keeps(Depth - 1) /\ Len(calls') \in Nat /\ Len(calls') >= Depth - 1
    BY <1>1 DEF Stays, Facts
  <2>2. /\ vm.assert_serial_failures = TRUE => vm'.assert_serial_failures = TRUE
        /\ \A d \in 1 .. Depth - 1 : vm.present # Loops /\ AtEnd(calls[d]) => vm'.present # Loops
    BY DEF VmTests
  <2>3. Covered
    BY DEF RParts
  <2> QED
    BY <2>1, <2>2, <2>3, CoveredKept
<1> QED
  BY <1>3, <1>4, <1>5, <1>6, Whole DEF VmTests

(* It calls what will see to it that failures are reported again.          *)
LEMMA TestMakes ==
  ASSUME Facts, RParts, VmTests, Tests(Top), NEW q, NEW n \in Int, n >= 1,
         NEW e, NEW f, Makes(f, q, n, e),
         \/ q = "tested" /\ n <= LOOP_COUNT /\ f.fn = "test_serial" /\ f.pc = "start"
         \/ q = "loop" /\ Restarts(f) /\ f.pc = "start"
         \/ q = "disable" /\ f.fn = "test_lost_address" /\ Covered'
  PROVE  RInv'
<1>1. PICK g : As(g, q, n, e) /\ Pushes(g, f)
  BY DEF Makes
<1>2. /\ g.fn = Top.fn /\ g.pc = q /\ Tests(g) /\ ~Serial(g) /\ ~Active(g) /\ ~Active(Top)
      /\ TestOK(g) /\ g.flag = Top.flag
  BY <1>1 DEF As, Tests, Serial, Active, Restarts, TestOK
<1>3. /\ ~Active(f) /\ ~AtEnd(f) /\ ~Tests(f) /\ ~Tested(f) /\ ~Serial(f) /\ TestOK(f)
      /\ Result(f, vm')
  BY DEF Active, AtEnd, Tests, Tested, Serial, Restarts, TestOK, Result
<1>4. CalledBy(g, f)
  BY <1>2, <1>3 DEF CalledBy, Tested, Restarts
<1>5. Called' /\ Returned'
  BY <1>1, <1>2, <1>3, <1>4, CalledKept, ReturnedKept DEF RParts
<1>6. Stages'
  BY <1>1, <1>2, <1>3, StagesKept DEF RParts, VmTests
<1>7. InTests'
  BY <1>1, <1>2, <1>3, InTestsKept DEF RParts
<1>8. Covered'
  <2>1. Depth + 1 \in 1 .. Len(calls') /\ calls'[Depth + 1] = f
    BY <1>1 DEF Pushes, Facts
  <2>2. CASE f.fn = "test_serial" \/ Restarts(f)
    BY <1>3, <2>1, <2>2, CoveredBy
  <2> QED
    BY <2>2
<1> QED
  BY <1>5, <1>6, <1>7, <1>8, Whole DEF VmTests

(* With nothing else done to vm.                                           *)
LEMMA QuietTests ==
  ASSUME VmFields, UNCHANGED vm
  PROVE  VmTests
  BY DEF VmTests, VmFields, SameStage

(* What a test of all loops is at.                                         *)
LEMMA InATest ==
  ASSUME QInv, RInv, NEW p, In("test_all_loops", p)
  PROVE  /\ Facts /\ VmFields /\ RParts /\ Top.pc = p /\ Tests(Top) /\ TestOK(Top)
         /\ Top.n \in Int /\ Top.n >= 1 /\ Depth \in Nat /\ Depth >= 1 /\ Top = calls[Depth]
         /\ ~Restarts(Top) /\ ~Waits(Top) /\ Top.fn # "test_serial"
<1>1. Facts /\ VmFields /\ RParts /\ Top.fn = "test_all_loops" /\ Top.pc = p
  BY RFacts
<1>2. Depth \in Nat /\ Depth >= 1 /\ Top = calls[Depth] /\ Tests(Top)
  BY <1>1 DEF Facts, Top, Tests
<1>3. TestOK(Top)
  BY <1>1, <1>2 DEF RParts, InTests
<1> QED
  BY <1>1, <1>2, <1>3 DEF TestOK, Restarts, Waits

(* It starts, goes through the loops, and goes on in a reset.              *)
LEMMA LoopKeeps ==
  ASSUME QInv, RInv, TestStart \/ TestLoop \/ TestDisable
  PROVE  RInv'
<1>1. {"loop", "tested"} \subseteq Pcs
  BY DEF Pcs
<1>2. CASE TestStart
  <2>1. In("test_all_loops", "start") /\ UNCHANGED vm
    BY <1>2 DEF TestStart
  <2>2. /\ Facts /\ VmFields /\ RParts /\ Top.pc = "start" /\ Tests(Top) /\ TestOK(Top)
        /\ Top.n \in Int /\ Top.n >= 1 /\ Top = calls[Depth] /\ ~Restarts(Top) /\ ~Waits(Top)
        /\ Top.fn # "test_serial"
    BY <2>1, InATest
  <2>3. PICK b \in BOOLEAN : calls' = [At("loop") EXCEPT ![Depth].err = b]
    BY <1>2 DEF TestStart
  <2>4. Goes("loop", Top.n, b)
    BY <1>1, <2>2, <2>3, GoesIsErr
  <2>5. ~Covers(Depth)
    BY <2>2 DEF Covers, TestOK, Tested
  <2> QED
    BY <2>1, <2>2, <2>4, <2>5, TestStays, QuietTests
<1>3. CASE TestLoop
  <2>1. In("test_all_loops", "loop") /\ UNCHANGED vm /\ Top.n <= LOOP_COUNT
    BY <1>3 DEF TestLoop
  <2>2. /\ Facts /\ VmFields /\ RParts /\ Top.pc = "loop" /\ Tests(Top) /\ TestOK(Top)
        /\ Top.n \in Int /\ Top.n >= 1 /\ Top = calls[Depth] /\ ~Restarts(Top) /\ ~Waits(Top)
        /\ Top.fn # "test_serial"
    BY <2>1, InATest
  <2>3. CASE Call(TestSerial, "tested")
    <3>1. Makes(TestSerial, "tested", Top.n, Top.err)
      BY <1>1, <2>2, <2>3, MakesIs, FramesMade
    <3>2. TestSerial.fn = "test_serial" /\ TestSerial.pc = "start"
      BY FramesMade
    <3> QED
      BY <2>1, <2>2, <3>1, <3>2, TestMakes, QuietTests
  <2>4. CASE calls' = GoOn("loop")
    <3>1. Goes("loop", Top.n + 1, Top.err)
      BY <1>1, <2>2, <2>4, GoesIs
    <3>2. ASSUME Covers(Depth)
          PROVE  Covered'
      <4>1. Top.err = TRUE /\ \A e \in 1 .. Depth - 1 : ~Active(calls[e])
        BY <2>2, <3>2 DEF Covers, Tested
      <4>2. PICK g : As(g, "loop", Top.n + 1, Top.err) /\ Stays(g)
        BY <3>1 DEF Goes
      <4>3. Tests(g) /\ g.err = TRUE
        BY <2>2, <4>1, <4>2 DEF As, Tests
      <4>4. /\ calls'[Depth] = g /\ Keeps(Depth - 1)
            /\ Len(calls') \in Nat /\ Len(calls') >= Depth
        BY <2>2, <4>2 DEF Stays, Facts
      <4> QED
        BY <2>2, <4>1, <4>3, <4>4, ErrCovers
    <3>3. Top.n + 1 \in Int /\ Top.n + 1 >= 1 /\ VmTests
      BY <2>1, <2>2, QuietTests
    <3> QED
      BY <2>2, <3>1, <3>2, <3>3, TestStays
  <2> QED
    BY <1>3, <2>3, <2>4 DEF TestLoop, NextLoop
<1>4. CASE TestDisable
  <2>1. In("test_all_loops", "disable") /\ UNCHANGED vm /\ Call(Restart, "loop")
    BY <1>4 DEF TestDisable
  <2>2. Facts /\ VmFields /\ RParts /\ Tests(Top) /\ Top.n \in Int /\ Top.n >= 1
    BY <2>1, InATest
  <2>3. Makes(Restart, "loop", Top.n, Top.err) /\ Restarts(Restart) /\ Restart.pc = "start"
    BY <1>1, <2>1, <2>2, MakesIs, FramesMade DEF Restarts
  <2> QED
    BY <2>1, <2>2, <2>3, TestMakes, QuietTests
<1> QED
  BY <1>2, <1>3, <1>4

(* It ends: where it found a problem outside a reset, the wait that called *)
(* it is told.                                                             *)
LEMMA EndKeeps ==
  ASSUME QInv, RInv, TestEnd
  PROVE  RInv'
<1>1. /\ In("test_all_loops", "loop") /\ UNCHANGED vm
      /\ Return(IF Top.err THEN "problem" ELSE "fine")
  BY DEF TestEnd
<1>2. /\ Facts /\ VmFields /\ RParts /\ Top.pc = "loop" /\ Tests(Top)
      /\ Depth \in Nat /\ Depth >= 1 /\ Top = calls[Depth] /\ ~Restarts(Top) /\ ~Waits(Top)
      /\ Top.fn # "test_serial"
  BY <1>1, InATest
<1>3. PICK v : Pops(v) /\ v = IF Top.err THEN "problem" ELSE "fine"
  BY <1>1, <1>2, PopsIs DEF Tests
<1>4. ~Active(Top) /\ VmTests
  BY <1>1, <1>2, QuietTests DEF Active
<1>5. Called' /\ Returned' /\ InTests'
  BY <1>2, <1>3, CalledKept, ReturnedKept, InTestsKept DEF RParts
<1>6. Stages'
  BY <1>2, <1>3, <1>4, StagesKept DEF RParts, VmTests
<1>7. Depth >= 2 /\ Len(calls') = Depth - 1 /\ Keeps(Depth - 1) /\ calls'[Depth - 1].val = v
  BY <1>3 DEF Pops
<1>8. ASSUME Covers(Depth)
      PROVE  Covered'
  <2>1. Top.err = TRUE /\ \A e \in 1 .. Depth - 1 : ~Active(calls[e])
    BY <1>2, <1>8 DEF Covers, Tested
  <2>2. vm.in_asic_reset = 0
    <3>1. \A d \in 1 .. Depth : ~Active(calls[d])
      BY <1>2, <1>4, <2>1
    <3> QED
      BY <1>2, <3>1, SomeReset DEF RParts
  <2>3. CalledBy(calls[Depth - 1], Top) /\ ~Active(calls[Depth - 1])
    <3>1. Depth - 1 \in 1 .. Depth - 1 /\ (Depth - 1) + 1 = Depth
      BY <1>2, <1>7
    <3> QED
      BY <1>2, <2>1, <3>1 DEF RParts, Called
  <2>4. Waits(calls[Depth - 1]) /\ calls[Depth - 1].pc = "tested"
    BY <1>2, <2>3 DEF CalledBy, Active, Restarts, Waits
  <2>5. /\ Depth - 1 \in 1 .. Len(calls') /\ Depth - 1 = Len(calls')
        /\ Waits(calls'[Depth - 1]) /\ calls'[Depth - 1].pc = "tested"
    BY <1>2, <1>7, <2>4 DEF Keeps, Like, Waits
  <2>6. calls'[Depth - 1].val = "problem" /\ vm'.in_asic_reset = 0
    BY <1>1, <1>3, <1>7, <2>1, <2>2
  <2> QED
    BY <2>5, <2>6, CoveredBy
<1>9. Covered'
  <2>1. Covered /\ Len(calls') \in Nat /\ Len(calls') >= Depth - 1
    BY <1>2, <1>7 DEF RParts
  <2>2. /\ vm.assert_serial_failures = TRUE => vm'.assert_serial_failures = TRUE
        /\ \A d \in 1 .. Depth - 1 : vm.present # Loops /\ AtEnd(calls[d]) => vm'.present # Loops
    BY <1>1
  <2> QED
    BY <1>2, <1>7, <1>8, <2>1, <2>2, CoveredKept
<1> QED
  BY <1>4, <1>5, <1>6, <1>9, Whole DEF VmTests

(* The test of a loop is over.  Where it failed and a reset is at its end, *)
(* the loop loses its ASIC.                                                *)
LEMMA ResultKeeps ==
  ASSUME QInv, RInv, TestLoopTested
  PROVE  RInv'
<1> DEFINE l == Top.n
           count == IF vm.bad_loop_count[l] = MAX_LOOP_FAIL THEN MAX_LOOP_FAIL
                    ELSE vm.bad_loop_count[l] + 1
           counted == [vm EXCEPT !.bad_loop_count[l] = count]
           failed == [NextLoop EXCEPT ![Depth].err = TRUE]
           disable == (count = MAX_LOOP_FAIL \/ Top.flag) /\ l \in vm.present
<1>1. In("test_all_loops", "tested")
  BY DEF TestLoopTested
<1>2. /\ Facts /\ VmFields /\ RParts /\ Top.pc = "tested" /\ Tests(Top) /\ TestOK(Top)
      /\ Top.n \in Int /\ Top.n >= 1 /\ Depth \in Nat /\ Depth >= 1 /\ Top = calls[Depth]
      /\ ~Restarts(Top)
  BY <1>1, InATest
<1>3. l \in Loops /\ Tested(Top)
  BY <1>2, FpgaAssumption DEF TestOK, Loops, Tested
<1>4. Top.val = "bad" \/ (Top.val = "good" /\ vm.assert_serial_failures = TRUE)
  BY <1>2, <1>3 DEF RParts, Returned, Result, Facts
<1>5. \/ Top.val = "good" /\ calls' = NextLoop /\ UNCHANGED vm
      \/ Top.val = "bad" /\ vm.in_asic_reset = 0 /\ vm' = counted /\ GivesUp
      \/ ended' # "no" /\ UNCHANGED vm
      \/ /\ Top.val = "bad" /\ disable /\ vm.in_asic_reset = 2 /\ calls' = failed
         /\ vm' = [counted EXCEPT !.present = @ \ {l}]
      \/ /\ Top.val = "bad" /\ ~(disable /\ vm.in_asic_reset = 2) /\ vm' = counted
         /\ calls' = failed
  BY <1>4 DEF TestLoopTested, GivesUp, Exit
<1>6. CASE ended' # "no" /\ UNCHANGED vm
  BY <1>2, <1>6, ExitKeeps, VmUnchanged DEF VmQuiet
<1>7. vm' = counted => VmTests
  BY <1>2 DEF VmTests, VmFields, SameStage
<1>8. Top.n + 1 \in Int /\ Top.n + 1 >= 1 /\ "loop" \in Pcs /\ NextLoop = GoOn("loop")
  BY <1>2 DEF Pcs, NextLoop
<1>9. CASE Top.val = "good" /\ calls' = NextLoop /\ UNCHANGED vm
  <2>1. Goes("loop", Top.n + 1, Top.err) /\ VmTests
    BY <1>2, <1>8, <1>9, GoesIs, QuietTests
  <2>2. Covered'
    BY <1>4, <1>9 DEF Covered
  <2> QED
    BY <1>2, <1>8, <2>1, <2>2, TestStays
<1>10. CASE Top.val = "bad" /\ vm.in_asic_reset = 0 /\ vm' = counted /\ GivesUp
  <2>1. PICK g : As(g, "disable", Top.n + 1, TRUE) /\ Pushes(g, TestLostAddress)
    BY <1>2, <1>10, MakesUp DEF Makes
  <2>2. \A e \in 1 .. Depth - 1 : ~Active(calls[e])
    BY <1>2, <1>10, NoReset DEF RParts
  <2>3. Tests(g) /\ g.err = TRUE
    BY <1>2, <2>1 DEF As, Tests
  <2>4. /\ calls'[Depth] = g /\ Keeps(Depth - 1)
        /\ Len(calls') \in Nat /\ Len(calls') >= Depth
    BY <1>2, <2>1 DEF Pushes
  <2>5. Covered'
    BY <1>2, <2>2, <2>3, <2>4, ErrCovers
  <2>6. Makes(TestLostAddress, "disable", Top.n + 1, TRUE)
    BY <2>1 DEF Makes
  <2>7. TestLostAddress.fn = "test_lost_address"
    BY FramesMade
  <2> QED
    BY <1>2, <1>7, <1>8, <1>10, <2>5, <2>6, <2>7, TestMakes
<1>11. ASSUME calls' = failed, VmTests,
              disable /\ vm.in_asic_reset = 2 => vm'.present # Loops
       PROVE  RInv'
  <2>1. Goes("loop", Top.n + 1, TRUE)
    BY <1>2, <1>8, <1>11, GoesIsErr
  <2>2. PICK g : As(g, "loop", Top.n + 1, TRUE) /\ Stays(g)
    BY <2>1 DEF Goes
  <2>3. /\ calls'[Depth] = g /\ Keeps(Depth - 1) /\ Len(calls') = Depth
        /\ Len(calls') \in Nat /\ Len(calls') >= Depth
    BY <1>2, <2>2 DEF Stays
  <2>4. ASSUME vm.in_asic_reset = 0
        PROVE  Covered'
    <3>1. \A e \in 1 .. Depth - 1 : ~Active(calls[e])
      BY <1>2, <2>4, NoReset DEF RParts
    <3>2. Tests(g) /\ g.err = TRUE
      BY <1>2, <2>2 DEF As, Tests
    <3> QED
      BY <1>2, <2>3, <3>1, <3>2, ErrCovers
  <2>5. ASSUME vm.in_asic_reset # 0
        PROVE  Covered'
    <3>1. PICK k \in 1 .. Depth : Active(calls[k])
      BY <1>2, <2>5 DEF RParts, Stages
    <3>2. k \in 1 .. Depth - 1
      BY <1>2, <3>1 DEF Active
    <3>3. Like(calls'[k], calls[k]) /\ k \in 1 .. Len(calls')
      BY <2>3, <3>2 DEF Keeps
    <3>4. Restarts(calls'[k]) /\ AtEnd(calls'[k]) = AtEnd(calls[k])
      BY <3>1, <3>3 DEF Like, Active, Restarts, AtEnd
    <3>5. ASSUME AtEnd(calls[k])
          PROVE  vm'.present # Loops
      <4>1. vm.in_asic_reset = 2
        BY <1>2, <3>1, <3>5 DEF RParts, Stages, StageOf, AtEnd
      <4>2. Top.flag
        BY <1>2, <3>2, <3>5 DEF RParts, InTests
      <4>3. CASE l \in vm.present
        BY <1>11, <4>1, <4>2, <4>3
      <4>4. CASE l \notin vm.present
        BY <1>3, <1>11, <4>4 DEF VmTests
      <4> QED
        BY <4>3, <4>4
    <3> QED
      BY <3>3, <3>4, <3>5, CoveredBy
  <2> QED
    BY <1>2, <1>8, <1>11, <2>1, <2>4, <2>5, TestStays
<1>12. CASE /\ Top.val = "bad" /\ disable /\ vm.in_asic_reset = 2 /\ calls' = failed
            /\ vm' = [counted EXCEPT !.present = @ \ {l}]
  <2>1. /\ VmFields' /\ vm'.present = vm.present \ {l} /\ vm'.asics = vm.asics
        /\ vm'.in_asic_reset = vm.in_asic_reset
        /\ vm'.assert_serial_failures = vm.assert_serial_failures
    BY <1>2, <1>12 DEF VmFields
  <2>2. vm'.present # Loops /\ VmTests
    BY <1>3, <1>12, <2>1 DEF VmTests, SameStage
  <2> QED
    BY <1>11, <1>12, <2>2
<1>13. CASE /\ Top.val = "bad" /\ ~(disable /\ vm.in_asic_reset = 2) /\ vm' = counted
            /\ calls' = failed
  BY <1>7, <1>11, <1>13
<1> QED
  BY <1>5, <1>6, <1>9, <1>10, <1>12, <1>13

(* What a test of a loop is at, and who has called it.                     *)
LEMMA InASerial ==
  ASSUME QInv, RInv, NEW p, In("test_serial", p)
  PROVE  /\ Facts /\ VmFields /\ RParts /\ Top.pc = p /\ Top.fn = "test_serial"
         /\ Depth \in Nat /\ Depth >= 2 /\ Top = calls[Depth]
         /\ ~Tests(Top) /\ ~Restarts(Top) /\ ~Active(Top) /\ ~Waits(Top)
         /\ LET g == calls[Depth - 1] IN Tested(g) \/ (Restarts(g) /\ ~AtEnd(g))
<1>1. Facts /\ VmFields /\ RParts /\ Top.fn = "test_serial" /\ Top.pc = p
  BY RFacts
<1>2. Depth \in Nat /\ Depth >= 2 /\ Top = calls[Depth]
  <2>1. Depth \in Nat /\ Depth >= 1 /\ Depth # 1 /\ Top = calls[Depth]
    BY <1>1 DEF Facts, Top
  <2> QED
    BY <2>1
<1>3. CalledBy(calls[Depth - 1], Top)
  <2>1. Depth - 1 \in 1 .. Depth - 1 /\ (Depth - 1) + 1 = Depth
    BY <1>2
  <2> QED
    BY <1>1, <1>2, <2>1 DEF RParts, Called
<1>4. LET g == calls[Depth - 1] IN Tested(g) \/ (Restarts(g) /\ ~AtEnd(g))
  BY <1>1, <1>3 DEF CalledBy, AtEnd
<1> QED
  BY <1>1, <1>2, <1>4 DEF Tests, Restarts, Active, Waits

(* What a test of a loop does to vm.                                       *)
VmSerial ==
  /\ VmFields' /\ vm'.in_asic_reset = vm.in_asic_reset /\ vm'.asics = vm.asics
  /\ vm'.present = vm.present

(* It returns what it found.                                               *)
LEMMA SerialReturns ==
  ASSUME QInv, RInv, NEW p, In("test_serial", p), VmSerial, NEW v, Return(v),
         v = "bad" \/ (v = "good" /\ vm'.assert_serial_failures = TRUE)
  PROVE  RInv'
<1>1. /\ Facts /\ RParts /\ Top.fn = "test_serial" /\ Depth \in Nat /\ Depth >= 2
      /\ ~Active(Top)
      /\ LET g == calls[Depth - 1] IN Tested(g) \/ (Restarts(g) /\ ~AtEnd(g))
  BY InASerial
<1>2. Pops(v)
  BY <1>1, PopsIs
<1>3. Called' /\ Returned' /\ InTests'
  BY <1>1, <1>2, CalledKept, ReturnedKept, InTestsKept DEF RParts
<1>4. Stages'
  <2>1. SameStage
    BY DEF VmSerial, SameStage
  <2> QED
    BY <1>1, <1>2, <2>1, StagesKept DEF RParts
<1>5. /\ Len(calls') = Depth - 1 /\ Depth - 1 \in 1 .. Len(calls')
      /\ Like(calls'[Depth - 1], calls[Depth - 1]) /\ calls'[Depth - 1].val = v
  BY <1>1, <1>2 DEF Pops, Keeps
<1>6. Covered'
  <2>1. CASE vm'.assert_serial_failures = TRUE
    BY <2>1 DEF Covered
  <2>2. CASE v = "bad" /\ Tested(calls[Depth - 1])
    <3>1. Tested(calls'[Depth - 1])
      BY <1>5, <2>2 DEF Like, Tested, Tests
    <3> QED
      BY <1>5, <2>2, <3>1, CoveredBy
  <2>3. CASE v = "bad" /\ Restarts(calls[Depth - 1]) /\ ~AtEnd(calls[Depth - 1])
    <3>1. Restarts(calls'[Depth - 1]) /\ ~AtEnd(calls'[Depth - 1])
      BY <1>5, <2>3 DEF Like, Restarts, AtEnd
    <3> QED
      BY <1>5, <3>1, CoveredBy
  <2> QED
    BY <1>1, <2>1, <2>2, <2>3
<1> QED
  BY <1>3, <1>4, <1>6, Whole DEF VmSerial

(* The test of a loop: it clears assert_serial_failures, and sets it again *)
(* only if all is well.                                                    *)
LEMMA SerialKeeps ==
  ASSUME QInv, RInv, TestSerialDrain \/ TestSerialVersion
  PROVE  RInv'
<1>1. CASE TestSerialDrain
  <2>1. /\ In("test_serial", "start") /\ vm' = [vm EXCEPT !.assert_serial_failures = FALSE]
        /\ Return("bad") \/ Call(Read(ADDR_VERSION), "version")
    BY <1>1 DEF TestSerialDrain
  <2>2. /\ Facts /\ VmFields /\ RParts /\ Top.fn = "test_serial" /\ Depth \in Nat /\ Depth >= 2
        /\ ~Active(Top)
    BY <2>1, InASerial
  <2>3. VmSerial
    BY <2>1, <2>2 DEF VmFields, VmSerial
  <2>4. CASE Return("bad")
    BY <2>1, <2>3, <2>4, SerialReturns
  <2>5. CASE Call(Read(ADDR_VERSION), "version")
    <3> DEFINE f == Read(ADDR_VERSION)
    <3>1. f \in Frames /\ f.fn = "read_reg_asic" /\ "version" \in Pcs
      BY RegsAreInts, FramesMade DEF Pcs
    <3>2. Call(f, "version")
      BY <2>5
    <3> HIDE DEF f
    <3>3. PICK g : As(g, "version", Top.n, Top.err) /\ Pushes(g, f)
      BY <2>2, <3>1, <3>2, MakesIs DEF Makes
    <3>4. /\ g.fn = Top.fn /\ ~Tests(g) /\ ~Tested(g) /\ ~Serial(g) /\ ~Active(g) /\ TestOK(g)
          /\ ~Tests(f) /\ ~Tested(f) /\ ~Serial(f) /\ ~Active(f) /\ TestOK(f) /\ Result(f, vm')
      BY <2>2, <3>1, <3>3 DEF As, Tests, Tested, Serial, Restarts, Active, TestOK, Result
    <3>5. CalledBy(g, f)
      BY <3>1, <3>4 DEF CalledBy
    <3>6. Called' /\ Returned' /\ InTests'
      BY <2>2, <3>3, <3>4, <3>5, CalledKept, ReturnedKept, InTestsKept DEF RParts
    <3>7. Stages'
      <4>1. SameStage
        BY <2>3 DEF VmSerial, SameStage
      <4> QED
        BY <2>2, <3>3, <3>4, <4>1, StagesKept DEF RParts
    <3>8. Covered'
      <4>1. Depth \in 1 .. Len(calls') /\ calls'[Depth].fn = "test_serial"
        BY <2>2, <3>3, <3>4 DEF Pushes
      <4> QED
        BY <4>1, CoveredBy
    <3> QED
      BY <2>3, <3>6, <3>7, <3>8, Whole DEF VmSerial
  <2> QED
    BY <2>1, <2>4, <2>5
<1>2. CASE TestSerialVersion
  <2>1. In("test_serial", "version")
    BY <1>2 DEF TestSerialVersion
  <2>2. PICK good \in BOOLEAN :
          /\ vm' = [vm EXCEPT !.assert_serial_failures = good]
          /\ Return(IF good THEN "good" ELSE "bad")
    BY <1>2 DEF TestSerialVersion, NonZero
  <2>3. VmFields
    BY <2>1, InASerial
  <2>4. VmSerial /\ vm'.assert_serial_failures = good
    BY <2>2, <2>3 DEF VmFields, VmSerial
  <2>5. CASE good = TRUE
    <3>1. Return("good")
      BY <2>2, <2>5
    <3> QED
      BY <2>1, <2>4, <2>5, <3>1, SerialReturns
  <2>6. CASE good = FALSE
    <3>1. Return("bad")
      BY <2>2, <2>6
    <3> QED
      BY <2>1, <2>4, <3>1, SerialReturns
  <2> QED
    BY <2>5, <2>6
<1> QED
  BY <1>1, <1>2
-----------------------------------------------------------------------------
(* The steps of a reset.                                                   *)

(* What it is at.                                                          *)
LEMMA InAReset ==
  ASSUME QInv, RInv, NEW p, In("restart_asics_full", p), p # "start"
  PROVE  /\ Facts /\ VmFields /\ RParts /\ Top.pc = p /\ Restarts(Top) /\ Active(Top)
         /\ Depth \in Nat /\ Depth >= 1 /\ Top = calls[Depth] /\ Top.fn # "task"
         /\ vm.asics = Loops /\ vm.in_asic_reset # 0
         /\ p = "tested" => vm.in_asic_reset = 1
         /\ p \notin {"tested", "reset"} => vm.in_asic_reset = 2
         /\ vm.in_asic_reset # 2 => vm.present = Loops
         /\ AtEnd(Top) => vm.present \subseteq Loops
         /\ \A d \in 1 .. Depth - 1 : ~Active(calls[d]) /\ ~AtEnd(calls[d])
<1>1. Facts /\ VmFields /\ RParts /\ Top.fn = "restart_asics_full" /\ Top.pc = p
  BY RFacts
<1>2. Restarts(Top) /\ Active(Top) /\ Depth \in Nat /\ Depth >= 1 /\ Top = calls[Depth]
  BY <1>1 DEF Restarts, Active, Facts, Top
<1>3. Stages /\ Depth \in 1 .. Depth
  BY <1>1, <1>2 DEF RParts
<1>4. StageOf(Top, vm) /\ \A e \in 1 .. Depth : Active(calls[e]) => e = Depth
  BY <1>2, <1>3 DEF Stages
<1>5. ASSUME NEW d \in 1 .. Depth - 1
      PROVE  ~Active(calls[d]) /\ ~AtEnd(calls[d])
  <2>1. d \in 1 .. Depth /\ d # Depth
    BY <1>2
  <2>2. ~Active(calls[d])
    BY <1>4, <2>1
  <2> QED
    BY <2>2 DEF Active, AtEnd
<1>6. vm.in_asic_reset # 0 /\ vm.asics = Loops /\ (vm.in_asic_reset # 2 => vm.present = Loops)
  BY <1>3, <1>4 DEF Stages, StageOf
<1> QED
  BY <1>1, <1>2, <1>4, <1>5, <1>6 DEF StageOf

(* What it may leave in vm where it goes on at q.                          *)
VmReset(q) ==
  /\ VmFields' /\ vm'.asics = Loops /\ vm'.in_asic_reset # 0
  /\ q = "tested" => vm'.in_asic_reset = 1
  /\ q \notin {"tested", "reset"} => vm'.in_asic_reset = 2
  /\ vm'.in_asic_reset # 2 => vm'.present = Loops
  /\ q \in {"conductor", "busy"} => vm'.present \subseteq Loops /\ Covered'

(* It goes on, ...                                                         *)
LEMMA ResetGoes ==
  ASSUME Facts, RParts, Restarts(Top), Active(Top) \/ \A d \in 1 .. Depth : ~Active(calls[d]),
         NEW q, q \notin {"start", "serial"}, VmReset(q), NEW n, NEW e, Goes(q, n, e)
  PROVE  RInv'
<1>1. PICK g : As(g, q, n, e) /\ Stays(g)
  BY DEF Goes
<1>2. /\ g.fn = Top.fn /\ Restarts(g) /\ Active(g) /\ ~Tests(g) /\ ~Tested(g) /\ ~Serial(g)
      /\ TestOK(g) /\ Result(g, vm') /\ StageOf(g, vm')
  BY <1>1 DEF As, Restarts, Active, Tests, Tested, Serial, TestOK, Result, StageOf, VmReset, AtEnd
<1>3. Called' /\ Returned' /\ InTests'
  BY <1>1, <1>2, CalledKept, ReturnedKept, InTestsKept DEF RParts
<1>4. Stages'
  BY <1>1, <1>2, StagesOn DEF RParts, VmReset
<1>5. Covered'
  <2>1. CASE q \in {"conductor", "busy"}
    BY <2>1 DEF VmReset
  <2>2. CASE q \notin {"conductor", "busy"}
    <3>1. Depth \in 1 .. Len(calls') /\ calls'[Depth] = g
      BY <1>1 DEF Stays, Facts
    <3>2. ~AtEnd(g)
      BY <1>1, <2>2 DEF As, AtEnd
    <3> QED
      BY <1>2, <3>1, <3>2, CoveredBy
  <2> QED
    BY <2>1, <2>2
<1> QED
  BY <1>3, <1>4, <1>5, Whole DEF VmReset

(* ... or calls a test or a read.                                          *)
LEMMA ResetMakes ==
  ASSUME Facts, RParts, Restarts(Top), Active(Top) \/ \A d \in 1 .. Depth : ~Active(calls[d]),
         NEW q, q # "start", VmReset(q), NEW n, NEW e, NEW f, Makes(f, q, n, e),
         \/ f.fn = "read_reg_asic" /\ q # "serial"
         \/ f.fn = "test_serial" /\ q \in {"discovered", "good_loops", "serial"}
         \/ /\ Tests(f) /\ f.pc = "start" /\ f.n = 1 /\ f.err = FALSE
            /\ q \in {"tested", "reset"}
  PROVE  RInv'
<1>1. PICK g : As(g, q, n, e) /\ Pushes(g, f)
  BY DEF Makes
<1>2. /\ g.fn = Top.fn /\ g.pc = q /\ Restarts(g) /\ Active(g) /\ ~Tests(g) /\ ~Tested(g)
      /\ TestOK(g) /\ StageOf(g, vm')
  BY <1>1 DEF As, Restarts, Active, Tests, Tested, TestOK, StageOf, VmReset, AtEnd
<1>3. /\ ~Active(f) /\ ~Tested(f) /\ ~Serial(f) /\ TestOK(f) /\ Result(f, vm')
  BY DEF Active, Tests, Tested, Serial, Restarts, TestOK, Result
<1>4. CalledBy(g, f)
  BY <1>2 DEF CalledBy, Serial, Restarts, Tests
<1>5. Called' /\ Returned'
  BY <1>1, <1>2, <1>3, <1>4, CalledKept, ReturnedKept DEF RParts
<1>6. Stages'
  BY <1>1, <1>2, <1>3, StagesOn DEF RParts, VmReset
<1>7. InTests'
  <2>1. \A d \in 1 .. Depth - 1 : ~AtEnd(calls[d])
    <3>1. \A d \in 1 .. Depth - 1 : d \in 1 .. Depth /\ d # Depth
      BY DEF Facts
    <3>2. \A d \in 1 .. Depth - 1 : ~Active(calls[d])
      <4>1. CASE Active(Top)
        <5>1. Depth \in 1 .. Depth /\ Active(calls[Depth])
          BY <4>1 DEF Facts, Top
        <5> QED
          BY <3>1, <5>1 DEF RParts, Stages
      <4>2. CASE \A d \in 1 .. Depth : ~Active(calls[d])
        BY <3>1, <4>2
      <4> QED
        BY <4>1, <4>2
    <3> QED
      BY <3>2 DEF Active, AtEnd
  <2>2. Tests(f) => ~AtEnd(g)
    BY <1>2 DEF AtEnd, Tests
  <2> QED
    BY <1>1, <1>2, <1>3, <2>1, <2>2, InTestsKept DEF RParts
<1>8. Covered'
  <2>1. CASE q \in {"conductor", "busy"}
    BY <2>1 DEF VmReset
  <2>2. CASE q \notin {"conductor", "busy"}
    <3>1. Depth \in 1 .. Len(calls') /\ calls'[Depth] = g
      BY <1>1 DEF Pushes, Facts
    <3>2. ~AtEnd(g)
      BY <1>2, <2>2 DEF AtEnd
    <3> QED
      BY <1>2, <3>1, <3>2, CoveredBy
  <2> QED
    BY <2>1, <2>2
<1> QED
  BY <1>5, <1>6, <1>7, <1>8, Whole DEF VmReset

(* It calls a read, and goes on at q.                                      *)
LEMMA MakesRead ==
  ASSUME Facts, NEW q \in Pcs, NEW r \in Int, Call(Read(r), q)
  PROVE  \E f : f.fn = "read_reg_asic" /\ Makes(f, q, Top.n, Top.err)
<1> DEFINE f == Read(r)
<1>1. f \in Frames /\ f.fn = "read_reg_asic"
  BY FramesMade
<1>2. Call(f, q)
  OBVIOUS
<1> HIDE DEF f
<1>3. Makes(f, q, Top.n, Top.err)
  BY <1>1, <1>2, MakesIs
<1> QED
  BY <1>1, <1>3

(* The same for the test of all loops.                                     *)
LEMMA MakesTest ==
  ASSUME Facts, NEW q \in Pcs, Call(Test(FALSE), q)
  PROVE  \E f : /\ Tests(f) /\ f.pc = "start" /\ f.n = 1 /\ f.err = FALSE
                /\ Makes(f, q, Top.n, Top.err)
<1> DEFINE f == Test(FALSE)
<1>1. f \in Frames /\ Tests(f) /\ f.pc = "start" /\ f.n = 1 /\ f.err = FALSE
  BY TestIs
<1>2. Call(f, q)
  OBVIOUS
<1> HIDE DEF f
<1>3. Makes(f, q, Top.n, Top.err)
  BY <1>1, <1>2, MakesIs
<1> QED
  BY <1>1, <1>3

(* The start: there is no other reset, or the process ends.                *)
LEMMA StartKeeps ==
  ASSUME QInv, RInv, RestartStart
  PROVE  RInv'
<1>1. Facts /\ VmFields /\ RParts /\ Top.fn = "restart_asics_full" /\ Top.pc = "start"
  BY RFacts DEF RestartStart
<1>2. CASE vm.in_asic_reset # 0
  <2>1. ended' # "no" /\ UNCHANGED vm
    BY <1>2 DEF RestartStart, Exit
  <2> QED
    BY <1>1, <2>1, ExitKeeps, VmUnchanged DEF VmQuiet
<1>3. CASE vm.in_asic_reset = 0
  <2>1. /\ vm' = [vm EXCEPT !.in_asic_reset = 1, !.spi_timeout_count = 0,
                            !.corruptions_count = 0, !.asics = vm.present]
        /\ Call(Test(FALSE), "tested")
    BY <1>3 DEF RestartStart
  <2>2. vm.present = Loops
    BY <1>1, <1>3 DEF RParts, Stages
  <2>3. VmReset("tested")
    BY <1>1, <2>1, <2>2 DEF VmFields, VmReset
  <2>4. Restarts(Top) /\ \A d \in 1 .. Depth : ~Active(calls[d])
    BY <1>1, <1>3, NoReset DEF RParts, Restarts
  <2>5. PICK f : /\ Tests(f) /\ f.pc = "start" /\ f.n = 1 /\ f.err = FALSE
                 /\ Makes(f, "tested", Top.n, Top.err)
    BY <1>1, <2>1, MakesTest DEF Pcs
  <2> QED
    BY <1>1, <2>3, <2>4, <2>5, ResetMakes
<1> QED
  BY <1>2, <1>3

(* The tests before the reset proper, and again if there was a problem.    *)
LEMMA FirstKeeps ==
  ASSUME QInv, RInv, RestartTested \/ RestartReset
  PROVE  RInv'
<1>1. CASE RestartTested
  <2>1. In("restart_asics_full", "tested")
    BY <1>1 DEF RestartTested
  <2>2. /\ Facts /\ VmFields /\ RParts /\ Restarts(Top) /\ Active(Top)
        /\ vm.asics = Loops /\ vm.in_asic_reset = 1 /\ vm.present = Loops
    BY <2>1, InAReset
  <2>3. \E found \in BOOLEAN : vm' = Ac2dcErrors(vm, found)
    BY <1>1 DEF RestartTested
  <2>4. VmReset("reset")
    BY <2>2, <2>3 DEF VmFields, VmReset, Ac2dcErrors
  <2>5. Call(Test(FALSE), "reset") \/ calls' = At("reset")
    BY <1>1 DEF RestartTested
  <2>6. "reset" \in Pcs
    BY DEF Pcs
  <2>7. CASE Call(Test(FALSE), "reset")
    <3>1. PICK f : /\ Tests(f) /\ f.pc = "start" /\ f.n = 1 /\ f.err = FALSE
                   /\ Makes(f, "reset", Top.n, Top.err)
      BY <2>2, <2>6, <2>7, MakesTest
    <3> QED
      BY <2>2, <2>4, <3>1, ResetMakes
  <2>8. CASE calls' = At("reset")
    <3>1. Goes("reset", Top.n, Top.err)
      BY <2>2, <2>6, <2>8, GoesIs
    <3> QED
      BY <2>2, <2>4, <3>1, ResetGoes
  <2> QED
    BY <2>5, <2>7, <2>8
<1>2. CASE RestartReset
  <2>1. /\ In("restart_asics_full", "reset") /\ vm' = [vm EXCEPT !.in_asic_reset = 2]
        /\ calls' = [At("discover") EXCEPT ![Depth].n = 1]
    BY <1>2 DEF RestartReset
  <2>2. Facts /\ VmFields /\ RParts /\ Restarts(Top) /\ Active(Top) /\ vm.asics = Loops
    BY <2>1, InAReset
  <2>3. VmReset("discover")
    BY <2>1, <2>2 DEF VmFields, VmReset
  <2>4. Goes("discover", 1, Top.err)
    BY <2>1, <2>2, GoesIsN DEF Pcs
  <2> QED
    BY <2>2, <2>3, <2>4, ResetGoes
<1> QED
  BY <1>1, <1>2

(* After them, what a reset may find.                                      *)
LEMMA InSecond ==
  ASSUME QInv, RInv, NEW p, In("restart_asics_full", p), p \notin {"start", "tested", "reset"}
  PROVE  /\ Facts /\ VmFields /\ RParts /\ Restarts(Top) /\ Active(Top)
         /\ vm.asics = Loops /\ vm.in_asic_reset = 2 /\ Top.n \in Int
  BY InAReset DEF Facts, Frames

(* Where it leaves vm, or only says which ASICs there are, it may go on at *)
(* all the places where it is still to find them.                          *)
Searching == {"reset", "discover", "discovered", "good_loops", "none", "loop", "asks", "given",
              "all", "serial"}

(* The search is at its stage wherever it goes on.                         *)
LEMMA ResetFinds ==
  ASSUME VmFields', vm'.asics = Loops, vm'.in_asic_reset = 2
  PROVE  \A q \in Searching : VmReset(q)
  BY DEF VmReset, Searching

(* The steps that leave vm alone, or only say which ASICs there are.       *)
LEMMA SearchGoes ==
  ASSUME QInv, RInv, NEW p, In("restart_asics_full", p), p \notin {"start", "tested", "reset"},
         VmFields', vm'.asics = Loops, vm'.in_asic_reset = 2,
         NEW q \in Searching \cap Pcs
  PROVE  /\ \A n, e : Goes(q, n, e) /\ q # "serial" => RInv'
         /\ Call(TestSerial, q) /\ q \in {"discovered", "good_loops", "serial"} => RInv'
         /\ \A r \in Int : Call(Read(r), q) /\ q # "serial" => RInv'
<1>1. /\ Facts /\ VmFields /\ RParts /\ Restarts(Top) /\ Active(Top)
  BY InSecond
<1>2. VmReset(q) /\ q # "start"
  BY ResetFinds DEF Searching
<1>3. ASSUME NEW n, NEW e, Goes(q, n, e), q # "serial"
      PROVE  RInv'
  BY <1>1, <1>2, <1>3, ResetGoes
<1>4. ASSUME Call(TestSerial, q), q \in {"discovered", "good_loops", "serial"}
      PROVE  RInv'
  <2>1. TestSerial \in Frames /\ TestSerial.fn = "test_serial"
    BY FramesMade
  <2>2. Makes(TestSerial, q, Top.n, Top.err)
    BY <1>1, <1>4, <2>1, MakesIs
  <2> QED
    BY <1>1, <1>2, <1>4, <2>1, <2>2, ResetMakes
<1>5. ASSUME NEW r \in Int, Call(Read(r), q), q # "serial"
      PROVE  RInv'
  <2>1. PICK f : f.fn = "read_reg_asic" /\ Makes(f, q, Top.n, Top.err)
    BY <1>1, <1>5, MakesRead
  <2> QED
    BY <1>1, <1>2, <1>5, <2>1, ResetMakes
<1> QED
  BY <1>3, <1>4, <1>5

(* It tests the loops, one by one, ...                                     *)
LEMMA DiscoverKeeps ==
  ASSUME QInv, RInv, RestartDiscover \/ RestartDiscovered
  PROVE  RInv'
<1>1. CASE RestartDiscover
  <2>1. In("restart_asics_full", "discover") /\ UNCHANGED vm
    BY <1>1 DEF RestartDiscover
  <2>2. VmFields /\ vm.asics = Loops /\ vm.in_asic_reset = 2
    BY <2>1, InSecond
  <2>3. VmFields' /\ vm'.asics = Loops /\ vm'.in_asic_reset = 2
    BY <2>1, <2>2 DEF VmFields
  <2>4. {"discovered", "good_loops"} \subseteq Searching \cap Pcs
    BY DEF Searching, Pcs
  <2>5. Call(TestSerial, "discovered") \/ Call(TestSerial, "good_loops")
    BY <1>1 DEF RestartDiscover
  <2> QED
    BY <2>1, <2>3, <2>4, <2>5, SearchGoes
<1>2. CASE RestartDiscovered
  <2>1. In("restart_asics_full", "discovered")
    BY <1>2 DEF RestartDiscovered
  <2>2. Facts /\ VmFields /\ vm.asics = Loops /\ vm.in_asic_reset = 2
    BY <2>1, InSecond
  <2>3. /\ \/ vm' = [vm EXCEPT !.enabled = @ \cup {Top.n}, !.present = @ \cup {Top.n}]
           \/ vm' = [vm EXCEPT !.enabled = @ \ {Top.n}, !.present = @ \ {Top.n}]
           \/ vm' = [vm EXCEPT !.enabled = @ \ {Top.n}, !.tryed_power_cycle = TRUE]
        /\ calls' = GoOn("discover") \/ calls' = At("reset")
    BY <1>2 DEF RestartDiscovered
  <2>4. VmFields' /\ vm'.asics = Loops /\ vm'.in_asic_reset = 2
    BY <2>2, <2>3 DEF VmFields
  <2>5. {"discover", "reset"} \subseteq Searching \cap Pcs
    BY DEF Searching, Pcs
  <2>6. Goes("discover", Top.n + 1, Top.err) \/ Goes("reset", Top.n, Top.err)
    BY <2>2, <2>3, <2>5, GoesIs
  <2> QED
    BY <2>1, <2>4, <2>5, <2>6, SearchGoes
<1> QED
  BY <1>1, <1>2

(* ... and gives the ASICs their addresses.                                *)
LEMMA AddressKeeps ==
  ASSUME QInv, RInv,
         \/ RestartGoodLoops \/ RestartNone \/ RestartLoop \/ RestartAsks \/ RestartGiven
         \/ RestartAll
  PROVE  RInv'
<1>1. PICK p : In("restart_asics_full", p) /\ p \notin {"start", "tested", "reset"}
  <2>1. /\ RestartGoodLoops => In("restart_asics_full", "good_loops")
        /\ RestartNone => In("restart_asics_full", "none")
        /\ RestartLoop => In("restart_asics_full", "loop")
        /\ RestartAsks => In("restart_asics_full", "asks")
        /\ RestartGiven => In("restart_asics_full", "given")
        /\ RestartAll => In("restart_asics_full", "all")
    BY DEF RestartGoodLoops, RestartNone, RestartLoop, RestartAsks, RestartGiven, RestartAll
  <2> QED
    BY <2>1
<1>2. Facts /\ VmFields /\ vm.asics = Loops /\ vm.in_asic_reset = 2 /\ Top.n \in Int
  BY <1>1, InSecond
<1>3. UNCHANGED vm \/ \E s : vm' = [vm EXCEPT !.present = s]
  BY DEF RestartGoodLoops, RestartNone, RestartLoop, RestartAsks, RestartGiven, RestartAll
<1>4. VmFields' /\ vm'.asics = Loops /\ vm'.in_asic_reset = 2
  BY <1>2, <1>3 DEF VmFields
<1>5. {"none", "loop", "all", "asks", "given", "serial"} \subseteq Searching \cap Pcs
  BY DEF Searching, Pcs
<1> DEFINE r == ADDR_INTR_BC_GOT_ADDR_NOT
<1>6. r \in Int
  BY RegsAreInts
<1>7. \/ ended' # "no"
      \/ Call(Read(r), "none")
      \/ calls' = [At("loop") EXCEPT ![Depth].n = 1]
      \/ Call(Read(r), "all")
      \/ Call(Read(r), "asks")
      \/ calls' = GoOn("loop")
      \/ Call(Read(r), "given")
      \/ Call(TestSerial, "serial")
  BY DEF RestartGoodLoops, RestartNone, RestartLoop, RestartAsks, RestartGiven, RestartAll, Exit,
         NextLoop
<1> HIDE DEF r
<1>8. CASE ended' # "no"
  BY <1>4, <1>8, ExitKeeps
<1>9. ASSUME NEW q \in {"none", "all", "asks", "given"}, Call(Read(r), q)
      PROVE  RInv'
  <2>1. q \in Searching \cap Pcs /\ q # "serial"
    BY <1>5
  <2> QED
    BY <1>1, <1>4, <1>6, <1>9, <2>1, SearchGoes
<1>10. CASE calls' = [At("loop") EXCEPT ![Depth].n = 1]
  <2>1. Goes("loop", 1, Top.err)
    BY <1>2, <1>5, <1>10, GoesIsN
  <2> QED
    BY <1>1, <1>4, <1>5, <2>1, SearchGoes
<1>11. CASE calls' = GoOn("loop")
  <2>1. Goes("loop", Top.n + 1, Top.err)
    BY <1>2, <1>5, <1>11, GoesIs
  <2> QED
    BY <1>1, <1>4, <1>5, <2>1, SearchGoes
<1>12. CASE Call(TestSerial, "serial")
  BY <1>1, <1>4, <1>5, <1>12, SearchGoes
<1> QED
  BY <1>7, <1>8, <1>9, <1>10, <1>11, <1>12

(* All loops answer: failures are reported again.                          *)
LEMMA FoundKeeps ==
  ASSUME QInv, RInv, RestartSerial
  PROVE  RInv'
<1>1. In("restart_asics_full", "serial")
  BY DEF RestartSerial
<1>2. /\ Facts /\ VmFields /\ RParts /\ Restarts(Top) /\ Active(Top) /\ Top.pc = "serial"
      /\ vm.asics = Loops /\ vm.in_asic_reset = 2
  BY <1>1, InSecond DEF In
<1>3. Top.val = "bad" \/ (Top.val = "good" /\ vm.assert_serial_failures = TRUE)
  BY <1>2 DEF RParts, Returned, Result, Serial, Facts
<1>4. \/ ended' # "no" /\ UNCHANGED vm
      \/ /\ Top.val # "bad" /\ vm' = [vm EXCEPT !.present = @ \cap vm.asics]
         /\ calls' = [At("conductor") EXCEPT ![Depth].n = 1]
  BY DEF RestartSerial, Exit
<1>5. CASE ended' # "no" /\ UNCHANGED vm
  BY <1>2, <1>5, ExitKeeps, VmUnchanged DEF VmQuiet
<1>6. CASE /\ Top.val # "bad" /\ vm' = [vm EXCEPT !.present = @ \cap vm.asics]
           /\ calls' = [At("conductor") EXCEPT ![Depth].n = 1]
  <2>1. /\ VmFields' /\ vm'.present = vm.present \cap Loops /\ vm'.asics = Loops
        /\ vm'.in_asic_reset = 2 /\ vm'.assert_serial_failures = TRUE
    BY <1>2, <1>3, <1>6 DEF VmFields
  <2>2. VmReset("conductor")
    BY <2>1 DEF VmReset, Covered
  <2>3. Goes("conductor", 1, Top.err)
    BY <1>2, <1>6, GoesIsN DEF Pcs
  <2> QED
    BY <1>2, <2>2, <2>3, ResetGoes
<1> QED
  BY <1>4, <1>5, <1>6

(* Where the reset ends, it goes on seeing to it.                          *)
LEMMA EndCovers ==
  ASSUME Facts, RParts, UNCHANGED vm, AtEnd(Top), NEW g, g.fn = Top.fn,
         Stays(g) \/ \E f : Pushes(g, f)
  PROVE  Covered'
<1>1. Depth \in Nat /\ Depth >= 1 /\ Top = calls[Depth]
  BY DEF Facts, Top
<1>2. /\ Keeps(Depth - 1) /\ calls'[Depth] = g /\ Len(calls') \in Nat
      /\ Len(calls') >= Depth /\ Depth \in 1 .. Len(calls')
  BY <1>1 DEF Stays, Pushes
<1>3. ASSUME Covers(Depth)
      PROVE  Covered'
  <2>1. vm.present # Loops
    BY <1>1, <1>3 DEF Covers, AtEnd, Restarts, Tests, Tested, Waits
  <2>2. Restarts(g) /\ vm'.present # Loops
    BY <2>1 DEF AtEnd, Restarts
  <2> QED
    BY <1>2, <2>2, CoveredBy
<1>4. Covered /\ Len(calls') >= Depth - 1
  BY <1>1, <1>2 DEF RParts
<1> QED
  BY <1>2, <1>3, <1>4, CoveredKept

(* It polls the conductor.                                                 *)
LEMMA PollKeeps ==
  ASSUME QInv, RInv, RestartConductor \/ RestartBusy
  PROVE  RInv'
<1>1. PICK p \in {"conductor", "busy"} : In("restart_asics_full", p)
  BY DEF RestartConductor, RestartBusy
<1>2. /\ Facts /\ VmFields /\ RParts /\ Restarts(Top) /\ Active(Top) /\ AtEnd(Top)
      /\ vm.asics = Loops /\ vm.in_asic_reset = 2 /\ vm.present \subseteq Loops
  <2>1. Top.pc = p /\ p \notin {"start", "tested", "reset"}
    BY <1>1 DEF In
  <2>2. /\ Facts /\ VmFields /\ RParts /\ Restarts(Top) /\ Active(Top)
        /\ vm.asics = Loops /\ vm.in_asic_reset = 2
    BY <1>1, <2>1, InSecond
  <2>3. AtEnd(Top)
    BY <2>1, <2>2 DEF AtEnd
  <2> QED
    BY <1>1, <2>1, <2>2, <2>3, InAReset
<1>3. UNCHANGED vm /\ VmFields'
  BY <1>2 DEF RestartConductor, RestartBusy, VmFields
<1>4. ASSUME Covered', NEW q \in {"conductor", "busy"}
      PROVE  VmReset(q)
  BY <1>2, <1>3, <1>4 DEF VmReset
<1>5. {"conductor", "busy"} \subseteq Pcs
  BY DEF Pcs
<1>6. \/ ended' # "no"
      \/ Call(Read(ADDR_INTR_BC_CONDUCTOR_BUSY), "busy")
      \/ calls' = GoOn("conductor")
  BY DEF RestartConductor, RestartBusy, Exit
<1>7. CASE ended' # "no"
  BY <1>3, <1>7, ExitKeeps
<1>8. CASE Call(Read(ADDR_INTR_BC_CONDUCTOR_BUSY), "busy")
  <2>1. PICK f : f.fn = "read_reg_asic" /\ Makes(f, "busy", Top.n, Top.err)
    <3>1. ADDR_INTR_BC_CONDUCTOR_BUSY \in Int
      BY RegsAreInts
    <3> QED
      BY <1>2, <1>5, <1>8, <3>1, MakesRead
  <2>2. PICK g : As(g, "busy", Top.n, Top.err) /\ Pushes(g, f)
    BY <2>1 DEF Makes
  <2>3. Covered'
    BY <1>2, <1>3, <2>2, EndCovers DEF As
  <2>4. VmReset("busy")
    BY <1>4, <2>3
  <2> QED
    BY <1>2, <2>1, <2>4, ResetMakes
<1>9. CASE calls' = GoOn("conductor")
  <2>1. Goes("conductor", Top.n + 1, Top.err)
    BY <1>2, <1>5, <1>9, GoesIs
  <2>2. PICK g : As(g, "conductor", Top.n + 1, Top.err) /\ Stays(g)
    BY <2>1 DEF Goes
  <2>3. Covered'
    BY <1>2, <1>3, <2>2, EndCovers DEF As
  <2>4. VmReset("conductor")
    BY <1>4, <2>3
  <2> QED
    BY <1>2, <2>1, <2>4, ResetGoes
<1> QED
  BY <1>6, <1>7, <1>8, <1>9

(* As many ASICs as there were, of those there were: all of them.          *)
LEMMA AllOfThem ==
  ASSUME AllRecovered, vm.present \subseteq Loops, vm.asics = Loops
  PROVE  vm.present = Loops
<1>1. IsFiniteSet(Loops)
  BY FpgaAssumption, FS_Interval DEF Loops
<1>2. IsFiniteSet(vm.present) /\ Cardinality(vm.present) <= Cardinality(Loops)
  BY <1>1, FS_Subset
<1>3. Cardinality(vm.present) = Cardinality(Loops)
  <2>1. Cardinality(vm.present) \in Nat /\ Cardinality(Loops) \in Nat
    BY <1>1, <1>2, FS_CardinalityType
  <2> QED
    BY <1>2, <2>1 DEF AllRecovered
<1> QED
  BY <1>1, <1>3, FS_Subset

(* The end: no ASIC got lost, or the process ends.                         *)
LEMMA LastKeeps ==
  ASSUME QInv, RInv, RestartEnd
  PROVE  RInv'
<1>1. In("restart_asics_full", "busy")
  BY DEF RestartEnd
<1>2. Top.pc = "busy"
  BY <1>1 DEF In
<1>3. /\ Facts /\ VmFields /\ RParts /\ Restarts(Top) /\ Active(Top)
      /\ vm.asics = Loops /\ vm.in_asic_reset = 2 /\ Depth \in Nat /\ Depth >= 1
      /\ Top = calls[Depth] /\ Top.fn # "task"
      /\ \A d \in 1 .. Depth - 1 : ~Active(calls[d]) /\ ~AtEnd(calls[d])
  <2>1. "busy" \notin {"start", "tested", "reset"}
    OBVIOUS
  <2> QED
    BY <1>1, <2>1, InAReset
<1>4. AtEnd(Top) /\ vm.present \subseteq Loops
  <2>1. AtEnd(Top)
    BY <1>2, <1>3 DEF AtEnd
  <2> QED
    BY <1>1, <2>1, InAReset
<1>5. PICK found \in BOOLEAN :
        vm' = [Ac2dcErrors(vm, found) EXCEPT !.did_asic_reset = TRUE, !.in_asic_reset = 0]
  BY DEF RestartEnd
<1>6. /\ VmFields' /\ vm'.in_asic_reset = 0 /\ vm'.present = vm.present
      /\ vm'.assert_serial_failures = vm.assert_serial_failures
  BY <1>3, <1>5 DEF VmFields, Ac2dcErrors
<1>7. CASE ~AllRecovered
  BY <1>6, <1>7, ExitKeeps DEF RestartEnd, Exit
<1>8. CASE AllRecovered
  <2>1. vm.present = Loops /\ Return("none")
    BY <1>3, <1>4, <1>8, AllOfThem DEF RestartEnd
  <2>2. Pops("none")
    BY <1>3, <2>1, PopsIs
  <2>3. Called' /\ Returned' /\ InTests'
    BY <1>3, <2>2, CalledKept, ReturnedKept, InTestsKept DEF RParts, Restarts
  <2>4. Len(calls') = Depth - 1 /\ Keeps(Depth - 1)
    BY <2>2 DEF Pops
  <2>5. Stages'
    <3>1. \A d \in 1 .. Depth - 1 : ~Active(calls'[d])
      BY <1>3, <2>4 DEF Keeps, Like, Active, Restarts
    <3>2. Depth' = Depth - 1
      BY <2>4 DEF Depth
    <3> QED
      BY <1>6, <2>1, <3>1, <3>2 DEF Stages
  <2>6. Covered'
    <3>1. ~Covers(Depth)
      BY <1>3, <1>4, <2>1 DEF Covers, Restarts, Tests, Tested, Waits
    <3>2. Covered /\ Len(calls') \in Nat /\ Len(calls') >= Depth - 1
      BY <1>3, <2>4 DEF RParts
    <3> QED
      BY <1>3, <1>6, <2>4, <3>1, <3>2, CoveredKept
  <2> QED
    BY <1>6, <2>3, <2>5, <2>6, Whole
<1> QED
  BY <1>7, <1>8
-----------------------------------------------------------------------------
(* A task begins, ...                                                      *)
LEMMA BeginKeeps ==
  ASSUME QInv, RInv, Begin
  PROVE  RInv'
<1>1. VmFields /\ RParts /\ calls = <<>> /\ calls' = <<Frame("task")>> /\ Depth = 0
  BY DEF Begin, RInv, Depth
<1>2. vm.in_asic_reset = 0 /\ vm.present = Loops /\ vm.assert_serial_failures = TRUE
  BY <1>1 DEF RParts, Stages, Covered
<1>3. /\ VmFields' /\ vm'.in_asic_reset = 0 /\ vm'.present = Loops
      /\ vm'.assert_serial_failures = TRUE
  BY <1>1, <1>2 DEF Begin, VmFields
<1> DEFINE f == Frame("task")
<1>4. /\ ~Tests(f) /\ ~Active(f) /\ ~Tested(f) /\ ~Serial(f)
  BY DEF Frame, Tests, Active, Tested, Serial, Restarts
<1>5. Depth' = 1 /\ Top' = f /\ calls'[1] = f
  BY <1>1 DEF Depth, Top
<1> HIDE DEF f
<1>6. Called' /\ Returned' /\ Covered'
  BY <1>3, <1>4, <1>5 DEF Called, Returned, Result, Covered
<1>7. InTests' /\ Stages'
  BY <1>3, <1>4, <1>5 DEF InTests, TestOK, Stages
<1> QED
  BY <1>3, <1>6, <1>7, Whole

(* ... and is over: nobody is left who would see to it.                    *)
LEMMA DoneKeeps ==
  ASSUME QInv, RInv, TaskDone
  PROVE  RInv'
<1>1. Facts /\ VmFields /\ RParts /\ Top.fn = "task"
  BY RFacts DEF TaskDone
<1>2. Depth = 1 /\ Top = calls[1] /\ calls' = <<>> /\ Depth' = 0
  BY <1>1 DEF Facts, Top, TaskDone, Depth
<1>3. \A d \in 1 .. Depth : ~Active(calls[d]) /\ ~Covers(d)
  BY <1>1, <1>2 DEF Active, Covers, Restarts, Tests, Tested, Waits
<1>4. vm.in_asic_reset = 0 /\ vm.present = Loops /\ vm.assert_serial_failures = TRUE
  BY <1>1, <1>3 DEF RParts, Stages, Covered
<1>5. /\ VmFields' /\ vm'.in_asic_reset = 0 /\ vm'.present = Loops
      /\ vm'.assert_serial_failures = TRUE
  BY <1>1, <1>4 DEF TaskDone, VmFields
<1>6. Called' /\ InTests' /\ Stages' /\ Returned' /\ Covered'
  BY <1>2, <1>5 DEF Called, InTests, Stages, Returned, Covered
<1> QED
  BY <1>5, <1>6, Whole

(* Nothing of it changes.                                                  *)
LEMMA IdleKeeps ==
  ASSUME RInv, UNCHANGED <<vm, calls, ended>>
  PROVE  RInv'
  BY DEF RInv, VmFields, RParts, Called, InTests, Stages, StageOf, Returned, Covered, Covers,
         Depth, Top

(* At first, if no loop is without an ASIC.                                *)
LEMMA FirstReported ==
  ASSUME DeadLoops = {}, Init
  PROVE  RInv
<1>1. VmFields /\ vm.in_asic_reset = 0 /\ vm.present = Loops /\ vm.assert_serial_failures = TRUE
  BY DEF Init, VmFields
<1>2. calls = <<>> /\ Depth = 0
  BY DEF Init, Depth
<1> QED
  BY <1>1, <1>2 DEF RInv, RParts, Called, InTests, Stages, Returned, Covered

(* Every step keeps it.                                                    *)
LEMMA StepReports ==
  ASSUME QInv, RInv, [Next]_vars
  PROVE  RInv'
<1>1. CASE TaskStep
  BY <1>1, BeginKeeps, TaskKeeps, DoneKeeps, PushKeeps DEF TaskStep
<1>2. CASE WaitStep
  BY <1>2, WaitKeeps, SlotKeeps, TestedKeeps, DeliverKeeps DEF WaitStep
<1>3. CASE TestStep
  BY <1>3, SerialKeeps, LoopKeeps, EndKeeps, ResultKeeps, LostKeeps DEF TestStep
<1>4. CASE RestartStep
  BY <1>4, StartKeeps, FirstKeeps, DiscoverKeeps, AddressKeeps, FoundKeeps, PollKeeps, LastKeeps
     DEF RestartStep
<1>5. CASE Arrive \/ Gone \/ UNCHANGED vars
  BY <1>5, IdleKeeps DEF Arrive, Gone, vars
<1> QED
  BY <1>1, <1>2, <1>3, <1>4, <1>5 DEF Next, Running

(* Theorem.  Where every enabled loop had an ASIC at first: between two    *)
(* tasks failed reads are reported, whatever tests, searches and resets    *)
(* the task led to, in one another or not, and however they ended.         *)
THEOREM ReportedAgain ==
  ASSUME DeadLoops = {}
  PROVE  Spec => []FailuresAreReported
<1>1. Init => RInv
  BY FirstReported
<1>2. QInv /\ RInv /\ [Next]_vars => RInv'
  BY StepReports
<1>3. RInv => FailuresAreReported
  BY DEF RInv, RParts, Covered, FailuresAreReported, Idle, Depth
<1> QED
  BY <1>1, <1>2, <1>3, Invariance, PTL DEF Spec
-----------------------------------------------------------------------------
(* What every place says of its loop, read or slot, and who calls the      *)
(* tests, whether or not loops are without an ASIC.                        *)
PlaceOK(f) ==
  /\ f.fn = "task" => f.n >= 1 /\ (f.pc = "room" => f.n <= Batch)
  /\ Waits(f) /\ f.pc \in {"take", "tested", "deliver"} => f.n \in Slots
  /\ Tests(f) => f.n >= 1 /\ (f.pc = "tested" => f.n <= LOOP_COUNT)
  /\ Restarts(f) /\ f.pc \in {"discover", "discovered", "loop", "asks", "given"} => f.n >= 1
  /\ Restarts(f) /\ f.pc \in {"discovered", "asks", "given"} => f.n <= LOOP_COUNT

CParts == Called /\ \A d \in 1 .. Depth : PlaceOK(calls[d])
CInv == ended = "no" => CParts

(* The running frame goes on, calls, or returns.                           *)
Move ==
  \/ \E g : g.fn = Top.fn /\ PlaceOK(g) /\ Stays(g)
  \/ \E g, f : g.fn = Top.fn /\ PlaceOK(g) /\ PlaceOK(f) /\ CalledBy(g, f) /\ Pushes(g, f)
  \/ \E v : Pops(v)

(* All of them keep what the places say.                                   *)
LEMMA MoveKeeps ==
  ASSUME Facts, CParts, Move
  PROVE  CParts'
<1>1. Depth \in Nat /\ Depth >= 1
  BY DEF Facts
<1>2. ASSUME Keeps(Depth - 1), NEW d \in 1 .. Depth - 1
      PROVE  PlaceOK(calls'[d])
  <2>1. Like(calls'[d], calls[d]) /\ PlaceOK(calls[d])
    BY <1>1, <1>2 DEF Keeps, CParts
  <2> QED
    BY <2>1 DEF PlaceOK, Like, Waits, Tests, Restarts
<1>3. ASSUME NEW n \in Nat, Len(calls') = n, \A d \in 1 .. n : PlaceOK(calls'[d])
      PROVE  \A d \in 1 .. Depth' : PlaceOK(calls[d])'
  <2>1. Depth' = n
    BY <1>3 DEF Depth
  <2> QED
    BY <1>3, <2>1 DEF PlaceOK, Waits, Tests, Restarts
<1>4. ASSUME NEW g, g.fn = Top.fn, PlaceOK(g), Stays(g)
      PROVE  CParts'
  <2>1. Len(calls') = Depth /\ calls'[Depth] = g /\ Keeps(Depth - 1)
    BY <1>4 DEF Stays
  <2>2. \A d \in 1 .. Depth : PlaceOK(calls'[d])
    BY <1>1, <1>2, <1>4, <2>1
  <2>3. Called'
    BY <1>4, CalledKept DEF CParts
  <2> QED
    BY <1>1, <1>3, <2>1, <2>2, <2>3 DEF CParts
<1>5. ASSUME NEW g, NEW f, g.fn = Top.fn, PlaceOK(g), PlaceOK(f), CalledBy(g, f), Pushes(g, f)
      PROVE  CParts'
  <2>1. /\ Len(calls') = Depth + 1 /\ calls'[Depth] = g /\ calls'[Depth + 1] = f
        /\ Keeps(Depth - 1)
    BY <1>5 DEF Pushes
  <2>2. \A d \in 1 .. Depth + 1 : PlaceOK(calls'[d])
    BY <1>1, <1>2, <1>5, <2>1
  <2>3. Called'
    BY <1>5, CalledKept DEF CParts
  <2> QED
    BY <1>1, <1>3, <2>1, <2>2, <2>3 DEF CParts
<1>6. ASSUME NEW v, Pops(v)
      PROVE  CParts'
  <2>1. Len(calls') = Depth - 1 /\ Keeps(Depth - 1) /\ Depth - 1 \in Nat
    BY <1>1, <1>6 DEF Pops
  <2>2. Called'
    BY <1>6, CalledKept DEF CParts
  <2> QED
    BY <1>2, <1>3, <2>1, <2>2 DEF CParts
<1> QED
  BY <1>4, <1>5, <1>6 DEF Move

(* What a running function can rely on.                                    *)
LEMMA CFacts ==
  ASSUME QInv, CInv, NEW fn, NEW p, In(fn, p)
  PROVE  /\ Facts /\ CParts /\ Top.fn = fn /\ Top.pc = p /\ ended = "no"
         /\ PlaceOK(Top) /\ Top.n \in Int
<1>1. Facts /\ CParts /\ Top.fn = fn /\ Top.pc = p /\ ended = "no"
  BY InFacts DEF In, CInv
<1>2. Depth \in 1 .. Depth /\ Top = calls[Depth] /\ Top.n \in Int
  BY <1>1 DEF Facts, Top, Frames
<1> QED
  BY <1>1, <1>2 DEF CParts

(* The ways to go on and to call.                                          *)
LEMMA MoveGoes ==
  ASSUME NEW q, NEW n, NEW e, Goes(q, n, e),
         \A g : g.fn = Top.fn /\ g.pc = q /\ g.n = n => PlaceOK(g)
  PROVE  Move
<1>1. PICK g : As(g, q, n, e) /\ Stays(g)
  BY DEF Goes
<1> QED
  BY <1>1 DEF As, Move

(* A call is of what may be called there.                                  *)
LEMMA MoveMakes ==
  ASSUME NEW f, NEW q, NEW n, NEW e, Makes(f, q, n, e), PlaceOK(f),
         \A g : g.fn = Top.fn /\ g.pc = q /\ g.n = n => PlaceOK(g) /\ CalledBy(g, f)
  PROVE  Move
<1>1. PICK g : As(g, q, n, e) /\ Pushes(g, f)
  BY DEF Makes
<1> QED
  BY <1>1 DEF As, Move

(* A read, a wait, a search or a reset may be called anywhere but where a  *)
(* test of a loop is.                                                      *)
LEMMA MoveCalls ==
  ASSUME Facts, NEW f \in Frames, NEW q \in Pcs, Call(f, q),
         (Plain(f) /\ f.fn # "task") \/ Restarts(f), f.pc = "start",
         \A g : g.fn = Top.fn /\ g.pc = q /\ g.n = Top.n
           => PlaceOK(g) /\ ~Tested(g) /\ ~Serial(g)
  PROVE  Move
<1>1. Makes(f, q, Top.n, Top.err)
  BY MakesIs
<1>2. PlaceOK(f) /\ f.fn # "test_serial" /\ ~Tests(f)
  BY DEF PlaceOK, Plain, Restarts, Waits, Tests
<1>3. ASSUME NEW g, g.fn = Top.fn, g.pc = q, g.n = Top.n
      PROVE  PlaceOK(g) /\ CalledBy(g, f)
  <2>1. PlaceOK(g) /\ ~Tested(g) /\ ~Serial(g)
    BY <1>3
  <2> QED
    BY <1>2, <2>1 DEF CalledBy
<1> HIDE DEF PlaceOK
<1> QED
  BY <1>1, <1>2, <1>3, MoveMakes

(* It goes on with a value.                                                *)
LEMMA GoesIsValue ==
  ASSUME Facts, NEW q \in Pcs, NEW r \in Results, calls' = [At(q) EXCEPT ![Depth].value = r]
  PROVE  \E g : As(g, q, Top.n, Top.err) /\ g.value = r /\ g.val = Top.val /\ Stays(g)
<1> DEFINE k == [Top EXCEPT !.pc = q]
           h == [k EXCEPT !.value = r]
           w == WithTop(calls, k)
<1>1. At(q) = w
  BY DEF At, WithTop, Top, Depth
<1>2. As(h, q, Top.n, Top.err) /\ h.value = r /\ h.val = Top.val
  BY DEF Facts, Frames, As
<1>3. \A z : [w EXCEPT ![Depth] = z] = WithTop(calls, z) /\ w[Depth] = k
  BY TopTwice
<1>4. calls' = [w EXCEPT ![Depth].value = r]
  BY <1>1
<1> HIDE DEF w
<1>5. calls' = [w EXCEPT ![Depth] = h]
  BY <1>3, <1>4
<1> HIDE DEF h, k
<1>6. calls' = WithTop(calls, h)
  BY <1>3, <1>5
<1>7. Stays(h)
  BY <1>6, StaysIs
<1> QED
  BY <1>2, <1>7

(* The queueing of reads, and the waits for them.                          *)
LEMMA TaskMoves ==
  ASSUME QInv, CInv,
         \/ \E fn \in Readers : PushWait(fn) \/ PushGarbage(fn) \/ PushRead(fn)
         \/ TaskWait \/ ReadAtOnce
  PROVE  Move \/ ended' # "no"
<1>1. ASSUME NEW fn \in Readers, PushWait(fn)
      PROVE  Move
  <2>1. /\ Facts /\ Top.fn = fn /\ PlaceOK(Top) /\ Top.n \in Int
    BY <1>1, CFacts DEF PushWait
  <2>2. Call(Wait, "room") /\ Pushing
    BY <1>1 DEF PushWait
  <2>3. ASSUME NEW g, g.fn = Top.fn, g.pc = "room", g.n = Top.n
        PROVE  PlaceOK(g) /\ ~Tested(g) /\ ~Serial(g)
    BY <2>1, <2>2, <2>3
       DEF PlaceOK, Readers, Pushing, Waits, Tests, Restarts, Tested, Serial
  <2>4. Wait \in Frames /\ Plain(Wait) /\ Wait.fn # "task" /\ Wait.pc = "start" /\ "room" \in Pcs
    BY FramesMade DEF Plain, Pcs
  <2> HIDE DEF Call
  <2> QED
    BY <2>1, <2>2, <2>3, <2>4, MoveCalls
<1>2. ASSUME NEW fn \in Readers, In(fn, "start") \/ In(fn, "room")
      PROVE  \E g \in Frames : g.fn = Top.fn /\ PlaceOK(g) /\ Pushed(fn) = WithTop(calls, g)
  <2>1. /\ Facts /\ Top.fn = fn /\ PlaceOK(Top) /\ Top.n \in Int
    BY <1>2, CFacts
  <2>2. PICK g \in Frames : /\ g.fn = fn /\ g.pc = IF fn = "task" THEN "start" ELSE "done"
                            /\ fn = "task" => g.n = Top.n + 1
                            /\ Pushed(fn) = WithTop(calls, g)
    BY <2>1, PushedIs
  <2>3. PlaceOK(g)
    BY <2>1, <2>2 DEF PlaceOK, Readers, Waits, Tests, Restarts
  <2> QED
    BY <2>1, <2>2, <2>3
<1>3. ASSUME NEW fn \in Readers, PushGarbage(fn)
      PROVE  Move
  <2>1. In(fn, "start") \/ In(fn, "room")
    BY <1>3 DEF PushGarbage, AtPurge
  <2>2. Facts /\ Top.fn = fn
    BY <2>1, CFacts
  <2>3. PICK g \in Frames : g.fn = Top.fn /\ PlaceOK(g) /\ Pushed(fn) = WithTop(calls, g)
    BY <1>2, <2>1
  <2>4. Restart \in Frames /\ Restart.fn = "restart_asics_full" /\ Restart.pc = "start"
    BY FramesMade
  <2>5. calls' = Append(WithTop(calls, g), Restart)
    BY <1>3, <2>3 DEF PushGarbage
  <2>6. Pushes(g, Restart)
    BY <2>2, <2>3, <2>4, <2>5, PushesIs
  <2>7. PlaceOK(Restart) /\ CalledBy(g, Restart)
    BY <2>2, <2>3, <2>4 DEF PlaceOK, CalledBy, Waits, Tests, Tested, Serial, Restarts, Readers
  <2> QED
    BY <2>3, <2>6, <2>7 DEF Move
<1>4. ASSUME NEW fn \in Readers, PushRead(fn)
      PROVE  Move \/ ended' # "no"
  <2>1. In(fn, "start") \/ In(fn, "room")
    BY <1>4 DEF PushRead, AtPurge
  <2>2. Facts /\ Top.fn = fn
    BY <2>1, CFacts
  <2>3. PICK g \in Frames : g.fn = Top.fn /\ PlaceOK(g) /\ Pushed(fn) = WithTop(calls, g)
    BY <1>2, <2>1
  <2>4. \/ ended' # "no"
        \/ fn = "task" /\ calls' = Pushed(fn)
        \/ fn = "read_reg_asic" /\ calls' = Append(At("done"), [Wait EXCEPT !.pc = "loop"])
    BY <1>4 DEF PushRead, Exit
  <2>5. CASE fn = "task" /\ calls' = Pushed(fn)
    BY <2>2, <2>3, <2>5, StaysIs DEF Move
  <2>6. CASE fn = "read_reg_asic" /\ calls' = Append(At("done"), [Wait EXCEPT !.pc = "loop"])
    <3> DEFINE f == [Wait EXCEPT !.pc = "loop"]
    <3>1. f \in Frames /\ f.fn = "squid_wait_asic_reads" /\ f.pc = "loop"
      BY FramesMade DEF Frames, Pcs
    <3>2. calls' = Append(WithTop(calls, g), f)
      BY <2>3, <2>6 DEF Pushed
    <3> HIDE DEF f
    <3>3. Pushes(g, f)
      BY <2>2, <2>3, <3>1, <3>2, PushesIs
    <3>4. PlaceOK(f) /\ CalledBy(g, f)
      BY <2>2, <2>3, <2>6, <3>1 DEF PlaceOK, CalledBy, Waits, Tests, Tested, Serial, Restarts
    <3> QED
      BY <2>3, <3>3, <3>4 DEF Move
  <2> QED
    BY <2>4, <2>5, <2>6
<1>5. CASE TaskWait
  <2>1. /\ Facts /\ Top.fn = "task" /\ PlaceOK(Top) /\ Top.n \in Int
    BY <1>5, CFacts DEF TaskWait
  <2>2. Call(Wait, "done")
    BY <1>5 DEF TaskWait
  <2>3. ASSUME NEW g, g.fn = Top.fn, g.pc = "done", g.n = Top.n
        PROVE  PlaceOK(g) /\ ~Tested(g) /\ ~Serial(g)
    BY <2>1, <2>3 DEF PlaceOK, Waits, Tests, Restarts, Tested, Serial
  <2>4. Wait \in Frames /\ Plain(Wait) /\ Wait.fn # "task" /\ Wait.pc = "start" /\ "done" \in Pcs
    BY FramesMade DEF Plain, Pcs
  <2> HIDE DEF Call
  <2> QED
    BY <2>1, <2>2, <2>3, <2>4, MoveCalls
<1>6. CASE ReadAtOnce
  <2>1. Facts /\ Top.fn = "read_reg_asic" /\ Return("own")
    BY <1>6, CFacts DEF ReadAtOnce
  <2> QED
    BY <2>1, PopsIs DEF Move
<1> QED
  BY <1>1, <1>3, <1>4, <1>5, <1>6

(* A frame of a wait that goes on.                                         *)
LEMMA WaitPlace ==
  ASSUME NEW g, g.fn = "squid_wait_asic_reads",
         g.pc \in {"take", "tested", "deliver"} => g.n \in Slots
  PROVE  PlaceOK(g) /\ ~Tested(g) /\ ~Serial(g)
  BY DEF PlaceOK, Waits, Tests, Restarts, Tested, Serial

(* A wait notes the next slot, and may call for a test.                    *)
LEMMA SlotMoves ==
  ASSUME QInv, CInv, WaitSlot
  PROVE  Move
<1>1. /\ Facts /\ Top.fn = "squid_wait_asic_reads" /\ Top.pc = "loop"
  BY CFacts DEF WaitSlot
<1>2. current_cmd_hw_queue_ptr \in Slots
  BY FpgaAssumption DEF WaitSlot, Working, QInv, Pointers, PushLimit, Slots
<1>3. ASSUME NEW q \in {"take", "deliver", "tested"}
      PROVE  \E g \in Frames : /\ g.fn = Top.fn /\ g.pc = q /\ g.n \in Slots
                               /\ [Taken EXCEPT ![Depth].pc = q] = WithTop(calls, g)
  <2>1. current_cmd_hw_queue_ptr \in Int /\ q \in Pcs
    BY <1>2 DEF Slots, Pcs
  <2> QED
    BY <1>1, <1>2, <2>1, TakenIs DEF As
<1>4. \/ \E q \in {"take", "deliver"} : calls' = [Taken EXCEPT ![Depth].pc = q]
      \/ calls' = Append([Taken EXCEPT ![Depth].pc = "tested"], Test(vm.in_asic_reset # 0))
  BY DEF WaitSlot
<1>5. ASSUME NEW q \in {"take", "deliver"}, calls' = [Taken EXCEPT ![Depth].pc = q]
      PROVE  Move
  <2>1. PICK g \in Frames : g.fn = Top.fn /\ g.n \in Slots /\ calls' = WithTop(calls, g)
    BY <1>3, <1>5
  <2> QED
    BY <1>1, <2>1, StaysIs, WaitPlace DEF Move
<1>6. CASE calls' = Append([Taken EXCEPT ![Depth].pc = "tested"], Test(vm.in_asic_reset # 0))
  <2> DEFINE f == Test(vm.in_asic_reset # 0)
  <2>1. f \in Frames /\ Tests(f) /\ f.pc = "start" /\ f.n = 1
    BY TestIs
  <2>2. PICK g \in Frames : /\ g.fn = Top.fn /\ g.pc = "tested" /\ g.n \in Slots
                            /\ [Taken EXCEPT ![Depth].pc = "tested"] = WithTop(calls, g)
    BY <1>3
  <2>3. calls' = Append(WithTop(calls, g), f)
    BY <1>6, <2>2
  <2> HIDE DEF f
  <2>4. Pushes(g, f)
    BY <1>1, <2>1, <2>3, PushesIs
  <2>5. PlaceOK(g) /\ ~Tested(g) /\ ~Serial(g)
    BY <1>1, <2>2, WaitPlace
  <2>6. PlaceOK(f) /\ CalledBy(g, f)
    BY <1>1, <2>1, <2>2, <2>5 DEF PlaceOK, CalledBy, Waits, Tests, Restarts
  <2> QED
    BY <2>2, <2>4, <2>5, <2>6 DEF Move
<1> QED
  BY <1>4, <1>5, <1>6

(* It delivers a result, to a call below it perhaps: that call stays where *)
(* it is.                                                                  *)
LEMMA DeliverIs ==
  ASSUME Facts, WaitDeliver
  PROVE  \E g : /\ \/ As(g, "error", Top.n, Top.err) /\ Pushes(g, Restart)
                   \/ As(g, "loop", Top.n, Top.err) /\ Stays(g)
                /\ g.value = Top.value
<1> DEFINE to == cmd_queue[Top.n].to
           stored == [calls EXCEPT ![to[1]].value = Top.value]
           c == IF to[1] \in 2 .. Depth - 1 THEN stored ELSE calls
<1>1. Base(c) /\ \A d \in 1 .. Depth - 1 : Like(c[d], calls[d])
  <2>1. Top.value \in Results
    BY DEF Facts, Frames
  <2>2. CASE to[1] \in 2 .. Depth - 1
    <3>1. Base(stored) /\ \A d \in 1 .. Depth - 1 : Like(stored[d], calls[d])
      BY <2>1, <2>2, DeliveredIs, DeliveredLike
    <3> QED
      BY <2>2, <3>1
  <2>3. CASE ~(to[1] \in 2 .. Depth - 1)
    BY <2>3, CallsAreBase DEF Like
  <2> QED
    BY <2>2, <2>3
<1>2. \/ calls' = Append([c EXCEPT ![Depth].pc = "error"], Restart)
      \/ calls' = [c EXCEPT ![Depth].pc = "loop"]
  BY DEF WaitDeliver
<1> HIDE DEF c
<1>3. ASSUME NEW q \in {"error", "loop"}
      PROVE  \E g \in Frames : /\ As(g, q, Top.n, Top.err) /\ g.value = Top.value
                               /\ [c EXCEPT ![Depth].pc = q] = WithTop(c, g)
  <2> DEFINE g == [Top EXCEPT !.pc = q]
  <2>1. g \in Frames /\ As(g, q, Top.n, Top.err) /\ g.value = Top.value
    BY DEF Facts, Frames, Pcs, As
  <2>2. [c EXCEPT ![Depth].pc = q] = WithTop(c, g)
    BY <1>1 DEF Base, WithTop
  <2> QED
    BY <2>1, <2>2
<1>4. ASSUME NEW g \in Frames
      PROVE  LET w == WithTop(c, g) IN
             /\ w \in Seq(Frames) /\ Len(w) = Depth /\ w[Depth] = g
             /\ \A d \in 1 .. Depth - 1 : w[d] = c[d]
  <2>1. c \in Seq(Frames) /\ Len(c) = Depth /\ Depth \in 1 .. Depth
    BY <1>1 DEF Base, Linked, Facts
  <2> QED
    BY <2>1 DEF WithTop
<1>5. CASE calls' = Append([c EXCEPT ![Depth].pc = "error"], Restart)
  <2>1. PICK g \in Frames : /\ As(g, "error", Top.n, Top.err) /\ g.value = Top.value
                            /\ [c EXCEPT ![Depth].pc = "error"] = WithTop(c, g)
    BY <1>3
  <2> DEFINE w == WithTop(c, g)
  <2>2. calls' = Append(w, Restart) /\ Restart \in Frames
    BY <1>5, <2>1, FramesMade
  <2>3. /\ w \in Seq(Frames) /\ Len(w) = Depth /\ w[Depth] = g
        /\ \A d \in 1 .. Depth - 1 : w[d] = c[d]
    BY <1>4
  <2> HIDE DEF w
  <2>4. /\ Len(calls') = Depth + 1 /\ calls'[Depth + 1] = Restart
        /\ calls'[Depth] = g /\ \A d \in 1 .. Depth - 1 : calls'[d] = c[d]
    BY <2>2, <2>3 DEF Facts
  <2>5. Pushes(g, Restart)
    BY <1>1, <2>4 DEF Pushes, Keeps
  <2> QED
    BY <2>1, <2>5
<1>6. CASE calls' = [c EXCEPT ![Depth].pc = "loop"]
  <2>1. PICK g \in Frames : /\ As(g, "loop", Top.n, Top.err) /\ g.value = Top.value
                            /\ [c EXCEPT ![Depth].pc = "loop"] = WithTop(c, g)
    BY <1>3
  <2> DEFINE w == WithTop(c, g)
  <2>2. calls' = w
    BY <1>6, <2>1
  <2>3. /\ Len(w) = Depth /\ w[Depth] = g /\ \A d \in 1 .. Depth - 1 : w[d] = c[d]
    BY <1>4
  <2> HIDE DEF w
  <2>4. Stays(g)
    BY <1>1, <2>2, <2>3 DEF Stays, Keeps
  <2> QED
    BY <2>1, <2>4
<1> QED
  BY <1>2, <1>5, <1>6
-----------------------------------------------------------------------------
(* The counters.  One that is at its limit is where the running function   *)
(* does not count on: failed reads are not counted while they are not      *)
(* reported, and else the wait goes on to what starts the count anew.      *)
VmTypes ==
  [assert_serial_failures : BOOLEAN, in_asic_reset : 0 .. 2, did_asic_reset : BOOLEAN,
   tryed_power_cycle : BOOLEAN, spi_timeout_count : 0 .. MAX_TIMEOUTS,
   corruptions_count : 0 .. MAX_CORRUPTIONS + 1, bad_loop_count : [Loops -> 0 .. MAX_LOOP_FAIL],
   enabled : SUBSET Loops, present : SUBSET Loops, asics : SUBSET Loops]

\* Where frame f does not count another timeout, with v in vm and w: replies are due.
Hot(f, v, w) ==
  \/ Waits(f) /\ f.pc \in {"tested", "take", "deliver"}
  \/ Waits(f) /\ f.pc \in {"start", "loop"} /\ ~v.assert_serial_failures /\ w
  \/ Tests(f) /\ f.pc \in {"start", "loop"}
  \/ Tested(f) /\ (f.val = "bad" => ~v.assert_serial_failures)
  \/ f.fn = "test_serial" /\ f.pc = "start"
  \/ f.fn \in {"read_reg_asic", "test_lost_address"} /\ f.pc = "start" /\ ~v.assert_serial_failures
  \/ Restarts(f) /\ f.pc \in {"start", "tested", "reset", "discover", "discovered"}
  \/ /\ Restarts(f) /\ f.pc \in {"good_loops", "serial"} /\ f.val = "bad"
     /\ ~v.assert_serial_failures

AtLimit(v) == v.spi_timeout_count = MAX_TIMEOUTS
IsHot == calls # <<>> /\ Hot(Top, vm, Working)

NParts ==
  /\ AtLimit(vm) => IsHot
  /\ vm.corruptions_count > MAX_CORRUPTIONS => calls # <<>> /\ Restarts(Top) /\ Top.pc = "start"
NInv == vm \in VmTypes /\ (ended = "no" => NParts)

\* A step from such a place leads to another one, or starts the count anew.
StaysHot == AtLimit(vm) /\ Hot(Top, vm, Working) /\ AtLimit(vm') => IsHot'

(* What runs after a step.                                                 *)
LEMMA NextTop ==
  ASSUME Facts
  PROVE  /\ \A g : Stays(g) => calls' # <<>> /\ Top' = g
         /\ \A g, f : Pushes(g, f) => calls' # <<>> /\ Top' = f
         /\ \A v : Pops(v) => /\ calls' # <<>> /\ Like(Top', calls[Depth - 1]) /\ Top'.val = v
                              /\ Depth - 1 \in 1 .. Depth - 1 /\ (Depth - 1) + 1 = Depth
<1>1. Depth \in Nat /\ Depth >= 1
  BY DEF Facts
<1>2. ASSUME NEW g, Stays(g)
      PROVE  calls' # <<>> /\ Top' = g
  BY <1>1, <1>2 DEF Stays, Top, Depth
<1>3. ASSUME NEW g, NEW f, Pushes(g, f)
      PROVE  calls' # <<>> /\ Top' = f
  BY <1>1, <1>3 DEF Pushes, Top, Depth
<1>4. ASSUME NEW v, Pops(v)
      PROVE  /\ calls' # <<>> /\ Like(Top', calls[Depth - 1]) /\ Top'.val = v
             /\ Depth - 1 \in 1 .. Depth - 1 /\ (Depth - 1) + 1 = Depth
  <2>1. Depth - 1 \in 1 .. Depth - 1 /\ Len(calls') = Depth - 1 /\ Keeps(Depth - 1)
    BY <1>1, <1>4 DEF Pops
  <2>2. Top' = calls'[Depth - 1] /\ calls' # <<>>
    BY <2>1 DEF Top, Depth
  <2> QED
    BY <1>1, <1>4, <2>1, <2>2 DEF Pops, Keeps
<1> QED
  BY <1>2, <1>3, <1>4

(* Hot, of what runs then.                                                 *)
LEMMA HotNext ==
  ASSUME calls' # <<>>, Hot(Top', vm', Working')
  PROVE  StaysHot
  BY DEF StaysHot, IsHot, Hot, Waits, Tests, Tested, Restarts

(* The running frame goes on.                                              *)
LEMMA HotGoes ==
  ASSUME Facts, NEW q, NEW n, NEW e, Goes(q, n, e),
         \A g : g.fn = Top.fn /\ g.pc = q /\ g.n = n => PlaceOK(g),
         \A g : AtLimit(vm) /\ Hot(Top, vm, Working) /\ AtLimit(vm') /\ g.fn = Top.fn /\ g.pc = q
                  => Hot(g, vm', Working')
  PROVE  Move /\ StaysHot
<1>1. PICK g : As(g, q, n, e) /\ Stays(g)
  BY DEF Goes
<1>2. calls' # <<>> /\ Top' = g
  BY <1>1, NextTop
<1> HIDE DEF PlaceOK, Hot
<1>3. Move
  BY MoveGoes
<1>4. AtLimit(vm) /\ Hot(Top, vm, Working) /\ AtLimit(vm') => Hot(g, vm', Working')
  BY <1>1 DEF As
<1>5. AtLimit(vm) /\ Hot(Top, vm, Working) /\ AtLimit(vm') => StaysHot
  BY <1>2, <1>4, HotNext
<1> QED
  BY <1>3, <1>5 DEF StaysHot

(* It calls.                                                               *)
LEMMA HotMakes ==
  ASSUME Facts, NEW f, NEW q, NEW n, NEW e, Makes(f, q, n, e), PlaceOK(f),
         \A g : g.fn = Top.fn /\ g.pc = q /\ g.n = n => PlaceOK(g) /\ CalledBy(g, f),
         AtLimit(vm) /\ Hot(Top, vm, Working) /\ AtLimit(vm') => Hot(f, vm', Working')
  PROVE  Move /\ StaysHot
<1>1. PICK g : As(g, q, n, e) /\ Pushes(g, f)
  BY DEF Makes
<1>2. calls' # <<>> /\ Top' = f
  BY <1>1, NextTop
<1> HIDE DEF PlaceOK, Hot
<1>3. Move
  BY MoveMakes
<1>4. AtLimit(vm) /\ Hot(Top, vm, Working) /\ AtLimit(vm') => StaysHot
  BY <1>2, HotNext
<1> QED
  BY <1>3, <1>4 DEF StaysHot

(* It calls a function that may be called anywhere but where a test of a   *)
(* loop is.                                                                *)
LEMMA HotCalls ==
  ASSUME Facts, NEW f \in Frames, NEW q \in Pcs, Call(f, q),
         (Plain(f) /\ f.fn # "task") \/ Restarts(f), f.pc = "start",
         \A g : g.fn = Top.fn /\ g.pc = q /\ g.n = Top.n
           => PlaceOK(g) /\ ~Tested(g) /\ ~Serial(g),
         AtLimit(vm) /\ Hot(Top, vm, Working) /\ AtLimit(vm') => Hot(f, vm', Working')
  PROVE  Move /\ StaysHot
<1> HIDE DEF PlaceOK, Hot
<1>1. Move
  BY MoveCalls
<1>2. PICK g : As(g, q, Top.n, Top.err) /\ Pushes(g, f)
  BY MakesIs DEF Makes
<1>3. calls' # <<>> /\ Top' = f
  BY <1>2, NextTop
<1>4. AtLimit(vm) /\ Hot(Top, vm, Working) /\ AtLimit(vm') => StaysHot
  BY <1>3, HotNext
<1> QED
  BY <1>1, <1>4 DEF StaysHot

(* It returns.                                                             *)
LEMMA HotPops ==
  ASSUME Facts, CParts, Top.fn # "task", NEW v, Return(v),
         \A g, h : /\ CalledBy(h, Top) /\ Like(g, h) /\ g.val = v
                     => Hot(g, vm', Working')
  PROVE  Move /\ StaysHot
<1>1. Pops(v)
  BY PopsIs
<1>2. /\ calls' # <<>> /\ Like(Top', calls[Depth - 1]) /\ Top'.val = v
      /\ Depth - 1 \in 1 .. Depth - 1 /\ (Depth - 1) + 1 = Depth
  BY <1>1, NextTop
<1>3. CalledBy(calls[Depth - 1], Top)
  BY <1>2 DEF CParts, Called, Top
<1> HIDE DEF Hot
<1>4. Hot(Top', vm', Working')
  BY <1>2, <1>3
<1>5. StaysHot
  BY <1>2, <1>4, HotNext
<1> QED
  BY <1>1, <1>5 DEF Move

(* One that is not at such a place need not lead to another.               *)
LEMMA NotHot ==
  ASSUME ~Hot(Top, vm, Working)
  PROVE  StaysHot
  BY DEF StaysHot

(* It returns from where it is not.                                        *)
LEMMA ColdPops ==
  ASSUME Facts, Top.fn # "task", NEW v, Return(v), ~Hot(Top, vm, Working)
  PROVE  Move /\ StaysHot
  BY PopsIs, NotHot DEF Move
-----------------------------------------------------------------------------
(* The queueing of reads, at the limit.                                    *)
LEMMA TaskHot ==
  ASSUME QInv, CInv, vm \in VmTypes,
         \/ \E fn \in Readers : PushWait(fn) \/ PushGarbage(fn) \/ PushRead(fn)
         \/ TaskWait \/ ReadAtOnce
  PROVE  StaysHot \/ ended' # "no"
<1>1. CASE ReadAtOnce
  <2>1. ~AtLimit(vm)
    BY <1>1, FpgaAssumption DEF ReadAtOnce, Undisturbed, AtLimit, VmTypes
  <2> QED
    BY <2>1 DEF StaysHot
<1>2. CASE Top.fn = "task"
  BY <1>2, NotHot DEF Hot, Waits, Tests, Tested, Restarts
<1>3. ASSUME Top.fn = "read_reg_asic", Top.pc = "start", ~vm.assert_serial_failures, UNCHANGED vm,
             PushWait("read_reg_asic") \/ PushRead("read_reg_asic")
      PROVE  StaysHot \/ ended' # "no"
  <2>1. Facts /\ Top.pc = "start"
    BY <1>3, CFacts DEF PushWait, PushRead, AtPurge
  <2>2. current_cmd_queue_ptr \in Nat /\ current_cmd_hw_queue_ptr \in 0 .. current_cmd_queue_ptr
    BY FpgaAssumption DEF QInv, Pointers, PushLimit
  <2>3. CASE PushWait("read_reg_asic")
    <3>1. /\ Call(Wait, "room") /\ current_cmd_queue_ptr >= PushLimit
          /\ UNCHANGED <<current_cmd_queue_ptr, current_cmd_hw_queue_ptr>>
      BY <2>3 DEF PushWait, queueVars
    <3>2. PushLimit \in Nat \ {0}
      BY FpgaAssumption DEF PushLimit
    <3>3. current_cmd_queue_ptr # 0 /\ current_cmd_hw_queue_ptr # current_cmd_queue_ptr
      <4>1. current_cmd_queue_ptr # 0
        BY <2>2, <3>1, <3>2
      <4>2. ~LastTaken(Top) /\ calls # <<>>
        BY <1>3, <2>1 DEF LastTaken, TakenPlaces, Facts
      <4> QED
        BY <4>1, <4>2 DEF QInv, Places
    <3>4. Working'
      BY <3>1, <3>3 DEF Working
    <3>5. PICK g : Pushes(g, Wait)
      BY <2>1, <3>1, MakesIs, FramesMade DEF Makes, Pcs
    <3>6. calls' # <<>> /\ Top' = Wait
      BY <2>1, <3>5, NextTop
    <3>7. Hot(Wait, vm', Working')
      BY <1>3, <3>4, FramesMade DEF Hot, Waits
    <3> QED
      BY <3>6, <3>7, HotNext
  <2>4. CASE PushRead("read_reg_asic") /\ ~(ended' # "no")
    <3> DEFINE f == [Wait EXCEPT !.pc = "loop"]
    <3>1. /\ calls' = Append(At("done"), f)
          /\ current_cmd_queue_ptr' = current_cmd_queue_ptr + 1
          /\ UNCHANGED current_cmd_hw_queue_ptr
      BY <2>4 DEF PushRead, Exit
    <3>2. f \in Frames /\ f.fn = "squid_wait_asic_reads" /\ f.pc = "loop"
      BY FramesMade DEF Frames, Pcs
    <3> HIDE DEF f
    <3>3. Call(f, "done")
      BY <3>1 DEF Call
    <3>4. PICK g : Pushes(g, f)
      BY <2>1, <3>2, <3>3, MakesIs DEF Makes, Pcs
    <3>5. calls' # <<>> /\ Top' = f
      BY <2>1, <3>4, NextTop
    <3>6. Working'
      BY <2>2, <3>1 DEF Working
    <3>7. Hot(f, vm', Working')
      BY <1>3, <3>2, <3>6 DEF Hot, Waits
    <3> QED
      BY <3>5, <3>7, HotNext
  <2> QED
    BY <1>3, <2>3, <2>4
<1>4. ASSUME NEW fn \in Readers, PushWait(fn) \/ PushGarbage(fn) \/ PushRead(fn)
      PROVE  StaysHot \/ ended' # "no"
  <2>1. Top.fn = fn /\ UNCHANGED vm /\ fn \in {"task", "read_reg_asic"}
    BY <1>4 DEF PushWait, PushGarbage, PushRead, AtPurge, In, Readers
  <2>2. CASE fn = "read_reg_asic" /\ ~Hot(Top, vm, Working)
    BY <2>2, NotHot
  <2>3. CASE fn = "read_reg_asic" /\ Hot(Top, vm, Working)
    <3>1. Top.pc = "start" /\ ~vm.assert_serial_failures
      BY <2>1, <2>3 DEF Hot, Waits, Tests, Tested, Restarts
    <3>2. ~PushGarbage("read_reg_asic")
      BY <3>1 DEF PushGarbage, Purges
    <3> QED
      BY <1>3, <1>4, <2>1, <2>3, <3>1, <3>2
  <2> QED
    BY <1>2, <2>1, <2>2, <2>3
<1>5. CASE TaskWait
  BY <1>2, <1>5 DEF TaskWait, In
<1> QED
  BY <1>1, <1>4, <1>5

(* A wait that takes up a slot counts on nothing any more.                 *)
LEMMA SlotHot ==
  ASSUME QInv, CInv, WaitSlot
  PROVE  IsHot'
<1>1. /\ Facts /\ Top.fn = "squid_wait_asic_reads" /\ Top.pc = "loop"
  BY CFacts DEF WaitSlot
<1>2. current_cmd_hw_queue_ptr \in Int
  BY DEF QInv, Pointers
<1>3. ASSUME NEW q \in {"take", "deliver", "tested"}
      PROVE  \E g \in Frames : /\ g.fn = Top.fn /\ g.pc = q
                               /\ [Taken EXCEPT ![Depth].pc = q] = WithTop(calls, g)
  <2>1. q \in Pcs
    BY DEF Pcs
  <2> QED
    BY <1>1, <1>2, <2>1, TakenIs DEF As
<1>4. \/ \E q \in {"take", "deliver"} : calls' = [Taken EXCEPT ![Depth].pc = q]
      \/ calls' = Append([Taken EXCEPT ![Depth].pc = "tested"], Test(vm.in_asic_reset # 0))
  BY DEF WaitSlot
<1>5. calls' # <<>> /\ Hot(Top', vm', Working')
  <2>1. ASSUME NEW q \in {"take", "deliver"}, calls' = [Taken EXCEPT ![Depth].pc = q]
        PROVE  calls' # <<>> /\ Hot(Top', vm', Working')
    <3>1. PICK g \in Frames : g.fn = Top.fn /\ g.pc = q /\ calls' = WithTop(calls, g)
      BY <1>3, <2>1
    <3>2. calls' # <<>> /\ Top' = g
      BY <1>1, <3>1, StaysIs, NextTop
    <3> QED
      BY <1>1, <3>1, <3>2 DEF Hot, Waits
  <2>2. CASE calls' = Append([Taken EXCEPT ![Depth].pc = "tested"], Test(vm.in_asic_reset # 0))
    <3> DEFINE f == Test(vm.in_asic_reset # 0)
    <3>1. f \in Frames /\ Tests(f) /\ f.pc = "start"
      BY TestIs
    <3>2. PICK g \in Frames : [Taken EXCEPT ![Depth].pc = "tested"] = WithTop(calls, g)
      BY <1>3
    <3>3. calls' = Append(WithTop(calls, g), f)
      BY <2>2, <3>2
    <3> HIDE DEF f
    <3>4. calls' # <<>> /\ Top' = f
      BY <1>1, <3>1, <3>3, PushesIs, NextTop
    <3> QED
      BY <3>1, <3>4 DEF Hot
  <2> QED
    BY <1>4, <2>1, <2>2
<1> QED
  BY <1>5 DEF IsHot, Hot, Waits, Tests, Tested, Restarts

(* The wait, but for where it takes up a slot.                             *)
LEMMA WaitMoves ==
  ASSUME QInv, CInv, vm \in VmTypes,
         \/ WaitFlush \/ WaitDone \/ WaitTested \/ WaitTake \/ WaitDeliver \/ WaitError
         \/ ReadDone
  PROVE  (Move /\ StaysHot) \/ ended' # "no"
<1>1. {"loop", "error", "deliver", "take"} \subseteq Pcs
  BY DEF Pcs
<1>2. /\ Restart \in Frames /\ Restarts(Restart) /\ Restart.pc = "start"
      /\ \A v, w : Hot(Restart, v, w)
  BY FramesMade DEF Restarts, Hot
<1>3. ASSUME Top.fn = "squid_wait_asic_reads", NEW g, g.fn = Top.fn, NEW q \in {"loop", "error"},
             g.pc = q
      PROVE  PlaceOK(g) /\ ~Tested(g) /\ ~Serial(g)
  BY <1>3, WaitPlace
<1>4. ASSUME Top.fn = "squid_wait_asic_reads", Top.pc \in {"take", "tested", "deliver"},
             PlaceOK(Top), NEW g, g.fn = Top.fn, g.n = Top.n
      PROVE  PlaceOK(g) /\ ~Tested(g) /\ ~Serial(g)
  <2>1. Top.n \in Slots
    BY <1>4 DEF PlaceOK, Waits
  <2> QED
    BY <1>4, <2>1, WaitPlace
<1>5. CASE WaitFlush
  <2>1. Facts /\ Top.fn = "squid_wait_asic_reads" /\ Top.pc = "start"
    BY <1>5, CFacts DEF WaitFlush
  <2>2. Goes("loop", Top.n, Top.err)
    BY <1>1, <1>5, <2>1, GoesIs DEF WaitFlush
  <2>3. UNCHANGED vm /\ Working' = Working
    BY <1>5 DEF WaitFlush, queueVars, Working
  <2>4. ASSUME NEW g, Hot(Top, vm, Working), g.fn = Top.fn, g.pc = "loop"
        PROVE  Hot(g, vm', Working')
    BY <2>1, <2>3, <2>4 DEF Hot, Waits, Tests, Tested, Restarts
  <2> HIDE DEF PlaceOK, Hot
  <2> QED
    BY <1>3, <2>1, <2>2, <2>4, HotGoes
<1>6. CASE WaitDone
  <2>1. /\ Facts /\ Top.fn = "squid_wait_asic_reads" /\ Top.pc = "loop" /\ ~Working
    BY <1>6, CFacts DEF WaitDone
  <2>2. ended' # "no" \/ Call(Revive, "error") \/ Return("ok")
    BY <1>6 DEF WaitDone, Exit, AfterRevive
  <2>3. ~Hot(Top, vm, Working)
    BY <2>1 DEF Hot, Waits, Tests, Tested, Restarts
  <2>4. CASE Call(Revive, "error")
    <3>1. Revive \in Frames /\ Plain(Revive) /\ Revive.fn # "task" /\ Revive.pc = "start"
      BY FramesMade DEF Plain
    <3> HIDE DEF PlaceOK, Hot
    <3> QED
      BY <1>1, <1>3, <2>1, <2>3, <2>4, <3>1, HotCalls
  <2>5. CASE Return("ok")
    <3> HIDE DEF Hot
    <3> QED
      BY <2>1, <2>3, <2>5, ColdPops
  <2> QED
    BY <2>2, <2>4, <2>5
<1>7. CASE WaitTested
  <2>1. Facts /\ Top.fn = "squid_wait_asic_reads" /\ Top.pc = "tested" /\ PlaceOK(Top)
    BY <1>7, CFacts DEF WaitTested
  <2>2. Call(Restart, "deliver") \/ calls' = At("take")
    BY <1>7 DEF WaitTested
  <2>3. CASE Call(Restart, "deliver")
    <3> HIDE DEF PlaceOK, Hot
    <3> QED
      BY <1>1, <1>2, <1>4, <2>1, <2>3, HotCalls
  <2>4. CASE calls' = At("take")
    <3>1. Goes("take", Top.n, Top.err)
      BY <1>1, <2>1, <2>4, GoesIs
    <3>2. \A g : g.fn = Top.fn /\ g.pc = "take" => Hot(g, vm', Working')
      BY <2>1 DEF Hot, Waits
    <3> HIDE DEF PlaceOK, Hot
    <3> QED
      BY <1>4, <2>1, <3>1, <3>2, HotGoes
  <2> QED
    BY <2>2, <2>3, <2>4
<1>8. CASE WaitTake
  <2>1. Facts /\ Top.fn = "squid_wait_asic_reads" /\ Top.pc = "take" /\ PlaceOK(Top)
    BY <1>8, CFacts DEF WaitTake
  <2>2. \/ Call(Restart, "deliver")
        \/ calls' = At("deliver")
        \/ calls' = [At("deliver") EXCEPT ![Depth].err = TRUE]
        \/ (\E r \in {"own", "stale"} : calls' = [At("deliver") EXCEPT ![Depth].value = r])
    BY <1>8 DEF WaitTake
  <2>3. CASE Call(Restart, "deliver")
    <3> HIDE DEF PlaceOK, Hot
    <3> QED
      BY <1>1, <1>2, <1>4, <2>1, <2>3, HotCalls
  <2>4. ASSUME NEW e, Goes("deliver", Top.n, e)
        PROVE  Move /\ StaysHot
    <3>1. \A g : g.fn = Top.fn /\ g.pc = "deliver" => Hot(g, vm', Working')
      BY <2>1 DEF Hot, Waits
    <3> HIDE DEF PlaceOK, Hot
    <3> QED
      BY <1>4, <2>1, <2>4, <3>1, HotGoes
  <2>5. CASE calls' = At("deliver")
    BY <1>1, <2>1, <2>4, <2>5, GoesIs
  <2>6. CASE calls' = [At("deliver") EXCEPT ![Depth].err = TRUE]
    BY <1>1, <2>1, <2>4, <2>6, GoesIsErr
  <2>7. CASE \E r \in {"own", "stale"} : calls' = [At("deliver") EXCEPT ![Depth].value = r]
    <3>1. PICK r \in Results : calls' = [At("deliver") EXCEPT ![Depth].value = r]
      BY <2>7 DEF Results
    <3>2. Goes("deliver", Top.n, Top.err)
      BY <1>1, <2>1, <3>1, GoesIsValue DEF Goes
    <3> QED
      BY <2>4, <3>2
  <2> QED
    BY <2>2, <2>3, <2>5, <2>6, <2>7
<1>9. CASE WaitDeliver
  <2>1. Facts /\ Top.fn = "squid_wait_asic_reads" /\ Top.pc = "deliver" /\ PlaceOK(Top)
    BY <1>9, CFacts DEF WaitDeliver
  <2>2. PICK g : \/ As(g, "error", Top.n, Top.err) /\ Pushes(g, Restart)
                 \/ As(g, "loop", Top.n, Top.err) /\ Stays(g)
    BY <1>9, <2>1, DeliverIs
  <2>3. g.fn = Top.fn /\ PlaceOK(g) /\ ~Tested(g) /\ ~Serial(g)
    BY <1>3, <2>1, <2>2 DEF As
  <2>4. PlaceOK(Restart) /\ CalledBy(g, Restart)
    BY <1>2, <2>3 DEF PlaceOK, CalledBy, Waits, Tests, Restarts
  <2>5. Move
    <3> HIDE DEF PlaceOK
    <3> QED
      BY <2>2, <2>3, <2>4 DEF Move
  <2>6. AtLimit(vm) => ~AtLimit(vm')
    <3>1. vm.spi_timeout_count >= MAX_TIMEOUTS => vm' = [vm EXCEPT !.spi_timeout_count = 0]
      BY <1>9 DEF WaitDeliver
    <3>2. MAX_TIMEOUTS \in Nat \ {0}
      BY FpgaAssumption
    <3> QED
      BY <3>1, <3>2 DEF AtLimit, VmTypes
  <2> QED
    BY <2>5, <2>6 DEF StaysHot
<1>10. CASE WaitError
  <2>1. Facts /\ Top.fn = "squid_wait_asic_reads" /\ Top.pc = "error" /\ Return("error")
    BY <1>10, CFacts DEF WaitError
  <2>2. ~Hot(Top, vm, Working)
    BY <2>1 DEF Hot, Waits, Tests, Tested, Restarts
  <2> HIDE DEF Hot
  <2> QED
    BY <2>1, <2>2, ColdPops
<1>11. CASE ReadDone
  <2>1. Facts /\ Top.fn = "read_reg_asic" /\ Top.pc = "done" /\ Return(Top.value)
    BY <1>11, CFacts DEF ReadDone
  <2>2. ~Hot(Top, vm, Working)
    BY <2>1 DEF Hot, Waits, Tests, Tested, Restarts
  <2> HIDE DEF Hot
  <2> QED
    BY <2>1, <2>2, ColdPops
<1> QED
  BY <1>5, <1>6, <1>7, <1>8, <1>9, <1>10, <1>11
-----------------------------------------------------------------------------
(* The tests.                                                              *)

(* What a running test can rely on.                                        *)
LEMMA TestFacts ==
  ASSUME QInv, CInv, NEW p, In("test_all_loops", p)
  PROVE  /\ Facts /\ CParts /\ Tests(Top) /\ Top.pc = p /\ Top.n \in Int /\ Top.n >= 1
         /\ p = "tested" => Top.n \in Loops
         /\ \A g : /\ g.fn = Top.fn /\ g.pc # "tested" /\ (g.n = Top.n \/ g.n = Top.n + 1)
                        => PlaceOK(g) /\ ~Tested(g) /\ ~Serial(g)
                   /\ g.fn = Top.fn /\ g.pc = "loop" => \A v, w : Hot(g, v, w)
<1>1. Facts /\ CParts /\ Top.fn = "test_all_loops" /\ Top.pc = p /\ PlaceOK(Top) /\ Top.n \in Int
  BY CFacts
<1>2. Tests(Top) /\ Top.n >= 1 /\ (p = "tested" => Top.n <= LOOP_COUNT)
  BY <1>1 DEF PlaceOK, Tests
<1>3. p = "tested" => Top.n \in Loops
  BY <1>1, <1>2, FpgaAssumption DEF Loops
<1>4. ASSUME NEW g, g.fn = Top.fn, g.pc # "tested", g.n = Top.n \/ g.n = Top.n + 1
      PROVE  PlaceOK(g) /\ ~Tested(g) /\ ~Serial(g)
  BY <1>1, <1>2, <1>4 DEF PlaceOK, Tests, Tested, Serial, Waits, Restarts
<1>5. ASSUME NEW g, g.fn = Top.fn, g.pc = "loop"
      PROVE  \A v, w : Hot(g, v, w)
  BY <1>1, <1>5 DEF Hot, Tests
<1> HIDE DEF PlaceOK, Hot
<1> QED
  BY <1>1, <1>2, <1>3, <1>4, <1>5

(* A test of all loops.                                                    *)
LEMMA TestMoves ==
  ASSUME QInv, CInv, TestStart \/ TestLoop \/ TestEnd \/ TestDisable
  PROVE  Move /\ StaysHot
<1>1. {"loop", "tested"} \subseteq Pcs
  BY DEF Pcs
<1>2. CASE TestStart
  <2>1. In("test_all_loops", "start")
    BY <1>2 DEF TestStart
  <2>2. PICK b \in BOOLEAN : calls' = [At("loop") EXCEPT ![Depth].err = b]
    BY <1>2 DEF TestStart
  <2>3. Facts
    BY <2>1, TestFacts
  <2>4. Goes("loop", Top.n, b)
    BY <1>1, <2>2, <2>3, GoesIsErr
  <2> HIDE DEF PlaceOK, Hot
  <2> QED
    BY <2>1, <2>3, <2>4, TestFacts, HotGoes
<1>3. CASE TestLoop
  <2>1. In("test_all_loops", "loop") /\ Top.n <= LOOP_COUNT
    BY <1>3 DEF TestLoop
  <2>2. Facts /\ Tests(Top) /\ Top.n \in Int /\ Top.n >= 1
    BY <2>1, TestFacts
  <2>3. CASE Call(TestSerial, "tested")
    <3>1. Makes(TestSerial, "tested", Top.n, Top.err)
      BY <1>1, <2>2, <2>3, MakesIs, FramesMade
    <3>2. /\ PlaceOK(TestSerial) /\ ~Tests(TestSerial) /\ TestSerial.fn = "test_serial"
          /\ \A v, w : Hot(TestSerial, v, w)
      BY FramesMade DEF PlaceOK, Hot, Waits, Tests, Restarts
    <3>3. ASSUME NEW g, g.fn = Top.fn, g.pc = "tested", g.n = Top.n
          PROVE  PlaceOK(g) /\ CalledBy(g, TestSerial)
      BY <2>1, <2>2, <3>2, <3>3 DEF PlaceOK, CalledBy, Waits, Tests, Tested, Serial, Restarts
    <3> HIDE DEF PlaceOK, Hot
    <3> QED
      BY <2>2, <3>1, <3>2, <3>3, HotMakes
  <2>4. CASE calls' = GoOn("loop")
    <3>1. Goes("loop", Top.n + 1, Top.err)
      BY <1>1, <2>2, <2>4, GoesIs
    <3> HIDE DEF PlaceOK, Hot
    <3> QED
      BY <2>1, <2>2, <3>1, TestFacts, HotGoes
  <2> QED
    BY <1>3, <2>3, <2>4 DEF TestLoop, NextLoop
<1>4. CASE TestEnd
  <2>1. /\ In("test_all_loops", "loop") /\ Return(IF Top.err THEN "problem" ELSE "fine")
    BY <1>4 DEF TestEnd
  <2>2. Facts /\ CParts /\ Tests(Top) /\ Top = calls[Depth]
    BY <2>1, TestFacts DEF Top
  <2>3. ASSUME NEW g, NEW h, CalledBy(h, Top), Like(g, h)
        PROVE  Hot(g, vm', Working')
    BY <2>2, <2>3 DEF CalledBy, Hot, Like, Waits, Restarts
  <2>4. Top.fn # "task"
    BY <2>2 DEF Tests
  <2>5. PICK v : Return(v)
    BY <2>1
  <2> HIDE DEF Hot
  <2> QED
    BY <2>2, <2>3, <2>4, <2>5, HotPops
<1>5. CASE TestDisable
  <2>1. In("test_all_loops", "disable") /\ Call(Restart, "loop")
    BY <1>5 DEF TestDisable
  <2>2. Facts
    BY <2>1, TestFacts
  <2>3. /\ Restart \in Frames /\ Restarts(Restart) /\ Restart.pc = "start"
        /\ \A v, w : Hot(Restart, v, w)
    BY FramesMade DEF Restarts, Hot
  <2> HIDE DEF PlaceOK, Hot
  <2> QED
    BY <1>1, <2>1, <2>2, <2>3, TestFacts, HotCalls
<1> QED
  BY <1>2, <1>3, <1>4, <1>5

(* It has the result of the test of a loop.                                *)
LEMMA ResultMoves ==
  ASSUME QInv, CInv, TestLoopTested
  PROVE  (Move /\ StaysHot) \/ ended' # "no"
<1>1. In("test_all_loops", "tested")
  BY DEF TestLoopTested
<1>2. Facts /\ Tests(Top) /\ Top.pc = "tested" /\ Top.n \in Int
  BY <1>1, TestFacts
<1>3. \/ ended' # "no"
      \/ Top.val = "bad" /\ GivesUp /\ \E c : vm' = [vm EXCEPT !.bad_loop_count[Top.n] = c]
      \/ calls' = NextLoop
      \/ calls' = [NextLoop EXCEPT ![Depth].err = TRUE]
  BY DEF TestLoopTested, GivesUp, Exit
<1>4. CASE Top.val = "bad" /\ GivesUp /\ \E c : vm' = [vm EXCEPT !.bad_loop_count[Top.n] = c]
  <2>1. Makes(TestLostAddress, "disable", Top.n + 1, TRUE)
    BY <1>2, <1>4, MakesUp
  <2>2. /\ PlaceOK(TestLostAddress) /\ TestLostAddress.fn = "test_lost_address"
        /\ TestLostAddress.pc = "start"
    BY FramesMade DEF PlaceOK, Waits, Tests, Restarts
  <2>3. ASSUME NEW g, g.fn = Top.fn, g.pc = "disable", g.n = Top.n + 1
        PROVE  PlaceOK(g) /\ CalledBy(g, TestLostAddress)
    <3>1. PlaceOK(g) /\ ~Tested(g) /\ ~Serial(g)
      BY <1>1, <2>3, TestFacts
    <3> QED
      BY <2>2, <3>1 DEF CalledBy, Tests
  <2>4. ASSUME Hot(Top, vm, Working)
        PROVE  Hot(TestLostAddress, vm', Working')
    <3>1. ~vm.assert_serial_failures
      BY <1>2, <1>4, <2>4 DEF Hot, Waits, Tests, Tested, Restarts
    <3>2. ~vm'.assert_serial_failures
      BY <1>4, <3>1
    <3> QED
      BY <2>2, <3>2 DEF Hot
  <2> HIDE DEF PlaceOK, Hot
  <2> QED
    BY <1>2, <2>1, <2>2, <2>3, <2>4, HotMakes
<1>5. CASE calls' = NextLoop \/ calls' = [NextLoop EXCEPT ![Depth].err = TRUE]
  <2>1. PICK e : Goes("loop", Top.n + 1, e)
    BY <1>2, <1>5, GoesIs, GoesIsErr DEF NextLoop, Pcs
  <2> HIDE DEF PlaceOK, Hot
  <2> QED
    BY <1>1, <1>2, <2>1, TestFacts, HotGoes
<1> QED
  BY <1>3, <1>4, <1>5

(* The test of a loop.                                                     *)
LEMMA SerialMoves ==
  ASSUME QInv, CInv, vm \in VmTypes, TestSerialDrain \/ TestSerialVersion
  PROVE  Move /\ StaysHot
<1>1. CASE TestSerialDrain
  <2>1. /\ In("test_serial", "start") /\ vm' = [vm EXCEPT !.assert_serial_failures = FALSE]
        /\ Return("bad") \/ Call(Read(ADDR_VERSION), "version")
    BY <1>1 DEF TestSerialDrain
  <2>2. Facts /\ CParts /\ Top.fn = "test_serial" /\ Top.pc = "start" /\ Top = calls[Depth]
    BY <2>1, CFacts DEF Top
  <2>3. ~vm'.assert_serial_failures
    BY <2>1 DEF VmTypes
  <2>4. CASE Return("bad")
    <3>1. ASSUME NEW g, NEW h, CalledBy(h, Top), Like(g, h), g.val = "bad"
          PROVE  Hot(g, vm', Working')
      BY <2>2, <2>3, <3>1 DEF CalledBy, Hot, Like, Tested, Tests, Restarts
    <3> HIDE DEF Hot
    <3> QED
      BY <2>2, <2>4, <3>1, HotPops
  <2>5. CASE Call(Read(ADDR_VERSION), "version")
    <3> DEFINE f == Read(ADDR_VERSION)
    <3>1. /\ f \in Frames /\ f.fn = "read_reg_asic" /\ f.pc = "start" /\ Plain(f)
          /\ "version" \in Pcs
      BY RegsAreInts, FramesMade DEF Plain, Pcs
    <3>2. Call(f, "version")
      BY <2>5
    <3> HIDE DEF f
    <3>3. Hot(f, vm', Working')
      BY <2>3, <3>1 DEF Hot
    <3>4. ASSUME NEW g, g.fn = Top.fn
          PROVE  PlaceOK(g) /\ ~Tested(g) /\ ~Serial(g)
      BY <2>2, <3>4 DEF PlaceOK, Tested, Serial, Waits, Tests, Restarts
    <3> HIDE DEF PlaceOK, Hot
    <3> QED
      BY <2>2, <3>1, <3>2, <3>3, <3>4, HotCalls
  <2> QED
    BY <2>1, <2>4, <2>5
<1>2. CASE TestSerialVersion
  <2>1. Facts /\ Top.fn = "test_serial" /\ Top.pc = "version"
    BY <1>2, CFacts DEF TestSerialVersion
  <2>2. PICK v : Return(v)
    BY <1>2 DEF TestSerialVersion
  <2>3. ~Hot(Top, vm, Working)
    BY <2>1 DEF Hot, Waits, Tests, Tested, Restarts
  <2> HIDE DEF Hot
  <2> QED
    BY <2>1, <2>2, <2>3, ColdPops
<1> QED
  BY <1>1, <1>2

(* The search for an ASIC that lost its address.                           *)
LEMMA LostMoves ==
  ASSUME QInv, CInv,
         \/ GotAddr("test_lost_address") \/ GotAddr("revive_asics")
         \/ ReviveGot \/ ReviveLost \/ ReviveEnd \/ LostGot \/ LostLoop \/ LostVersion
  PROVE  Move /\ StaysHot
<1>1. Facts /\ (Top.fn = "test_lost_address" \/ Top.fn = "revive_asics")
  BY CFacts DEF GotAddr, ReviveGot, ReviveLost, ReviveEnd, LostGot, LostLoop, LostVersion
<1>2. UNCHANGED vm
  BY DEF GotAddr, ReviveGot, ReviveLost, ReviveEnd, LostGot, LostLoop, LostVersion, fpgaVars
<1>3. ASSUME NEW g, g.fn = Top.fn
      PROVE  PlaceOK(g) /\ ~Tested(g) /\ ~Serial(g)
  BY <1>1, <1>3 DEF PlaceOK, Tested, Serial, Waits, Tests, Restarts
<1>4. /\ ADDR_VERSION \in Int /\ ADDR_INTR_BC_GOT_ADDR_NOT \in Int
      /\ {"got", "lost", "end", "loop", "version"} \subseteq Pcs
  BY RegsAreInts DEF Pcs
<1>5. Hot(Top, vm, Working) => Top.pc = "start" /\ ~vm.assert_serial_failures
  BY <1>1 DEF Hot, Waits, Tests, Tested, Restarts
<1>6. CASE GotAddr("test_lost_address") \/ GotAddr("revive_asics")
  <2> DEFINE f == Read(ADDR_INTR_BC_GOT_ADDR_NOT)
  <2>1. f \in Frames /\ f.fn = "read_reg_asic" /\ f.pc = "start" /\ Plain(f)
    BY <1>4, FramesMade DEF Plain
  <2>2. Call(f, "got")
    BY <1>6 DEF GotAddr
  <2> HIDE DEF f
  <2>3. Hot(Top, vm, Working) => Hot(f, vm', Working')
    <3>1. CASE ~vm.assert_serial_failures
      BY <1>2, <2>1, <3>1 DEF Hot
    <3> HIDE DEF Hot
    <3> QED
      BY <1>5, <3>1
  <2> HIDE DEF PlaceOK, Hot
  <2> QED
    BY <1>1, <1>3, <1>4, <2>1, <2>2, <2>3, HotCalls
<1>7. CASE ReviveGot \/ ReviveLost \/ ReviveEnd \/ LostGot \/ LostLoop \/ LostVersion
  <2>1. ~Hot(Top, vm, Working)
    <3>1. Top.pc # "start"
      BY <1>7 DEF ReviveGot, ReviveLost, ReviveEnd, LostGot, LostLoop, LostVersion, In
    <3> HIDE DEF Hot
    <3> QED
      BY <1>5, <3>1
  <2>2. \/ Call(Read(ADDR_VERSION), "version")
        \/ Call(TestLostAddress, "lost") \/ Call(Restart, "end")
        \/ \E v : Return(v)
        \/ calls' = At("loop") \/ calls' = GoOn("loop")
        \/ \E b \in BOOLEAN : calls' = [GoOn("loop") EXCEPT ![Depth].err = b]
    <3>1. CASE ReviveGot \/ ReviveLost \/ ReviveEnd
      BY <3>1 DEF ReviveGot, ReviveLost, ReviveEnd
    <3>2. CASE LostGot \/ LostLoop
      BY <3>2 DEF LostGot, LostLoop, NextLoop
    <3>3. CASE LostVersion
      BY <3>3 DEF LostVersion, NextLoop
    <3> QED
      BY <1>7, <3>1, <3>2, <3>3
  <2>3. CASE Call(Read(ADDR_VERSION), "version")
    <3> DEFINE f == Read(ADDR_VERSION)
    <3>1. f \in Frames /\ f.fn = "read_reg_asic" /\ f.pc = "start" /\ Plain(f)
      BY <1>4, FramesMade DEF Plain
    <3>2. Call(f, "version")
      BY <2>3
    <3> HIDE DEF f, PlaceOK, Hot
    <3> QED
      BY <1>1, <1>3, <1>4, <2>1, <3>1, <3>2, HotCalls
  <2>4. CASE Call(TestLostAddress, "lost")
    <3>1. /\ TestLostAddress \in Frames /\ Plain(TestLostAddress)
          /\ TestLostAddress.fn # "task" /\ TestLostAddress.pc = "start"
      BY FramesMade DEF Plain
    <3> HIDE DEF PlaceOK, Hot
    <3> QED
      BY <1>1, <1>3, <1>4, <2>1, <2>4, <3>1, HotCalls
  <2>5. CASE Call(Restart, "end")
    <3>1. Restart \in Frames /\ Restarts(Restart) /\ Restart.pc = "start"
      BY FramesMade DEF Restarts
    <3> HIDE DEF PlaceOK, Hot
    <3> QED
      BY <1>1, <1>3, <1>4, <2>1, <2>5, <3>1, HotCalls
  <2>6. CASE \E v : Return(v)
    <3> HIDE DEF Hot
    <3> QED
      BY <1>1, <2>1, <2>6, ColdPops
  <2>7. CASE \/ calls' = At("loop") \/ calls' = GoOn("loop")
             \/ \E b \in BOOLEAN : calls' = [GoOn("loop") EXCEPT ![Depth].err = b]
    <3>1. PICK n, e : Goes("loop", n, e)
      BY <1>1, <1>4, <2>7, GoesIs, GoesIsErr
    <3> HIDE DEF PlaceOK, Hot
    <3> QED
      BY <1>1, <1>3, <2>1, <3>1, HotGoes
  <2> QED
    BY <2>2, <2>3, <2>4, <2>5, <2>6, <2>7
<1> QED
  BY <1>6, <1>7
-----------------------------------------------------------------------------
(* A reset.                                                                *)

(* What it can rely on.                                                    *)
LEMMA ResetFacts ==
  ASSUME QInv, CInv, NEW p, In("restart_asics_full", p)
  PROVE  /\ Facts /\ CParts /\ Restarts(Top) /\ Top.pc = p /\ Top.n \in Int
         /\ p \in {"discover", "discovered", "loop", "asks", "given"} => Top.n >= 1
         /\ p \in {"discovered", "asks", "given"} => Top.n \in Loops
         /\ Hot(Top, vm, Working) =>
              \/ p \in {"start", "tested", "reset", "discover", "discovered"}
              \/ /\ p \in {"good_loops", "serial"} /\ Top.val = "bad"
                 /\ ~vm.assert_serial_failures
<1>1. /\ Facts /\ CParts /\ Top.fn = "restart_asics_full" /\ Top.pc = p /\ PlaceOK(Top)
      /\ Top.n \in Int
  BY CFacts
<1>2. /\ Restarts(Top)
      /\ p \in {"discover", "discovered", "loop", "asks", "given"} => Top.n >= 1
      /\ p \in {"discovered", "asks", "given"} => Top.n <= LOOP_COUNT
  BY <1>1 DEF PlaceOK, Restarts
<1>3. p \in {"discovered", "asks", "given"} => Top.n \in Loops
  BY <1>1, <1>2, FpgaAssumption DEF Loops
<1>4. Hot(Top, vm, Working) =>
        \/ p \in {"start", "tested", "reset", "discover", "discovered"}
        \/ p \in {"good_loops", "serial"} /\ Top.val = "bad" /\ ~vm.assert_serial_failures
  BY <1>1 DEF Hot, Waits, Tests, Tested, Restarts
<1> HIDE DEF PlaceOK, Hot
<1> QED
  BY <1>1, <1>2, <1>3, <1>4

(* Where it may go on.                                                     *)
LEMMA ResetPlace ==
  ASSUME NEW g, g.fn = "restart_asics_full",
         g.pc \in {"discover", "loop"} => g.n >= 1,
         g.pc \in {"discovered", "asks", "given"} => g.n \in Loops
  PROVE  PlaceOK(g) /\ ~Tested(g) /\ (g.pc # "serial" => ~Serial(g))
<1>1. g.pc \in {"discovered", "asks", "given"} => g.n >= 1 /\ g.n <= LOOP_COUNT
  BY FpgaAssumption DEF Loops
<1> QED
  BY <1>1 DEF PlaceOK, Waits, Tests, Tested, Restarts, Serial

(* It goes on, ...                                                         *)
LEMMA ResetOn ==
  ASSUME QInv, CInv, NEW p, In("restart_asics_full", p), NEW q \in Pcs, NEW n, NEW e,
         Goes(q, n, e), q \in {"discover", "loop"} => n >= 1,
         q \notin {"discovered", "asks", "given"},
         Hot(Top, vm, Working) => q \in {"reset", "discover"}
  PROVE  Move /\ StaysHot
<1>1. Facts /\ Top.fn = "restart_asics_full"
  BY CFacts
<1>2. ASSUME NEW g, g.fn = Top.fn, g.pc = q, g.n = n
      PROVE  PlaceOK(g)
  BY <1>1, <1>2, ResetPlace
<1>3. ASSUME NEW g, g.fn = Top.fn, g.pc = q, q \in {"reset", "discover"}
      PROVE  \A v, w : Hot(g, v, w)
  BY <1>1, <1>3 DEF Hot, Restarts
<1> HIDE DEF PlaceOK, Hot
<1> QED
  BY <1>1, <1>2, <1>3, HotGoes

(* ... tests all loops, ...                                                *)
LEMMA ResetTests ==
  ASSUME QInv, CInv, NEW p, In("restart_asics_full", p), NEW q \in {"tested", "reset"},
         Call(Test(FALSE), q)
  PROVE  Move /\ StaysHot
<1>1. Facts /\ Top.fn = "restart_asics_full" /\ q \in Pcs
  BY CFacts DEF Pcs
<1>2. PICK f : /\ Tests(f) /\ f.pc = "start" /\ f.n = 1
               /\ Makes(f, q, Top.n, Top.err)
  BY <1>1, MakesTest
<1>3. PlaceOK(f) /\ \A v, w : Hot(f, v, w)
  BY <1>2 DEF PlaceOK, Hot, Waits, Tests, Restarts
<1>4. ASSUME NEW g, g.fn = Top.fn, g.pc = q
      PROVE  PlaceOK(g) /\ CalledBy(g, f)
  <2>1. PlaceOK(g) /\ ~Tested(g) /\ ~Serial(g)
    BY <1>1, <1>4, ResetPlace
  <2> QED
    BY <1>1, <1>2, <1>4, <2>1 DEF CalledBy, Tests, Restarts
<1> HIDE DEF PlaceOK, Hot
<1> QED
  BY <1>1, <1>2, <1>3, <1>4, HotMakes

(* ... tests one, ...                                                      *)
LEMMA ResetTest ==
  ASSUME QInv, CInv, NEW p, In("restart_asics_full", p),
         NEW q \in {"discovered", "good_loops", "serial"}, Call(TestSerial, q),
         q = "discovered" => Top.n \in Loops
  PROVE  Move /\ StaysHot
<1>1. Facts /\ Top.fn = "restart_asics_full" /\ q \in Pcs
  BY CFacts DEF Pcs
<1>2. /\ TestSerial.fn = "test_serial" /\ TestSerial.pc = "start"
      /\ Makes(TestSerial, q, Top.n, Top.err)
  BY <1>1, FramesMade, MakesIs
<1>3. PlaceOK(TestSerial) /\ \A v, w : Hot(TestSerial, v, w)
  BY <1>2 DEF PlaceOK, Hot, Waits, Tests, Restarts
<1>4. ASSUME NEW g, g.fn = Top.fn, g.pc = q, g.n = Top.n
      PROVE  PlaceOK(g) /\ CalledBy(g, TestSerial)
  <2>1. PlaceOK(g) /\ ~Tested(g)
    BY <1>1, <1>4, ResetPlace
  <2> QED
    BY <1>1, <1>2, <1>4, <2>1 DEF CalledBy, Tests, Restarts
<1> HIDE DEF PlaceOK, Hot
<1> QED
  BY <1>1, <1>2, <1>3, <1>4, HotMakes

(* ... or reads a register.                                                *)
LEMMA ResetReads ==
  ASSUME QInv, CInv, NEW p, In("restart_asics_full", p), NEW r \in Int, NEW q \in Pcs,
         Call(Read(r), q), q \notin {"discover", "loop", "discovered", "serial"},
         q \in {"asks", "given"} => Top.n \in Loops,
         Hot(Top, vm, Working) => ~vm'.assert_serial_failures
  PROVE  Move /\ StaysHot
<1> DEFINE f == Read(r)
<1>1. Facts /\ Top.fn = "restart_asics_full"
  BY CFacts
<1>2. f \in Frames /\ f.fn = "read_reg_asic" /\ f.pc = "start" /\ Plain(f)
  BY FramesMade DEF Plain
<1>3. Call(f, q)
  OBVIOUS
<1> HIDE DEF f
<1>4. Hot(Top, vm, Working) => Hot(f, vm', Working')
  <2>1. CASE ~vm'.assert_serial_failures
    BY <1>2, <2>1 DEF Hot
  <2> HIDE DEF Hot
  <2> QED
    BY <2>1
<1>5. ASSUME NEW g, g.fn = Top.fn, g.pc = q, g.n = Top.n
      PROVE  PlaceOK(g) /\ ~Tested(g) /\ ~Serial(g)
  BY <1>1, <1>5, ResetPlace
<1> HIDE DEF PlaceOK, Hot
<1> QED
  BY <1>1, <1>2, <1>3, <1>4, <1>5, HotCalls

(* All of its steps.                                                       *)
LEMMA RestartMoves ==
  ASSUME QInv, CInv, vm \in VmTypes, RestartStep
  PROVE  (Move /\ StaysHot) \/ ended' # "no"
<1> DEFINE r == ADDR_INTR_BC_GOT_ADDR_NOT
<1>1. r \in Int /\ ADDR_INTR_BC_CONDUCTOR_BUSY \in Int
  BY RegsAreInts
<1>2. \A q : q \in {"start", "tested", "reset", "discover", "discovered", "good_loops", "none",
                    "loop", "asks", "given", "all", "serial", "conductor", "busy"} => q \in Pcs
  BY DEF Pcs
<1> HIDE DEF r, Hot, PlaceOK
<1>3. CASE RestartStart
  <2>1. In("restart_asics_full", "start")
    BY <1>3 DEF RestartStart
  <2>2. ended' # "no" \/ Call(Test(FALSE), "tested")
    BY <1>3 DEF RestartStart, Exit
  <2> QED
    BY <2>1, <2>2, ResetTests
<1>4. CASE RestartTested
  <2>1. In("restart_asics_full", "tested") /\ Facts
    BY <1>4, ResetFacts DEF RestartTested
  <2>2. Call(Test(FALSE), "reset") \/ calls' = At("reset")
    BY <1>4 DEF RestartTested
  <2>3. CASE calls' = At("reset")
    <3>1. Goes("reset", Top.n, Top.err)
      BY <1>2, <2>1, <2>3, GoesIs
    <3> QED
      BY <1>2, <2>1, <3>1, ResetOn
  <2> QED
    BY <2>1, <2>2, <2>3, ResetTests
<1>5. CASE RestartReset
  <2>1. /\ In("restart_asics_full", "reset") /\ Facts
        /\ calls' = [At("discover") EXCEPT ![Depth].n = 1]
    BY <1>5, ResetFacts DEF RestartReset
  <2>2. Goes("discover", 1, Top.err)
    BY <1>2, <2>1, GoesIsN
  <2> QED
    BY <1>2, <2>1, <2>2, ResetOn
<1>6. CASE RestartDiscover
  <2>1. In("restart_asics_full", "discover") /\ Top.n \in Int /\ Top.n >= 1
    BY <1>6, ResetFacts DEF RestartDiscover
  <2>2. \/ Top.n <= LOOP_COUNT /\ Call(TestSerial, "discovered")
        \/ Call(TestSerial, "good_loops")
    BY <1>6 DEF RestartDiscover
  <2>3. Top.n <= LOOP_COUNT => Top.n \in Loops
    BY <2>1, FpgaAssumption DEF Loops
  <2> QED
    BY <2>1, <2>2, <2>3, ResetTest
<1>7. CASE RestartDiscovered
  <2>1. In("restart_asics_full", "discovered") /\ Facts /\ Top.n \in Int /\ Top.n >= 1
    BY <1>7, ResetFacts DEF RestartDiscovered
  <2>2. calls' = GoOn("discover") \/ calls' = At("reset")
    BY <1>7 DEF RestartDiscovered
  <2>3. Goes("discover", Top.n + 1, Top.err) \/ Goes("reset", Top.n, Top.err)
    BY <1>2, <2>1, <2>2, GoesIs
  <2>4. Top.n + 1 >= 1
    BY <2>1
  <2> QED
    BY <1>2, <2>1, <2>3, <2>4, ResetOn
<1>8. CASE RestartGoodLoops
  <2>1. In("restart_asics_full", "good_loops") /\ UNCHANGED vm
    BY <1>8 DEF RestartGoodLoops
  <2>2. ended' # "no" \/ Call(Read(r), "none")
    BY <1>8 DEF RestartGoodLoops, Exit, r
  <2>3. Hot(Top, vm, Working) => ~vm'.assert_serial_failures
    BY <2>1, ResetFacts
  <2> QED
    BY <1>1, <1>2, <2>1, <2>2, <2>3, ResetReads
<1>9. CASE RestartNone
  <2>1. In("restart_asics_full", "none") /\ Facts /\ ~Hot(Top, vm, Working)
    BY <1>9, ResetFacts DEF RestartNone
  <2>2. ended' # "no" \/ calls' = [At("loop") EXCEPT ![Depth].n = 1]
    BY <1>9 DEF RestartNone, Exit
  <2>3. ended' # "no" \/ Goes("loop", 1, Top.err)
    BY <1>2, <2>1, <2>2, GoesIsN
  <2> QED
    BY <1>2, <2>1, <2>3, ResetOn
<1>10. CASE RestartLoop
  <2>1. /\ In("restart_asics_full", "loop") /\ Facts /\ ~Hot(Top, vm, Working)
        /\ Top.n \in Int /\ Top.n >= 1
    BY <1>10, ResetFacts DEF RestartLoop
  <2>2. \/ Call(Read(r), "all")
        \/ Top.n \in vm.enabled /\ Call(Read(r), "asks")
        \/ calls' = GoOn("loop")
    BY <1>10 DEF RestartLoop, NextLoop, r
  <2>3. vm.enabled \subseteq Loops
    BY DEF VmTypes
  <2>4. CASE calls' = GoOn("loop")
    <3>1. Goes("loop", Top.n + 1, Top.err) /\ Top.n + 1 >= 1
      BY <1>2, <2>1, <2>4, GoesIs
    <3> QED
      BY <1>2, <2>1, <3>1, ResetOn
  <2> QED
    BY <1>1, <1>2, <2>1, <2>2, <2>3, <2>4, ResetReads
<1>11. CASE RestartAsks
  <2>1. In("restart_asics_full", "asks") /\ ~Hot(Top, vm, Working) /\ Top.n \in Loops
    BY <1>11, ResetFacts DEF RestartAsks
  <2>2. Call(Read(r), "given")
    BY <1>11 DEF RestartAsks, r
  <2> QED
    BY <1>1, <1>2, <2>1, <2>2, ResetReads
<1>12. CASE RestartGiven
  <2>1. /\ In("restart_asics_full", "given") /\ Facts /\ ~Hot(Top, vm, Working)
        /\ Top.n \in Int /\ Top.n >= 1
    BY <1>12, ResetFacts DEF RestartGiven
  <2>2. ended' # "no" \/ calls' = GoOn("loop")
    BY <1>12 DEF RestartGiven, NextLoop, Exit
  <2>3. ended' # "no" \/ (Goes("loop", Top.n + 1, Top.err) /\ Top.n + 1 >= 1)
    BY <1>2, <2>1, <2>2, GoesIs
  <2> QED
    BY <1>2, <2>1, <2>3, ResetOn
<1>13. CASE RestartAll
  <2>1. In("restart_asics_full", "all")
    BY <1>13 DEF RestartAll
  <2>2. ended' # "no" \/ Call(TestSerial, "serial")
    BY <1>13 DEF RestartAll, Exit
  <2> QED
    BY <2>1, <2>2, ResetTest
<1>14. CASE RestartSerial
  <2>1. /\ In("restart_asics_full", "serial") /\ Facts
        /\ Hot(Top, vm, Working) => Top.val = "bad"
    BY <1>14, ResetFacts DEF RestartSerial
  <2>2. \/ ended' # "no"
        \/ Top.val # "bad" /\ calls' = [At("conductor") EXCEPT ![Depth].n = 1]
    BY <1>14 DEF RestartSerial, Exit
  <2>3. ended' # "no" \/ (Goes("conductor", 1, Top.err) /\ ~Hot(Top, vm, Working))
    BY <1>2, <2>1, <2>2, GoesIsN
  <2> QED
    BY <1>2, <2>1, <2>3, ResetOn
<1>15. CASE RestartConductor
  <2>1. In("restart_asics_full", "conductor") /\ ~Hot(Top, vm, Working)
    BY <1>15, ResetFacts DEF RestartConductor
  <2>2. Call(Read(ADDR_INTR_BC_CONDUCTOR_BUSY), "busy")
    BY <1>15 DEF RestartConductor
  <2> QED
    BY <1>1, <1>2, <2>1, <2>2, ResetReads
<1>16. CASE RestartBusy
  <2>1. In("restart_asics_full", "busy") /\ Facts /\ ~Hot(Top, vm, Working)
    BY <1>16, ResetFacts DEF RestartBusy
  <2>2. ended' # "no" \/ calls' = GoOn("conductor")
    BY <1>16 DEF RestartBusy, Exit
  <2>3. ended' # "no" \/ Goes("conductor", Top.n + 1, Top.err)
    BY <1>2, <2>1, <2>2, GoesIs
  <2> QED
    BY <1>2, <2>1, <2>3, ResetOn
<1>17. CASE RestartEnd
  <2>1. /\ In("restart_asics_full", "busy") /\ Facts /\ ~Hot(Top, vm, Working)
        /\ Top.fn # "task"
    BY <1>17, ResetFacts DEF RestartEnd, Restarts
  <2>2. ended' # "no" \/ Return("none")
    BY <1>17 DEF RestartEnd, Exit
  <2> QED
    BY <2>1, <2>2, ColdPops
<1> QED
  BY <1>3, <1>4, <1>5, <1>6, <1>7, <1>8, <1>9, <1>10, <1>11, <1>12, <1>13, <1>14, <1>15, <1>16,
     <1>17 DEF RestartStep
-----------------------------------------------------------------------------
(* What the steps do to vm, the task's answers and the process.            *)

(* A function runs where it takes a step.                                  *)
LEMMA RunsIn ==
  ASSUME QInv, Running
  PROVE  /\ ended = "no"
         /\ Begin \/ calls # <<>>
         /\ calls # <<>> /\ Restarts(Top) /\ Top.pc = "start" => RestartStart
<1> DEFINE runs == /\ ended = "no" /\ calls # <<>>
                   /\ Restarts(Top) /\ Top.pc = "start" => RestartStart
<1>1. CASE Begin
  BY <1>1 DEF Begin
<1>2. CASE TaskWait \/ TaskDone \/ ReadAtOnce
  BY <1>2 DEF TaskWait, TaskDone, ReadAtOnce, In, Restarts
<1>3. CASE \E fn \in Readers : PushWait(fn) \/ PushGarbage(fn) \/ PushRead(fn)
  BY <1>3 DEF PushWait, PushGarbage, PushRead, AtPurge, Readers, In, Restarts
<1>4. CASE WaitStep
  BY <1>4 DEF WaitStep, WaitFlush, WaitDone, WaitSlot, WaitTested, WaitTake, WaitDeliver,
              WaitError, ReadDone, In, Restarts
<1>5. CASE TestSerialDrain \/ TestSerialVersion
  BY <1>5 DEF TestSerialDrain, TestSerialVersion, In, Restarts
<1>6. CASE TestStart \/ TestLoop \/ TestEnd \/ TestLoopTested \/ TestDisable
  BY <1>6 DEF TestStart, TestLoop, TestEnd, TestLoopTested, TestDisable, In, Restarts
<1>7. CASE \/ \E fn \in {"test_lost_address", "revive_asics"} : GotAddr(fn)
           \/ ReviveGot \/ ReviveLost \/ ReviveEnd \/ LostGot \/ LostLoop \/ LostVersion
  BY <1>7 DEF GotAddr, ReviveGot, ReviveLost, ReviveEnd, LostGot, LostLoop, LostVersion, In,
              Restarts
<1>8. CASE RestartStep
  <2>1. CASE RestartStart
    BY <2>1 DEF RestartStart, In
  <2>2. CASE \/ RestartTested \/ RestartReset \/ RestartDiscover \/ RestartDiscovered
             \/ RestartGoodLoops \/ RestartNone \/ RestartLoop
    BY <2>2 DEF RestartTested, RestartReset, RestartDiscover, RestartDiscovered,
                RestartGoodLoops, RestartNone, RestartLoop, In
  <2>3. CASE \/ RestartAsks \/ RestartGiven \/ RestartAll \/ RestartSerial
             \/ RestartConductor \/ RestartBusy \/ RestartEnd
    BY <2>3 DEF RestartAsks, RestartGiven, RestartAll, RestartSerial, RestartConductor,
                RestartBusy, RestartEnd, In
  <2> QED
    BY <1>8, <2>1, <2>2, <2>3 DEF RestartStep
<1> QED
  BY <1>1, <1>2, <1>3, <1>4, <1>5, <1>6, <1>7, <1>8 DEF Running, TaskStep, TestStep

(* The counters only grow where a reply is missing or wrong.               *)
Counts ==
  /\ vm' \in VmTypes
  /\ vm'.spi_timeout_count \in {vm.spi_timeout_count, 0} \/ WaitSlot
  /\ vm'.corruptions_count \in {vm.corruptions_count, 0} \/ WaitTake

(* What the power supply says does not change them.                        *)
LEMMA Ac2dcCounts ==
  ASSUME vm \in VmTypes, NEW found \in BOOLEAN
  PROVE  LET v == Ac2dcErrors(vm, found) IN
         /\ v \in VmTypes /\ v.spi_timeout_count = vm.spi_timeout_count
         /\ v.corruptions_count = vm.corruptions_count
<1>1. 0 \in 0 .. MAX_LOOP_FAIL
  BY FpgaAssumption
<1>2. [l \in Loops |-> 0] \in [Loops -> 0 .. MAX_LOOP_FAIL]
  BY <1>1
<1> QED
  BY <1>2 DEF Ac2dcErrors, VmTypes

(* Where nothing of vm changes.                                            *)
LEMMA VmSame ==
  ASSUME vm \in VmTypes, UNCHANGED vm
  PROVE  Counts
  BY DEF Counts

(* The tasks and waits.                                                    *)
LEMMA TaskCounts ==
  ASSUME QInv, CInv, NInv, TaskStep \/ WaitStep
  PROVE  Counts
<1> USE FpgaAssumption
<1>1. vm \in VmTypes
  BY DEF NInv
<1>2. CASE Begin
  <2>1. \/ UNCHANGED vm
        \/ vm' = [vm EXCEPT !.spi_timeout_count = 0, !.corruptions_count = 0,
                            !.tryed_power_cycle = FALSE]
    BY <1>2 DEF Begin
  <2>2. CASE vm' = [vm EXCEPT !.spi_timeout_count = 0, !.corruptions_count = 0,
                              !.tryed_power_cycle = FALSE]
    <3>1. vm' \in VmTypes
      <4>1. vm' = [assert_serial_failures |-> vm.assert_serial_failures,
                 in_asic_reset |-> vm.in_asic_reset, did_asic_reset |-> vm.did_asic_reset,
                 tryed_power_cycle |-> FALSE, spi_timeout_count |-> 0, corruptions_count |-> 0,
                 bad_loop_count |-> vm.bad_loop_count, enabled |-> vm.enabled,
                 present |-> vm.present, asics |-> vm.asics]
        BY <1>1, <2>2 DEF VmTypes
      <4> QED
        BY <1>1, <4>1 DEF VmTypes
    <3>2. vm'.spi_timeout_count = 0 /\ vm'.corruptions_count = 0
      BY <1>1, <2>2 DEF VmTypes
    <3> QED
      BY <3>1, <3>2 DEF Counts
  <2> QED
    BY <1>1, <2>1, <2>2, VmSame
<1>3. CASE TaskDone
  <2>1. vm' = [vm EXCEPT !.asics = {}, !.did_asic_reset = FALSE]
    BY <1>3 DEF TaskDone
  <2>2. vm' \in VmTypes
    BY <1>1, <2>1 DEF VmTypes
  <2>3. /\ vm'.spi_timeout_count = vm.spi_timeout_count
        /\ vm'.corruptions_count = vm.corruptions_count
    BY <1>1, <2>1 DEF VmTypes
  <2> QED
    BY <2>2, <2>3 DEF Counts
<1>4. CASE WaitSlot
  <2>1. UNCHANGED vm \/ (vm.assert_serial_failures /\ vm' = [vm EXCEPT !.spi_timeout_count = @ + 1])
    BY <1>4 DEF WaitSlot
  <2>2. Facts /\ Top.fn = "squid_wait_asic_reads" /\ Top.pc = "loop" /\ ended = "no"
    BY <1>4, CFacts DEF WaitSlot
  <2>3. vm.assert_serial_failures => vm.spi_timeout_count # MAX_TIMEOUTS
    BY <2>2 DEF NInv, NParts, AtLimit, IsHot, Hot, Waits, Tests, Tested, Restarts
  <2> QED
    BY <1>1, <1>4, <2>1, <2>3, VmSame DEF Counts, VmTypes
<1>5. CASE WaitTested
  BY <1>1, <1>5, Ac2dcCounts DEF WaitTested, Counts
<1>6. CASE WaitTake
  <2>1. UNCHANGED vm \/ vm' = [vm EXCEPT !.corruptions_count = @ + 1]
    BY <1>6 DEF WaitTake
  <2>2. Facts /\ Top.fn = "squid_wait_asic_reads" /\ ended = "no"
    BY <1>6, CFacts DEF WaitTake
  <2>3. vm.corruptions_count \in 0 .. MAX_CORRUPTIONS
    BY <1>1, <2>2 DEF NInv, NParts, Restarts, VmTypes
  <2> QED
    BY <1>1, <1>6, <2>1, <2>3, VmSame DEF Counts, VmTypes
<1>7. CASE WaitDeliver
  <2>1. UNCHANGED vm \/ vm' = [vm EXCEPT !.spi_timeout_count = 0]
    BY <1>7 DEF WaitDeliver
  <2> QED
    BY <1>1, <2>1, VmSame DEF Counts, VmTypes
<1>8. CASE \/ TaskWait \/ ReadAtOnce
           \/ \E fn \in Readers : PushWait(fn) \/ PushGarbage(fn) \/ PushRead(fn)
  BY <1>1, <1>8, VmSame DEF TaskWait, ReadAtOnce, PushWait, PushGarbage, PushRead
<1>9. CASE WaitFlush \/ WaitDone \/ WaitError \/ ReadDone
  BY <1>1, <1>9, VmSame DEF WaitFlush, WaitDone, WaitError, ReadDone
<1> QED
  BY <1>2, <1>3, <1>4, <1>5, <1>6, <1>7, <1>8, <1>9 DEF TaskStep, WaitStep

(* The tests.                                                              *)
LEMMA TestCounts ==
  ASSUME QInv, CInv, NInv, TestStep
  PROVE  Counts
<1>1. vm \in VmTypes
  BY DEF NInv
<1>2. CASE TestSerialDrain \/ TestSerialVersion
  <2>1. \E b \in BOOLEAN : vm' = [vm EXCEPT !.assert_serial_failures = b]
    BY <1>2 DEF TestSerialDrain, TestSerialVersion, NonZero
  <2> QED
    BY <1>1, <2>1 DEF Counts, VmTypes
<1>3. CASE TestLoopTested
  <2> DEFINE l == Top.n
             count == IF vm.bad_loop_count[l] = MAX_LOOP_FAIL THEN MAX_LOOP_FAIL
                      ELSE vm.bad_loop_count[l] + 1
             counted == [vm EXCEPT !.bad_loop_count[l] = count]
  <2>1. \/ UNCHANGED vm \/ vm' = counted \/ vm' = [counted EXCEPT !.present = @ \ {l}]
    BY <1>3 DEF TestLoopTested
  <2>2. l \in Loops
    BY <1>3, TestFacts DEF TestLoopTested
  <2>3. MAX_LOOP_FAIL \in Nat /\ vm.bad_loop_count \in [Loops -> 0 .. MAX_LOOP_FAIL]
    BY <1>1, FpgaAssumption DEF VmTypes
  <2>4. count \in 0 .. MAX_LOOP_FAIL
    BY <2>2, <2>3
  <2> HIDE DEF count
  <2>5. [vm.bad_loop_count EXCEPT ![l] = count] \in [Loops -> 0 .. MAX_LOOP_FAIL]
    BY <2>3, <2>4
  <2>6. /\ counted \in VmTypes /\ counted.spi_timeout_count = vm.spi_timeout_count
        /\ counted.corruptions_count = vm.corruptions_count
    BY <1>1, <2>5 DEF VmTypes
  <2> HIDE DEF counted
  <2>7. LET v == [counted EXCEPT !.present = @ \ {l}] IN
        /\ v \in VmTypes /\ v.spi_timeout_count = vm.spi_timeout_count
        /\ v.corruptions_count = vm.corruptions_count
    BY <2>6 DEF VmTypes
  <2> QED
    BY <1>1, <2>1, <2>6, <2>7, VmSame DEF Counts
<1>4. CASE TestStart \/ TestLoop \/ TestEnd \/ TestDisable
  BY <1>1, <1>4, VmSame DEF TestStart, TestLoop, TestEnd, TestDisable
<1>5. CASE \/ \E fn \in {"test_lost_address", "revive_asics"} : GotAddr(fn)
           \/ ReviveGot \/ ReviveLost \/ ReviveEnd \/ LostGot \/ LostLoop \/ LostVersion
  BY <1>1, <1>5, VmSame DEF GotAddr, ReviveGot, ReviveLost, ReviveEnd, LostGot, LostLoop,
                            LostVersion
<1> QED
  BY <1>2, <1>3, <1>4, <1>5 DEF TestStep

(* The resets.                                                             *)
LEMMA RestartCounts ==
  ASSUME QInv, CInv, NInv, RestartStep
  PROVE  /\ Counts
         /\ RestartStart => ended' # "no" \/ vm'.corruptions_count = 0
<1>1. vm \in VmTypes
  BY DEF NInv
<1>2. 0 \in 0 .. MAX_TIMEOUTS /\ 0 \in 0 .. MAX_CORRUPTIONS + 1
  BY FpgaAssumption
<1>3. CASE RestartStart
  <2>1. \/ UNCHANGED vm /\ ended' # "no"
        \/ vm' = [vm EXCEPT !.in_asic_reset = 1, !.spi_timeout_count = 0,
                            !.corruptions_count = 0, !.asics = vm.present]
    BY <1>3 DEF RestartStart, Exit
  <2>2. CASE UNCHANGED vm /\ ended' # "no"
    BY <1>1, <2>2, VmSame
  <2>3. CASE vm' = [vm EXCEPT !.in_asic_reset = 1, !.spi_timeout_count = 0,
                              !.corruptions_count = 0, !.asics = vm.present]
    <3>1. vm' \in VmTypes
      <4>1. vm' = [assert_serial_failures |-> vm.assert_serial_failures, in_asic_reset |-> 1,
                 did_asic_reset |-> vm.did_asic_reset,
                 tryed_power_cycle |-> vm.tryed_power_cycle, spi_timeout_count |-> 0,
                 corruptions_count |-> 0, bad_loop_count |-> vm.bad_loop_count,
                 enabled |-> vm.enabled, present |-> vm.present, asics |-> vm.present]
        BY <1>1, <2>3 DEF VmTypes
      <4> QED
        BY <1>1, <1>2, <4>1 DEF VmTypes
    <3>2. vm'.spi_timeout_count = 0 /\ vm'.corruptions_count = 0
      BY <1>1, <2>3 DEF VmTypes
    <3> QED
      BY <3>1, <3>2 DEF Counts
  <2> QED
    BY <2>1, <2>2, <2>3
<1>4. CASE RestartTested
  <2>1. Counts
    BY <1>1, <1>4, Ac2dcCounts DEF RestartTested, Counts
  <2>2. ~RestartStart
    BY <1>4 DEF RestartTested, RestartStart, In
  <2> QED
    BY <2>1, <2>2
<1>5. CASE RestartReset
  <2>1. vm' = [vm EXCEPT !.in_asic_reset = 2] /\ ~RestartStart
    BY <1>5 DEF RestartReset, RestartStart, In
  <2> QED
    BY <1>1, <2>1 DEF Counts, VmTypes
<1>6. CASE RestartDiscovered
  <2>1. /\ \/ vm' = [vm EXCEPT !.enabled = @ \cup {Top.n}, !.present = @ \cup {Top.n}]
           \/ vm' = [vm EXCEPT !.enabled = @ \ {Top.n}, !.present = @ \ {Top.n}]
           \/ vm' = [vm EXCEPT !.enabled = @ \ {Top.n}, !.tryed_power_cycle = TRUE]
        /\ ~RestartStart
    BY <1>6 DEF RestartDiscovered, RestartStart, In
  <2>2. Top.n \in Loops
    BY <1>6, ResetFacts DEF RestartDiscovered
  <2>3. vm' \in VmTypes
    <3> DEFINE l == Top.n
    <3>1. ASSUME NEW e, NEW s, vm' = [vm EXCEPT !.enabled = e, !.present = s], e \subseteq Loops,
                 s \subseteq Loops
          PROVE  vm' \in VmTypes
      <4>1. vm' = [assert_serial_failures |-> vm.assert_serial_failures,
                 in_asic_reset |-> vm.in_asic_reset, did_asic_reset |-> vm.did_asic_reset,
                 tryed_power_cycle |-> vm.tryed_power_cycle,
                 spi_timeout_count |-> vm.spi_timeout_count,
                 corruptions_count |-> vm.corruptions_count,
                 bad_loop_count |-> vm.bad_loop_count, enabled |-> e, present |-> s,
                 asics |-> vm.asics]
        BY <1>1, <3>1 DEF VmTypes
      <4> QED
        BY <1>1, <3>1, <4>1 DEF VmTypes
    <3>2. CASE vm' = [vm EXCEPT !.enabled = @ \ {Top.n}, !.tryed_power_cycle = TRUE]
      <4> DEFINE e == vm.enabled \ {Top.n}
      <4>1. vm' = [assert_serial_failures |-> vm.assert_serial_failures,
                 in_asic_reset |-> vm.in_asic_reset, did_asic_reset |-> vm.did_asic_reset,
                 tryed_power_cycle |-> TRUE, spi_timeout_count |-> vm.spi_timeout_count,
                 corruptions_count |-> vm.corruptions_count,
                 bad_loop_count |-> vm.bad_loop_count, enabled |-> e, present |-> vm.present,
                 asics |-> vm.asics]
        BY <1>1, <3>2 DEF VmTypes
      <4> QED
        BY <1>1, <4>1 DEF VmTypes
    <3>3. CASE vm' = [vm EXCEPT !.enabled = @ \cup {l}, !.present = @ \cup {l}]
      <4>1. /\ vm.enabled \cup {l} \subseteq Loops /\ vm.present \cup {l} \subseteq Loops
        BY <1>1, <2>2 DEF VmTypes
      <4> QED
        BY <3>1, <3>3, <4>1
    <3>4. CASE vm' = [vm EXCEPT !.enabled = @ \ {l}, !.present = @ \ {l}]
      <4>1. /\ vm.enabled \ {l} \subseteq Loops /\ vm.present \ {l} \subseteq Loops
        BY <1>1 DEF VmTypes
      <4> QED
        BY <3>1, <3>4, <4>1
    <3> QED
      BY <2>1, <3>2, <3>3, <3>4
  <2>4. /\ vm'.spi_timeout_count = vm.spi_timeout_count
        /\ vm'.corruptions_count = vm.corruptions_count
    BY <1>1, <2>1 DEF VmTypes
  <2> QED
    BY <2>1, <2>3, <2>4 DEF Counts
<1>7. CASE RestartAsks
  <2>1. /\ \E s \in {vm.present \cup {Top.n}, vm.present \ {Top.n}} :
             vm' = [vm EXCEPT !.present = s]
        /\ ~RestartStart
    BY <1>7 DEF RestartAsks, RestartStart, In
  <2>2. Top.n \in Loops
    BY <1>7, ResetFacts DEF RestartAsks
  <2> QED
    BY <1>1, <2>1, <2>2 DEF Counts, VmTypes
<1>8. CASE RestartSerial
  <2>1. /\ UNCHANGED vm \/ vm' = [vm EXCEPT !.present = @ \cap vm.asics]
        /\ ~RestartStart
    BY <1>8 DEF RestartSerial, RestartStart, In
  <2> QED
    BY <1>1, <2>1, VmSame DEF Counts, VmTypes
<1>9. CASE RestartEnd
  <2>1. PICK found \in BOOLEAN :
          vm' = [Ac2dcErrors(vm, found) EXCEPT !.did_asic_reset = TRUE, !.in_asic_reset = 0]
    BY <1>9 DEF RestartEnd
  <2> DEFINE v == Ac2dcErrors(vm, found)
  <2>2. /\ v \in VmTypes /\ v.spi_timeout_count = vm.spi_timeout_count
        /\ v.corruptions_count = vm.corruptions_count
    BY <1>1, Ac2dcCounts
  <2>3. vm' = [v EXCEPT !.did_asic_reset = TRUE, !.in_asic_reset = 0]
    BY <2>1
  <2> HIDE DEF v
  <2>4. ~RestartStart
    BY <1>9 DEF RestartEnd, RestartStart, In
  <2>5. vm' \in VmTypes
    <3>1. vm' = [assert_serial_failures |-> v.assert_serial_failures, in_asic_reset |-> 0,
               did_asic_reset |-> TRUE, tryed_power_cycle |-> v.tryed_power_cycle,
               spi_timeout_count |-> v.spi_timeout_count,
               corruptions_count |-> v.corruptions_count, bad_loop_count |-> v.bad_loop_count,
               enabled |-> v.enabled, present |-> v.present, asics |-> v.asics]
      BY <2>2, <2>3 DEF VmTypes
    <3> QED
      BY <2>2, <3>1 DEF VmTypes
  <2>6. /\ vm'.spi_timeout_count = v.spi_timeout_count
        /\ vm'.corruptions_count = v.corruptions_count
    BY <2>2, <2>3 DEF VmTypes
  <2> QED
    BY <2>2, <2>4, <2>5, <2>6 DEF Counts
<1>10. CASE \/ RestartDiscover \/ RestartGoodLoops \/ RestartNone \/ RestartLoop \/ RestartGiven
            \/ RestartAll \/ RestartConductor \/ RestartBusy
  <2>1. UNCHANGED vm
    BY <1>10 DEF RestartDiscover, RestartGoodLoops, RestartNone, RestartLoop, RestartGiven,
                 RestartAll, RestartConductor, RestartBusy
  <2>2. ~RestartStart
    BY <1>10 DEF RestartDiscover, RestartGoodLoops, RestartNone, RestartLoop, RestartGiven,
                 RestartAll, RestartConductor, RestartBusy, RestartStart, In
  <2> QED
    BY <1>1, <2>1, <2>2, VmSame
<1> QED
  BY <1>3, <1>4, <1>5, <1>6, <1>7, <1>8, <1>9, <1>10 DEF RestartStep

(* A running function goes on, calls or returns, or the process ends.      *)
LEMMA RunMoves ==
  ASSUME QInv, CInv, vm \in VmTypes, Running, ~Begin, ~TaskDone
  PROVE  (Move /\ (StaysHot \/ WaitSlot)) \/ ended' # "no"
<1> HIDE DEF Move, StaysHot
<1>1. CASE TaskStep
  <2>1. \/ \E fn \in Readers : PushWait(fn) \/ PushGarbage(fn) \/ PushRead(fn)
        \/ TaskWait \/ ReadAtOnce
    BY <1>1 DEF TaskStep
  <2> QED
    BY <2>1, TaskMoves, TaskHot
<1>2. CASE WaitStep
  BY <1>2, WaitMoves, SlotMoves DEF WaitStep
<1>3. CASE TestStep
  BY <1>3, SerialMoves, TestMoves, ResultMoves, LostMoves DEF TestStep
<1>4. CASE RestartStep
  BY <1>4, RestartMoves
<1> QED
  BY <1>1, <1>2, <1>3, <1>4 DEF Running

(* The places of the calls are kept.                                       *)
LEMMA CStep ==
  ASSUME QInv, CInv, vm \in VmTypes, [Next]_vars
  PROVE  CInv'
<1>1. CASE Running /\ ~Begin /\ ~TaskDone
  <2>1. ended = "no" /\ calls # <<>>
    BY <1>1, RunsIn
  <2>2. Facts /\ CParts
    BY <2>1, InFacts DEF CInv
  <2>3. Move => CParts'
    <3> HIDE DEF CParts, Move
    <3> QED
      BY <2>2, MoveKeeps
  <2>4. Move \/ ended' # "no"
    BY <1>1, RunMoves
  <2> QED
    BY <2>3, <2>4 DEF CInv
<1>2. CASE Begin
  <2> DEFINE f == Frame("task")
  <2>1. f.fn = "task" /\ f.pc = "start" /\ f.n = 1
    BY DEF Frame
  <2>2. calls' = <<f>>
    BY <1>2 DEF Begin
  <2> HIDE DEF f
  <2>3. Depth' = 1 /\ calls'[1] = f
    BY <2>2 DEF Depth
  <2> QED
    BY <2>1, <2>3 DEF CInv, CParts, Called, PlaceOK, Waits, Tests, Restarts
<1>3. CASE TaskDone
  <2>1. Depth' = 0
    BY <1>3 DEF TaskDone, Depth
  <2> QED
    BY <2>1 DEF CInv, CParts, Called
<1>4. CASE Arrive \/ Gone \/ UNCHANGED vars
  <2>1. UNCHANGED <<calls, ended>>
    BY <1>4 DEF Arrive, Gone, vars
  <2> QED
    BY <2>1 DEF CInv, CParts, Called, PlaceOK, Depth, CalledBy, Tested, Serial, Waits, Tests,
                Restarts
<1> QED
  BY <1>1, <1>2, <1>3, <1>4 DEF Next

(* The counters stay in their bounds.                                      *)
LEMMA NStep ==
  ASSUME QInv, CInv, NInv, [Next]_vars
  PROVE  NInv'
<1>1. vm \in VmTypes
  BY DEF NInv
<1>2. CASE Running
  <2>1. Counts /\ (RestartStart => ended' # "no" \/ vm'.corruptions_count = 0)
    <3>1. CASE TaskStep \/ WaitStep
      <4>1. ~RestartStart
        <5>1. CASE Begin \/ TaskWait \/ TaskDone \/ ReadAtOnce
          BY <5>1 DEF Begin, TaskWait, TaskDone, ReadAtOnce, RestartStart, In
        <5>2. CASE \E fn \in Readers : PushWait(fn) \/ PushGarbage(fn) \/ PushRead(fn)
          BY <5>2 DEF PushWait, PushGarbage, PushRead, AtPurge, Readers, RestartStart, In
        <5>3. CASE WaitStep
          BY <5>3 DEF WaitStep, WaitFlush, WaitDone, WaitSlot, WaitTested, WaitTake, WaitDeliver,
                      WaitError, ReadDone, RestartStart, In
        <5> QED
          BY <3>1, <5>1, <5>2, <5>3 DEF TaskStep
      <4> QED
        BY <3>1, <4>1, TaskCounts
    <3>2. CASE TestStep
      <4>1. ~RestartStart
        <5>1. CASE \/ TestSerialDrain \/ TestSerialVersion
                   \/ TestStart \/ TestLoop \/ TestEnd \/ TestLoopTested \/ TestDisable
          BY <5>1 DEF TestSerialDrain, TestSerialVersion, TestStart, TestLoop, TestEnd,
                      TestLoopTested, TestDisable, RestartStart, In
        <5>2. CASE \/ \E fn \in {"test_lost_address", "revive_asics"} : GotAddr(fn)
                   \/ ReviveGot \/ ReviveLost \/ ReviveEnd \/ LostGot \/ LostLoop \/ LostVersion
          BY <5>2 DEF GotAddr, ReviveGot, ReviveLost, ReviveEnd, LostGot, LostLoop, LostVersion,
                      RestartStart, In
        <5> QED
          BY <3>2, <5>1, <5>2 DEF TestStep
      <4> QED
        BY <3>2, <4>1, TestCounts
    <3>3. CASE RestartStep
      BY <3>3, RestartCounts
    <3> QED
      BY <1>2, <3>1, <3>2, <3>3 DEF Running
  <2>2. ended = "no" /\ NParts
    BY <1>2, RunsIn DEF NInv
  <2>3. ASSUME AtLimit(vm'), ended' = "no"
        PROVE  IsHot'
    <3>1. CASE WaitSlot
      BY <3>1, SlotHot
    <3>2. CASE ~WaitSlot
      <4>1. AtLimit(vm)
        BY <1>1, <2>1, <2>3, <3>2, FpgaAssumption DEF Counts, AtLimit, VmTypes
      <4>2. IsHot
        BY <2>2, <4>1 DEF NParts
      <4>3. ~Begin
        BY <4>2 DEF IsHot, Begin
      <4>4. ~TaskDone
        BY <4>2 DEF IsHot, Hot, Waits, Tests, Tested, Restarts, TaskDone, In
      <4>5. StaysHot
        BY <1>1, <1>2, <2>3, <3>2, <4>3, <4>4, RunMoves
      <4> QED
        BY <2>3, <4>1, <4>2, <4>5 DEF StaysHot, IsHot
    <3> QED
      BY <3>1, <3>2
  <2>4. ASSUME vm'.corruptions_count > MAX_CORRUPTIONS, ended' = "no"
        PROVE  calls' # <<>> /\ Restarts(Top') /\ Top'.pc = "start"
    <3>1. MAX_CORRUPTIONS \in Nat
      BY FpgaAssumption
    <3>2. vm.corruptions_count \in Int /\ vm.corruptions_count <= MAX_CORRUPTIONS
      <4>1. vm.corruptions_count \in Int
        BY <1>1, <3>1 DEF VmTypes
      <4>2. ASSUME vm.corruptions_count > MAX_CORRUPTIONS
            PROVE  FALSE
        <5>1. RestartStart
          BY <1>2, <2>2, <4>2, RunsIn DEF NParts
        <5> QED
          BY <2>1, <2>4, <3>1, <5>1
      <4> QED
        BY <3>1, <4>1, <4>2
    <3>3. WaitTake
      BY <2>1, <2>4, <3>1, <3>2 DEF Counts
    <3>4. Call(Restart, "deliver")
      <4>1. \/ UNCHANGED vm
            \/ /\ vm' = [vm EXCEPT !.corruptions_count = @ + 1]
               /\ vm.corruptions_count + 1 > MAX_CORRUPTIONS => Call(Restart, "deliver")
        BY <3>3 DEF WaitTake
      <4>2. CASE UNCHANGED vm
        BY <2>4, <3>1, <3>2, <4>2
      <4>3. CASE vm' = [vm EXCEPT !.corruptions_count = @ + 1]
        <5>1. vm'.corruptions_count = vm.corruptions_count + 1
          BY <1>1, <4>3 DEF VmTypes
        <5>2. ~UNCHANGED vm
          BY <3>2, <5>1
        <5> QED
          BY <2>4, <4>1, <5>1, <5>2
      <4> QED
        BY <4>1, <4>2, <4>3
    <3>5. Facts
      BY <3>3, CFacts DEF WaitTake
    <3>6. PICK g : Pushes(g, Restart)
      BY <3>4, <3>5, MakesIs, FramesMade DEF Makes, Pcs
    <3>7. calls' # <<>> /\ Top' = Restart
      BY <3>5, <3>6, NextTop
    <3> QED
      BY <3>7, FramesMade DEF Restarts
  <2>5. vm' \in VmTypes
    BY <2>1 DEF Counts
  <2>6. ended' = "no" => NParts'
    <3>1. ended' = "no" /\ AtLimit(vm)' => IsHot'
      BY <2>3 DEF AtLimit
    <3>2. ended' = "no" /\ vm'.corruptions_count > MAX_CORRUPTIONS
            => calls' # <<>> /\ Restarts(Top)' /\ Top'.pc = "start"
      BY <2>4 DEF Restarts
    <3> QED
      BY <3>1, <3>2 DEF NParts
  <2> QED
    BY <2>5, <2>6 DEF NInv
<1>3. CASE Arrive \/ Gone \/ UNCHANGED vars
  <2>1. UNCHANGED <<vm, calls, ended, current_cmd_queue_ptr, current_cmd_hw_queue_ptr>>
    BY <1>3 DEF Arrive, Gone, vars, queueVars
  <2> QED
    BY <2>1 DEF NInv, NParts, AtLimit, IsHot, Hot, Working, Top, Depth, VmTypes, Waits, Tests,
                Tested, Restarts
<1> QED
  BY <1>2, <1>3 DEF Next

(* At first.                                                               *)
LEMMA CNFirst ==
  ASSUME Init
  PROVE  CInv /\ NInv
<1>1. calls = <<>> /\ Depth = 0
  BY DEF Init, Depth
<1>2. CInv
  BY <1>1 DEF CInv, CParts, Called
<1>3. vm \in VmTypes
  <2>1. vm = [assert_serial_failures |-> TRUE, in_asic_reset |-> 0, did_asic_reset |-> FALSE,
              tryed_power_cycle |-> FALSE, spi_timeout_count |-> 0, corruptions_count |-> 0,
              bad_loop_count |-> [l \in Loops |-> 0],
              enabled |-> Loops, present |-> Loops \ DeadLoops, asics |-> {}]
    BY DEF Init
  <2>2. /\ 0 \in 0 .. MAX_TIMEOUTS /\ 0 \in 0 .. MAX_CORRUPTIONS + 1
        /\ [l \in Loops |-> 0] \in [Loops -> 0 .. MAX_LOOP_FAIL]
    BY FpgaAssumption
  <2> QED
    BY <2>1, <2>2 DEF VmTypes
<1>4. vm.spi_timeout_count = 0 /\ vm.corruptions_count = 0
  BY DEF Init
<1>5. NInv
  BY <1>3, <1>4, FpgaAssumption DEF NInv, NParts, AtLimit
<1> QED
  BY <1>2, <1>5
-----------------------------------------------------------------------------
(* The answers.  A slot whose result goes to the task is for one of its    *)
(* reads: that is why answered holds nothing else.                         *)
Ends == {"no", "queue", "recursive", "passert", "nicely"}

AInv ==
  /\ DOMAIN cmd_queue = Slots
  /\ \A s \in Slots : cmd_queue[s].to[1] = 1 => cmd_queue[s].to[2] \in Regs
  /\ answered \subseteq Regs
  /\ ended \in Ends

\* Most steps leave both alone.
Beside == UNCHANGED <<cmd_queue, answered>> /\ (UNCHANGED ended \/ ended' \in Ends)

(* Such a step.                                                            *)
LEMMA BesideKeeps ==
  ASSUME AInv, Beside
  PROVE  AInv'
  BY DEF AInv, Beside

(* A slot is written.                                                      *)
LEMMA SlotWritten ==
  ASSUME AInv, NEW s \in Slots, NEW r, NEW d, NEW k, d = 1 => k \in Regs,
         cmd_queue' = [cmd_queue EXCEPT ![s] = [reg |-> r, to |-> <<d, k>>]],
         UNCHANGED <<answered, ended>>
  PROVE  AInv'
<1> DEFINE slot == [reg |-> r, to |-> <<d, k>>]
<1>1. slot.to[1] = d /\ slot.to[2] = k
  OBVIOUS
<1> HIDE DEF slot
<1>2. DOMAIN cmd_queue' = Slots
  BY DEF AInv
<1>3. \A z \in Slots : cmd_queue'[z] = IF z = s THEN slot ELSE cmd_queue[z]
  BY DEF AInv, slot
<1>4. ASSUME NEW z \in Slots, cmd_queue'[z].to[1] = 1
      PROVE  cmd_queue'[z].to[2] \in Regs
  <2>1. CASE z = s
    BY <1>1, <1>3, <1>4, <2>1
  <2>2. CASE z # s
    BY <1>3, <1>4, <2>2 DEF AInv
  <2> QED
    BY <2>1, <2>2
<1> QED
  BY <1>2, <1>4 DEF AInv, Slots, Regs

(* The tasks.                                                              *)
LEMMA TaskAnswers ==
  ASSUME QInv, CInv, AInv, TaskStep
  PROVE  AInv'
<1>1. CASE Begin \/ TaskWait
  BY <1>1, BesideKeeps DEF Begin, TaskWait, Beside, queueVars
<1>2. CASE TaskDone
  <2>1. cmd_queue' = EmptyQueue /\ answered' = {} /\ ended' = ended
    BY <1>2 DEF TaskDone
  <2>2. DOMAIN EmptyQueue = Slots /\ \A s \in Slots : EmptyQueue[s].to[1] = 0
    BY DEF EmptyQueue
  <2> QED
    BY <2>1, <2>2 DEF AInv, Slots, Regs
<1>3. CASE ReadAtOnce
  <2>1. Facts /\ Top.fn = "read_reg_asic"
    BY <1>3, CFacts DEF ReadAtOnce
  <2>2. Depth # 1 /\ 0 \in Slots
    BY <2>1, FpgaAssumption DEF Facts, Slots
  <2>3. PICK s, k :
          /\ s \in Slots
          /\ cmd_queue' = [cmd_queue EXCEPT ![s] = [reg |-> k, to |-> <<Depth, k>>]]
          /\ UNCHANGED <<answered, ended>>
    BY <1>3, <2>2 DEF ReadAtOnce
  <2>4. Depth = 1 => k \in Regs
    BY <2>2
  <2> QED
    BY <2>3, <2>4, SlotWritten
<1>4. ASSUME NEW fn \in Readers, PushWait(fn) \/ PushGarbage(fn)
      PROVE  AInv'
  BY <1>4, BesideKeeps DEF PushWait, PushGarbage, reset_asic_queue, Beside, queueVars
<1>5. ASSUME NEW fn \in Readers, PushRead(fn)
      PROVE  AInv'
  <2> DEFINE reg == IF fn = "task" THEN Top.n ELSE Top.reg
  <2>1. In(fn, "start") \/ In(fn, "room")
    BY <1>5 DEF PushRead, AtPurge
  <2>2. Facts /\ Top.fn = fn /\ PlaceOK(Top) /\ Top.n \in Int
    BY <2>1, CFacts
  <2>3. fn = "task" => Top.n <= Batch
    <3>1. \/ Pushing \/ Top.pc = "room"
      BY <1>5 DEF PushRead, AtPurge, In
    <3> QED
      BY <2>2, <3>1 DEF Pushing, PlaceOK
  <2>4. Depth = 1 => reg \in Regs
    BY <2>2, <2>3 DEF Facts, PlaceOK, Regs
  <2>5. \/ Exit("queue") /\ UNCHANGED <<queueVars, answered>>
        \/ /\ cmd_queue' = [cmd_queue EXCEPT ![current_cmd_queue_ptr] =
                              [reg |-> reg, to |-> <<Depth, reg>>]]
           /\ UNCHANGED <<answered, ended>>
    BY <1>5 DEF PushRead
  <2>6. current_cmd_queue_ptr \in Slots
    BY FpgaAssumption DEF QInv, Pointers, PushLimit, Slots
  <2> HIDE DEF reg
  <2>7. CASE Exit("queue") /\ UNCHANGED <<queueVars, answered>>
    BY <2>7, BesideKeeps DEF Exit, Beside, Ends, queueVars
  <2> QED
    BY <2>4, <2>5, <2>6, <2>7, SlotWritten
<1> QED
  BY <1>1, <1>2, <1>3, <1>4, <1>5 DEF TaskStep

(* The waits.                                                              *)
LEMMA WaitAnswers ==
  ASSUME QInv, CInv, AInv, WaitStep
  PROVE  AInv'
<1>1. CASE WaitFlush \/ WaitTested \/ WaitTake \/ WaitError \/ ReadDone
  BY <1>1, BesideKeeps DEF WaitFlush, WaitTested, WaitTake, WaitError, ReadDone, Beside, queueVars
<1>2. CASE WaitSlot
  BY <1>2, BesideKeeps DEF WaitSlot, Beside
<1>3. CASE WaitDone
  BY <1>3, BesideKeeps DEF WaitDone, Exit, reset_asic_queue, Beside, Ends, queueVars
<1>4. CASE WaitDeliver
  <2>1. PlaceOK(Top) /\ Top.fn = "squid_wait_asic_reads" /\ Top.pc = "deliver"
    BY <1>4, CFacts DEF WaitDeliver
  <2>2. Top.n \in Slots
    BY <2>1 DEF PlaceOK, Waits
  <2> DEFINE to == cmd_queue[Top.n].to
  <2>3. /\ answered' = IF to[1] = 1 /\ Top.value = "own" THEN answered \cup {to[2]} ELSE answered
        /\ UNCHANGED <<cmd_queue, ended>>
    BY <1>4 DEF WaitDeliver, reset_asic_queue, queueVars
  <2>4. to[1] = 1 => to[2] \in Regs
    BY <2>2 DEF AInv
  <2> HIDE DEF to
  <2>5. answered' \subseteq Regs
    BY <2>3, <2>4 DEF AInv
  <2> QED
    BY <2>3, <2>5 DEF AInv, Slots, Regs
<1> QED
  BY <1>1, <1>2, <1>3, <1>4 DEF WaitStep

(* The tests.                                                              *)
LEMMA TestAnswers ==
  ASSUME AInv, TestStep
  PROVE  AInv'
<1>1. CASE TestSerialDrain \/ TestSerialVersion \/ TestLoop \/ TestEnd \/ TestDisable
  BY <1>1, BesideKeeps
     DEF TestSerialDrain, TestSerialVersion, TestLoop, TestEnd, TestDisable, Beside, queueVars
<1>2. CASE TestStart
  BY <1>2, BesideKeeps DEF TestStart, reset_asic_queue, Beside
<1>3. CASE TestLoopTested
  <2>1. (UNCHANGED ended \/ Exit("nicely")) /\ UNCHANGED <<queueVars, answered>>
    BY <1>3 DEF TestLoopTested
  <2> QED
    BY <2>1, BesideKeeps DEF Exit, Ends, Beside, queueVars
<1>4. CASE \/ \E fn \in {"test_lost_address", "revive_asics"} : GotAddr(fn)
           \/ ReviveGot \/ ReviveLost \/ ReviveEnd \/ LostGot \/ LostLoop \/ LostVersion
  BY <1>4, BesideKeeps DEF GotAddr, ReviveGot, ReviveLost, ReviveEnd, LostGot, LostLoop,
                           LostVersion, Beside, queueVars
<1> QED
  BY <1>1, <1>2, <1>3, <1>4 DEF TestStep

(* The resets.                                                             *)
LEMMA RestartAnswers ==
  ASSUME AInv, RestartStep
  PROVE  AInv'
<1>1. CASE RestartStart
  <2>1. /\ answered' = {} /\ UNCHANGED cmd_queue
        /\ UNCHANGED ended \/ Exit("recursive")
    BY <1>1 DEF RestartStart, queueVars
  <2> QED
    BY <2>1 DEF AInv, Exit, Ends, Slots, Regs
<1>2. CASE \/ RestartTested \/ RestartReset \/ RestartDiscover \/ RestartDiscovered
           \/ RestartLoop \/ RestartAsks \/ RestartConductor
  BY <1>2, BesideKeeps DEF RestartTested, RestartReset, RestartDiscover, RestartDiscovered,
                           RestartLoop, RestartAsks, RestartConductor, Beside, queueVars
<1>3. CASE \/ RestartGoodLoops \/ RestartNone \/ RestartGiven \/ RestartAll \/ RestartSerial
           \/ RestartBusy \/ RestartEnd
  <2>1. /\ \E how \in Ends : UNCHANGED ended \/ Exit(how)
        /\ UNCHANGED <<queueVars, answered>>
    BY <1>3 DEF RestartGoodLoops, RestartNone, RestartGiven, RestartAll, RestartSerial,
                RestartBusy, RestartEnd, Ends
  <2> QED
    BY <2>1, BesideKeeps DEF Exit, Beside, queueVars
<1> QED
  BY <1>1, <1>2, <1>3 DEF RestartStep

(* All steps.                                                              *)
LEMMA AStep ==
  ASSUME QInv, CInv, AInv, [Next]_vars
  PROVE  AInv'
<1>1. CASE Arrive \/ Gone \/ UNCHANGED vars
  BY <1>1, BesideKeeps DEF Arrive, Gone, vars, Beside, queueVars
<1> QED
  BY <1>1, TaskAnswers, WaitAnswers, TestAnswers, RestartAnswers DEF Next, Running

(* Theorem.  The pointers, the counters, the calls and the answers are of  *)
(* their types, whatever becomes of the replies.  The counts stay bounded  *)
(* because what they lead to sets them to 0 before they can grow again:    *)
(* the reset after MAX_TIMEOUTS timeouts, and the one after more than      *)
(* MAX_CORRUPTIONS corrupted replies.                                      *)
THEOREM Typing == Spec => []TypeOK
<1>1. Init => CInv /\ NInv /\ AInv
  <2>1. ASSUME Init
        PROVE  AInv
    <3>1. cmd_queue = EmptyQueue /\ answered = {} /\ ended = "no"
      BY <2>1 DEF Init
    <3>2. DOMAIN EmptyQueue = Slots /\ \A s \in Slots : EmptyQueue[s].to[1] = 0
      BY DEF EmptyQueue
    <3> QED
      BY <3>1, <3>2 DEF AInv, Ends
  <2> QED
    BY <2>1, CNFirst
<1>2. QInv /\ CInv /\ NInv /\ AInv /\ [Next]_vars => CInv' /\ NInv' /\ AInv'
  BY CStep, NStep, AStep DEF NInv
<1>3. QInv /\ NInv /\ AInv => TypeOK
  <2> SUFFICES ASSUME QInv, NInv, AInv
               PROVE  TypeOK
    OBVIOUS
  <2>1. /\ current_cmd_queue_ptr \in Slots
        /\ current_cmd_hw_queue_ptr \in 0 .. current_cmd_queue_ptr
        /\ Len(asic_serial_stack) <= current_cmd_queue_ptr
    BY FpgaAssumption DEF QInv, Pointers, PushLimit, Slots
  <2>2. /\ vm.in_asic_reset \in 0 .. 2 /\ vm.corruptions_count \in 0 .. MAX_CORRUPTIONS + 1
        /\ vm.bad_loop_count \in [Loops -> 0 .. MAX_LOOP_FAIL]
        /\ vm.enabled \subseteq Loops /\ vm.present \subseteq Loops /\ vm.asics \subseteq Loops
    BY DEF NInv, VmTypes
  <2>3. vm.spi_timeout_count \in 0 .. MAX_TIMEOUTS
    BY DEF NInv, VmTypes
  <2>4. ASSUME NEW d \in 1 .. Depth
        PROVE  calls[d].fn \in Functions /\ (calls[d].fn = "task") = (d = 1)
    <3>1. calls[d] \in Frames /\ (calls[d].fn = "task") = (d = 1)
      BY DEF QInv, Linked, Depth
    <3> QED
      BY <3>1 DEF Frames
  <2> QED
    BY <2>1, <2>2, <2>3, <2>4 DEF TypeOK, AInv, Ends
<1> QED
  BY <1>1, <1>2, <1>3, Invariance, PTL DEF Spec
=============================================================================
