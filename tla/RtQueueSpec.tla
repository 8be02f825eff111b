---------------------------- MODULE RtQueueSpec ----------------------------
(***************************************************************************)
(* The real-time queue used by one thread at a time, as asic_mutex makes   *)
(* the RT thread and the "drop old work" path use it: every call of        *)
(* real_time_queue.c is one step.  The queue is shown to implement the     *)
(* JobWindow.  What happens when a call is not alone is in JobPipeline.    *)
(***************************************************************************)
EXTENDS RtQueue, Sequences

VARIABLES
  rt,    \* the ring
  out    \* the job the last call handed to its caller, or NoJob

vars == <<rt, out>>

Init == rt = ResetRing /\ out = NoJob

AddToSwRtQueue(j) ==
  /\ out' = IF RingFull(rt) THEN Oldest(rt).job ELSE NoJob
  /\ rt' = Add(rt, j)

OneDoneSwRtQueue ==
  /\ rt.size # 0
  /\ out' = Oldest(rt).job
  /\ rt' = OneDone(rt)

Next == (\E j \in Jobs : AddToSwRtQueue(j)) \/ OneDoneSwRtQueue

Spec == Init /\ [][Next]_vars
-----------------------------------------------------------------------------
TypeOK == rt \in RingType /\ out \in Jobs \cup {NoJob}

(* The counters and the slot states of real_time_queue.c describe one      *)
(* queue after any sequence of calls, and get_print_win finds the right    *)
(* slot for every job id the hardware can report.                          *)
RingInv == IndicesAgree(rt) /\ StatesAgree(rt) /\ WinsFindTheirSlot(rt)

Abstract ==
  INSTANCE JobWindow WITH Size <- RT_QUEUE_SIZE, window <- JobsOf(rt)

(* The ring implements the bounded window: jobs leave in the order they    *)
(* came, none is skipped or returned twice, and only a full ring evicts.   *)
ImplementsWindow == Abstract!Spec
=============================================================================
