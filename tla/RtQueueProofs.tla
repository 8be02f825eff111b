--------------------------- MODULE RtQueueProofs ---------------------------
(***************************************************************************)
(* Proofs about the real-time queue used by one thread at a time: its      *)
(* operations keep it in order, and implement the bounded window.          *)
(***************************************************************************)
EXTENDS RtQueueSpec, RtQueueLemmas

(* The inductive invariant: the ring is in order, see RingOK.              *)
IInv == TypeOK /\ RingOK(rt)

(* It is inductive: the two operations keep it.                            *)
LEMMA InductiveInvariant == Spec => []IInv
  <1>1. Init => IInv
    BY ResetRingOK DEF Init, IInv, TypeOK, RingOK
  <1>2. IInv /\ [Next]_vars => IInv'
    <2> SUFFICES ASSUME IInv, [Next]_vars PROVE IInv'
      OBVIOUS
    <2>1. RingOK(rt) /\ rt \in RingType /\ out \in Jobs \cup {NoJob}
      BY DEF IInv, TypeOK
    <2>2. Oldest(rt).job \in Jobs \cup {NoJob}
      BY <2>1 DEF Oldest, RingType, SlotType
    <2>3. ASSUME NEW j \in Jobs, AddToSwRtQueue(j) PROVE IInv'
      <3>1. RingOK(rt')
        BY <2>1, <2>3, AddOK DEF AddToSwRtQueue
      <3>2. out' \in Jobs \cup {NoJob}
        BY <2>2, <2>3 DEF AddToSwRtQueue
      <3>3. QED
        BY <3>1, <3>2 DEF IInv, TypeOK, RingOK
    <2>4. CASE OneDoneSwRtQueue
      <3>1. RingOK(rt')
        BY <2>1, <2>4, OneDoneOK DEF OneDoneSwRtQueue
      <3>2. out' \in Jobs \cup {NoJob}
        BY <2>2, <2>4 DEF OneDoneSwRtQueue
      <3>3. QED
        BY <3>1, <3>2 DEF IInv, TypeOK, RingOK
    <2>5. CASE UNCHANGED vars
      BY <2>1, <2>5 DEF vars, IInv, TypeOK, RingOK, DoneToWrite, MarkedAhead, IdOfSlot, Ahead
    <2>6. QED
      BY <2>3, <2>4, <2>5 DEF Next
  <1>3. QED
    BY <1>1, <1>2, PTL DEF Spec

(* The values real_time_queue.c's variables can take, for any use of it.   *)
THEOREM Typing == Spec => []TypeOK
  BY InductiveInvariant, PTL DEF IInv

(* The counters and slot states of the queue always describe one queue,    *)
(* and the job id of a win always leads back to the slot of its job.       *)
THEOREM RingCorrect == Spec => []RingInv
  <1>1. IInv => RingInv
    BY RingOKImplies DEF IInv, RingInv
  <1>2. QED
    BY <1>1, InductiveInvariant, PTL
-----------------------------------------------------------------------------
(* The queue implements the bounded window, for every ring size.           *)
THEOREM Implementation == Spec => ImplementsWindow
  <1>1. Init => Abstract!Init
    <2> SUFFICES ASSUME Init PROVE Abstract!Init
      OBVIOUS
    <2>1. JobsOf(rt) \in Seq(Jobs \cup {NoJob}) /\ Len(JobsOf(rt)) = 0
      BY ResetRingOK, JobsOfSeq DEF Init, ResetRing
    <2>2. JobsOf(rt) = <<>>
      BY <2>1, EmptySeq
    <2>3. QED
      BY <2>2 DEF Init, Abstract!Init
  <1>2. IInv /\ [Next]_vars => [Abstract!Next]_<<JobsOf(rt), out>>
    <2> SUFFICES ASSUME IInv, [Next]_vars
                 PROVE  [Abstract!Next]_<<JobsOf(rt), out>>
      OBVIOUS
    <2>1. RingOK(rt) /\ JobsOf(rt) \in Seq(Jobs \cup {NoJob})
          /\ Len(JobsOf(rt)) = rt.size /\ rt.size \in 0 .. RT_QUEUE_SIZE
      BY JobsOfSeq DEF IInv, RingOK, RingType
    <2>2. ASSUME NEW j \in Jobs, AddToSwRtQueue(j)
          PROVE  Abstract!Accept(j) \/ Abstract!Displace(j)
      <3>1. CASE RingFull(rt)
        <4>1. rt.size # 0 /\ rt.size \in Nat
          BY <3>1, RtQueueAssumption DEF RingFull
        <4>2. RingOK(OneDone(rt)) /\ ~ RingFull(OneDone(rt))
          BY <2>1, <3>1, <4>1, OneDoneOK DEF RingFull, OneDone
        <4>3. JobsOf(WriteSlot(OneDone(rt), j)) = Append(Tail(JobsOf(rt)), j)
          BY <2>1, <4>1, <4>2, WriteSlotWindow, OneDoneWindow
        <4>4. JobsOf(rt)' = JobsOf(WriteSlot(OneDone(rt), j))
          BY <2>2, <3>1 DEF AddToSwRtQueue, Add, JobsOf, SlotAt
        <4>5. out' = Head(JobsOf(rt)) /\ Len(JobsOf(rt)) = RT_QUEUE_SIZE
          BY <2>1, <2>2, <3>1, <4>1, OneDoneWindow DEF AddToSwRtQueue, RingFull
        <4>6. QED
          BY <4>3, <4>4, <4>5 DEF Abstract!Displace
      <3>2. CASE ~ RingFull(rt)
        <4>1. JobsOf(rt)' = JobsOf(WriteSlot(rt, j))
          BY <2>2, <3>2 DEF AddToSwRtQueue, Add, JobsOf, SlotAt
        <4>2. JobsOf(WriteSlot(rt, j)) = Append(JobsOf(rt), j)
          BY <2>1, <3>2, WriteSlotWindow
        <4>3. out' = NoJob /\ Len(JobsOf(rt)) < RT_QUEUE_SIZE
          BY <2>1, <2>2, <3>2, RtQueueAssumption DEF AddToSwRtQueue, RingFull
        <4>4. QED
          BY <4>1, <4>2, <4>3 DEF Abstract!Accept
      <3>3. QED
        BY <3>1, <3>2
    <2>3. CASE OneDoneSwRtQueue
      <3>1. JobsOf(rt)' = JobsOf(OneDone(rt))
        BY <2>3 DEF OneDoneSwRtQueue, JobsOf, SlotAt
      <3>2. Abstract!Release
        BY <2>1, <2>3, <3>1, OneDoneWindow DEF OneDoneSwRtQueue, Abstract!Release
      <3>3. QED
        BY <3>2 DEF Abstract!Next
    <2>4. CASE UNCHANGED vars
      BY <2>4 DEF vars, JobsOf, SlotAt
    <2>5. QED
      BY <2>2, <2>3, <2>4 DEF Next, Abstract!Next
  <1>3. QED
    BY <1>1, <1>2, InductiveInvariant, PTL DEF Spec, ImplementsWindow, Abstract!Spec
=============================================================================
