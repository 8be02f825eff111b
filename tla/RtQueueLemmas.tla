--------------------------- MODULE RtQueueLemmas ---------------------------
(***************************************************************************)
(* Facts about the operators of RtQueue, for every ring size, every number *)
(* of ids per job that fits the 8-bit job id, and every set of jobs.  The  *)
(* proofs about the queue and about the pipeline rest on them.             *)
(***************************************************************************)
EXTENDS RtQueue, SequenceTheorems, TLAPS

(* Advancing an index stays in the ring and wraps to 0 at its end.         *)
LEMMA NextSlotValue ==
  ASSUME NEW s \in Slots
  PROVE  /\ NextSlot(s) = IF s + 1 = RT_QUEUE_SIZE THEN 0 ELSE s + 1
         /\ NextSlot(s) \in Slots
  BY RtQueueAssumption DEF NextSlot, Slots

(* The slot k places after s, for a k up to the size of the ring.          *)
LEMMA AheadValue ==
  ASSUME NEW s \in Slots, NEW k \in 0 .. RT_QUEUE_SIZE
  PROVE  /\ (s + k) % RT_QUEUE_SIZE =
              IF s + k < RT_QUEUE_SIZE THEN s + k ELSE s + k - RT_QUEUE_SIZE
         /\ (s + k) % RT_QUEUE_SIZE \in Slots
  BY RtQueueAssumption DEF Slots

(* A job id decodes to the slot and the increment it was made of.          *)
LEMMA WinDecoding ==
  ASSUME NEW s \in Slots, NEW k \in 0 .. MQ_INCREMENTS - 1
  PROVE  /\ WinSlot(s * MQ_INCREMENTS + k) = s
         /\ WinOffset(s * MQ_INCREMENTS + k) = k
  BY RtQueueAssumption DEF WinSlot, WinOffset, Slots
-----------------------------------------------------------------------------
(* The inductive invariant, with no modulus left in it: how far slot s     *)
(* lies ahead of the done index, going round the ring; the write index and *)
(* the marks by that distance; the id every live slot was given.           *)
Ahead(q, s) ==
  IF s < q.hw_done THEN s + RT_QUEUE_SIZE - q.hw_done ELSE s - q.hw_done

DoneToWrite(q) ==
  q.sw_write = IF q.hw_done + q.size < RT_QUEUE_SIZE
                 THEN q.hw_done + q.size
                 ELSE q.hw_done + q.size - RT_QUEUE_SIZE

MarkedAhead(q) ==
  \A s \in Slots : (q.slot[s].state = "has_job") <=> (Ahead(q, s) < q.size)

IdOfSlot(q) ==
  \A s \in Slots : q.slot[s].state = "has_job" => q.slot[s].id = s * MQ_INCREMENTS

RingOK(q) == q \in RingType /\ DoneToWrite(q) /\ MarkedAhead(q) /\ IdOfSlot(q)

(* Every slot's id is one of the multiples of MQ_INCREMENTS.               *)
LEMMA SlotIds ==
  ASSUME NEW s \in Slots
  PROVE  s * MQ_INCREMENTS \in {t * MQ_INCREMENTS : t \in Slots}
  OBVIOUS

(* The empty ring is in order.                                             *)
LEMMA ResetRingOK == RingOK(ResetRing)
  <1>1. 0 \in {s * MQ_INCREMENTS : s \in Slots}
    <2>1. 0 \in Slots /\ 0 * MQ_INCREMENTS = 0
      BY RtQueueAssumption DEF Slots
    <2>2. QED
      BY <2>1
  <1>2. ResetRing \in RingType
    BY <1>1, RtQueueAssumption
    DEF RingType, SlotType, ResetRing, BlankSlot, Slots
  <1>3. DoneToWrite(ResetRing) /\ MarkedAhead(ResetRing) /\ IdOfSlot(ResetRing)
    BY RtQueueAssumption
    DEF DoneToWrite, MarkedAhead, IdOfSlot, Ahead, ResetRing, BlankSlot, Slots
  <1>4. QED
    BY <1>2, <1>3 DEF RingOK

(* one_done_sw_rt_queue keeps the ring in order, and empties one slot.     *)
LEMMA OneDoneOK ==
  ASSUME NEW q, RingOK(q), q.size # 0
  PROVE  RingOK(OneDone(q))
  <1> DEFINE r == OneDone(q)
  <1>1. q \in RingType /\ q.hw_done \in Slots /\ q.size \in 1 .. RT_QUEUE_SIZE
    BY RtQueueAssumption DEF RingOK, RingType, Slots
  <1>2. /\ r.hw_done = NextSlot(q.hw_done) /\ r.size = q.size - 1
        /\ r.sw_write = q.sw_write
        /\ r.slot = [q.slot EXCEPT ![q.hw_done] = Freed(@)]
    BY DEF OneDone
  <1>3. \A s \in Slots :
          /\ r.slot[s].id = q.slot[s].id
          /\ r.slot[s].state = IF s = q.hw_done THEN "free" ELSE q.slot[s].state
    BY <1>1, <1>2 DEF RingType, SlotType, Freed
  <1>4. r \in RingType
    <2>1. Freed(q.slot[q.hw_done]) \in SlotType
      BY <1>1 DEF RingType, SlotType, Freed
    <2>2. r.slot \in [Slots -> SlotType]
      BY <1>1, <1>2, <2>1 DEF RingType
    <2>3. r.hw_done \in Slots /\ r.sw_write \in Slots /\ r.size \in 0 .. RT_QUEUE_SIZE
      BY <1>1, <1>2, NextSlotValue, RtQueueAssumption DEF RingType
    <2>4. QED
      BY <2>2, <2>3 DEF OneDone, RingType
  <1>5. DoneToWrite(r)
    BY <1>1, <1>2, NextSlotValue, RtQueueAssumption
    DEF RingOK, DoneToWrite, Slots
  <1>6. MarkedAhead(r)
    <2> SUFFICES ASSUME NEW s \in Slots
                 PROVE  (r.slot[s].state = "has_job") <=> (Ahead(r, s) < r.size)
      BY DEF MarkedAhead
    <2>1. Ahead(r, s) = IF s = q.hw_done THEN RT_QUEUE_SIZE - 1 ELSE Ahead(q, s) - 1
      BY <1>1, <1>2, NextSlotValue, RtQueueAssumption DEF Ahead, Slots
    <2>2. Ahead(q, s) \in Nat /\ (s # q.hw_done => Ahead(q, s) > 0)
      BY <1>1, RtQueueAssumption DEF Ahead, Slots
    <2>3. (q.slot[s].state = "has_job") <=> (Ahead(q, s) < q.size)
      BY DEF RingOK, MarkedAhead
    <2>4. QED
      BY <1>1, <1>2, <1>3, <2>1, <2>2, <2>3, RtQueueAssumption
  <1>7. IdOfSlot(r)
    BY <1>3 DEF RingOK, IdOfSlot
  <1>8. QED
    BY <1>4, <1>5, <1>6, <1>7 DEF RingOK

(* Writing a job into a ring with room keeps it in order.                  *)
LEMMA WriteSlotOK ==
  ASSUME NEW q, RingOK(q), ~ RingFull(q), NEW j \in Jobs
  PROVE  RingOK(WriteSlot(q, j))
  <1> DEFINE r == WriteSlot(q, j)
  <1>1. /\ q \in RingType /\ q.hw_done \in Slots /\ q.sw_write \in Slots
        /\ q.size \in 0 .. RT_QUEUE_SIZE - 1
    BY RtQueueAssumption DEF RingOK, RingType, Slots, RingFull
  <1>2. /\ r.hw_done = q.hw_done /\ r.size = q.size + 1
        /\ r.sw_write = NextSlot(q.sw_write)
    BY DEF WriteSlot
  <1>3. \A s \in Slots :
          /\ r.slot[s].id = IF s = q.sw_write THEN s * MQ_INCREMENTS
                                             ELSE q.slot[s].id
          /\ r.slot[s].state = IF s = q.sw_write THEN "has_job"
                                                ELSE q.slot[s].state
    BY <1>1 DEF RingType, SlotType, WriteSlot
  <1>4. r \in RingType
    <2>1. [job |-> j, state |-> "has_job", id |-> q.sw_write * MQ_INCREMENTS,
           win |-> NoJob] \in SlotType
      BY <1>1, SlotIds DEF SlotType
    <2>2. r.slot \in [Slots -> SlotType]
      BY <1>1, <2>1 DEF WriteSlot, RingType
    <2>3. r.hw_done \in Slots /\ r.sw_write \in Slots /\ r.size \in 0 .. RT_QUEUE_SIZE
      BY <1>1, <1>2, NextSlotValue, RtQueueAssumption
    <2>4. QED
      BY <2>2, <2>3 DEF WriteSlot, RingType
  <1>5. DoneToWrite(r)
    BY <1>1, <1>2, NextSlotValue, RtQueueAssumption
    DEF RingOK, DoneToWrite, Slots
  <1>6. MarkedAhead(r)
    BY <1>1, <1>2, <1>3, RtQueueAssumption
    DEF RingOK, DoneToWrite, MarkedAhead, Ahead, Slots
  <1>7. IdOfSlot(r)
    BY <1>3 DEF RingOK, IdOfSlot
  <1>8. QED
    BY <1>4, <1>5, <1>6, <1>7 DEF RingOK

(* add_to_sw_rt_queue, with or without an eviction.                        *)
LEMMA AddOK ==
  ASSUME NEW q, RingOK(q), NEW j \in Jobs
  PROVE  RingOK(Add(q, j))
  <1>1. CASE RingFull(q)
    <2>1. q.size # 0 /\ q.size \in Nat
      BY <1>1, RtQueueAssumption DEF RingFull
    <2>2. RingOK(OneDone(q)) /\ ~ RingFull(OneDone(q))
      BY <1>1, <2>1, OneDoneOK DEF RingFull, OneDone
    <2>3. QED
      BY <1>1, <2>2, WriteSlotOK DEF Add
  <1>2. CASE ~ RingFull(q)
    BY <1>2, WriteSlotOK DEF Add
  <1>3. QED
    BY <1>1, <1>2

(* The slot of the i-th oldest job lies i - 1 slots ahead of the done      *)
(* index, and a slot that lies that far ahead is that slot.                *)
LEMMA SlotAtAhead ==
  ASSUME NEW q, RingOK(q), NEW i \in 1 .. RT_QUEUE_SIZE
  PROVE  /\ SlotAt(q, i) \in Slots
         /\ \A s \in Slots : s = SlotAt(q, i) <=> Ahead(q, s) = i - 1
  <1>1. q.hw_done \in Slots /\ i - 1 \in 0 .. RT_QUEUE_SIZE
    BY RtQueueAssumption DEF RingOK, RingType
  <1>2. q.hw_done + i - 1 = q.hw_done + (i - 1)
    BY <1>1 DEF Slots
  <1>3. SlotAt(q, i) = IF q.hw_done + (i - 1) < RT_QUEUE_SIZE
                         THEN q.hw_done + (i - 1)
                         ELSE q.hw_done + (i - 1) - RT_QUEUE_SIZE
    BY <1>1, <1>2, AheadValue DEF SlotAt
  <1>4. QED
    BY <1>1, <1>3, RtQueueAssumption DEF Ahead, Slots

(* The inductive invariant gives the invariants in the code's own terms.   *)
LEMMA RingOKImplies ==
  ASSUME NEW q, RingOK(q)
  PROVE  IndicesAgree(q) /\ StatesAgree(q) /\ WinsFindTheirSlot(q)
  <1>1. q.hw_done \in Slots /\ q.size \in 0 .. RT_QUEUE_SIZE
    BY DEF RingOK, RingType
  <1>2. IndicesAgree(q)
    BY <1>1, AheadValue DEF RingOK, DoneToWrite, IndicesAgree
  <1>3. StatesAgree(q)
    <2> SUFFICES ASSUME NEW s \in Slots
                 PROVE  (q.slot[s].state = "has_job")
                          <=> (\E i \in 1 .. q.size : s = SlotAt(q, i))
      BY DEF StatesAgree
    <2>1. (q.slot[s].state = "has_job") <=> (Ahead(q, s) < q.size)
      BY DEF RingOK, MarkedAhead
    <2>2. Ahead(q, s) \in Nat
      BY <1>1, RtQueueAssumption DEF Ahead, Slots
    <2>3. ASSUME Ahead(q, s) < q.size
          PROVE  \E i \in 1 .. q.size : s = SlotAt(q, i)
      <3>1. /\ Ahead(q, s) + 1 \in 1 .. q.size
            /\ Ahead(q, s) + 1 \in 1 .. RT_QUEUE_SIZE
            /\ Ahead(q, s) = (Ahead(q, s) + 1) - 1
        BY <1>1, <2>2, <2>3, RtQueueAssumption
      <3>2. s = SlotAt(q, Ahead(q, s) + 1)
        BY <3>1, SlotAtAhead
      <3>3. QED
        BY <3>1, <3>2
    <2>4. ASSUME NEW i \in 1 .. q.size, s = SlotAt(q, i)
          PROVE  Ahead(q, s) < q.size
      <3>1. i \in 1 .. RT_QUEUE_SIZE
        BY <1>1, RtQueueAssumption
      <3>2. Ahead(q, s) = i - 1
        BY <3>1, <2>4, SlotAtAhead
      <3>3. QED
        BY <1>1, <3>2
    <2>5. QED
      BY <2>1, <2>3, <2>4
  <1>4. WinsFindTheirSlot(q)
    BY WinDecoding DEF RingOK, IdOfSlot, WinsFindTheirSlot
  <1>5. QED
    BY <1>2, <1>3, <1>4
-----------------------------------------------------------------------------
(* JobsOf(q) is the sequence of the jobs in the ring.                      *)
LEMMA JobsOfSeq ==
  ASSUME NEW q, RingOK(q)
  PROVE  /\ JobsOf(q) \in Seq(Jobs \cup {NoJob})
         /\ Len(JobsOf(q)) = q.size
         /\ \A i \in 1 .. q.size : JobsOf(q)[i] = q.slot[SlotAt(q, i)].job
  <1>1. q.size \in 0 .. RT_QUEUE_SIZE /\ q.size \in Nat
    BY RtQueueAssumption DEF RingOK, RingType
  <1>2. \A i \in 1 .. q.size : SlotAt(q, i) \in Slots
    BY <1>1, SlotAtAhead, RtQueueAssumption
  <1>3. \A i \in 1 .. q.size : q.slot[SlotAt(q, i)].job \in Jobs \cup {NoJob}
    BY <1>2 DEF RingOK, RingType, SlotType
  <1>4. QED
    BY <1>1, <1>3 DEF JobsOf

(* Writing appends to the window.                                          *)
LEMMA WriteSlotWindow ==
  ASSUME NEW q, RingOK(q), ~ RingFull(q), NEW j \in Jobs
  PROVE  JobsOf(WriteSlot(q, j)) = Append(JobsOf(q), j)
  <1> DEFINE r == WriteSlot(q, j)
  <1>1. /\ RingOK(r) /\ r.size = q.size + 1 /\ r.hw_done = q.hw_done
        /\ q.size \in 0 .. RT_QUEUE_SIZE - 1 /\ q.sw_write \in Slots
        /\ q.hw_done \in Slots
    BY WriteSlotOK, RtQueueAssumption DEF WriteSlot, RingOK, RingType, RingFull
  <1>2. \A s \in Slots : r.slot[s].job = IF s = q.sw_write THEN j ELSE q.slot[s].job
    BY <1>1 DEF WriteSlot, RingOK, RingType
  <1>3. SlotAt(r, q.size + 1) = q.sw_write
    <2>1. Ahead(q, q.sw_write) = q.size
      BY <1>1, RtQueueAssumption DEF RingOK, DoneToWrite, Ahead, Slots
    <2>2. q.size + 1 \in 1 .. RT_QUEUE_SIZE /\ (q.size + 1) - 1 = q.size
      BY <1>1, RtQueueAssumption
    <2>3. q.sw_write = SlotAt(q, q.size + 1)
      BY <1>1, <2>1, <2>2, SlotAtAhead
    <2>4. QED
      BY <1>1, <2>3 DEF SlotAt
  <1>4. ASSUME NEW i \in 1 .. q.size
        PROVE  /\ SlotAt(r, i) = SlotAt(q, i) /\ SlotAt(q, i) \in Slots
               /\ SlotAt(q, i) # q.sw_write
    <2>1. i \in 1 .. RT_QUEUE_SIZE
      BY <1>1, RtQueueAssumption
    <2>2. Ahead(q, SlotAt(q, i)) = i - 1 /\ SlotAt(q, i) \in Slots
      BY <2>1, SlotAtAhead
    <2>3. Ahead(q, q.sw_write) = q.size
      BY <1>1, RtQueueAssumption DEF RingOK, DoneToWrite, Ahead, Slots
    <2>4. QED
      BY <1>1, <2>2, <2>3 DEF SlotAt
  <1>5. /\ JobsOf(r) \in Seq(Jobs \cup {NoJob}) /\ Len(JobsOf(r)) = q.size + 1
        /\ \A i \in 1 .. q.size + 1 :
             JobsOf(r)[i] = IF i = q.size + 1 THEN j ELSE JobsOf(q)[i]
    <2>1. /\ JobsOf(r) \in Seq(Jobs \cup {NoJob}) /\ Len(JobsOf(r)) = r.size
          /\ \A i \in 1 .. r.size : JobsOf(r)[i] = r.slot[SlotAt(r, i)].job
      BY <1>1, JobsOfSeq
    <2>2. \A i \in 1 .. q.size : JobsOf(q)[i] = q.slot[SlotAt(q, i)].job
      BY JobsOfSeq
    <2>3. JobsOf(r)[q.size + 1] = j
      BY <1>1, <1>2, <1>3, <2>1
    <2>4. \A i \in 1 .. q.size : JobsOf(r)[i] = JobsOf(q)[i]
      BY <1>1, <1>2, <1>4, <2>1, <2>2, SMTT(30)
    <2>5. QED
      BY <1>1, <2>1, <2>3, <2>4
  <1>6. /\ JobsOf(q) \in Seq(Jobs \cup {NoJob}) /\ Len(JobsOf(q)) = q.size
    BY JobsOfSeq
  <1>7. /\ Append(JobsOf(q), j) \in Seq(Jobs \cup {NoJob})
        /\ Len(Append(JobsOf(q), j)) = q.size + 1
        /\ \A i \in 1 .. q.size + 1 :
             Append(JobsOf(q), j)[i] = IF i = q.size + 1 THEN j ELSE JobsOf(q)[i]
    BY <1>1, <1>6, AppendProperties
  <1>8. Len(JobsOf(r)) = Len(Append(JobsOf(q), j))
        /\ \A i \in 1 .. Len(JobsOf(r)) : JobsOf(r)[i] = Append(JobsOf(q), j)[i]
    BY <1>5, <1>7
  <1>9. QED
    BY <1>5, <1>7, <1>8, SeqEqual

(* one_done takes the oldest job off the window.                           *)
LEMMA OneDoneWindow ==
  ASSUME NEW q, RingOK(q), q.size # 0
  PROVE  /\ JobsOf(q) # <<>>
         /\ Head(JobsOf(q)) = Oldest(q).job
         /\ JobsOf(OneDone(q)) = Tail(JobsOf(q))
  <1> DEFINE r == OneDone(q)
  <1>1. /\ RingOK(r) /\ r.size = q.size - 1 /\ r.hw_done = NextSlot(q.hw_done)
        /\ q.size \in 1 .. RT_QUEUE_SIZE /\ q.hw_done \in Slots
    BY OneDoneOK, RtQueueAssumption DEF OneDone, RingOK, RingType
  <1>2. \A s \in Slots : r.slot[s].job = q.slot[s].job
    BY <1>1 DEF OneDone, Freed, RingOK, RingType
  <1>3. /\ JobsOf(q) \in Seq(Jobs \cup {NoJob}) /\ Len(JobsOf(q)) = q.size
        /\ \A i \in 1 .. q.size : JobsOf(q)[i] = q.slot[SlotAt(q, i)].job
    BY JobsOfSeq
  <1>4. JobsOf(q) # <<>>
    BY <1>1, <1>3
  <1>5. Head(JobsOf(q)) = Oldest(q).job
    <2>1. Head(JobsOf(q)) = JobsOf(q)[1]
      BY <1>3, <1>4
    <2>2. SlotAt(q, 1) = q.hw_done
      <3>1. 1 \in 1 .. RT_QUEUE_SIZE /\ Ahead(q, q.hw_done) = 1 - 1
        BY <1>1, RtQueueAssumption DEF Ahead, Slots
      <3>2. QED
        BY <1>1, <3>1, SlotAtAhead
    <2>3. QED
      BY <1>1, <1>3, <2>1, <2>2 DEF Oldest
  <1>6. /\ JobsOf(r) \in Seq(Jobs \cup {NoJob}) /\ Len(JobsOf(r)) = q.size - 1
        /\ \A i \in 1 .. q.size - 1 : JobsOf(r)[i] = r.slot[SlotAt(r, i)].job
    BY <1>1, JobsOfSeq
  <1>7. ASSUME NEW i \in 1 .. q.size - 1
        PROVE  SlotAt(r, i) = SlotAt(q, i + 1) /\ SlotAt(r, i) \in Slots
    <2>1. /\ i \in 1 .. RT_QUEUE_SIZE /\ i + 1 \in 1 .. RT_QUEUE_SIZE
          /\ i \in Nat /\ i - 1 \in Nat /\ (i + 1) - 1 = i
      BY <1>1, RtQueueAssumption
    <2>2. SlotAt(r, i) \in Slots /\ Ahead(r, SlotAt(r, i)) = i - 1
      BY <1>1, <2>1, SlotAtAhead
    <2>3. Ahead(q, SlotAt(r, i)) = i
      BY <1>1, <2>1, <2>2, NextSlotValue, RtQueueAssumption DEF Ahead, Slots
    <2>4. QED
      BY <2>1, <2>2, <2>3, SlotAtAhead
  <1>8. \A i \in 1 .. q.size - 1 : JobsOf(r)[i] = JobsOf(q)[i + 1]
    <2> SUFFICES ASSUME NEW i \in 1 .. q.size - 1
                 PROVE  JobsOf(r)[i] = JobsOf(q)[i + 1]
      OBVIOUS
    <2>1. i + 1 \in 1 .. q.size
      BY <1>1
    <2>2. JobsOf(q)[i + 1] = q.slot[SlotAt(q, i + 1)].job
      BY <1>3, <2>1
    <2>3. QED
      BY <1>2, <1>6, <1>7, <2>2
  <1>9. /\ Tail(JobsOf(q)) \in Seq(Jobs \cup {NoJob})
        /\ Len(Tail(JobsOf(q))) = q.size - 1
        /\ \A i \in 1 .. q.size - 1 : Tail(JobsOf(q))[i] = JobsOf(q)[i + 1]
    BY <1>3, <1>4, HeadTailProperties
  <1>10. JobsOf(r) = Tail(JobsOf(q))
    <2>1. Len(JobsOf(r)) = Len(Tail(JobsOf(q)))
          /\ \A i \in 1 .. Len(JobsOf(r)) : JobsOf(r)[i] = Tail(JobsOf(q))[i]
      BY <1>6, <1>8, <1>9
    <2>2. QED
      BY <1>6, <1>9, <2>1, SeqEqual
  <1>11. QED
    BY <1>4, <1>5, <1>10
=============================================================================
