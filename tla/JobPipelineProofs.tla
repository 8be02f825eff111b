------------------------- MODULE JobPipelineProofs -------------------------
(***************************************************************************)
(* Proofs about the way of a job through minergate, for any number of      *)
(* connections, jobs and ring slots, all packets and all limits.           *)
(***************************************************************************)
EXTENDS JobPipeline, RtQueueLemmas, FiniteSetTheorems

(* The job ids of the MQ, and those that a win can report for one of them. *)
Ids == {s * MQ_INCREMENTS : s \in Slots}
WinIds == {s * MQ_INCREMENTS + k : s \in Slots, k \in 0 .. MQ_INCREMENTS - 1}

HwIds == [id : Ids, job : JobOrNone]
Wins  == [id : WinIds, job : JobOrNone]

(* A job id of a win fits in 8 bits and leads to a slot of the ring.       *)
LEMMA WinIdProperties ==
  /\ \A i \in WinIds : i \in 0 .. 255 /\ WinSlot(i) \in Slots
  /\ Ids \subseteq WinIds /\ 0 \in WinIds
  /\ \A i \in Ids : i + MQ_INCREMENTS - 1 \in WinIds
<1>1. ASSUME NEW s \in Slots, NEW k \in 0 .. MQ_INCREMENTS - 1
      PROVE  /\ s * MQ_INCREMENTS + k \in 0 .. 255
             /\ WinSlot(s * MQ_INCREMENTS + k) \in Slots
  <2>1. s * MQ_INCREMENTS + k \in 0 .. 255
    BY RtQueueAssumption DEF Slots
  <2> QED
    BY <2>1, WinDecoding
<1>2. 0 \in Slots /\ 0 \in 0 .. MQ_INCREMENTS - 1 /\ 0 * MQ_INCREMENTS + 0 = 0
      /\ MQ_INCREMENTS - 1 \in 0 .. MQ_INCREMENTS - 1
  BY RtQueueAssumption DEF Slots
<1>3. \A s \in Slots :
        /\ s * MQ_INCREMENTS = s * MQ_INCREMENTS + 0
        /\ s * MQ_INCREMENTS + MQ_INCREMENTS - 1 = s * MQ_INCREMENTS + (MQ_INCREMENTS - 1)
  BY RtQueueAssumption DEF Slots
<1>4. Ids \subseteq WinIds
  BY <1>2, <1>3 DEF Ids, WinIds
<1>5. 0 \in WinIds
  BY <1>2 DEF WinIds
<1>6. \A i \in Ids : i + MQ_INCREMENTS - 1 \in WinIds
  BY <1>2, <1>3 DEF Ids, WinIds
<1> QED
  BY <1>1, <1>4, <1>5, <1>6, SMTT(30) DEF WinIds

(* What is on its way to the hardware, and what it reports, can be         *)
(* looked up in the ring.                                                  *)
LEMMA HwTypes ==
  /\ HwIds \subseteq HwJobs /\ Wins \subseteq HwJobs /\ NoWin \in Wins
  /\ \A h \in HwIds : h.id + MQ_INCREMENTS - 1 \in WinIds /\ h.job \in JobOrNone
  /\ \A w \in Wins : WinSlot(w.id) \in Slots /\ w.job \in JobOrNone
  BY WinIdProperties DEF HwIds, Wins, HwJobs, NoWin, Win, JobOrNone

(* The step of one thread, and a response.                                 *)
LEMMA GotoOK ==
  ASSUME NEW t \in Threads, NEW from, NEW to \in Labels, pc \in [Threads -> Labels],
         Goto(t, from, to)
  PROVE  /\ pc' \in [Threads -> Labels] /\ pc[t] = from /\ pc'[t] = to
         /\ \A u \in Threads \ {t} : pc'[u] = pc[u]
  BY DEF Goto

(* The RT thread is no connection, and no thread is NoThread.              *)
LEMMA ThreadsAre ==
  /\ Rt \in Threads /\ Rt \notin Sessions /\ NoThread \notin Threads
  /\ \A s \in Sessions : s \in Threads /\ s # Rt
  BY JobPipelineAssumption DEF Threads

(* push_work_rsp only ever queues well-typed responses.                    *)
LEMMA PushOK ==
  ASSUME NEW j \in JobOrNone, NEW w \in JobOrNone, NEW c \in BOOLEAN,
         rsp \in [Sessions -> Seq(Responses)], adapters \in Sessions \cup {NoThread},
         PushWorkRsp(j, w, c)
  PROVE  rsp' \in [Sessions -> Seq(Responses)]
<1>1. Response(j, w, c, FALSE) \in Responses
  BY DEF Response, Responses
<1>2. CASE adapters = NoThread
  BY <1>2 DEF PushWorkRsp
<1>3. CASE adapters # NoThread
  <2> DEFINE r == Response(j, w, c, FALSE)
  <2>1. adapters \in Sessions /\ rsp[adapters] \in Seq(Responses)
    BY <1>3
  <2>2. Append(rsp[adapters], r) \in Seq(Responses)
    BY <1>1, <2>1, AppendProperties
  <2>3. rsp' = [rsp EXCEPT ![adapters] = Append(rsp[adapters], r)]
    BY <1>3 DEF PushWorkRsp
  <2> QED
    BY <2>1, <2>2, <2>3
<1> QED
  BY <1>2, <1>3

(* The oldest job of a ring that has one.                                  *)
LEMMA OldestType ==
  ASSUME NEW q, RingOK(q)
  PROVE  Oldest(q).job \in JobOrNone /\ Oldest(q).win \in JobOrNone
  BY DEF RingOK, RingType, SlotType, Oldest, JobOrNone

(* What a win does to a slot keeps the ring in order.                      *)
LEMMA SetNonceOK ==
  ASSUME NEW q, RingOK(q), NEW i \in Slots, NEW j \in JobOrNone, NEW r,
         r = [q EXCEPT !.slot[i].win = j]
  PROVE  /\ RingOK(r) /\ r.size = q.size /\ r.hw_done = q.hw_done
         /\ r.sw_write = q.sw_write
         /\ \A s \in Slots : /\ r.slot[s].job = q.slot[s].job
                             /\ r.slot[s].state = q.slot[s].state
                             /\ r.slot[s].id = q.slot[s].id
                             /\ r.slot[s].win = IF s = i THEN j ELSE q.slot[s].win
<1>1. q \in RingType /\ q.slot \in [Slots -> SlotType]
  BY DEF RingOK, RingType
<1>2. /\ r.size = q.size /\ r.hw_done = q.hw_done /\ r.sw_write = q.sw_write
      /\ r.slot = [q.slot EXCEPT ![i] = [@ EXCEPT !.win = j]]
      /\ r = [slot |-> r.slot, sw_write |-> r.sw_write, hw_done |-> r.hw_done,
              size |-> r.size]
  <2> DEFINE S == [q.slot EXCEPT ![i] = [@ EXCEPT !.win = j]]
  <2>1. r = [q EXCEPT !.slot = S]
    OBVIOUS
  <2> HIDE DEF S
  <2>2. /\ r.size = q.size /\ r.hw_done = q.hw_done /\ r.sw_write = q.sw_write
        /\ r.slot = S
        /\ r = [slot |-> S, sw_write |-> q.sw_write, hw_done |-> q.hw_done,
                size |-> q.size]
    BY <1>1, <2>1 DEF RingType
  <2> QED
    BY <2>2 DEF S
<1>3. [q.slot[i] EXCEPT !.win = j] \in SlotType
  BY <1>1 DEF SlotType, JobOrNone
<1>4. r \in RingType
  BY <1>1, <1>2, <1>3 DEF RingType
<1>5. \A s \in Slots : /\ r.slot[s].job = q.slot[s].job
                       /\ r.slot[s].state = q.slot[s].state
                       /\ r.slot[s].id = q.slot[s].id
                       /\ r.slot[s].win = IF s = i THEN j ELSE q.slot[s].win
  BY <1>1, <1>2 DEF SlotType
<1>6. DoneToWrite(r) /\ MarkedAhead(r) /\ IdOfSlot(r)
  BY <1>2, <1>5 DEF RingOK, DoneToWrite, MarkedAhead, IdOfSlot, Ahead
<1> QED
  BY <1>2, <1>4, <1>5, <1>6 DEF RingOK

(* The slot that push_to_hw_queue_rt reads is the last one written.        *)
LEMMA LastWritten ==
  ASSUME NEW w \in Slots
  PROVE  /\ (CHOOSE s \in Slots : NextSlot(s) = w) \in Slots
         /\ NextSlot(CHOOSE s \in Slots : NextSlot(s) = w) = w
<1>1. \E s \in Slots : NextSlot(s) = w
  <2> DEFINE v == IF w = 0 THEN RT_QUEUE_SIZE - 1 ELSE w - 1
  <2>1. v \in Slots
    BY RtQueueAssumption DEF Slots
  <2>2. NextSlot(v) = w
    BY <2>1, NextSlotValue, RtQueueAssumption DEF Slots
  <2> QED
    BY <2>1, <2>2
<1> QED
  BY <1>1
-----------------------------------------------------------------------------
(* Types are inductive with what they rest on: the ring is in order, the   *)
(* hardware holds ids of slots, the RT thread has a job on its way to the  *)
(* ring, and when it writes it there the ring is not full.                 *)
QueueTyped ==
  /\ RingOK(rt) /\ work \in JobOrNone /\ tries \in {NoBist} \cup 0 .. BIST_JOBS
  /\ old \in [job : JobOrNone, win : JobOrNone]

NetTyped ==
  /\ adapters \in Sessions \cup {NoThread}
  /\ req \in [Sessions -> Seq(Jobs)]
  /\ rsp \in [Sessions -> Seq(Responses)]
  /\ delivered \in [Sessions -> Seq(Responses)]
  /\ packet \in [Sessions -> [jobs : Seq(Jobs), drop : BOOLEAN]]
  /\ owner \in [Jobs -> Sessions \cup {NoThread}]

HwTyped == mq \in Seq(HwIds) /\ asic \in Seq(HwIds) /\ wins \subseteq Wins

WinTyped == win \in [Threads -> Wins] /\ hwerrs \in 0 .. HW_ERR_LIMIT

ThreadsTyped ==
  /\ asic_mutex \in Threads \cup {NoThread}
  /\ pc \in [Threads -> Labels] /\ strays \subseteq JobOrNone /\ aborted \in BOOLEAN

RtWrites ==
  /\ pc[Rt] \in {"full", "evict", "old", "write"} => work \in Jobs
  /\ pc[Rt] \in {"old", "write"} => ~ RingFull(rt)

TInv == QueueTyped /\ NetTyped /\ HwTyped /\ WinTyped /\ ThreadsTyped /\ RtWrites

(* The inductive invariant is no weaker than the type invariant.           *)
LEMMA TInvTypes == TInv => TypeOK
<1> SUFFICES ASSUME TInv PROVE TypeOK
  OBVIOUS
<1>1. mq \in Seq(HwJobs) /\ asic \in Seq(HwJobs)
  BY HwTypes, SeqMonotonic DEF TInv, HwTyped
<1>2. wins \subseteq HwJobs /\ win \in [Threads -> HwJobs]
  BY HwTypes DEF TInv, HwTyped, WinTyped
<1> QED
  BY <1>1, <1>2
  DEF TInv, TypeOK, QueueTyped, NetTyped, WinTyped, ThreadsTyped, RingOK

(* What a step leaves alone keeps its type.                                *)
LEMMA SameRing ==
  ASSUME UNCHANGED rt
  PROVE  RingOK(rt)' = RingOK(rt) /\ RingFull(rt)' = RingFull(rt)
  BY DEF RingOK, DoneToWrite, MarkedAhead, IdOfSlot, Ahead, RingFull

(* A step keeps the type of what it does not change, part by part.         *)
LEMMA SameTypes ==
  ASSUME TInv
  PROVE  /\ UNCHANGED <<rt, work, old, tries>> => QueueTyped'
         /\ UNCHANGED <<adapters, req, rsp, delivered, packet, owner>> => NetTyped'
         /\ UNCHANGED <<mq, asic, wins>> => HwTyped'
         /\ UNCHANGED <<win, hwerrs>> => WinTyped'
         /\ UNCHANGED <<asic_mutex, pc, strays, aborted>> => ThreadsTyped'
<1>1. UNCHANGED <<rt, work, old, tries>> => QueueTyped'
  BY SameRing DEF TInv, QueueTyped
<1> QED
  BY <1>1 DEF TInv, NetTyped, HwTyped, WinTyped, ThreadsTyped

(* A process that just started is well typed.                              *)
LEMMA InitTyped == Init => TInv
<1> SUFFICES ASSUME Init PROVE TInv
  OBVIOUS
<1>1. QueueTyped
  BY ResetRingOK DEF Init, QueueTyped, JobOrNone, NoBist, NoOldWork
<1>2. NetTyped
  BY EmptySeq DEF Init, NetTyped, NoPacket
<1>3. HwTyped /\ WinTyped
  BY EmptySeq, HwTypes, JobPipelineAssumption DEF Init, HwTyped, WinTyped
<1>4. ThreadsTyped /\ RtWrites
  BY ThreadsAre DEF Init, ThreadsTyped, RtWrites, Labels
<1> QED
  BY <1>1, <1>2, <1>3, <1>4 DEF TInv

(* The steps of the RT thread.                                             *)
LEMMA HeadOK ==
  ASSUME NEW S, NEW q \in Seq(S), q # <<>>
  PROVE  Head(q) \in S /\ Tail(q) \in Seq(S)
  BY HeadTailProperties

(* try_push_to_mq goes where it is told, or starts a BIST that counts      *)
(* its jobs.                                                               *)
LEMMA TryPushOK ==
  ASSUME TInv, NEW to \in Labels, TryPush(to)
  PROVE  /\ ThreadsTyped' \/ ~ UNCHANGED <<strays, aborted>>
         /\ pc'[Rt] = to /\ tries' \in {NoBist} \cup 0 .. BIST_JOBS
<1>1. pc \in [Threads -> Labels] /\ asic_mutex \in Threads \cup {NoThread}
      /\ strays \subseteq JobOrNone /\ aborted \in BOOLEAN
      /\ tries \in {NoBist} \cup 0 .. BIST_JOBS
  BY DEF TInv, ThreadsTyped, QueueTyped
<1>2. tries > 0 => tries - 1 \in 0 .. BIST_JOBS
  BY <1>1, JobPipelineAssumption DEF NoBist
<1> QED
  BY <1>1, <1>2, ThreadsAre, GotoOK DEF TryPush, ThreadsTyped, Lock

(* Every step of the RT thread keeps the types.                            *)
LEMMA RtTyped == TInv /\ RtStep => TInv'
<1> SUFFICES ASSUME TInv, RtStep PROVE TInv'
  OBVIOUS
<1> USE ThreadsAre, SameTypes, SameRing
<1>0. /\ QueueTyped /\ NetTyped /\ HwTyped /\ WinTyped /\ ThreadsTyped /\ RtWrites
      /\ pc \in [Threads -> Labels] /\ RingOK(rt)
  BY DEF TInv, ThreadsTyped, QueueTyped
<1>1. CASE RtMqTooFull
  <2>1. ThreadsTyped' /\ RtWrites'
    BY <1>0, <1>1, GotoOK DEF RtMqTooFull, ThreadsTyped, RtWrites, Lock, Labels
  <2> QED
    BY <1>1, <2>1 DEF RtMqTooFull, TInv, queueVars, netVars, hwVars, winVars
<1>2. CASE RtPull
  <2>1. adapters \in Sessions /\ req[adapters] \in Seq(Jobs) /\ req[adapters] # <<>>
    BY <1>0, <1>2 DEF RtPull, HasRequest, NetTyped
  <2>2. Head(req[adapters]) \in Jobs /\ Tail(req[adapters]) \in Seq(Jobs)
    BY <2>1, HeadOK
  <2>3. req' = [req EXCEPT ![adapters] = Tail(req[adapters])]
    BY <1>2 DEF RtPull
  <2>4. NetTyped'
    BY <1>0, <1>2, <2>1, <2>2, <2>3 DEF RtPull, NetTyped
  <2>5. work' \in Jobs
    BY <1>2, <2>2 DEF RtPull
  <2>6. pc'[Rt] = "full" /\ ThreadsTyped' /\ tries' \in {NoBist} \cup 0 .. BIST_JOBS
    BY <1>2, TryPushOK DEF RtPull, Labels
  <2>7. QueueTyped' /\ RtWrites'
    BY <1>0, <1>2, <2>5, <2>6 DEF RtPull, QueueTyped, RtWrites, JobOrNone
  <2> QED
    BY <1>2, <2>4, <2>6, <2>7 DEF RtPull, TInv, hwVars, winVars
<1>3. CASE RtNoJob
  <2>1. pc'[Rt] = "poll" /\ ThreadsTyped' /\ tries' \in {NoBist} \cup 0 .. BIST_JOBS
    BY <1>3, TryPushOK DEF RtNoJob, Labels
  <2>2. QueueTyped' /\ RtWrites'
    BY <1>0, <1>3, <2>1 DEF RtNoJob, QueueTyped, RtWrites
  <2>3. HwTyped'
    BY <1>0, <1>3, EmptySeq DEF RtNoJob, StopHardware, HwTyped
  <2> QED
    BY <1>3, <2>1, <2>2, <2>3 DEF RtNoJob, TInv, netVars, winVars
<1>4. CASE RtTestFull
  <2>1. ThreadsTyped' /\ RtWrites'
    BY <1>0, <1>4, GotoOK
    DEF RtTestFull, ThreadsTyped, RtWrites, Labels, queueVars, RingFull
  <2> QED
    BY <1>4, <2>1 DEF RtTestFull, TInv, queueVars, netVars, hwVars, winVars
<1>5. CASE RtEvict
  <2>1. ThreadsTyped' /\ pc'[Rt] = "old" /\ pc[Rt] = "evict"
    <3>1. strays' \subseteq JobOrNone
      BY <1>0, <1>5 DEF RtEvict, ThreadsTyped
    <3> QED
      BY <1>0, <1>5, <3>1, GotoOK DEF RtEvict, ThreadsTyped, Labels
  <2>2. RingOK(rt') /\ ~ RingFull(rt')
    <3>1. CASE rt.size # 0 /\ rt' = OneDone(rt)
      BY <1>0, <3>1, OneDoneOK, RtQueueAssumption
      DEF RingFull, OneDone, RingOK, RingType
    <3>2. CASE rt.size = 0 /\ UNCHANGED rt
      BY <1>0, <3>2, RtQueueAssumption
      DEF RingFull
    <3> QED
      BY <1>5, <3>1, <3>2 DEF RtEvict
  <2>3. old' \in [job : JobOrNone, win : JobOrNone]
    BY <1>0, <1>5, OldestType DEF RtEvict, JobOrNone
  <2>4. QueueTyped' /\ RtWrites'
    BY <1>0, <1>5, <2>1, <2>2, <2>3 DEF RtEvict, QueueTyped, RtWrites
  <2> QED
    BY <1>5, <2>1, <2>4 DEF RtEvict, TInv, netVars, hwVars, winVars
<1>6. CASE RtCompleteOld
  <2>1. ThreadsTyped' /\ pc'[Rt] \in {"old", "write"} /\ pc[Rt] = "old"
    BY <1>0, <1>6, GotoOK DEF RtCompleteOld, ThreadsTyped, Labels
  <2>2. rsp' \in [Sessions -> Seq(Responses)]
    <3>1. CASE UNCHANGED rsp
      BY <1>0, <3>1 DEF NetTyped
    <3>2. CASE PushWorkRsp(old.job, old.win, TRUE)
      BY <1>0, <3>2, PushOK DEF NetTyped, QueueTyped
    <3> QED
      BY <1>6, <3>1, <3>2 DEF RtCompleteOld
  <2>3. NetTyped'
    BY <1>0, <1>6, <2>2 DEF RtCompleteOld, NetTyped
  <2>4. QueueTyped' /\ RtWrites'
    <3>1. UNCHANGED <<rt, work, tries>> /\ old' \in {old, NoOldWork}
      BY <1>6 DEF RtCompleteOld
    <3>2. old' \in [job : JobOrNone, win : JobOrNone]
      BY <1>0, <3>1 DEF QueueTyped, NoOldWork, JobOrNone
    <3> QED
      BY <1>0, <2>1, <3>1, <3>2 DEF QueueTyped, RtWrites
  <2> QED
    BY <1>6, <2>1, <2>3, <2>4 DEF RtCompleteOld, TInv, hwVars, winVars
<1>7. CASE RtWrite
  <2>1. ThreadsTyped' /\ pc'[Rt] = "hwpush" /\ pc[Rt] = "write"
    BY <1>0, <1>7, GotoOK DEF RtWrite, ThreadsTyped, Labels
  <2>2. work \in Jobs /\ ~ RingFull(rt)
    BY <1>0, <2>1 DEF RtWrites
  <2>3. RingOK(rt')
    BY <1>0, <1>7, <2>2, WriteSlotOK DEF RtWrite
  <2>4. QueueTyped' /\ RtWrites'
    BY <1>0, <1>7, <2>1, <2>3 DEF RtWrite, QueueTyped, RtWrites, JobOrNone
  <2> QED
    BY <1>7, <2>1, <2>4 DEF RtWrite, TInv, netVars, hwVars, winVars
<1>8. CASE RtPushToHw
  <2>1. ThreadsTyped' /\ RtWrites'
    BY <1>0, <1>8, GotoOK DEF RtPushToHw, ThreadsTyped, RtWrites, Labels, queueVars
  <2> DEFINE s == CHOOSE s \in Slots : NextSlot(s) = rt.sw_write
  <2>2. s \in Slots
    BY <1>0, LastWritten DEF RingOK, RingType
  <2>3. Win(rt.slot[s].id, rt.slot[s].job) \in HwIds
    BY <1>0, <2>2 DEF Win, HwIds, Ids, JobOrNone, RingOK, RingType, SlotType
  <2>4. mq' \in Seq(HwIds)
    <3>1. mq' = Append(mq, Win(rt.slot[s].id, rt.slot[s].job))
      BY <1>8 DEF RtPushToHw
    <3> HIDE DEF s
    <3> QED
      BY <1>0, <2>3, <3>1, AppendProperties DEF HwTyped
  <2>5. HwTyped'
    BY <1>0, <1>8, <2>4 DEF RtPushToHw, HwTyped
  <2> QED
    BY <1>8, <2>1, <2>5 DEF RtPushToHw, TInv, queueVars, netVars, winVars
<1>9. CASE RtBist
  <2>1. QueueTyped' /\ RtWrites'
    BY <1>0, <1>9, JobPipelineAssumption DEF RtBist, QueueTyped, RtWrites
  <2>2. HwTyped'
    BY <1>9, EmptySeq DEF RtBist, ResetHardware, HwTyped
  <2> QED
    BY <1>9, <2>1, <2>2 DEF RtBist, TInv, netVars, winVars
<1>10. CASE RtEndTick
  <2>1. ThreadsTyped'
    BY <1>0, <1>10, GotoOK DEF RtEndTick, ThreadsTyped, Labels, Unlock
  <2>2. QueueTyped' /\ RtWrites'
    BY <1>0, <1>10, GotoOK DEF RtEndTick, QueueTyped, RtWrites, Labels
  <2> QED
    BY <1>10, <2>1, <2>2 DEF RtEndTick, TInv, netVars, hwVars, winVars
<1> QED
  BY <1>1, <1>2, <1>3, <1>4, <1>5, <1>6, <1>7, <1>8, <1>9, <1>10 DEF RtStep

(* The steps that read wins.                                               *)
LEMMA WinTypedStep == ASSUME TInv, NEW t \in Threads, WinStep(t) PROVE TInv'
<1> USE ThreadsAre, SameTypes, SameRing
<1>0. /\ QueueTyped /\ NetTyped /\ HwTyped /\ WinTyped /\ ThreadsTyped /\ RtWrites
      /\ pc \in [Threads -> Labels] /\ RingOK(rt)
  BY DEF TInv, ThreadsTyped, QueueTyped
<1>1. WinSlot(win[t].id) \in Slots /\ win[t].job \in JobOrNone /\ win[t] \in Wins
  BY <1>0, HwTypes DEF WinTyped
<1>2. ASSUME NEW from, NEW to \in Labels \ {"full", "evict", "old", "write"},
             Goto(t, from, to), UNCHANGED <<asic_mutex, strays, aborted, work>>,
             rt' = rt \/ rt'.size = rt.size
      PROVE  ThreadsTyped' /\ RtWrites'
  BY <1>0, <1>2, GotoOK DEF ThreadsTyped, RtWrites, RingFull
<1> USE DEF Labels
<1>3. CASE PollWin(t)
  <2>1. ThreadsTyped' /\ RtWrites'
    BY <1>2, <1>3 DEF PollWin, queueVars
  <2>2. PICK w \in wins : win' = [win EXCEPT ![t] = w] /\ wins' = wins \ {w}
    BY <1>3 DEF PollWin
  <2>3. WinTyped' /\ HwTyped'
    BY <1>0, <1>3, <2>2 DEF PollWin, WinTyped, HwTyped
  <2> QED
    BY <1>3, <2>1, <2>3 DEF PollWin, TInv, queueVars, netVars
<1>4. CASE PollDone(t) \/ WinGood(t)
  <2>1. ThreadsTyped' /\ RtWrites'
    BY <1>2, <1>4 DEF PollDone, WinGood, queueVars
  <2> QED
    BY <1>4, <2>1 DEF PollDone, WinGood, TInv, queueVars, netVars, hwVars, winVars
<1>5. CASE WinBad(t)
  <2>1. ThreadsTyped' /\ RtWrites'
    BY <1>2, <1>5 DEF WinBad, queueVars
  <2>2. WinTyped'
    BY <1>0, <1>5, HwTypes, JobPipelineAssumption DEF WinBad, WinTyped
  <2> QED
    BY <1>5, <2>1, <2>2 DEF WinBad, TInv, queueVars, netVars, hwVars
<1>6. CASE WinRestart(t)
  <2>1. ThreadsTyped' /\ RtWrites'
    BY <1>2, <1>6 DEF WinRestart
  <2>2. WinTyped'
    BY <1>0, <1>6, HwTypes, JobPipelineAssumption DEF WinRestart, WinTyped
  <2>3. HwTyped'
    BY <1>6, EmptySeq DEF WinRestart, ResetHardware, HwTyped
  <2>4. QueueTyped'
    BY <1>0, <1>6, JobPipelineAssumption DEF WinRestart, QueueTyped
  <2> QED
    BY <1>6, <2>1, <2>2, <2>3, <2>4 DEF WinRestart, TInv, netVars
<1>10. CASE PollStuck(t)
  <2>1. ThreadsTyped' /\ RtWrites'
    <3>1. (IF t = Rt THEN "poll" ELSE "send") \in Labels \ {"full", "evict", "old", "write"}
      OBVIOUS
    <3> QED
      BY <1>2, <1>10, <3>1 DEF PollStuck
  <2>2. HwTyped'
    BY <1>10, EmptySeq DEF PollStuck, ResetHardware, HwTyped
  <2>3. QueueTyped'
    BY <1>0, <1>10, JobPipelineAssumption DEF PollStuck, QueueTyped
  <2> QED
    BY <1>10, <2>1, <2>2, <2>3 DEF PollStuck, TInv, netVars, winVars
<1>7. CASE WinSet(t)
  <2>1. RingOK(rt') /\ rt'.size = rt.size
    BY <1>0, <1>1, <1>7, SetNonceOK DEF WinSet, SetNonce, SlotOfWin
  <2>2. ThreadsTyped' /\ RtWrites'
    BY <1>2, <1>7, <2>1 DEF WinSet
  <2>3. QueueTyped'
    BY <1>0, <1>7, <2>1 DEF WinSet, QueueTyped
  <2> QED
    BY <1>7, <2>2, <2>3 DEF WinSet, TInv, netVars, hwVars, winVars
<1>8. CASE WinPush(t)
  <2>1. ThreadsTyped' /\ RtWrites'
    BY <1>2, <1>8 DEF WinPush, queueVars
  <2>2. /\ rt.slot[SlotOfWin(t)].job \in JobOrNone
        /\ rt.slot[SlotOfWin(t)].win \in JobOrNone
    BY <1>0, <1>1 DEF SlotOfWin, RingOK, RingType, SlotType, JobOrNone
  <2>3. rsp' \in [Sessions -> Seq(Responses)]
    BY <1>0, <1>8, <2>2, PushOK DEF WinPush, NetTyped
  <2>4. NetTyped'
    BY <1>0, <1>8, <2>3 DEF WinPush, NetTyped
  <2> QED
    BY <1>8, <2>1, <2>4 DEF WinPush, TInv, queueVars, hwVars, winVars
<1>9. CASE WinClear(t)
  <2>1. RingOK(rt') /\ rt'.size = rt.size
    BY <1>0, <1>1, <1>9, SetNonceOK DEF WinClear, SetNonce, SlotOfWin, JobOrNone
  <2>2. ThreadsTyped' /\ RtWrites'
    BY <1>2, <1>9, <2>1 DEF WinClear
  <2>3. QueueTyped'
    BY <1>0, <1>9, <2>1 DEF WinClear, QueueTyped
  <2>4. WinTyped'
    BY <1>0, <1>9, HwTypes, JobPipelineAssumption DEF WinClear, WinTyped
  <2> QED
    BY <1>9, <2>2, <2>3, <2>4 DEF WinClear, TInv, netVars, hwVars
<1> QED
  BY <1>3, <1>4, <1>5, <1>6, <1>7, <1>8, <1>9, <1>10 DEF WinStep

(* The jobs of a packet are the next ones of the jobs there are.           *)
LEMMA NewJobs ==
  ASSUME TInv, NEW n \in Nat,
         Cardinality({j \in Jobs : Cardinality(Submitted) < j
                                    /\ j <= Cardinality(Submitted) + n}) = n
  PROVE  /\ Cardinality(Submitted) \in Nat
         /\ [i \in 1 .. n |-> Cardinality(Submitted) + i] \in Seq(Jobs)
         /\ {j \in Jobs : Cardinality(Submitted) < j /\ j <= Cardinality(Submitted) + n}
              = Cardinality(Submitted) + 1 .. Cardinality(Submitted) + n
         /\ Cardinality(Submitted) + n <= Cardinality(Jobs)
<1> DEFINE first == Cardinality(Submitted)
           all == Cardinality(Jobs)
           new == {j \in Jobs : first < j /\ j <= first + n}
<1>1. all \in Nat /\ Jobs = 1 .. all
  BY JobPipelineAssumption, FS_CardinalityType
<1>2. first \in Nat /\ first <= all
  BY JobPipelineAssumption, FS_Subset, FS_CardinalityType DEF Submitted
<1> HIDE DEF first, all
<1>3. CASE first + n <= all
  <2>1. new = first + 1 .. first + n
    BY <1>1, <1>2, <1>3
  <2>2. [i \in 1 .. n |-> first + i] \in [1 .. n -> Jobs]
    BY <1>1, <1>2, <1>3
  <2>3. [i \in 1 .. n |-> first + i] \in Seq(Jobs)
    BY <2>2, SeqDef
  <2> QED
    BY <1>2, <1>3, <2>1, <2>3 DEF first, all
<1>4. CASE ~ (first + n <= all)
  <2>1. new = first + 1 .. all
    BY <1>1, <1>2, <1>4
  <2>2. Cardinality(new) = n
    BY DEF first
  <2> HIDE DEF new
  <2>3. Cardinality(new) = IF first + 1 > all THEN 0 ELSE all - (first + 1) + 1
    <3>1. first + 1 \in Int /\ all \in Int
      BY <1>1, <1>2
    <3>2. Cardinality(first + 1 .. all) =
            IF first + 1 > all THEN 0 ELSE all - (first + 1) + 1
      BY <3>1, FS_Interval
    <3> QED
      BY <2>1, <3>2
  <2>4. FALSE
    BY <1>1, <1>2, <1>4, <2>2, <2>3
  <2> QED
    BY <2>4
<1> QED
  BY <1>3, <1>4

(* The steps of a connection and its client.                               *)
LEMMA ConnectionTyped ==
  ASSUME TInv, NEW s \in Sessions, ClientStep(s) \/ ConnectionStep(s)
  PROVE  TInv'
<1> USE ThreadsAre, SameTypes, SameRing
<1>0. /\ QueueTyped /\ NetTyped /\ HwTyped /\ WinTyped /\ ThreadsTyped /\ RtWrites
      /\ pc \in [Threads -> Labels] /\ RingOK(rt) /\ s \in Threads
  BY DEF TInv, ThreadsTyped, QueueTyped
<1>1. ASSUME UNCHANGED <<strays, aborted, work>>, asic_mutex' \in {asic_mutex, s, NoThread},
             pc' = pc \/ \E from : \E to \in Labels : Goto(s, from, to),
             rt' = rt \/ (rt.size # 0 /\ rt' = OneDone(rt))
      PROVE  /\ ThreadsTyped' /\ RtWrites'
             /\ UNCHANGED <<old, tries>> => QueueTyped'
  <2>1. RingOK(rt') /\ (~ RingFull(rt) => ~ RingFull(rt'))
    <3>1. CASE rt.size # 0 /\ rt' = OneDone(rt)
      BY <1>0, <3>1, OneDoneOK, RtQueueAssumption
      DEF RingFull, OneDone, RingOK, RingType
    <3> QED
      BY <1>0, <1>1, <3>1
  <2>2. ThreadsTyped' /\ pc'[Rt] = pc[Rt]
    BY <1>0, <1>1, GotoOK DEF ThreadsTyped
  <2> QED
    BY <1>0, <1>1, <2>1, <2>2 DEF RtWrites, QueueTyped
<1> USE DEF Labels
<1>2. CASE Accept(s) \/ Disconnect(s)
  <2>1. adapters' \in Sessions \cup {NoThread}
    BY <1>2 DEF Accept, Disconnect
  <2>2. req' \in [Sessions -> Seq(Jobs)]
    <3> DEFINE e == <<>>
    <3>1. req' = req \/ req' = [req EXCEPT ![s] = e]
      BY <1>2 DEF Accept, Disconnect
    <3>2. e \in Seq(Jobs)
      BY EmptySeq
    <3> HIDE DEF e
    <3> QED
      BY <1>0, <3>1, <3>2 DEF NetTyped
  <2>3. rsp' \in [Sessions -> Seq(Responses)]
    <3> DEFINE e == <<>>
    <3>1. rsp' = rsp \/ rsp' = [rsp EXCEPT ![s] = e]
      BY <1>2 DEF Accept, Disconnect
    <3>2. e \in Seq(Responses)
      BY EmptySeq
    <3> HIDE DEF e
    <3> QED
      BY <1>0, <3>1, <3>2 DEF NetTyped
  <2>4. NetTyped'
    BY <1>0, <1>2, <2>1, <2>2, <2>3 DEF Accept, Disconnect, NetTyped
  <2> QED
    BY <1>1, <1>2, <2>4 DEF Accept, Disconnect, TInv, queueVars, hwVars, winVars
<1>3. CASE ClearOldJob(s)
  BY <1>1, <1>3 DEF ClearOldJob, TInv, netVars, hwVars, winVars
<1>4. CASE ClearDone(s) \/ Wake(s) \/ DropRequestsDone(s)
  BY <1>1, <1>4
  DEF ClearDone, Wake, DropRequestsDone, TInv, queueVars, netVars, hwVars, winVars
<1>5. CASE DropLock(s) \/ DropRingDone(s)
  BY <1>1, <1>5
  DEF DropLock, DropRingDone, Lock, Unlock, TInv, queueVars, netVars, hwVars, winVars
<1>6. CASE ReqsDone(s)
  <2>1. (IF packet[s].drop THEN "droplock" ELSE "send") \in Labels
    OBVIOUS
  <2>2. ThreadsTyped' /\ RtWrites'
    BY <1>1, <1>6, <2>1 DEF ReqsDone, queueVars
  <2> QED
    BY <1>6, <2>2 DEF ReqsDone, TInv, queueVars, netVars, hwVars, winVars
<1>7. CASE Receive(s)
  <2>1. PICK n \in 0 .. MaxPacket, d \in DropMasks :
          LET first == Cardinality(Submitted)
              new   == {j \in Jobs : first < j /\ j <= first + n}
          IN  /\ Cardinality(new) = n
              /\ n = 0 => d \/ rsp[s] # <<>>
              /\ packet' = [packet EXCEPT ![s] = [jobs |-> [i \in 1 .. n |-> first + i],
                                                  drop |-> d]]
              /\ owner' = [j \in Jobs |-> IF j \in new THEN s ELSE owner[j]]
    BY <1>7 DEF Receive
  <2>2. n \in Nat /\ d \in BOOLEAN
    BY JobPipelineAssumption
  <2>3. [i \in 1 .. n |-> Cardinality(Submitted) + i] \in Seq(Jobs)
    BY <2>1, <2>2, NewJobs
  <2>4. packet' \in [Sessions -> [jobs : Seq(Jobs), drop : BOOLEAN]]
    BY <1>0, <2>1, <2>2, <2>3 DEF NetTyped
  <2>5. owner' \in [Jobs -> Sessions \cup {NoThread}]
    BY <1>0, <2>1 DEF NetTyped
  <2>6. NetTyped'
    BY <1>0, <1>7, <2>4, <2>5 DEF Receive, NetTyped
  <2> QED
    BY <1>1, <1>7, <2>6 DEF Receive, TInv, queueVars, hwVars, winVars
<1>8. CASE PushWorkReq(s)
  <2> DEFINE j == Head(packet[s].jobs)
  <2>1. packet[s].jobs \in Seq(Jobs) /\ packet[s].jobs # <<>>
    BY <1>0, <1>8 DEF PushWorkReq, NetTyped
  <2>2. j \in Jobs /\ Tail(packet[s].jobs) \in Seq(Jobs)
    BY <2>1, HeadOK
  <2> HIDE DEF j
  <2>3. Response(j, NoJob, TRUE, TRUE) \in Responses
    BY <2>2 DEF Response, Responses, JobOrNone
  <2>4. req[s] \in Seq(Jobs) /\ rsp[s] \in Seq(Responses)
    BY <1>0 DEF NetTyped
  <2>5. /\ Append(req[s], j) \in Seq(Jobs)
        /\ Append(rsp[s], Response(j, NoJob, TRUE, TRUE)) \in Seq(Responses)
    BY <2>2, <2>3, <2>4, AppendProperties
  <2>6. /\ \/ req' = req
           \/ req' = [req EXCEPT ![s] = Append(req[s], j)]
        /\ \/ rsp' = rsp
           \/ rsp' = [rsp EXCEPT ![s] = Append(rsp[s], Response(j, NoJob, TRUE, TRUE))]
        /\ packet' = [packet EXCEPT ![s].jobs = Tail(packet[s].jobs)]
    BY <1>8 DEF PushWorkReq, j
  <2>7. req' \in [Sessions -> Seq(Jobs)]
    BY <1>0, <2>5, <2>6 DEF NetTyped
  <2>8. rsp' \in [Sessions -> Seq(Responses)]
    BY <1>0, <2>5, <2>6 DEF NetTyped
  <2>9. packet' \in [Sessions -> [jobs : Seq(Jobs), drop : BOOLEAN]]
    BY <1>0, <2>2, <2>6, ZenonT(60) DEF NetTyped
  <2>10. NetTyped'
    BY <1>0, <1>8, <2>7, <2>8, <2>9 DEF PushWorkReq, NetTyped
  <2> QED
    BY <1>1, <1>8, <2>10 DEF PushWorkReq, TInv, queueVars, hwVars, winVars
<1>9. CASE DropRingJob(s)
  <2>1. rsp' \in [Sessions -> Seq(Responses)]
    BY <1>0, <1>9, OldestType, PushOK DEF DropRingJob, NetTyped
  <2>2. NetTyped'
    BY <1>0, <1>9, <2>1 DEF DropRingJob, NetTyped
  <2> QED
    BY <1>1, <1>9, <2>2 DEF DropRingJob, TInv, hwVars, winVars
<1>10. CASE DropPull(s)
  <2>1. adapters \in Sessions /\ req[adapters] \in Seq(Jobs) /\ req[adapters] # <<>>
    BY <1>0, <1>10 DEF DropPull, HasRequest, NetTyped
  <2>2. Head(req[adapters]) \in Jobs /\ Tail(req[adapters]) \in Seq(Jobs)
    BY <2>1, HeadOK
  <2> DEFINE one == <<Head(req[adapters])>>
  <2>3. one \in Seq(Jobs)
    BY <2>2
  <2>4. /\ req' = [req EXCEPT ![adapters] = Tail(req[adapters])]
        /\ packet' = [packet EXCEPT ![s].jobs = one]
    BY <1>10 DEF DropPull
  <2> HIDE DEF one
  <2>5. packet' \in [Sessions -> [jobs : Seq(Jobs), drop : BOOLEAN]]
    BY <1>0, <2>3, <2>4, ZenonT(60) DEF NetTyped
  <2>6. NetTyped'
    BY <1>0, <1>10, <2>1, <2>2, <2>4, <2>5 DEF DropPull, NetTyped
  <2> QED
    BY <1>1, <1>10, <2>6 DEF DropPull, TInv, queueVars, hwVars, winVars
<1>13. CASE DropPush(s)
  <2>1. packet[s].jobs \in Seq(Jobs) /\ packet[s].jobs # <<>>
    BY <1>0, <1>13 DEF DropPush, NetTyped
  <2>2. Head(packet[s].jobs) \in JobOrNone
    BY <2>1, HeadOK DEF JobOrNone
  <2>3. rsp' \in [Sessions -> Seq(Responses)]
    BY <1>0, <1>13, <2>2, PushOK DEF DropPush, NetTyped, JobOrNone
  <2> DEFINE e == <<>>
  <2>4. e \in Seq(Jobs) /\ packet' = [packet EXCEPT ![s].jobs = e]
    BY <1>13, EmptySeq DEF DropPush
  <2> HIDE DEF e
  <2>5. packet' \in [Sessions -> [jobs : Seq(Jobs), drop : BOOLEAN]]
    BY <1>0, <2>4, ZenonT(60) DEF NetTyped
  <2>6. NetTyped'
    BY <1>0, <1>13, <2>3, <2>5 DEF DropPush, NetTyped
  <2> QED
    BY <1>1, <1>13, <2>6 DEF DropPush, TInv, queueVars, hwVars, winVars
<1>11. CASE DropStop(s)
  <2>1. HwTyped'
    BY <1>0, <1>11, EmptySeq DEF DropStop, StopHardware, HwTyped
  <2> QED
    BY <1>1, <1>11, <2>1 DEF DropStop, TInv, queueVars, netVars, winVars
<1>12. CASE Send(s)
  <2> DEFINE n == IF Len(rsp[s]) > MAX_RESPONDS THEN MAX_RESPONDS ELSE Len(rsp[s])
  <2>1. rsp[s] \in Seq(Responses) /\ delivered[s] \in Seq(Responses)
        /\ Len(rsp[s]) \in Nat /\ n \in Nat /\ n <= Len(rsp[s])
    BY <1>0, LenProperties, JobPipelineAssumption DEF NetTyped
  <2> HIDE DEF n
  <2>2. /\ SubSeq(rsp[s], 1, n) \in Seq(Responses)
        /\ SubSeq(rsp[s], n + 1, Len(rsp[s])) \in Seq(Responses)
    BY <2>1
  <2>3. delivered[s] \o SubSeq(rsp[s], 1, n) \in Seq(Responses)
    BY <2>1, <2>2, ConcatProperties
  <2>4. /\ delivered' = [delivered EXCEPT ![s] = delivered[s] \o SubSeq(rsp[s], 1, n)]
        /\ rsp' = [rsp EXCEPT ![s] = SubSeq(rsp[s], n + 1, Len(rsp[s]))]
        /\ packet' = [packet EXCEPT ![s] = NoPacket]
    BY <1>12 DEF Send, n
  <2>5. NoPacket \in [jobs : Seq(Jobs), drop : BOOLEAN]
    BY EmptySeq DEF NoPacket
  <2>6. /\ delivered' \in [Sessions -> Seq(Responses)]
        /\ rsp' \in [Sessions -> Seq(Responses)]
    BY <1>0, <2>2, <2>3, <2>4 DEF NetTyped
  <2>7. packet' \in [Sessions -> [jobs : Seq(Jobs), drop : BOOLEAN]]
    BY <1>0, <2>4, <2>5 DEF NetTyped
  <2>8. NetTyped'
    BY <1>0, <1>12, <2>6, <2>7 DEF Send, NetTyped
  <2> QED
    BY <1>1, <1>12, <2>8 DEF Send, TInv, queueVars, hwVars, winVars
<1> QED
  BY <1>2, <1>3, <1>4, <1>5, <1>6, <1>7, <1>8, <1>9, <1>10, <1>11, <1>12, <1>13
  DEF ClientStep, ConnectionStep

(* The hardware, external to the code, keeps them.                         *)
LEMMA HwTypedStep == TInv /\ (HwLoad \/ HwFinish \/ HwWin) => TInv'
<1> SUFFICES ASSUME TInv, HwLoad \/ HwFinish \/ HwWin PROVE TInv'
  OBVIOUS
<1>1. /\ mq \in Seq(HwIds) /\ asic \in Seq(HwIds) /\ wins \subseteq Wins
      /\ RtWrites
  BY DEF TInv, HwTyped
<1>2. HwTyped'
  <2>1. CASE HwLoad
    <3>1. Head(mq) \in HwIds /\ Tail(mq) \in Seq(HwIds)
      BY <1>1, <2>1, HeadOK DEF HwLoad
    <3>2. Append(asic, Head(mq)) \in Seq(HwIds)
      BY <1>1, <3>1, AppendProperties
    <3> QED
      BY <1>1, <2>1, <3>1, <3>2 DEF HwLoad, HwTyped
  <2>2. CASE HwFinish
    BY <1>1, <2>2, HeadOK DEF HwFinish, HwTyped
  <2>3. CASE HwWin
    <3>1. Head(asic) \in HwIds
      BY <1>1, <2>3, HeadOK DEF HwWin
    <3>2. \A j \in {Head(asic).job, NoJob} :
            Win(Head(asic).id + MQ_INCREMENTS - 1, j) \in Wins
      BY <3>1, HwTypes DEF Win, Wins, JobOrNone
    <3> QED
      BY <1>1, <2>3, <3>2 DEF HwWin, HwTyped
  <2> QED
    BY <2>1, <2>2, <2>3
<1>3. RtWrites'
  BY <1>1, SameRing DEF HwLoad, HwFinish, HwWin, RtWrites, queueVars
<1> QED
  BY <1>2, <1>3, SameTypes DEF HwLoad, HwFinish, HwWin, TInv, queueVars, netVars, winVars

(* Every reachable state is well typed.                                    *)
LEMMA TInvariance == Spec => []TInv
<1>1. TInv /\ [Next]_vars => TInv'
  <2> SUFFICES ASSUME TInv, [Next]_vars PROVE TInv'
    OBVIOUS
  <2>1. CASE UNCHANGED vars
    BY <2>1, SameTypes, SameRing
    DEF vars, TInv, RtWrites, queueVars, netVars, hwVars, winVars
  <2> QED
    BY <2>1, RtTyped, WinTypedStep, ConnectionTyped, HwTypedStep DEF Next
<1> QED
  BY <1>1, InitTyped, PTL DEF Spec

(* Whatever the threads, clients and ASICs do, every variable of the job   *)
(* pipeline keeps its type: no index leaves the ring, and no id its 8 bits. *)
THEOREM Typing == Spec => []TypeOK
  BY TInvariance, TInvTypes, PTL
-----------------------------------------------------------------------------
(* Clients that never set the drop bit keep their threads out of the drop  *)
(* path, so that only the RT thread reads wins.                            *)
WithoutDrops == {"off", "clear", "read", "wake", "reqs", "send", "gone"}

NoDrops ==
  \A s \in Sessions : packet[s].drop = FALSE /\ pc[s] \in WithoutDrops

(* Where no packet has the drop bit, no connection comes to the labels     *)
(* of a drop.                                                              *)
LEMMA NoDropsStep ==
  ASSUME DropMasks \subseteq {FALSE}, TInv, NoDrops, [Next]_vars
  PROVE  NoDrops'
<1> USE ThreadsAre DEF WithoutDrops
<1>0. /\ packet \in [Sessions -> [jobs : Seq(Jobs), drop : BOOLEAN]]
      /\ pc \in [Threads -> Labels]
  BY DEF TInv, NetTyped, ThreadsTyped
<1>1. ASSUME UNCHANGED packet, \A s \in Sessions : pc'[s] \in WithoutDrops
      PROVE  NoDrops'
  BY <1>1 DEF NoDrops
<1>2. CASE RtStep
  <2>1. UNCHANGED packet
    BY <1>2 DEF RtStep, RtMqTooFull, RtPull, RtNoJob, RtTestFull, RtEvict, RtCompleteOld,
       RtWrite, RtPushToHw, RtBist, RtEndTick, netVars
  <2>2. \A s \in Sessions : pc'[s] = pc[s]
    BY <1>0, <1>2 DEF RtStep, RtMqTooFull, RtPull, RtNoJob, RtTestFull, RtEvict,
       RtCompleteOld, RtWrite, RtPushToHw, RtBist, RtEndTick, TryPush, Goto
  <2> QED
    BY <1>1, <2>1, <2>2 DEF NoDrops
<1>3. ASSUME NEW t \in Threads, WinStep(t) PROVE NoDrops'
  <2>1. UNCHANGED packet
    BY <1>3 DEF WinStep, PollWin, PollDone, PollStuck, WinGood, WinBad, WinRestart, WinSet, WinPush,
       WinClear, netVars
  <2>2. t = Rt \/ pc[t] \in WithoutDrops
    BY DEF Threads, NoDrops
  <2>3. \A s \in Sessions : pc'[s] = pc[s]
    BY <1>0, <1>3, <2>2 DEF WinStep, PollWin, PollDone, PollStuck, WinGood, WinBad, WinRestart,
       WinSet, WinPush, WinClear, Goto
  <2> QED
    BY <1>1, <2>1, <2>3 DEF NoDrops
<1>4. ASSUME NEW s \in Sessions, ClientStep(s) \/ ConnectionStep(s) PROVE NoDrops'
  <2>1. packet[s].drop = FALSE /\ pc[s] \in WithoutDrops
    BY DEF NoDrops
  <2>2. /\ pc'[s] \in WithoutDrops
        /\ \A u \in Sessions \ {s} : pc'[u] = pc[u]
    BY <1>0, <1>4, <2>1 DEF ClientStep, ConnectionStep, Accept, Receive, Disconnect,
       ClearOldJob, ClearDone, Wake, PushWorkReq, ReqsDone, DropLock, DropRingJob,
       DropRingDone, DropPull, DropPush, DropRequestsDone, DropStop, Send, Goto
  <2>3. /\ packet'[s].drop = FALSE
        /\ \A u \in Sessions \ {s} : packet'[u] = packet[u]
    <3>1. CASE Receive(s)
      <4> DEFINE jobs(n) == [i \in 1 .. n |-> Cardinality(Submitted) + i]
      <4>1. PICK n \in 0 .. MaxPacket, d \in DropMasks :
              packet' = [packet EXCEPT ![s] = [jobs |-> jobs(n), drop |-> d]]
        BY <3>1 DEF Receive
      <4> HIDE DEF jobs
      <4> QED
        BY <1>0, <4>1
    <3>2. CASE PushWorkReq(s)
      BY <1>0, <2>1, <3>2 DEF PushWorkReq
    <3>3. CASE Send(s)
      BY <1>0, <3>3 DEF Send, NoPacket
    <3>4. CASE UNCHANGED packet
      BY <2>1, <3>4
    <3> QED
      BY <1>4, <2>1, <3>1, <3>2, <3>3, <3>4 DEF ClientStep, ConnectionStep, Accept, Disconnect,
         ClearOldJob, ClearDone, Wake, ReqsDone, DropLock, DropRingJob, DropRingDone,
         DropPull, DropPush, DropRequestsDone, DropStop, Goto, netVars
  <2> QED
    BY <2>2, <2>3 DEF NoDrops
<1>5. CASE HwLoad \/ HwFinish \/ HwWin \/ UNCHANGED vars
  BY <1>1, <1>5 DEF HwLoad, HwFinish, HwWin, vars, netVars, NoDrops
<1> QED
  BY <1>2, <1>3, <1>4, <1>5 DEF Next

(* Without the drop bit no connection ever drops old work.                 *)
LEMMA NoDropsInvariance ==
  ASSUME DropMasks \subseteq {FALSE}
  PROVE  Spec => []NoDrops
<1>1. Init => NoDrops
  BY ThreadsAre DEF Init, NoDrops, NoPacket, WithoutDrops
<1> QED
  BY <1>1, NoDropsStep, TInvariance, PTL DEF Spec
-----------------------------------------------------------------------------
(* Wins are credited right without drops.  A slot carries a nonce only     *)
(* while the RT thread reports it, from setting to clearing it, and then   *)
(* it is the nonce of the slot's own job.                                  *)
Credited == {r \in Responses : IF r.complete THEN r.win = NoJob ELSE r.win = r.job}

WInv ==
  /\ \A s \in Sessions : rsp[s] \in Seq(Credited) /\ delivered[s] \in Seq(Credited)
  /\ \A i \in Slots : rt.slot[i].win # NoJob =>
                        pc[Rt] \in {"winpush", "winclear"} /\ i = SlotOfWin(Rt)
  /\ pc[Rt] \in {"winset", "winpush", "winclear"} =>
       win[Rt].job # NoJob /\ rt.slot[SlotOfWin(Rt)].job = win[Rt].job
  /\ pc[Rt] \in {"winpush", "winclear"} => rt.slot[SlotOfWin(Rt)].win = win[Rt].job

(* A response that credits its job rightly is queued as it is.             *)
LEMMA PushCredited ==
  ASSUME TInv, \A s \in Sessions : rsp[s] \in Seq(Credited),
         NEW j \in JobOrNone, NEW w \in JobOrNone, NEW c \in BOOLEAN,
         IF c THEN w = NoJob ELSE w = j, PushWorkRsp(j, w, c)
  PROVE  \A s \in Sessions : rsp'[s] \in Seq(Credited)
<1>1. Response(j, w, c, FALSE) \in Credited
  BY DEF Response, Responses, Credited
<1>2. /\ rsp \in [Sessions -> Seq(Responses)] /\ adapters \in Sessions \cup {NoThread}
  BY DEF TInv, NetTyped
<1> DEFINE r == Response(j, w, c, FALSE)
<1>3. rsp' = rsp \/ (adapters \in Sessions
                      /\ rsp' = [rsp EXCEPT ![adapters] = Append(rsp[adapters], r)])
  BY <1>2 DEF PushWorkRsp
<1>4. \A s \in Sessions : Append(rsp[s], r) \in Seq(Credited)
  BY <1>1, AppendProperties
<1> HIDE DEF r
<1> QED
  BY <1>2, <1>3, <1>4

(* A step that leaves the slots, the RT thread's win and all replies alone *)
(* and does not take the RT thread to or from the report of a win.         *)
Unconcerned ==
  /\ UNCHANGED <<rt, rsp, delivered>> /\ win'[Rt] = win[Rt]
  /\ \/ pc'[Rt] = pc[Rt]
     \/ /\ pc[Rt] \notin {"win", "winset", "winpush", "winclear"}
        /\ pc'[Rt] \notin {"win", "winset", "winpush", "winclear"}

(* Steps that touch neither ring, wins nor responses keep every credit     *)
(* right.                                                                  *)
LEMMA SameCredit == WInv /\ Unconcerned => WInv'
  BY DEF WInv, SlotOfWin, Unconcerned

(* The steps of the RT thread: an evicted job answers without a nonce of   *)
(* another.                                                                *)
LEMMA RtCredit ==
  ASSUME TInv, WInv, RtStep
  PROVE  WInv'
<1>0. /\ pc \in [Threads -> Labels] /\ Rt \in Threads /\ RingOK(rt)
      /\ rt.slot \in [Slots -> SlotType]
  BY ThreadsAre DEF TInv, ThreadsTyped, QueueTyped, RingOK, RingType
<1>1. CASE RtMqTooFull \/ RtPull \/ RtNoJob \/ RtTestFull \/ RtPushToHw \/ RtBist \/ RtEndTick
  <2>1. UNCHANGED <<rt, rsp, delivered>> /\ win'[Rt] = win[Rt]
    BY <1>1 DEF RtMqTooFull, RtPull, RtNoJob, RtTestFull, RtPushToHw, RtBist, RtEndTick,
       queueVars, netVars, winVars
  <2>2. \/ pc'[Rt] = pc[Rt]
        \/ /\ pc[Rt] \notin {"win", "winset", "winpush", "winclear"}
           /\ pc'[Rt] \notin {"win", "winset", "winpush", "winclear"}
    BY <1>0, <1>1 DEF RtMqTooFull, RtPull, RtNoJob, RtTestFull, RtPushToHw, RtBist,
       RtEndTick, TryPush, Goto
  <2> QED
    BY <2>1, <2>2, SameCredit DEF Unconcerned
<1>2. CASE RtEvict \/ RtWrite
  <2>1. /\ UNCHANGED <<rsp, delivered, win>> /\ pc[Rt] \in {"evict", "write"}
        /\ pc'[Rt] \in {"old", "hwpush"}
    BY <1>0, <1>2 DEF RtEvict, RtWrite, Goto, netVars, winVars
  <2>2. \A i \in Slots : rt'.slot[i].win = NoJob
    <3>1. \A i \in Slots : rt.slot[i].win = NoJob
      BY <2>1 DEF WInv
    <3>2. CASE RtEvict
      BY <1>0, <3>1, <3>2 DEF RtEvict, OneDone, Freed
    <3>3. CASE RtWrite
      BY <1>0, <3>1, <3>3 DEF RtWrite, WriteSlot
    <3> QED
      BY <1>2, <3>2, <3>3
  <2> QED
    BY <2>1, <2>2 DEF WInv
<1>3. CASE RtCompleteOld
  <2>1. /\ UNCHANGED <<rt, delivered, win>> /\ pc[Rt] = "old" /\ pc'[Rt] \in {"old", "write"}
    BY <1>0, <1>3 DEF RtCompleteOld, Goto, winVars
  <2>2. \A s \in Sessions : rsp'[s] \in Seq(Credited)
    <3>1. CASE UNCHANGED rsp
      BY <3>1 DEF WInv
    <3>2. CASE old.win = NoJob /\ PushWorkRsp(old.job, old.win, TRUE)
      BY <3>2, PushCredited DEF WInv, TInv, QueueTyped
    <3> QED
      BY <1>3, <3>1, <3>2 DEF RtCompleteOld
  <2> QED
    BY <2>1, <2>2 DEF WInv
<1> QED
  BY <1>1, <1>2, <1>3 DEF RtStep

(* The polling of wins: the nonce is hashed against the job in the slot    *)
(* it is stored in.                                                        *)
LEMMA WinCredit ==
  ASSUME TInv, WInv, WinStep(Rt)
  PROVE  WInv'
<1>0. /\ pc \in [Threads -> Labels] /\ win \in [Threads -> Wins] /\ Rt \in Threads
      /\ RingOK(rt) /\ rt.slot \in [Slots -> SlotType]
  BY ThreadsAre DEF TInv, ThreadsTyped, WinTyped, QueueTyped, RingOK, RingType
<1> DEFINE i == SlotOfWin(Rt)
<1>1. i \in Slots /\ win[Rt].job \in JobOrNone
  BY <1>0, HwTypes DEF SlotOfWin
<1>2. CASE PollWin(Rt) \/ PollStuck(Rt) \/ WinBad(Rt) \/ WinRestart(Rt)
  <2>1. /\ UNCHANGED <<rt, rsp, delivered>>
        /\ pc[Rt] \in {"poll", "win"} /\ pc'[Rt] \in {"poll", "win"}
    BY <1>0, <1>2 DEF PollWin, PollStuck, WinBad, WinRestart, Goto, queueVars, netVars
  <2> QED
    BY <2>1 DEF WInv
<1>3. CASE WinGood(Rt)
  <2>1. /\ UNCHANGED <<rt, rsp, delivered, win>>
        /\ pc[Rt] = "win" /\ pc'[Rt] = "winset" /\ WinIsGood(Rt)
    BY <1>0, <1>3 DEF WinGood, Goto, queueVars, netVars, winVars
  <2> QED
    BY <2>1 DEF WInv, WinIsGood, SlotOfWin
<1>4. CASE WinSet(Rt)
  <2>1. /\ UNCHANGED <<rsp, delivered, win>> /\ pc[Rt] = "winset" /\ pc'[Rt] = "winpush"
        /\ rt' = [rt EXCEPT !.slot[i].win = win[Rt].job]
    BY <1>0, <1>4 DEF WinSet, SetNonce, Goto, netVars, winVars
  <2>2. \A s \in Slots : /\ rt'.slot[s].job = rt.slot[s].job
                         /\ rt'.slot[s].win = IF s = i THEN win[Rt].job ELSE rt.slot[s].win
    BY <1>0, <1>1, <2>1, SetNonceOK
  <2>3. SlotOfWin(Rt)' = i
    BY <2>1 DEF SlotOfWin
  <2> HIDE DEF i
  <2> QED
    BY <1>1, <2>1, <2>2, <2>3 DEF WInv, i
<1>5. CASE WinPush(Rt)
  <2>1. /\ UNCHANGED <<rt, delivered, win>> /\ pc[Rt] = "winpush" /\ pc'[Rt] = "winclear"
        /\ PushWorkRsp(rt.slot[i].job, rt.slot[i].win, FALSE)
    BY <1>0, <1>5 DEF WinPush, Goto, queueVars, winVars
  <2>2. rt.slot[i].win = rt.slot[i].job /\ rt.slot[i].job \in JobOrNone
    BY <1>0, <1>1, <2>1 DEF WInv, SlotType, JobOrNone
  <2>3. \A s \in Sessions : rsp'[s] \in Seq(Credited)
    BY <2>1, <2>2, PushCredited DEF WInv
  <2> QED
    BY <2>1, <2>3 DEF WInv, SlotOfWin
<1>6. CASE WinClear(Rt)
  <2>1. /\ UNCHANGED <<rsp, delivered>> /\ pc[Rt] = "winclear" /\ pc'[Rt] = "poll"
        /\ rt' = [rt EXCEPT !.slot[i].win = NoJob]
    BY <1>0, <1>6 DEF WinClear, SetNonce, Goto, netVars
  <2>2. \A s \in Slots : rt'.slot[s].win = IF s = i THEN NoJob ELSE rt.slot[s].win
    BY <1>0, <1>1, <2>1, SetNonceOK DEF JobOrNone
  <2>3. \A s \in Slots : rt'.slot[s].win = NoJob
    BY <2>1, <2>2 DEF WInv
  <2> QED
    BY <2>1, <2>3 DEF WInv
<1> QED
  BY <1>2, <1>3, <1>4, <1>5, <1>6 DEF WinStep, PollDone

(* Connections move responses and empty rings, and credit nothing.         *)
LEMMA ConnectionCredit ==
  ASSUME TInv, NoDrops, WInv, NEW s \in Sessions, ClientStep(s) \/ ConnectionStep(s)
  PROVE  WInv'
<1>0. /\ pc \in [Threads -> Labels] /\ RingOK(rt) /\ rt.slot \in [Slots -> SlotType]
      /\ rsp \in [Sessions -> Seq(Responses)] /\ delivered \in [Sessions -> Seq(Responses)]
      /\ rt.hw_done \in Slots /\ pc[s] \in WithoutDrops
  BY DEF TInv, ThreadsTyped, QueueTyped, NetTyped, RingOK, RingType, NoDrops
<1>1. /\ pc'[Rt] = pc[Rt] /\ UNCHANGED win
      /\ \A i \in Slots : rt'.slot[i].win = rt.slot[i].win /\ rt'.slot[i].job = rt.slot[i].job
  <2>1. pc'[Rt] = pc[Rt] /\ UNCHANGED win /\ (rt' = rt \/ rt' = OneDone(rt))
    BY <1>0, ThreadsAre DEF ClientStep, ConnectionStep, Accept, Receive, Disconnect,
       ClearOldJob, ClearDone, Wake, PushWorkReq, ReqsDone, DropLock, DropRingJob,
       DropRingDone, DropPull, DropPush, DropRequestsDone, DropStop, Send, Goto, queueVars, winVars
  <2>2. \A i \in Slots : /\ OneDone(rt).slot[i].win = rt.slot[i].win
                         /\ OneDone(rt).slot[i].job = rt.slot[i].job
    BY <1>0 DEF OneDone, Freed
  <2> QED
    BY <2>1, <2>2
<1>2. \A u \in Sessions : rsp'[u] \in Seq(Credited) /\ delivered'[u] \in Seq(Credited)
  <2>0. \A u \in Sessions : rsp[u] \in Seq(Credited) /\ delivered[u] \in Seq(Credited)
    BY DEF WInv
  <2>1. CASE PushWorkReq(s)
    <3> DEFINE r == Response(Head(packet[s].jobs), NoJob, TRUE, TRUE)
    <3>1. packet[s].jobs \in Seq(Jobs) /\ packet[s].jobs # <<>>
      BY <2>1 DEF PushWorkReq, TInv, NetTyped
    <3>2. r \in Credited
      BY <3>1, HeadOK DEF Response, Responses, Credited, JobOrNone
    <3>3. Append(rsp[s], r) \in Seq(Credited)
      BY <2>0, <3>2, AppendProperties
    <3>4. (rsp' = rsp \/ rsp' = [rsp EXCEPT ![s] = Append(rsp[s], r)]) /\ UNCHANGED delivered
      BY <2>1 DEF PushWorkReq
    <3> HIDE DEF r
    <3> QED
      BY <1>0, <2>0, <3>3, <3>4
  <2>2. CASE Send(s)
    <3> DEFINE n == IF Len(rsp[s]) > MAX_RESPONDS THEN MAX_RESPONDS ELSE Len(rsp[s])
    <3>1. Len(rsp[s]) \in Nat /\ n \in Nat /\ n <= Len(rsp[s])
      BY <1>0, LenProperties, JobPipelineAssumption
    <3>2. /\ delivered' = [delivered EXCEPT ![s] = delivered[s] \o SubSeq(rsp[s], 1, n)]
          /\ rsp' = [rsp EXCEPT ![s] = SubSeq(rsp[s], n + 1, Len(rsp[s]))]
      BY <2>2 DEF Send
    <3> HIDE DEF n
    <3>3. /\ SubSeq(rsp[s], 1, n) \in Seq(Credited)
          /\ SubSeq(rsp[s], n + 1, Len(rsp[s])) \in Seq(Credited)
      BY <2>0, <3>1
    <3>4. delivered[s] \o SubSeq(rsp[s], 1, n) \in Seq(Credited)
      BY <2>0, <3>3, ConcatProperties
    <3> QED
      BY <1>0, <2>0, <3>2, <3>3, <3>4
  <2>3. CASE Disconnect(s)
    <3> DEFINE e == <<>>
    <3>1. rsp' = [rsp EXCEPT ![s] = e] /\ UNCHANGED delivered /\ e \in Seq(Credited)
      BY <2>3, EmptySeq DEF Disconnect
    <3> HIDE DEF e
    <3> QED
      BY <1>0, <2>0, <3>1
  <2>4. CASE UNCHANGED <<rsp, delivered>>
    BY <2>0, <2>4
  <2> QED
    BY <1>0, <2>1, <2>2, <2>3, <2>4 DEF ClientStep, ConnectionStep, Accept, Receive,
       ClearOldJob, ClearDone, Wake, ReqsDone, DropLock, DropRingJob,
       DropRingDone, DropPull, DropPush, DropRequestsDone, DropStop, Goto, netVars, WithoutDrops
<1> QED
  BY <1>0, <1>1, <1>2, HwTypes, ThreadsAre DEF WInv, SlotOfWin, TInv, WinTyped

(* No step credits a nonce to a job it does not solve.                     *)
LEMMA CreditStep ==
  ASSUME TInv, NoDrops, WInv, [Next]_vars
  PROVE  WInv'
<1>1. ASSUME NEW s \in Sessions PROVE ~ WinStep(s)
  BY <1>1 DEF NoDrops, WithoutDrops, WinStep, PollWin, PollDone, PollStuck, WinGood, WinBad,
     WinRestart, WinSet, WinPush, WinClear, Goto
<1>2. CASE HwLoad \/ HwFinish \/ HwWin \/ UNCHANGED vars
  <2>1. Unconcerned
    BY <1>2 DEF HwLoad, HwFinish, HwWin, vars, queueVars, netVars, winVars, Unconcerned
  <2> QED
    BY <2>1, SameCredit
<1> QED
  BY <1>1, <1>2, RtCredit, WinCredit, ConnectionCredit DEF Next, Threads

(* Nonces are credited rightly in every reachable state.                   *)
LEMMA WInvariance ==
  ASSUME DropMasks \subseteq {FALSE}
  PROVE  Spec => []WInv
<1>1. Init => WInv
  BY EmptySeq, ThreadsAre DEF Init, WInv, ResetRing, BlankSlot
<1> QED
  BY <1>1, CreditStep, TInvariance, NoDropsInvariance, PTL DEF Spec

(* Without drops every nonce that a client hears is for the job it solves, *)
(* and comes in a win: however often the slots are used again, clients     *)
(* come and go, and engines make nonces up.                                *)
THEOREM WinsAreCredited ==
  ASSUME DropMasks \subseteq {FALSE}
  PROVE  Spec => []WinsCreditTheirJob
<1>1. TInv /\ WInv => WinsCreditTheirJob
  <2> SUFFICES ASSUME WInv, NEW s \in Sessions, NEW i \in 1 .. Len(Answers(s))
               PROVE  LET r == Answers(s)[i]
                      IN  IF r.complete THEN r.win = NoJob ELSE r.win = r.job
    BY DEF WinsCreditTheirJob
  <2>1. Answers(s) \in Seq(Credited)
    BY ConcatProperties DEF WInv, Answers
  <2>2. Answers(s)[i] \in Credited
    BY <2>1, ElementOfSeq
  <2> QED
    BY <2>2 DEF Credited
<1> QED
  BY <1>1, WInvariance, TInvariance, PTL
-----------------------------------------------------------------------------
(***************************************************************************)
(* One client that stays connected: no job is lost or handled twice, drops *)
(* or not.  Of a client that never drops, more: what it hears of a job     *)
(* ends with its completion, an evicted job has no nonce, and the          *)
(* hardware's jobs keep their slots.                                       *)
(* With a second connection, or a lost one, this is not so: a new          *)
(* connection throws the jobs of the last one away.                        *)
(***************************************************************************)
Client == CHOOSE s \in Sessions : TRUE

OneClient == Sessions = {Client} /\ Disconnects = FALSE

(* The client is the only connection; the RT thread is the only other      *)
(* thread.                                                                 *)
LEMMA ClientIs ==
  ASSUME OneClient
  PROVE  /\ Client \in Sessions /\ Client \in Threads /\ Client # Rt /\ Client # NoThread
         /\ \A s \in Sessions : s = Client
         /\ Threads = {Client, Rt}
  BY ThreadsAre DEF OneClient, Threads

(* The places a job can be in, as sets of jobs.                            *)
LiveJobs(q) == {q.slot[i].job : i \in {k \in Slots : q.slot[k].state = "has_job"}}
InPacket == Range(packet[Client].jobs)
InReq    == Range(req[Client])
Pulled   == {j \in {work} : pc[Rt] \in {"full", "evict", "old", "write"}}
InRing   == LiveJobs(rt)
Evicted  == {j \in {old.job} : pc[Rt] = "old"}
Done     == {j \in JobOrNone : Completed(j)}

PlaceNames == {"packet", "req", "pulled", "ring", "evicted", "done"}
Where ==
  [p \in PlaceNames |-> CASE p = "packet"  -> InPacket
                          [] p = "req"     -> InReq
                          [] p = "pulled"  -> Pulled
                          [] p = "ring"    -> InRing
                          [] p = "evicted" -> Evicted
                          [] p = "done"    -> Done]

(* The submitted jobs are spread over the places, and no place has one     *)
(* twice.                                                                  *)
Spread ==
  /\ \A p, q \in PlaceNames : \A j \in Where[p] \cap Where[q] : p = q
  /\ Submitted = UNION {Where[p] : p \in PlaceNames}

LiveOnce(q) ==
  \A i, k \in Slots :
    /\ q.slot[i].state = "has_job" /\ q.slot[k].state = "has_job"
    /\ q.slot[i].job = q.slot[k].job
    => i = k

OneEach ==
  /\ IsInjective(packet[Client].jobs) /\ IsInjective(req[Client])
  /\ LiveOnce(rt) /\ CompletedOnce

(* Where the two threads are, and what that says of the state.             *)
Control ==
  /\ asic_mutex = Rt <=> pc[Rt] # "idle"
  /\ asic_mutex = Client <=> pc[Client] = "dropring"
  /\ pc[Client] # "gone"
  /\ adapters = IF pc[Client] = "off" THEN NoThread ELSE Client
  /\ pc[Client] \in {"off", "clear"} => Submitted = {}
  /\ pc[Client] \notin {"wake", "reqs", "droprsp"} => packet[Client].jobs = <<>>
  /\ pc[Client] = "droprsp" => \E j \in Jobs : packet[Client].jobs = <<j>>
  /\ pc[Rt] = "evict" => RingFull(rt)
  /\ Submitted = 1 .. Cardinality(Submitted)

PInv == Spread /\ OneEach /\ Control
-----------------------------------------------------------------------------
(* Sequences without repetition, and what Head, Tail and Append make of    *)
(* them and their elements.                                                *)
LEMMA RangeIs ==
  ASSUME NEW S, NEW q \in Seq(S)
  PROVE  /\ DOMAIN q = 1 .. Len(q) /\ Len(q) \in Nat
         /\ Range(q) = {q[i] : i \in 1 .. Len(q)} /\ Range(q) \subseteq S
         /\ IsInjective(q) <=> \A a, b \in 1 .. Len(q) : q[a] = q[b] => a = b
  BY LenProperties, ElementOfSeq DEF Range, IsInjective

(* The empty queue holds nothing, and nothing twice.                       *)
LEMMA EmptyOnce ==
  /\ Range(<<>>) = {} /\ IsInjective(<<>>)
<1> DEFINE e == <<>>
<1>1. e \in Seq({}) /\ Len(e) = 0
  BY EmptySeq
<1> HIDE DEF e
<1>2. /\ Range(e) = {e[i] : i \in 1 .. Len(e)}
      /\ IsInjective(e) <=> \A a, b \in 1 .. Len(e) : e[a] = e[b] => a = b
  BY <1>1, RangeIs
<1>3. 1 .. Len(e) = {}
  BY <1>1
<1>4. Range(e) = {} /\ IsInjective(e)
  BY <1>2, <1>3
<1> QED
  BY <1>4 DEF e

(* A queue without repetitions, less its head, holds the rest.             *)
LEMMA TailOnce ==
  ASSUME NEW S, NEW q \in Seq(S), q # <<>>, IsInjective(q)
  PROVE  /\ Head(q) \in Range(q) /\ Head(q) \in S
         /\ Range(Tail(q)) = Range(q) \ {Head(q)}
         /\ IsInjective(Tail(q))
<1>1. /\ Len(q) \in Nat /\ Len(q) > 0 /\ Head(q) = q[1] /\ Head(q) \in S
      /\ Tail(q) \in Seq(S) /\ Len(Tail(q)) = Len(q) - 1
      /\ \A i \in 1 .. Len(q) - 1 : Tail(q)[i] = q[i + 1]
  BY HeadTailProperties, EmptySeq, LenProperties
<1>2. /\ Range(q) = {q[i] : i \in 1 .. Len(q)}
      /\ Range(Tail(q)) = {Tail(q)[i] : i \in 1 .. Len(q) - 1}
      /\ \A a, b \in 1 .. Len(q) : q[a] = q[b] => a = b
  <2>1. /\ Range(q) = {q[i] : i \in 1 .. Len(q)}
        /\ \A a, b \in 1 .. Len(q) : q[a] = q[b] => a = b
    BY RangeIs
  <2>2. Range(Tail(q)) = {Tail(q)[i] : i \in 1 .. Len(Tail(q))}
    BY <1>1, RangeIs
  <2> QED
    BY <1>1, <2>1, <2>2
<1>3. Head(q) \in Range(q)
  <2>1. 1 \in 1 .. Len(q)
    BY <1>1
  <2> QED
    BY <1>1, <1>2, <2>1
<1>4. Range(Tail(q)) = Range(q) \ {Head(q)}
  <2>1. ASSUME NEW x \in Range(Tail(q)) PROVE x \in Range(q) \ {Head(q)}
    <3>1. PICK i \in 1 .. Len(q) - 1 : x = Tail(q)[i]
      BY <1>2, <2>1
    <3>2. i + 1 \in 1 .. Len(q) /\ x = q[i + 1] /\ 1 \in 1 .. Len(q) /\ i + 1 # 1
      BY <1>1, <3>1
    <3> QED
      BY <1>1, <1>2, <3>2
  <2>2. ASSUME NEW x \in Range(q) \ {Head(q)} PROVE x \in Range(Tail(q))
    <3>1. PICK i \in 1 .. Len(q) : x = q[i]
      BY <1>2, <2>2
    <3>2. i # 1
      BY <1>1, <2>2, <3>1
    <3>3. i - 1 \in 1 .. Len(q) - 1 /\ (i - 1) + 1 = i
      BY <1>1, <3>2
    <3>4. x = Tail(q)[i - 1]
      BY <1>1, <3>1, <3>3
    <3> QED
      BY <1>2, <3>3, <3>4
  <2> QED
    BY <2>1, <2>2
<1>5. IsInjective(Tail(q))
  <2> SUFFICES ASSUME NEW a \in 1 .. Len(q) - 1, NEW b \in 1 .. Len(q) - 1,
                      Tail(q)[a] = Tail(q)[b]
               PROVE  a = b
    BY <1>1, RangeIs
  <2>1. a + 1 \in 1 .. Len(q) /\ b + 1 \in 1 .. Len(q) /\ q[a + 1] = q[b + 1]
    BY <1>1
  <2>2. a + 1 = b + 1
    BY <1>2, <2>1
  <2> QED
    BY <2>2
<1> QED
  BY <1>1, <1>3, <1>4, <1>5

(* Appending adds one element, and repeats none that was not there.        *)
LEMMA AppendOnce ==
  ASSUME NEW S, NEW q \in Seq(S), NEW x \in S
  PROVE  /\ Range(Append(q, x)) = Range(q) \cup {x}
         /\ IsInjective(q) /\ x \notin Range(q) => IsInjective(Append(q, x))
<1> DEFINE r == Append(q, x)
           n == Len(q)
<1>1. /\ r \in Seq(S) /\ Len(r) = n + 1 /\ r[n + 1] = x /\ n \in Nat
      /\ \A i \in 1 .. n : r[i] = q[i]
  BY AppendProperties, LenProperties
<1>2. /\ Range(q) = {q[i] : i \in 1 .. n} /\ Range(r) = {r[i] : i \in 1 .. n + 1}
      /\ IsInjective(q) <=> \A a, b \in 1 .. n : q[a] = q[b] => a = b
      /\ IsInjective(r) <=> \A a, b \in 1 .. n + 1 : r[a] = r[b] => a = b
  BY <1>1, RangeIs
<1> HIDE DEF r, n
<1>3. \A i \in 1 .. n + 1 : i = n + 1 \/ i \in 1 .. n
  BY <1>1
<1>4. \A i \in 1 .. n : i \in 1 .. n + 1
  BY <1>1
<1>5. n + 1 \in 1 .. n + 1
  BY <1>1
<1>6. Range(r) = Range(q) \cup {x}
  BY <1>1, <1>2, <1>3, <1>4, <1>5
<1>7. ASSUME IsInjective(q), x \notin Range(q) PROVE IsInjective(r)
  <2> SUFFICES ASSUME NEW a \in 1 .. n + 1, NEW b \in 1 .. n + 1, r[a] = r[b] PROVE a = b
    BY <1>2
  <2> QED
    BY <1>1, <1>2, <1>3, <1>7
<1> QED
  BY <1>6, <1>7 DEF r

(* A ring gives up its oldest job, and takes one into a slot that is free. *)
LEMMA OneDoneLive ==
  ASSUME NEW q, RingOK(q), q.size # 0, LiveOnce(q)
  PROVE  /\ Oldest(q).job \in LiveJobs(q)
         /\ LiveJobs(OneDone(q)) = LiveJobs(q) \ {Oldest(q).job}
         /\ LiveOnce(OneDone(q))
<1> DEFINE r == OneDone(q)
           d == q.hw_done
<1>1. d \in Slots /\ q.size \in 1 .. RT_QUEUE_SIZE /\ q.slot \in [Slots -> SlotType]
  BY RtQueueAssumption DEF RingOK, RingType
<1>2. Ahead(q, d) = 0
  BY <1>1, RtQueueAssumption DEF Ahead, Slots
<1>3. q.slot[d].state = "has_job"
  BY <1>1, <1>2 DEF RingOK, MarkedAhead
<1>4. \A i \in Slots : /\ r.slot[i].job = q.slot[i].job
                       /\ r.slot[i].state = "has_job" <=> i # d /\ q.slot[i].state = "has_job"
  BY <1>1 DEF OneDone, Freed
<1>5. Oldest(q).job = q.slot[d].job
  BY DEF Oldest
<1> HIDE DEF r, d
<1>6. LiveJobs(r) = LiveJobs(q) \ {q.slot[d].job}
  BY <1>1, <1>3, <1>4 DEF LiveJobs, LiveOnce
<1>7. LiveOnce(r)
  BY <1>4 DEF LiveOnce
<1> QED
  BY <1>1, <1>3, <1>5, <1>6, <1>7 DEF LiveJobs, r, d

(* Writing a slot of a ring that has room adds the job, in one slot.       *)
LEMMA WriteLive ==
  ASSUME NEW q, RingOK(q), ~ RingFull(q), LiveOnce(q), NEW j \in Jobs, j \notin LiveJobs(q)
  PROVE  /\ LiveJobs(WriteSlot(q, j)) = LiveJobs(q) \cup {j}
         /\ LiveOnce(WriteSlot(q, j))
<1> DEFINE r == WriteSlot(q, j)
           w == q.sw_write
<1>1. /\ w \in Slots /\ q.hw_done \in Slots /\ q.size \in 0 .. RT_QUEUE_SIZE - 1
      /\ q.slot \in [Slots -> SlotType]
  BY RtQueueAssumption DEF RingOK, RingType, RingFull, Slots
<1>2. Ahead(q, w) = q.size
  BY <1>1, RtQueueAssumption DEF RingOK, DoneToWrite, Ahead, Slots
<1>3. ~ (q.slot[w].state = "has_job")
  BY <1>1, <1>2 DEF RingOK, MarkedAhead
<1>4. \A i \in Slots :
        /\ r.slot[i].job = IF i = w THEN j ELSE q.slot[i].job
        /\ r.slot[i].state = "has_job" <=> i = w \/ q.slot[i].state = "has_job"
  BY <1>1 DEF WriteSlot
<1> HIDE DEF r, w
<1>5. LiveJobs(r) = LiveJobs(q) \cup {j}
  BY <1>1, <1>3, <1>4 DEF LiveJobs
<1>6. LiveOnce(r)
  BY <1>1, <1>3, <1>4 DEF LiveOnce, LiveJobs
<1> QED
  BY <1>5, <1>6 DEF r

(* A ring without live jobs is empty: DropRingDone leaves none behind.     *)
LEMMA EmptyRing ==
  ASSUME NEW q, RingOK(q), LiveJobs(q) = {}
  PROVE  q.size = 0
<1> SUFFICES ASSUME q.size # 0 PROVE FALSE
  OBVIOUS
<1>1. q.hw_done \in Slots /\ q.size \in 1 .. RT_QUEUE_SIZE
  BY RtQueueAssumption DEF RingOK, RingType
<1>2. Ahead(q, q.hw_done) = 0
  BY <1>1, RtQueueAssumption DEF Ahead, Slots
<1>3. q.slot[q.hw_done].state = "has_job"
  BY <1>1, <1>2 DEF RingOK, MarkedAhead
<1> QED
  BY <1>1, <1>3 DEF LiveJobs

(* Only the job and the state of a slot decide which jobs are live.        *)
LEMMA SameLive ==
  ASSUME NEW q, NEW r,
         \A i \in Slots : r.slot[i].job = q.slot[i].job /\ r.slot[i].state = q.slot[i].state
  PROVE  LiveJobs(r) = LiveJobs(q) /\ (LiveOnce(q) => LiveOnce(r))
<1>1. LiveJobs(r) = LiveJobs(q)
  BY DEF LiveJobs
<1>2. LiveOnce(q) => LiveOnce(r)
  BY DEF LiveOnce
<1> QED
  BY <1>1, <1>2
-----------------------------------------------------------------------------
(* Places: what they are now and after a step, and the move of a job.      *)
LEMMA WhereIs ==
  /\ Where["packet"] = InPacket /\ Where["req"] = InReq /\ Where["pulled"] = Pulled
  /\ Where["ring"] = InRing /\ Where["evicted"] = Evicted /\ Where["done"] = Done
  /\ Where'["packet"] = InPacket' /\ Where'["req"] = InReq' /\ Where'["pulled"] = Pulled'
  /\ Where'["ring"] = InRing' /\ Where'["evicted"] = Evicted' /\ Where'["done"] = Done'
  BY DEF Where, PlaceNames

Moved(j, p, q) ==
  /\ j \in Where[p]
  /\ Where'[p] = Where[p] \ {j} /\ Where'[q] = Where[q] \cup {j}
  /\ \A r \in PlaceNames \ {p, q} : Where'[r] = Where[r]

(* A job that moves from one place to another leaves all jobs in one       *)
(* place each.                                                             *)
LEMMA MoveKeepsSpread ==
  ASSUME Spread, NEW j, NEW p \in PlaceNames, NEW q \in PlaceNames, p # q,
         Moved(j, p, q), Submitted' = Submitted
  PROVE  Spread'
<1>1. ASSUME NEW a \in PlaceNames, NEW b \in PlaceNames, NEW k \in Where'[a] \cap Where'[b]
      PROVE  a = b
  <2>1. ASSUME NEW c \in PlaceNames, k \in Where'[c]
        PROVE  IF k = j THEN c = q ELSE k \in Where[c]
    BY <2>1 DEF Moved, Spread
  <2> QED
    BY <1>1, <2>1 DEF Spread
<1>2. UNION {Where'[r] : r \in PlaceNames} = UNION {Where[r] : r \in PlaceNames}
  BY DEF Moved
<1> QED
  BY <1>1, <1>2 DEF Spread

(* What moves no job keeps them in their places.                           *)
LEMMA SameSpread ==
  ASSUME Spread, \A p \in PlaceNames : Where'[p] = Where[p], Submitted' = Submitted
  PROVE  Spread'
<1>1. UNION {Where'[r] : r \in PlaceNames} = UNION {Where[r] : r \in PlaceNames}
  OBVIOUS
<1> QED
  BY <1>1 DEF Spread

(* A job in one place is in no other, and is a submitted one.              *)
LEMMA OnlyThere ==
  ASSUME Spread, NEW p \in PlaceNames, NEW j \in Where[p]
  PROVE  /\ j \in Submitted
         /\ \A q \in PlaceNames \ {p} : j \notin Where[q]
  BY DEF Spread

(* Everything the client has been told, and a new response.                *)
CompleteIn(a) ==
  {j \in JobOrNone : \E i \in 1 .. Len(a) : a[i].job = j /\ a[i].complete}
OnceIn(a) ==
  \A i, k \in 1 .. Len(a) :
    a[i].complete /\ a[k].complete /\ a[i].job = a[k].job => i = k

(* With one client, the completed jobs are those of its answers.           *)
LEMMA DoneIs ==
  ASSUME OneClient
  PROVE  /\ Done = CompleteIn(Answers(Client)) /\ Done' = CompleteIn(Answers(Client)')
         /\ CompletedOnce <=> OnceIn(Answers(Client))
         /\ CompletedOnce' <=> OnceIn(Answers(Client)')
<1>1. Done = CompleteIn(Answers(Client)) /\ Done' = CompleteIn(Answers(Client)')
  BY ClientIs DEF Done, Completed, CompleteIn
<1> QED
  BY <1>1, ClientIs DEF CompletedOnce, OnceIn

(* What the client was told and what waits for it is one sequence of       *)
(* responses.                                                              *)
LEMMA AnswersIs ==
  ASSUME TInv, OneClient
  PROVE  /\ Answers(Client) \in Seq(Responses) /\ Len(Answers(Client)) \in Nat
         /\ rsp[Client] \in Seq(Responses) /\ delivered[Client] \in Seq(Responses)
<1>1. rsp[Client] \in Seq(Responses) /\ delivered[Client] \in Seq(Responses)
  BY ClientIs DEF TInv, NetTyped
<1>2. Answers(Client) \in Seq(Responses)
  BY <1>1, ConcatProperties DEF Answers
<1> QED
  BY <1>1, <1>2, LenProperties

(* A response queued for the client is the last of its answers.            *)
LEMMA AnswersAppended ==
  ASSUME TInv, OneClient, NEW r \in Responses,
         rsp' = [rsp EXCEPT ![Client] = Append(rsp[Client], r)], UNCHANGED delivered
  PROVE  /\ Answers(Client)' = Append(Answers(Client), r)
         /\ Len(Answers(Client)') = Len(Answers(Client)) + 1
         /\ \A i \in 1 .. Len(Answers(Client)) : Answers(Client)'[i] = Answers(Client)[i]
         /\ Answers(Client)'[Len(Answers(Client)) + 1] = r
<1> DEFINE d == delivered[Client]
           q == rsp[Client]
<1>1. d \in Seq(Responses) /\ q \in Seq(Responses) /\ rsp \in [Sessions -> Seq(Responses)]
  BY AnswersIs DEF TInv, NetTyped
<1>2. Answers(Client)' = d \o Append(q, r)
  BY <1>1, ClientIs DEF Answers
<1>3. Append(q, r) = q \o <<r>> /\ Append(d \o q, r) = (d \o q) \o <<r>>
  BY <1>1, ConcatProperties, AppendIsConcat
<1>4. d \o (q \o <<r>>) = (d \o q) \o <<r>>
  <2> DEFINE e == <<r>>
  <2>1. e \in Seq(Responses)
    OBVIOUS
  <2> HIDE DEF d, q, e
  <2>2. d \o (q \o e) = (d \o q) \o e
    BY <1>1, <2>1, ConcatAssociative
  <2> QED
    BY <2>2 DEF e
<1>5. Answers(Client)' = Append(Answers(Client), r)
  BY <1>2, <1>3, <1>4 DEF Answers
<1> QED
  BY <1>5, AnswersIs, AppendProperties

(* A completion of a job that was not complete, and a win.                 *)
LEMMA Completion ==
  ASSUME TInv, OneClient, CompletedOnce, NEW r \in Responses, r.complete, r.job \notin Done,
         rsp' = [rsp EXCEPT ![Client] = Append(rsp[Client], r)], UNCHANGED delivered
  PROVE  Done' = Done \cup {r.job} /\ CompletedOnce'
<1> DEFINE a == Answers(Client)
           b == Answers(Client)'
           n == Len(a)
<1>1. /\ Len(b) = n + 1 /\ b[n + 1] = r /\ \A i \in 1 .. n : b[i] = a[i]
  BY AnswersAppended
<1>2. /\ n \in Nat /\ a \in Seq(Responses) /\ r.job \in JobOrNone
  BY AnswersIs DEF Responses
<1>3. /\ Done = CompleteIn(a) /\ Done' = CompleteIn(b) /\ OnceIn(a)
      /\ CompletedOnce' <=> OnceIn(b)
  BY DoneIs
<1> HIDE DEF a, b
<1>4. \A i \in 1 .. Len(b) : (i \in 1 .. n /\ b[i] = a[i]) \/ (i = n + 1 /\ b[i] = r)
  BY <1>1, <1>2
<1>5. CompleteIn(b) = CompleteIn(a) \cup {r.job}
  <2>1. ASSUME NEW j \in CompleteIn(a) PROVE j \in CompleteIn(b)
    <3>1. PICK i \in 1 .. n : a[i].job = j /\ a[i].complete
      BY DEF CompleteIn
    <3>2. i \in 1 .. Len(b) /\ b[i] = a[i]
      BY <1>1, <1>2
    <3> QED
      BY <3>1, <3>2 DEF CompleteIn
  <2>2. r.job \in CompleteIn(b)
    <3>1. n + 1 \in 1 .. Len(b)
      BY <1>1, <1>2
    <3> QED
      BY <1>1, <1>2, <3>1 DEF CompleteIn
  <2>3. ASSUME NEW j \in CompleteIn(b) PROVE j \in CompleteIn(a) \cup {r.job}
    BY <1>4 DEF CompleteIn
  <2> QED
    BY <2>1, <2>2, <2>3
<1>6. OnceIn(b)
  <2> SUFFICES ASSUME NEW i \in 1 .. Len(b), NEW k \in 1 .. Len(b),
                      b[i].complete, b[k].complete, b[i].job = b[k].job
               PROVE  i = k
    BY DEF OnceIn
  <2>1. \A m \in 1 .. n : a[m].complete => a[m].job # r.job
    BY <1>2, <1>3, ElementOfSeq DEF CompleteIn, Responses
  <2> QED
    BY <1>3, <1>4, <2>1 DEF OnceIn
<1> QED
  BY <1>3, <1>5, <1>6

(* A win completes no job.                                                 *)
LEMMA WinReply ==
  ASSUME TInv, OneClient, NEW r \in Responses, ~ r.complete,
         rsp' = [rsp EXCEPT ![Client] = Append(rsp[Client], r)], UNCHANGED delivered
  PROVE  Done' = Done /\ (CompletedOnce => CompletedOnce')
<1> DEFINE a == Answers(Client)
           b == Answers(Client)'
           n == Len(a)
<1>1. /\ Len(b) = n + 1 /\ b[n + 1] = r /\ \A i \in 1 .. n : b[i] = a[i]
  BY AnswersAppended
<1>2. n \in Nat
  BY AnswersIs
<1>3. /\ Done = CompleteIn(a) /\ Done' = CompleteIn(b)
      /\ CompletedOnce <=> OnceIn(a)
      /\ CompletedOnce' <=> OnceIn(b)
  BY DoneIs
<1> HIDE DEF a, b
<1>4. \A i \in 1 .. Len(b) : (i \in 1 .. n /\ b[i] = a[i]) \/ (i = n + 1 /\ b[i] = r)
  BY <1>1, <1>2
<1>5. \A i \in 1 .. n : i \in 1 .. Len(b)
  BY <1>1, <1>2
<1>6. CompleteIn(b) = CompleteIn(a)
  BY <1>1, <1>4, <1>5 DEF CompleteIn
<1>7. OnceIn(a) => OnceIn(b)
  BY <1>4 DEF OnceIn
<1> QED
  BY <1>3, <1>6, <1>7

(* Writing responses to the client changes nothing of what it is told.     *)
LEMMA SendKeepsAnswers ==
  ASSUME TInv, OneClient, Send(Client)
  PROVE  Answers(Client)' = Answers(Client)
<1> DEFINE n == IF Len(rsp[Client]) > MAX_RESPONDS THEN MAX_RESPONDS ELSE Len(rsp[Client])
           d == delivered[Client]
           q == rsp[Client]
           a == SubSeq(q, 1, n)
           b == SubSeq(q, n + 1, Len(q))
<1>1. d \in Seq(Responses) /\ q \in Seq(Responses) /\ Len(q) \in Nat
  BY AnswersIs, LenProperties
<1>2. n \in 0 .. Len(q)
  BY <1>1, JobPipelineAssumption
<1>3. /\ delivered' = [delivered EXCEPT ![Client] = d \o a]
      /\ rsp' = [rsp EXCEPT ![Client] = b]
  BY DEF Send
<1>4. Answers(Client)' = (d \o a) \o b
  BY <1>3, ClientIs DEF Answers, TInv, NetTyped
<1> HIDE DEF n
<1>5. a \o b = q
  <2>1. 1 \in 1 .. Len(q) + 1 /\ n \in 1 - 1 .. Len(q) /\ Len(q) \in n .. Len(q)
    BY <1>1, <1>2
  <2>2. a \o b = SubSeq(q, 1, Len(q))
    BY <1>1, <2>1, ConcatAdjacentSubSeq
  <2> QED
    BY <1>1, <2>2, SubSeqFull
<1>6. a \in Seq(Responses) /\ b \in Seq(Responses)
  BY <1>1, <1>2
<1>7. Answers(Client) = d \o q
  BY DEF Answers
<1> HIDE DEF a, b, d, q
<1>8. (d \o a) \o b = d \o (a \o b)
  BY <1>1, <1>6, ConcatAssociative, SMTT(30)
<1> QED
  BY <1>4, <1>5, <1>7, <1>8

(* Sending the responses changes no answer.                                *)
LEMMA SameAnswers ==
  ASSUME OneClient, Answers(Client)' = Answers(Client)
  PROVE  Done' = Done /\ (CompletedOnce => CompletedOnce')
  BY DoneIs
-----------------------------------------------------------------------------
(* What a step leaves alone.                                               *)
LEMMA SamePacket ==
  ASSUME UNCHANGED packet
  PROVE  /\ InPacket' = InPacket
         /\ IsInjective(packet[Client].jobs) => IsInjective(packet'[Client].jobs)
  BY DEF InPacket

(* The adapter queue as a place.                                           *)
LEMMA SameReq ==
  ASSUME UNCHANGED req
  PROVE  /\ InReq' = InReq
         /\ IsInjective(req[Client]) => IsInjective(req'[Client])
  BY DEF InReq

(* The ring as a place.                                                    *)
LEMMA SameRt ==
  ASSUME UNCHANGED rt
  PROVE  /\ InRing' = InRing
         /\ LiveOnce(rt) => LiveOnce(rt')
  BY DEF InRing

(* The completed jobs as a place.                                          *)
LEMMA SameReplies ==
  ASSUME OneClient, UNCHANGED <<rsp, delivered>>
  PROVE  /\ Done' = Done
         /\ CompletedOnce => CompletedOnce'
  BY SameAnswers DEF Answers

(* Which jobs were submitted depends on their owners only.                 *)
LEMMA SameOwner ==
  ASSUME UNCHANGED owner
  PROVE  Submitted' = Submitted
  BY DEF Submitted

(* The job the RT thread has pulled, as a place.                           *)
LEMMA SamePulled ==
  ASSUME UNCHANGED work, pc'[Rt] = pc[Rt]
  PROVE  Pulled' = Pulled
  BY DEF Pulled

(* The job the RT thread has evicted, as a place.                          *)
LEMMA SameEvicted ==
  ASSUME UNCHANGED old, pc'[Rt] = pc[Rt]
  PROVE  Evicted' = Evicted
  BY DEF Evicted

(* A step that changes none of the places keeps all jobs where they are.   *)
LEMMA NoneMoved ==
  ASSUME Spread, InPacket' = InPacket, InReq' = InReq, Pulled' = Pulled, InRing' = InRing,
         Evicted' = Evicted, Done' = Done, Submitted' = Submitted
  PROVE  Spread'
<1>1. \A p \in PlaceNames : Where'[p] = Where[p]
  BY WhereIs DEF PlaceNames
<1> QED
  BY <1>1, SameSpread

(* Types of what moves.                                                    *)
LEMMA Typed ==
  ASSUME TInv, OneClient
  PROVE  /\ pc \in [Threads -> Labels] /\ asic_mutex \in {Client, Rt, NoThread}
         /\ RingOK(rt) /\ adapters \in {Client, NoThread}
         /\ req \in [Sessions -> Seq(Jobs)] /\ req[Client] \in Seq(Jobs)
         /\ rsp \in [Sessions -> Seq(Responses)]
         /\ packet \in [Sessions -> [jobs : Seq(Jobs), drop : BOOLEAN]]
         /\ packet[Client].jobs \in Seq(Jobs)
         /\ old.job \in JobOrNone /\ old.win \in JobOrNone
         /\ Submitted \subseteq Jobs /\ NoJob \notin Jobs
  BY ClientIs, RtQueueAssumption
  DEF TInv, ThreadsTyped, QueueTyped, NetTyped, Submitted

(* pull_work_req: from the adapter queue to the RT thread.                 *)
LEMMA RtPulls ==
  ASSUME TInv, OneClient, PInv, RtPull
  PROVE  PInv'
<1>0. /\ pc[Rt] \in {"idle", "poll"} /\ pc'[Rt] = "full" /\ pc'[Client] = pc[Client]
      /\ asic_mutex' = Rt /\ (asic_mutex = Rt \/ asic_mutex = NoThread)
  BY Typed, ClientIs DEF RtPull, TryPush, Goto, Lock, PInv, Control
<1>1. /\ adapters = Client /\ req[Client] \in Seq(Jobs) /\ req[Client] # <<>>
      /\ work' = Head(req[Client]) /\ req'[Client] = Tail(req[Client])
      /\ UNCHANGED <<rt, old, adapters, rsp, delivered, packet, owner>>
  BY Typed, ClientIs DEF RtPull, HasRequest
<1>2. /\ work' \in InReq /\ InReq' = InReq \ {work'} /\ IsInjective(req'[Client])
  BY <1>1, TailOnce DEF InReq, PInv, OneEach
<1>3. Pulled = {} /\ Pulled' = {work'} /\ Evicted = {} /\ Evicted' = {}
  BY <1>0 DEF Pulled, Evicted
<1>4. Submitted' = Submitted
  BY <1>1, SameOwner
<1>5. Spread'
  <2>1. Moved(work', "req", "pulled")
    BY <1>1, <1>2, <1>3, SamePacket, SameRt, SameReplies, WhereIs DEF Moved, PlaceNames
  <2> QED
    BY <1>4, <2>1, MoveKeepsSpread DEF PInv, PlaceNames
<1>6. OneEach'
  BY <1>1, <1>2, SamePacket, SameRt, SameReplies DEF PInv, OneEach
<1>7. Control'
  BY <1>0, <1>1, <1>4, ClientIs DEF PInv, Control
<1> QED
  BY <1>5, <1>6, <1>7 DEF PInv

(* The RT thread tests, gives up the oldest job, completes it, and writes. *)
LEMMA RtTests ==
  ASSUME TInv, OneClient, PInv, RtTestFull
  PROVE  PInv'
<1>1. /\ pc[Rt] = "full" /\ pc'[Rt] \in {"evict", "write"} /\ pc'[Client] = pc[Client]
      /\ pc'[Rt] = "evict" => RingFull(rt)
      /\ UNCHANGED <<rt, work, old, asic_mutex, adapters, req, rsp, delivered, packet, owner>>
  BY Typed, ClientIs DEF RtTestFull, Goto, queueVars, netVars
<1>2. Pulled' = Pulled /\ Evicted' = Evicted /\ Submitted' = Submitted
  BY <1>1, SameOwner DEF Pulled, Evicted
<1>3. Spread'
  BY <1>1, <1>2, SamePacket, SameReq, SameRt, SameReplies, NoneMoved DEF PInv
<1>4. OneEach'
  BY <1>1, SamePacket, SameReq, SameRt, SameReplies DEF PInv, OneEach
<1>5. Control'
  BY <1>1, <1>2, ClientIs DEF PInv, Control, RingFull
<1> QED
  BY <1>3, <1>4, <1>5 DEF PInv

(* A full ring: its oldest job goes from the ring to the RT thread.        *)
LEMMA RtEvicts ==
  ASSUME TInv, OneClient, PInv, RtEvict
  PROVE  PInv'
<1>1. /\ pc[Rt] = "evict" /\ pc'[Rt] = "old" /\ pc'[Client] = pc[Client]
      /\ UNCHANGED <<work, asic_mutex, adapters, req, rsp, delivered, packet, owner>>
  BY Typed, ClientIs DEF RtEvict, Goto, netVars
<1>2. rt.size # 0
  BY <1>1, RtQueueAssumption DEF PInv, Control, RingFull
<1>3. old'.job = Oldest(rt).job /\ rt' = OneDone(rt)
  BY <1>2 DEF RtEvict
<1>4. /\ old'.job \in InRing /\ InRing' = InRing \ {old'.job} /\ LiveOnce(rt')
  BY <1>2, <1>3, Typed, OneDoneLive DEF PInv, OneEach, InRing
<1>5. Pulled' = Pulled /\ Evicted = {} /\ Evicted' = {old'.job} /\ Submitted' = Submitted
  BY <1>1, SameOwner DEF Pulled, Evicted
<1>6. Spread'
  <2>1. Moved(old'.job, "ring", "evicted")
    BY <1>1, <1>4, <1>5, SamePacket, SameReq, SameReplies, WhereIs DEF Moved, PlaceNames
  <2> QED
    BY <1>5, <2>1, MoveKeepsSpread DEF PInv, PlaceNames
<1>7. OneEach'
  BY <1>1, <1>4, SamePacket, SameReq, SameReplies DEF PInv, OneEach
<1>8. Control'
  BY <1>1, <1>5, ClientIs DEF PInv, Control
<1> QED
  BY <1>6, <1>7, <1>8 DEF PInv

(* push_work_rsp for the evicted job: from the RT thread to the            *)
(* completed jobs.                                                         *)
LEMMA RtCompletes ==
  ASSUME TInv, OneClient, PInv, RtCompleteOld
  PROVE  PInv'
<1>0. /\ pc[Rt] = "old" /\ UNCHANGED <<rt, work, adapters, req, delivered, packet, owner,
                                       asic_mutex>>
  BY DEF RtCompleteOld
<1>1. CASE UNCHANGED <<pc, rsp, old>>
  <2>1. /\ Pulled' = Pulled /\ Evicted' = Evicted /\ Submitted' = Submitted
    BY <1>0, <1>1, SameOwner, SamePulled, SameEvicted
  <2>2. Spread'
    BY <1>0, <1>1, <2>1, SamePacket, SameReq, SameRt, SameReplies, NoneMoved DEF PInv
  <2>3. OneEach' /\ Control'
    BY <1>0, <1>1, <2>1, SamePacket, SameReq, SameRt, SameReplies DEF PInv, OneEach, Control, RingFull
  <2> QED
    BY <2>2, <2>3 DEF PInv
<1>2. CASE PushWorkRsp(old.job, old.win, TRUE) /\ Goto(Rt, "old", "write")
  <2> DEFINE j == old.job
             r == Response(j, old.win, TRUE, FALSE)
  <2>1. pc'[Rt] = "write" /\ pc'[Client] = pc[Client]
    BY <1>2, Typed, ClientIs DEF Goto
  <2>2. Evicted = {j} /\ Evicted' = {} /\ Pulled' = Pulled /\ Submitted' = Submitted
    BY <1>0, <2>1, SameOwner DEF Evicted, Pulled
  <2>3. j \in Submitted /\ j \notin Done
    BY <2>2, WhereIs, OnlyThere DEF PInv, PlaceNames
  <2>4. adapters = Client
    BY <2>3 DEF PInv, Control
  <2>5. /\ r \in Responses /\ r.complete /\ r.job = j
        /\ rsp' = [rsp EXCEPT ![Client] = Append(rsp[Client], r)]
    BY <1>2, <2>4, Typed, ClientIs DEF PushWorkRsp, Response, Responses
  <2>6. Done' = Done \cup {j} /\ CompletedOnce'
    BY <1>0, <2>3, <2>5, Completion DEF PInv, OneEach
  <2>7. Spread'
    <3>1. Moved(j, "evicted", "done")
      BY <1>0, <2>2, <2>6, SamePacket, SameReq, SameRt, WhereIs DEF Moved, PlaceNames
    <3> QED
      BY <2>2, <3>1, MoveKeepsSpread DEF PInv, PlaceNames
  <2>8. OneEach'
    BY <1>0, <2>6, SamePacket, SameReq, SameRt DEF PInv, OneEach
  <2>9. Control'
    BY <1>0, <2>1, <2>2, ClientIs DEF PInv, Control
  <2> QED
    BY <2>7, <2>8, <2>9 DEF PInv
<1> QED
  BY <1>1, <1>2 DEF RtCompleteOld

(* add_to_sw_rt_queue: the pulled job goes into the ring.                  *)
LEMMA RtWritesJob ==
  ASSUME TInv, OneClient, PInv, RtWrite
  PROVE  PInv'
<1>1. /\ pc[Rt] = "write" /\ pc'[Rt] = "hwpush" /\ pc'[Client] = pc[Client]
      /\ rt' = WriteSlot(rt, work)
      /\ UNCHANGED <<old, asic_mutex, adapters, req, rsp, delivered, packet, owner>>
  BY Typed, ClientIs DEF RtWrite, Goto, netVars
<1>2. Pulled = {work} /\ Pulled' = {} /\ Evicted' = Evicted /\ Submitted' = Submitted
  BY <1>1, SameOwner DEF Pulled, Evicted
<1>3. work \notin InRing /\ work \in Jobs /\ ~ RingFull(rt)
  BY <1>1, <1>2, WhereIs, OnlyThere DEF PInv, PlaceNames, TInv, RtWrites
<1>4. InRing' = InRing \cup {work} /\ LiveOnce(rt')
  BY <1>1, <1>3, Typed, WriteLive DEF PInv, OneEach, InRing
<1>5. Spread'
  <2>1. Moved(work, "pulled", "ring")
    BY <1>1, <1>2, <1>4, SamePacket, SameReq, SameReplies, WhereIs DEF Moved, PlaceNames
  <2> QED
    BY <1>2, <2>1, MoveKeepsSpread DEF PInv, PlaceNames
<1>6. OneEach'
  BY <1>1, <1>4, SamePacket, SameReq, SameReplies DEF PInv, OneEach
<1>7. Control'
  BY <1>1, <1>2, ClientIs DEF PInv, Control
<1> QED
  BY <1>5, <1>6, <1>7 DEF PInv

(* A step that moves no job.                                               *)
LEMMA QuietStep ==
  ASSUME OneClient, Spread, OneEach, UNCHANGED <<packet, req, owner>>,
         LiveJobs(rt') = LiveJobs(rt), LiveOnce(rt'), Done' = Done, CompletedOnce',
         Pulled' = Pulled, Evicted' = Evicted
  PROVE  Spread' /\ OneEach'
<1>1. Submitted' = Submitted
  BY SameOwner
<1>2. InRing' = InRing
  BY DEF InRing
<1>3. Spread'
  BY <1>1, <1>2, SamePacket, SameReq, NoneMoved
<1>4. OneEach'
  BY SamePacket, SameReq DEF OneEach
<1> QED
  BY <1>3, <1>4

(* The other steps of a tick move no job.                                  *)
LEMMA RtQuiet ==
  ASSUME TInv, OneClient, PInv,
         RtMqTooFull \/ RtNoJob \/ RtPushToHw \/ RtBist \/ RtEndTick
  PROVE  PInv'
<1>1. UNCHANGED <<rt, work, old, adapters, req, rsp, delivered, packet, owner>>
  BY DEF RtMqTooFull, RtNoJob, RtPushToHw, RtBist, RtEndTick, queueVars, netVars
<1>2. /\ pc'[Client] = pc[Client]
      /\ pc[Rt] \in {"idle", "poll", "hwpush"} /\ pc'[Rt] \in {"idle", "poll"}
  BY Typed, ClientIs
  DEF RtMqTooFull, RtNoJob, TryPush, RtPushToHw, RtBist, RtEndTick, Goto
<1>3. /\ asic_mutex' = Rt <=> pc'[Rt] # "idle"
      /\ asic_mutex' = Client <=> asic_mutex = Client
  <2>1. /\ asic_mutex = Rt <=> pc[Rt] # "idle"
        /\ Rt # Client /\ Client # NoThread /\ Rt # NoThread
    BY ClientIs, JobPipelineAssumption DEF PInv, Control
  <2>2. CASE RtMqTooFull \/ RtNoJob
    <3>1. pc'[Rt] = "poll"
      BY <2>2, Typed, ClientIs DEF RtMqTooFull, RtNoJob, TryPush, Goto
    <3>2. \/ pc[Rt] = "idle" /\ asic_mutex = NoThread /\ asic_mutex' = Rt
          \/ pc[Rt] = "poll" /\ asic_mutex' = asic_mutex
      BY <2>2 DEF RtMqTooFull, RtNoJob, TryPush, Goto, Lock
    <3> QED
      BY <2>1, <3>1, <3>2
  <2>3. CASE RtPushToHw \/ RtBist
    <3>1. pc[Rt] # "idle" /\ pc'[Rt] = "poll" /\ asic_mutex' = asic_mutex
      BY <2>3, Typed, ClientIs DEF RtPushToHw, RtBist, Goto
    <3> QED
      BY <2>1, <3>1
  <2>4. CASE RtEndTick
    <3>1. pc[Rt] # "idle" /\ pc'[Rt] = "idle" /\ asic_mutex' = NoThread
      BY <2>4, Typed, ClientIs DEF RtEndTick, Goto, Unlock
    <3> QED
      BY <2>1, <3>1
  <2> QED
    BY <2>2, <2>3, <2>4
<1>4. Pulled' = Pulled /\ Evicted' = Evicted
  BY <1>2 DEF Pulled, Evicted
<1>5. Spread' /\ OneEach'
  BY <1>1, <1>4, SameReplies, QuietStep DEF PInv, OneEach
<1>6. Control'
  BY <1>1, <1>2, <1>3, SameOwner DEF PInv, Control
<1> QED
  BY <1>5, <1>6 DEF PInv

(* A thread that polls wins changes no more than the nonce of a slot.      *)
Polling == {"poll", "win", "winset", "winpush", "winclear"}

(* Polling wins, in either thread, keeps to its labels and moves no job    *)
(* of the RT thread.                                                       *)
LEMMA PollingControl ==
  ASSUME TInv, OneClient, PInv, NEW t \in Threads, NEW from \in Polling, NEW to,
         to \in Polling \/ (t = Client /\ to = "send"), Goto(t, from, to),
         UNCHANGED <<work, old, adapters, packet, owner, asic_mutex>>, rt'.size = rt.size
  PROVE  Control' /\ Pulled' = Pulled /\ Evicted' = Evicted
<1>1. CASE t = Rt
  <2>1. /\ pc[Rt] \in Polling /\ pc'[Rt] \in Polling /\ pc'[Client] = pc[Client]
    BY <1>1, Typed, ClientIs DEF Goto
  <2>2. Control'
    BY <2>1, SameOwner DEF PInv, Control, Polling
  <2>3. Pulled' = Pulled /\ Evicted' = Evicted
    BY <2>1 DEF Pulled, Evicted, Polling
  <2> QED
    BY <2>2, <2>3
<1>2. CASE t = Client
  <2>1. /\ pc[Client] \in Polling /\ pc'[Client] \in Polling \cup {"send"}
        /\ pc'[Rt] = pc[Rt]
    BY <1>2, Typed, ClientIs DEF Goto
  <2>2. /\ asic_mutex' = Rt <=> pc'[Rt] # "idle"
        /\ asic_mutex' = Client <=> pc'[Client] = "dropring"
        /\ pc'[Client] # "gone"
        /\ adapters' = IF pc'[Client] = "off" THEN NoThread ELSE Client
    BY <2>1 DEF PInv, Control, Polling
  <2>3. packet'[Client].jobs = <<>>
    BY <2>1 DEF PInv, Control, Polling
  <2>4. pc'[Rt] = "evict" => RingFull(rt')
    BY <2>1 DEF PInv, Control, RingFull
  <2>5. Control'
    BY <2>1, <2>2, <2>3, <2>4, SameOwner DEF PInv, Control, Polling
  <2> QED
    BY <2>1, <2>5, SamePulled, SameEvicted
<1> QED
  BY <1>1, <1>2, ClientIs

(* A win is a response that completes nothing: no job moves.               *)
LEMMA WinStepKeeps ==
  ASSUME TInv, OneClient, PInv, NEW t \in Threads, WinStep(t)
  PROVE  PInv'
<1> USE DEF Polling
<1>1. CASE PollWin(t) \/ PollDone(t) \/ PollStuck(t) \/ WinGood(t) \/ WinBad(t)
            \/ WinRestart(t)
  <2>1. UNCHANGED <<rt, work, old, adapters, req, rsp, delivered, packet, owner, asic_mutex>>
    BY <1>1 DEF PollWin, PollDone, PollStuck, WinGood, WinBad, WinRestart, queueVars, netVars
  <2>2. \E from \in Polling, to \in Polling \cup {"send"} :
          Goto(t, from, to) /\ (to = "send" => t # Rt)
    <3>1. (IF t = Rt THEN "poll" ELSE "send") \in Polling \cup {"send"}
      OBVIOUS
    <3> QED
      BY <1>1, <3>1 DEF PollWin, PollDone, PollStuck, WinGood, WinBad, WinRestart
  <2>3. Control' /\ Pulled' = Pulled /\ Evicted' = Evicted
    BY <2>1, <2>2, ClientIs, PollingControl
  <2>4. Spread' /\ OneEach'
    BY <2>1, <2>3, SameReplies, SameRt, QuietStep DEF PInv, OneEach, InRing
  <2> QED
    BY <2>3, <2>4 DEF PInv
<1>2. CASE WinSet(t) \/ WinClear(t)
  <2>1. /\ UNCHANGED <<work, old, adapters, req, rsp, delivered, packet, owner, asic_mutex>>
        /\ \E j \in JobOrNone : SetNonce(t, j)
    BY <1>2, HwTypes DEF WinSet, WinClear, netVars, TInv, WinTyped, JobOrNone
  <2>2. /\ rt'.size = rt.size
        /\ \A i \in Slots : /\ rt'.slot[i].job = rt.slot[i].job
                            /\ rt'.slot[i].state = rt.slot[i].state
    BY <2>1, Typed DEF SetNonce, RingOK, RingType
  <2>3. \E from \in Polling, to \in Polling : Goto(t, from, to)
    BY <1>2 DEF WinSet, WinClear
  <2>4. Control' /\ Pulled' = Pulled /\ Evicted' = Evicted
    BY <2>1, <2>2, <2>3, PollingControl
  <2>5. LiveJobs(rt') = LiveJobs(rt) /\ LiveOnce(rt')
    BY <2>2, SameLive DEF PInv, OneEach
  <2>6. Spread' /\ OneEach'
    BY <2>1, <2>4, <2>5, SameReplies, QuietStep DEF PInv, OneEach
  <2> QED
    BY <2>4, <2>6 DEF PInv
<1>3. CASE WinPush(t)
  <2>1. UNCHANGED <<rt, work, old, adapters, req, delivered, packet, owner, asic_mutex>>
    BY <1>3 DEF WinPush, queueVars
  <2>2. Control' /\ Pulled' = Pulled /\ Evicted' = Evicted
    BY <1>3, <2>1, PollingControl DEF WinPush
  <2>3. Done' = Done /\ CompletedOnce'
    <3>1. CASE adapters = NoThread
      <4>1. UNCHANGED rsp
        BY <1>3, <3>1 DEF WinPush, PushWorkRsp
      <4> QED
        BY <2>1, <4>1, SameReplies DEF PInv, OneEach
    <3>2. CASE adapters # NoThread
      <4> DEFINE e == rt.slot[SlotOfWin(t)]
                 r == Response(e.job, e.win, FALSE, FALSE)
      <4>1. r \in Responses /\ ~ r.complete
        BY <1>3, Typed, HwTypes, WinIdProperties
        DEF TInv, WinTyped, WinIds, SlotOfWin, RingOK, RingType, SlotType, Response, Responses,
            JobOrNone
      <4>2. rsp' = [rsp EXCEPT ![Client] = Append(rsp[Client], r)]
        BY <1>3, <3>2, Typed DEF WinPush, PushWorkRsp
      <4> QED
        BY <2>1, <4>1, <4>2, WinReply DEF PInv, OneEach
    <3> QED
      BY <3>1, <3>2
  <2>4. Spread' /\ OneEach'
    BY <2>1, <2>2, <2>3, SameRt, QuietStep DEF PInv, OneEach, InRing
  <2> QED
    BY <2>2, <2>4 DEF PInv
<1> QED
  BY <1>1, <1>2, <1>3 DEF WinStep

(* The connection thread: steps that move no job.                          *)
LEMMA ClientQuiet ==
  ASSUME TInv, OneClient, PInv,
         \/ ClearDone(Client) \/ Wake(Client) \/ ReqsDone(Client) \/ DropRequestsDone(Client)
         \/ DropStop(Client) \/ Accept(Client) \/ DropLock(Client) \/ DropRingDone(Client)
  PROVE  PInv'
<1>1. UNCHANGED <<rt, work, old, req, rsp, delivered, packet, owner>>
  BY DEF ClearDone, Wake, ReqsDone, DropRequestsDone, DropStop, Accept, DropLock,
         DropRingDone, queueVars, netVars
<1>2. /\ pc'[Rt] = pc[Rt]
      /\ pc'[Client] \notin {"off", "gone", "wake", "droprsp"}
      /\ pc'[Client] \in {"off", "clear"} => pc[Client] = "off"
      /\ pc'[Client] \notin {"wake", "reqs"} => packet[Client].jobs = <<>>
  <2>1. \E from, to \in Labels : Goto(Client, from, to)
    BY DEF ClearDone, Wake, ReqsDone, DropRequestsDone, DropStop, Accept, DropLock,
           DropRingDone, Labels
  <2>2. pc'[Rt] = pc[Rt]
    BY <2>1, Typed, ClientIs DEF Goto
  <2>3. /\ pc'[Client] \notin {"off", "gone", "wake", "droprsp"}
        /\ pc'[Client] \in {"off", "clear"} => pc[Client] = "off"
        /\ pc'[Client] \notin {"wake", "reqs"} => packet[Client].jobs = <<>>
    BY Typed, ClientIs
    DEF ClearDone, Wake, ReqsDone, DropRequestsDone, DropStop, Accept, DropLock,
        DropRingDone, Goto, PInv, Control
  <2> QED
    BY <2>2, <2>3
<1>3. /\ asic_mutex' = Rt <=> asic_mutex = Rt
      /\ asic_mutex' = Client <=> pc'[Client] = "dropring"
  <2>1. CASE ClearDone(Client) \/ Wake(Client) \/ ReqsDone(Client) \/ DropRequestsDone(Client)
             \/ DropStop(Client) \/ Accept(Client)
    <3>1. pc'[Client] # "dropring" /\ pc[Client] # "dropring" /\ asic_mutex' = asic_mutex
      BY <2>1, Typed, ClientIs
      DEF ClearDone, Wake, ReqsDone, DropRequestsDone, DropStop, Accept, Goto
    <3> QED
      BY <3>1 DEF PInv, Control
  <2>2. CASE DropLock(Client)
    <3>1. pc'[Client] = "dropring" /\ asic_mutex = NoThread /\ asic_mutex' = Client
      BY <2>2, Typed, ClientIs DEF DropLock, Goto, Lock
    <3> QED
      BY <3>1, ClientIs, JobPipelineAssumption
  <2>3. CASE DropRingDone(Client)
    <3>1. /\ pc[Client] = "dropring" /\ pc'[Client] # "dropring"
          /\ asic_mutex' = NoThread
      BY <2>3, Typed, ClientIs DEF DropRingDone, Goto, Unlock
    <3> QED
      BY <3>1, ClientIs, JobPipelineAssumption DEF PInv, Control
  <2> QED
    BY <2>1, <2>2, <2>3
<1>4. adapters' = Client
  BY Typed, ClientIs
  DEF ClearDone, Wake, ReqsDone, DropRequestsDone, DropStop, Accept, DropLock,
      DropRingDone, netVars, Goto, PInv, Control
<1>5. Spread' /\ OneEach'
  BY <1>1, <1>2, SameReplies, SameRt, SamePulled, SameEvicted, QuietStep
  DEF PInv, OneEach, InRing
<1>6. Control'
  BY <1>1, <1>2, <1>3, <1>4, SameOwner DEF PInv, Control, RingFull
<1> QED
  BY <1>5, <1>6 DEF PInv

(* The reply to a packet.                                                  *)
LEMMA ClientSends ==
  ASSUME TInv, OneClient, PInv, Send(Client)
  PROVE  PInv'
<1>1. /\ UNCHANGED <<rt, work, old, req, owner, adapters, asic_mutex>>
      /\ pc[Client] = "send" /\ pc'[Client] = "read" /\ pc'[Rt] = pc[Rt]
  BY Typed, ClientIs DEF Send, Goto, queueVars
<1>2. packet[Client].jobs = <<>> /\ packet'[Client].jobs = <<>>
  BY <1>1, Typed, ClientIs DEF Send, NoPacket, PInv, Control
<1>3. InPacket' = InPacket /\ IsInjective(packet'[Client].jobs)
  BY <1>2, EmptyOnce DEF InPacket
<1>4. Done' = Done /\ CompletedOnce'
  BY SendKeepsAnswers, SameAnswers DEF PInv, OneEach
<1>5. Spread'
  BY <1>1, <1>3, <1>4, SameReq, SameRt, SamePulled, SameEvicted, SameOwner, NoneMoved DEF PInv
<1>6. OneEach'
  BY <1>1, <1>3, <1>4, SameReq, SameRt DEF PInv, OneEach
<1>7. Control'
  BY <1>1, <1>2, SameOwner DEF PInv, Control, RingFull
<1> QED
  BY <1>5, <1>6, <1>7 DEF PInv

(* A new client finds no job of another one to throw away, and stays.      *)
LEMMA NothingToClear ==
  ASSUME TInv, OneClient, PInv
  PROVE  ~ ClearOldJob(Client) /\ ~ Disconnect(Client)
<1>1. ASSUME ClearOldJob(Client) PROVE FALSE
  <2>1. pc[Client] = "clear" /\ rt.size # 0
    BY <1>1 DEF ClearOldJob
  <2>2. Submitted = {}
    BY <2>1 DEF PInv, Control
  <2>3. InRing = {}
    BY <2>2, WhereIs, OnlyThere DEF PInv, PlaceNames
  <2> QED
    BY <2>1, <2>3, Typed, EmptyRing DEF InRing
<1>2. ~ Disconnect(Client)
  BY DEF Disconnect, OneClient
<1> QED
  BY <1>1, <1>2

(* A job of the packet is queued, or answered because the queue is full.   *)
LEMMA ClientPushes ==
  ASSUME TInv, OneClient, PInv, PushWorkReq(Client)
  PROVE  PInv'
<1> DEFINE q == packet[Client].jobs
           j == Head(q)
<1>1. /\ UNCHANGED <<pc, rt, work, old, owner, adapters, delivered, asic_mutex>>
      /\ pc[Client] = "reqs" /\ q # <<>> /\ q \in Seq(Jobs)
      /\ packet'[Client].jobs = Tail(q)
  BY Typed, ClientIs DEF PushWorkReq, queueVars
<1>2. /\ j \in InPacket /\ j \in Jobs /\ InPacket' = InPacket \ {j}
      /\ IsInjective(packet'[Client].jobs)
  BY <1>1, TailOnce DEF InPacket, PInv, OneEach
<1>3. Pulled' = Pulled /\ Evicted' = Evicted /\ Submitted' = Submitted
  BY <1>1, SamePulled, SameEvicted, SameOwner
<1>4. /\ j \notin InReq /\ j \notin Done
  BY <1>2, WhereIs, OnlyThere DEF PInv, PlaceNames
<1>5. Control'
  BY <1>1, <1>3 DEF PInv, Control, RingFull
<1> HIDE DEF j, q
<1>6. CASE Len(req[Client]) >= REQ_LIMIT
  <2> DEFINE r == Response(j, NoJob, TRUE, TRUE)
  <2>1. /\ UNCHANGED req
        /\ rsp' = [rsp EXCEPT ![Client] = Append(rsp[Client], r)]
    BY <1>6 DEF PushWorkReq, j, q
  <2>2. r \in Responses /\ r.complete /\ r.job = j
    BY <1>2 DEF Response, Responses, JobOrNone
  <2>3. Done' = Done \cup {j} /\ CompletedOnce'
    BY <1>1, <1>4, <2>1, <2>2, Completion DEF PInv, OneEach
  <2>4. Moved(j, "packet", "done")
    BY <1>1, <1>2, <1>3, <2>1, <2>3, SameReq, SameRt, WhereIs DEF Moved, PlaceNames
  <2>5. Spread'
    BY <1>3, <2>4, MoveKeepsSpread DEF PInv, PlaceNames
  <2>6. OneEach'
    BY <1>1, <1>2, <2>1, <2>3, SameReq, SameRt DEF PInv, OneEach
  <2> QED
    BY <1>5, <2>5, <2>6 DEF PInv
<1>7. CASE ~ (Len(req[Client]) >= REQ_LIMIT)
  <2>1. UNCHANGED rsp /\ req'[Client] = Append(req[Client], j)
    BY <1>7, Typed, ClientIs DEF PushWorkReq, j, q
  <2>2. InReq' = InReq \cup {j} /\ IsInjective(req'[Client])
    BY <1>2, <1>4, <2>1, Typed, AppendOnce DEF PInv, OneEach, InReq
  <2>3. Moved(j, "packet", "req")
    BY <1>1, <1>2, <1>3, <2>1, <2>2, SameReplies, SameRt, WhereIs DEF Moved, PlaceNames
  <2>4. Spread'
    BY <1>3, <2>3, MoveKeepsSpread DEF PInv, PlaceNames
  <2>5. OneEach'
    BY <1>1, <1>2, <2>1, <2>2, SameReplies, SameRt DEF PInv, OneEach
  <2> QED
    BY <1>5, <2>4, <2>5 DEF PInv
<1> QED
  BY <1>6, <1>7

(* A drop completes the oldest job of the ring.                            *)
LEMMA ClientDropsRing ==
  ASSUME TInv, OneClient, PInv, DropRingJob(Client)
  PROVE  PInv'
<1> DEFINE j == Oldest(rt).job
           r == Response(j, Oldest(rt).win, TRUE, FALSE)
<1>1. /\ UNCHANGED <<pc, packet, req, work, old, owner, adapters, delivered, asic_mutex>>
      /\ pc[Client] = "dropring" /\ rt.size # 0 /\ rt' = OneDone(rt)
  BY DEF DropRingJob
<1>2. j \in InRing /\ InRing' = InRing \ {j} /\ LiveOnce(rt')
  BY <1>1, Typed, OneDoneLive DEF PInv, OneEach, InRing
<1>3. Pulled' = Pulled /\ Evicted' = Evicted /\ Submitted' = Submitted
  BY <1>1, SamePulled, SameEvicted, SameOwner
<1>4. j \notin Done
  BY <1>2, WhereIs, OnlyThere DEF PInv, PlaceNames
<1>5. r \in Responses /\ r.complete /\ r.job = j
  BY <1>1, Typed, OldestType DEF Response, Responses
<1>6. rsp' = [rsp EXCEPT ![Client] = Append(rsp[Client], r)]
  BY <1>1, ClientIs DEF DropRingJob, PushWorkRsp, PInv, Control
<1> HIDE DEF j, r
<1>7. Done' = Done \cup {j} /\ CompletedOnce'
  BY <1>1, <1>4, <1>5, <1>6, Completion DEF PInv, OneEach
<1>8. Spread'
  <2>1. Moved(j, "ring", "done")
    BY <1>1, <1>2, <1>3, <1>7, SameReq, SamePacket, WhereIs DEF Moved, PlaceNames
  <2> QED
    BY <1>3, <2>1, MoveKeepsSpread DEF PInv, PlaceNames
<1>9. OneEach'
  BY <1>1, <1>2, <1>7, SameReq, SamePacket DEF PInv, OneEach
<1>10. Control'
  <2>1. pc[Rt] = "idle"
    BY <1>1, ClientIs DEF PInv, Control
  <2> QED
    BY <1>1, <1>3, <2>1 DEF PInv, Control
<1> QED
  BY <1>8, <1>9, <1>10 DEF PInv

(* A drop pulls a request that still waits in the adapter queue.           *)
LEMMA ClientPullsRequest ==
  ASSUME TInv, OneClient, PInv, DropPull(Client)
  PROVE  PInv'
<1> DEFINE j == Head(req[Client])
           one == <<j>>
<1>1. /\ UNCHANGED <<rt, rsp, work, old, owner, adapters, delivered, asic_mutex>>
      /\ pc[Client] = "dropreq" /\ pc'[Client] = "droprsp" /\ pc'[Rt] = pc[Rt]
      /\ adapters = Client /\ req[Client] # <<>> /\ req[Client] \in Seq(Jobs)
      /\ req'[Client] = Tail(req[Client]) /\ packet'[Client].jobs = one
  BY Typed, ClientIs DEF DropPull, HasRequest, Goto, queueVars
<1>2. /\ j \in InReq /\ j \in Jobs /\ InReq' = InReq \ {j} /\ IsInjective(req'[Client])
  BY <1>1, TailOnce DEF InReq, PInv, OneEach
<1>3. Pulled' = Pulled /\ Evicted' = Evicted /\ Submitted' = Submitted
  BY <1>1, SamePulled, SameEvicted, SameOwner
<1>4. packet[Client].jobs = <<>>
  BY <1>1 DEF PInv, Control
<1>5. InPacket = {}
  BY <1>4, EmptyOnce DEF InPacket
<1>6. InPacket' = {j} /\ IsInjective(packet'[Client].jobs)
  <2>1. Range(one) = {j} /\ IsInjective(one)
    BY DEF Range, IsInjective
  <2> QED
    BY <1>1, <2>1 DEF InPacket
<1> HIDE DEF j
<1>7. Spread'
  <2>1. Moved(j, "req", "packet")
    BY <1>1, <1>2, <1>3, <1>5, <1>6, SameRt, SameReplies, WhereIs DEF Moved, PlaceNames
  <2> QED
    BY <1>3, <2>1, MoveKeepsSpread DEF PInv, PlaceNames
<1>8. OneEach'
  BY <1>1, <1>2, <1>6, SameRt, SameReplies DEF PInv, OneEach
<1>9. Control'
  BY <1>1, <1>2, <1>3 DEF PInv, Control, RingFull
<1> QED
  BY <1>7, <1>8, <1>9 DEF PInv

(* And completes it.                                                       *)
LEMMA ClientDropsRequest ==
  ASSUME TInv, OneClient, PInv, DropPush(Client)
  PROVE  PInv'
<1>1. /\ UNCHANGED <<rt, req, work, old, owner, adapters, delivered, asic_mutex>>
      /\ pc[Client] = "droprsp" /\ pc'[Client] = "dropreq" /\ pc'[Rt] = pc[Rt]
      /\ packet'[Client].jobs = <<>>
  BY Typed, ClientIs DEF DropPush, Goto, queueVars
<1>2. PICK j \in Jobs : packet[Client].jobs = <<j>>
  BY <1>1 DEF PInv, Control
<1> DEFINE r == Response(j, NoJob, TRUE, FALSE)
<1>3. InPacket = {j} /\ InPacket' = {} /\ IsInjective(packet'[Client].jobs)
  <2>1. Range(<<j>>) = {j}
    BY DEF Range
  <2> QED
    BY <1>1, <1>2, <2>1, EmptyOnce DEF InPacket
<1>4. Pulled' = Pulled /\ Evicted' = Evicted /\ Submitted' = Submitted
  BY <1>1, SamePulled, SameEvicted, SameOwner
<1>5. j \notin Done
  BY <1>3, WhereIs, OnlyThere DEF PInv, PlaceNames
<1>6. r \in Responses /\ r.complete /\ r.job = j
  BY <1>2 DEF Response, Responses, JobOrNone
<1>7. rsp' = [rsp EXCEPT ![Client] = Append(rsp[Client], r)]
  <2>1. Head(packet[Client].jobs) = j /\ adapters = Client
    BY <1>1, <1>2 DEF PInv, Control
  <2> QED
    BY <2>1, ClientIs DEF DropPush, PushWorkRsp
<1> HIDE DEF r
<1>8. Done' = Done \cup {j} /\ CompletedOnce'
  BY <1>1, <1>5, <1>6, <1>7, Completion DEF PInv, OneEach
<1>9. Spread'
  <2>1. Moved(j, "packet", "done")
    BY <1>1, <1>3, <1>4, <1>8, SameRt, SameReq, WhereIs DEF Moved, PlaceNames
  <2> QED
    BY <1>4, <2>1, MoveKeepsSpread DEF PInv, PlaceNames
<1>10. OneEach'
  BY <1>1, <1>3, <1>8, SameRt, SameReq DEF PInv, OneEach
<1>11. Control'
  BY <1>1, <1>4 DEF PInv, Control, RingFull
<1> QED
  BY <1>9, <1>10, <1>11 DEF PInv

(* A packet brings jobs that were nowhere.                                 *)
LEMMA NewInPacket ==
  ASSUME Spread, NEW new, InPacket = {}, InPacket' = new, new \cap Submitted = {},
         Submitted' = Submitted \cup new, InReq' = InReq, Pulled' = Pulled, InRing' = InRing,
         Evicted' = Evicted, Done' = Done
  PROVE  Spread'
<1>1. /\ Where["packet"] = {} /\ Where'["packet"] = new
      /\ \A p \in PlaceNames \ {"packet"} : Where'[p] = Where[p]
  BY WhereIs DEF PlaceNames
<1>2. \A p \in PlaceNames \ {"packet"} : Where[p] \cap new = {}
  BY DEF Spread
<1>3. ASSUME NEW a \in PlaceNames, NEW b \in PlaceNames, NEW k \in Where'[a] \cap Where'[b]
      PROVE  a = b
  BY <1>1, <1>2, <1>3 DEF Spread
<1>4. Submitted' = UNION {Where'[p] : p \in PlaceNames}
  <2>1. ASSUME NEW k \in UNION {Where'[p] : p \in PlaceNames} PROVE k \in Submitted'
    <3>1. PICK p \in PlaceNames : k \in Where'[p]
      OBVIOUS
    <3> QED
      BY <1>1, <3>1 DEF Spread
  <2>2. ASSUME NEW k \in Submitted' PROVE k \in UNION {Where'[p] : p \in PlaceNames}
    <3>1. CASE k \in new
      BY <1>1, <3>1 DEF PlaceNames
    <3>2. CASE k \in Submitted
      <4>1. PICK p \in PlaceNames : k \in Where[p]
        BY <3>2 DEF Spread
      <4> QED
        BY <1>1, <4>1
    <3> QED
      BY <3>1, <3>2
  <2> QED
    BY <2>1, <2>2
<1>5. \A a, b \in PlaceNames : \A k \in Where'[a] \cap Where'[b] : a = b
  BY <1>3
<1> QED
  BY <1>4, <1>5 DEF Spread

(* A packet brings jobs that were nowhere before.                          *)
LEMMA ClientReceives ==
  ASSUME TInv, OneClient, PInv, Receive(Client)
  PROVE  PInv'
<1> DEFINE first == Cardinality(Submitted)
<1>1. PICK n \in 0 .. MaxPacket, d \in DropMasks :
        /\ Cardinality({k \in Jobs : first < k /\ k <= first + n}) = n
        /\ packet' = [packet EXCEPT ![Client] = [jobs |-> [i \in 1 .. n |-> first + i],
                                                 drop |-> d]]
        /\ owner' = [j \in Jobs |-> IF j \in {k \in Jobs : first < k /\ k <= first + n}
                                     THEN Client ELSE owner[j]]
  BY DEF Receive
<1> DEFINE new == {k \in Jobs : first < k /\ k <= first + n}
           q == [i \in 1 .. n |-> first + i]
<1>2. n \in Nat
  BY <1>1, JobPipelineAssumption
<1>3. /\ first \in Nat /\ new = first + 1 .. first + n /\ first + n <= Cardinality(Jobs)
      /\ q \in Seq(Jobs)
  BY <1>1, <1>2, NewJobs
<1>4. /\ UNCHANGED <<rt, work, old, req, rsp, delivered, adapters, asic_mutex>>
      /\ pc[Client] = "read" /\ pc'[Client] = "wake" /\ pc'[Rt] = pc[Rt]
  BY Typed, ClientIs DEF Receive, Goto, queueVars
<1>5. InPacket = {}
  BY <1>4, EmptyOnce DEF InPacket, PInv, Control
<1>6. packet'[Client].jobs = q
  BY <1>1, Typed, ClientIs
<1>7. InPacket' = new /\ IsInjective(packet'[Client].jobs)
  <2>1. /\ DOMAIN q = 1 .. n /\ Range(q) = {q[i] : i \in 1 .. n}
        /\ \A i \in 1 .. n : q[i] = first + i
    BY DEF Range
  <2>2. IsInjective(q)
    <3> SUFFICES ASSUME NEW a \in 1 .. n, NEW b \in 1 .. n, q[a] = q[b] PROVE a = b
      BY <2>1 DEF IsInjective
    <3>1. first + a = first + b
      BY <2>1
    <3> QED
      BY <3>1, <1>2, <1>3
  <2>3. \A i \in 1 .. n : first + i \in first + 1 .. first + n
    BY <1>2, <1>3
  <2>4. \A k \in first + 1 .. first + n : k - first \in 1 .. n /\ k = first + (k - first)
    BY <1>2, <1>3
  <2> HIDE DEF q, first
  <2>5. Range(q) = first + 1 .. first + n
    <3>1. ASSUME NEW k \in first + 1 .. first + n PROVE k \in Range(q)
      <4>1. k - first \in 1 .. n /\ k = q[k - first]
        BY <2>1, <2>4
      <4> QED
        BY <2>1, <4>1
    <3>2. ASSUME NEW k \in Range(q) PROVE k \in first + 1 .. first + n
      BY <2>1, <2>3
    <3> QED
      BY <3>1, <3>2
  <2> QED
    BY <1>3, <1>6, <2>2, <2>5 DEF InPacket
<1>8. Submitted' = Submitted \cup new
  BY <1>1, ClientIs DEF Submitted
<1>9. Submitted = 1 .. first
  BY DEF PInv, Control
<1>10. Submitted' = 1 .. first + n /\ new \cap Submitted = {}
  <2> HIDE DEF first, new
  <2> QED
    BY <1>2, <1>3, <1>8, <1>9
<1>11. Submitted' = 1 .. Cardinality(Submitted')
  <2>1. Cardinality(1 .. first + n) = first + n
    <3>1. 1 \in Int /\ first + n \in Nat
      BY <1>2, <1>3
    <3> DEFINE m == first + n
    <3> HIDE DEF m
    <3>2. 1 \in Int /\ m \in Int /\ m \in Nat
      BY <3>1 DEF m
    <3>3. Cardinality(1 .. m) = IF 1 > m THEN 0 ELSE m - 1 + 1
      BY <3>2, FS_Interval
    <3>4. Cardinality(1 .. m) = m
      BY <3>2, <3>3
    <3> QED
      BY <3>4 DEF m
  <2> QED
    BY <1>10, <2>1
<1>12. Spread'
  BY <1>4, <1>5, <1>7, <1>8, <1>10, SameReq, SameRt, SameReplies, SamePulled, SameEvicted,
     NewInPacket DEF PInv
<1>13. OneEach'
  BY <1>4, <1>7, SameReq, SameRt, SameReplies DEF PInv, OneEach
<1>14. Control'
  BY <1>4, <1>11 DEF PInv, Control, RingFull
<1> QED
  BY <1>12, <1>13, <1>14 DEF PInv

(* What the hardware does, and nothing at all, moves no job either.        *)
LEMMA OthersKeep ==
  ASSUME TInv, OneClient, PInv, HwLoad \/ HwFinish \/ HwWin \/ UNCHANGED vars
  PROVE  PInv'
<1>1. UNCHANGED <<rt, work, old, adapters, req, rsp, delivered, packet, owner, asic_mutex, pc>>
  BY DEF HwLoad, HwFinish, HwWin, vars, queueVars, netVars
<1>2. Spread' /\ OneEach'
  BY <1>1, SameReplies, SameRt, SamePulled, SameEvicted, QuietStep DEF PInv, OneEach, InRing
<1>3. Control'
  BY <1>1, SameOwner DEF PInv, Control, RingFull
<1> QED
  BY <1>2, <1>3 DEF PInv

(* At the start no job was submitted.                                      *)
LEMMA PInit ==
  ASSUME Init, OneClient
  PROVE  PInv
<1>1. InPacket = {} /\ InReq = {} /\ IsInjective(packet[Client].jobs) /\ IsInjective(req[Client])
  BY EmptyOnce, ClientIs DEF Init, NoPacket, InPacket, InReq
<1>2. pc[Rt] = "idle" /\ pc[Client] = "off"
  BY ClientIs DEF Init
<1>3. Pulled = {} /\ Evicted = {}
  BY <1>2 DEF Pulled, Evicted
<1>4. Submitted = {} /\ Cardinality(Submitted) = 0
  <2>1. Submitted = {}
    BY DEF Init, Submitted
  <2> QED
    BY <2>1, FS_EmptySet
<1>5. \A i \in Slots : rt.slot[i].state # "has_job"
  BY DEF Init, ResetRing, BlankSlot
<1>6. InRing = {} /\ LiveOnce(rt)
  BY <1>5 DEF InRing, LiveJobs, LiveOnce
<1>7. Len(Answers(Client)) = 0
  <2> DEFINE e == <<>>
  <2>1. e \in Seq(Responses) /\ Len(e) = 0
    BY EmptySeq
  <2>2. Answers(Client) = e \o e
    BY ClientIs DEF Init, Answers
  <2> HIDE DEF e
  <2> QED
    BY <2>1, <2>2, ConcatProperties
<1>8. Done = {} /\ CompletedOnce
  BY <1>7, DoneIs DEF CompleteIn, OnceIn
<1>9. Spread
  <2>1. \A p \in PlaceNames : Where[p] = {}
    BY <1>1, <1>3, <1>6, <1>8, WhereIs DEF PlaceNames
  <2> QED
    BY <1>4, <2>1 DEF Spread
<1>10. OneEach
  BY <1>1, <1>6, <1>8 DEF OneEach
<1>11. Control
  BY <1>2, <1>4, ClientIs, JobPipelineAssumption DEF Init, NoPacket, Control
<1> QED
  BY <1>9, <1>10, <1>11 DEF PInv

(* Every step keeps each job in one place.                                 *)
LEMMA PNext ==
  ASSUME TInv, OneClient, PInv, [Next]_vars
  PROVE  PInv'
<1>1. CASE RtStep
  BY <1>1, RtPulls, RtTests, RtEvicts, RtCompletes, RtWritesJob, RtQuiet DEF RtStep
<1>2. CASE \E t \in Threads : WinStep(t)
  BY <1>2, WinStepKeeps
<1>3. CASE \E s \in Sessions : ClientStep(s) \/ ConnectionStep(s)
  <2>1. ClientStep(Client) \/ ConnectionStep(Client)
    BY <1>3, ClientIs
  <2> QED
    BY <2>1, ClientQuiet, ClientSends, NothingToClear, ClientPushes, ClientDropsRing,
       ClientPullsRequest, ClientDropsRequest, ClientReceives
       DEF ClientStep, ConnectionStep
<1>4. CASE HwLoad \/ HwFinish \/ HwWin \/ UNCHANGED vars
  BY <1>4, OthersKeep
<1> QED
  BY <1>1, <1>2, <1>3, <1>4 DEF Next

(* In every reachable state each job is in one place, whatever is          *)
(* dropped.                                                                *)
LEMMA PInvariance == ASSUME OneClient PROVE Spec => []PInv
<1>1. Init => PInv
  BY PInit
<1>2. TInv /\ PInv /\ [Next]_vars => PInv'
  BY PNext
<1>3. Spec => []TInv
  BY TInvariance
<1> QED
  BY <1>1, <1>2, <1>3, PTL DEF Spec

(* The places of a job, as JobInOnePlace counts them.                      *)
LEMMA PlacesOf ==
  ASSUME TInv, OneClient, NEW j \in Submitted
  PROVE  Places(j) = {<<"packet", s>> : s \in {t \in Sessions : j \in InPacket}}
                       \cup {<<"req", s>> : s \in {t \in Sessions : j \in InReq}}
                       \cup {<<"ring", i>> : i \in LiveSlots(j)}
                       \cup {<<p, Rt>> : p \in {q \in {"pulled", "evicted", "done"} :
                               j \in Where[q]}}
<1>1. \A s \in Sessions : /\ j \in Range(packet[s].jobs) <=> j \in InPacket
                          /\ j \in Range(req[s]) <=> j \in InReq
  BY ClientIs DEF InPacket, InReq
<1>2. j \in JobOrNone
  BY DEF Submitted, JobOrNone
<1>3. /\ j \in Where["pulled"] <=>
           (work = j /\ pc[Rt] \in {"full", "evict", "old", "write"})
      /\ j \in Where["evicted"] <=> (old.job = j /\ pc[Rt] = "old")
      /\ j \in Where["done"] <=> Completed(j)
  BY <1>2, WhereIs DEF Pulled, Evicted, Done
<1>4. \A q \in {"pulled", "evicted", "done"} :
        (CASE q = "pulled"  -> work = j /\ pc[Rt] \in {"full", "evict", "old", "write"}
           [] q = "evicted" -> old.job = j /\ pc[Rt] = "old"
           [] q = "done"    -> Completed(j))
          <=> j \in Where[q]
  BY <1>3
<1> QED
  BY <1>1, <1>4 DEF Places

(* The invariant in terms of the counted places of JobPipeline.            *)
LEMMA OnePlace ==
  ASSUME TInv, OneClient, PInv
  PROVE  JobInOnePlace
<1> SUFFICES ASSUME NEW j \in Submitted PROVE Cardinality(Places(j)) = 1
  BY DEF JobInOnePlace
<1>1. PICK p \in PlaceNames : j \in Where[p]
  BY DEF PInv, Spread
<1>2. \A q \in PlaceNames \ {p} : j \notin Where[q]
  BY <1>1, OnlyThere DEF PInv
<1>3. j \in InRing <=> LiveSlots(j) # {}
  BY DEF InRing, LiveJobs, LiveSlots
<1>4. \A i, k \in LiveSlots(j) : i = k
  BY DEF PInv, OneEach, LiveOnce, LiveSlots
<1>5. {"packet", "req", "ring", "pulled", "evicted", "done"} \subseteq PlaceNames
  BY DEF PlaceNames
<1>6. \E x : Places(j) = {x}
  <2>1. CASE p = "packet"
    <3>1. Places(j) = {<<"packet", Client>>}
      BY <1>1, <1>2, <1>3, <1>5, <2>1, PlacesOf, WhereIs, ClientIs
    <3> QED
      BY <3>1
  <2>2. CASE p = "req"
    <3>1. Places(j) = {<<"req", Client>>}
      BY <1>1, <1>2, <1>3, <1>5, <2>2, PlacesOf, WhereIs, ClientIs
    <3> QED
      BY <3>1
  <2>3. CASE p = "ring"
    <3>1. PICK i : LiveSlots(j) = {i}
      BY <1>1, <1>3, <1>4, <2>3, WhereIs
    <3>2. Places(j) = {<<"ring", i>>}
      BY <1>1, <1>2, <1>3, <1>5, <2>3, <3>1, PlacesOf, WhereIs
    <3> QED
      BY <3>2
  <2>4. CASE p \in {"pulled", "evicted", "done"}
    <3>1. Places(j) = {<<p, Rt>>}
      BY <1>1, <1>2, <1>3, <1>5, <2>4, PlacesOf, WhereIs
    <3> QED
      BY <3>1
  <2> QED
    BY <2>1, <2>2, <2>3, <2>4 DEF PlaceNames
<1> QED
  BY <1>6, FS_Singleton

(* One client, its drops included: no job is lost on its way, none is in   *)
(* two places at once, whatever the hardware reports and loses.            *)
THEOREM JobsStayInOnePlace ==
  ASSUME OneClient
  PROVE  Spec => []JobInOnePlace
<1>1. Spec => []TInv
  BY TInvariance
<1>2. Spec => []PInv
  BY PInvariance
<1>3. TInv /\ PInv => JobInOnePlace
  BY OnePlace
<1> QED
  BY <1>1, <1>2, <1>3, PTL

(* And no job is completed twice: by the RT thread that needs its slot, by *)
(* the overflow of the adapter queue, and by a drop that empties the       *)
(* queues between two steps of the RT thread.                              *)
THEOREM DropsComplete ==
  ASSUME OneClient
  PROVE  Spec => []DropsCompleteOnce
<1>1. Spec => []TInv
  BY TInvariance
<1>2. Spec => []PInv
  BY PInvariance
<1>3. TInv /\ PInv => DropsCompleteOnce
  BY OnePlace DEF DropsCompleteOnce, PInv, OneEach
<1> QED
  BY <1>1, <1>2, <1>3, PTL

-----------------------------------------------------------------------------
(* When the client never sets the drop bit, only the RT thread touches the *)
(* ring and the hardware.                                                  *)
NeverDrops == DropMasks \subseteq {FALSE}

(* Of each job, the completion is the last the client hears; a win that is *)
(* being reported is for a slot that has a job.                            *)
LastWord(a) == \A i, k \in 1 .. Len(a) : i < k /\ a[i].job = a[k].job => ~ a[i].complete

Reports == {"winset", "winpush", "winclear"}

LInv ==
  /\ LastWord(Answers(Client))
  /\ pc[Rt] \in Reports => rt.slot[SlotOfWin(Rt)].state = "has_job"
  /\ pc[Rt] = "old" => old.win = NoJob

(* The jobs of the hardware, oldest first, are the newest jobs of the ring *)
(* in the same order; the newest but one while that one is still to be     *)
(* pushed.                                                                 *)
NewestIn(q, r, behind) ==
  /\ Len(q) + behind <= r.size
  /\ \A k \in 1 .. Len(q) : \E i \in Slots :
       /\ Ahead(r, i) = r.size - Len(q) - behind + k - 1
       /\ q[k] = Win(r.slot[i].id, r.slot[i].job)

Newest == NewestIn(asic \o mq, rt, IF pc[Rt] = "hwpush" THEN 1 ELSE 0)

(* What the MQ holds, a job that is on its way there included.             *)
Filled ==
  Len(mq) + IF pc[Rt] \in {"full", "evict", "old", "write", "hwpush"} THEN 1 ELSE 0

Room ==
  /\ Len(asic) <= ASIC_DEPTH
  /\ Filled = 0 \/ Filled + ASIC_DEPTH <= RT_QUEUE_SIZE
  /\ tries # NoBist => Filled <= BIST_JOBS - tries
  /\ pc[Rt] = "idle" => tries = NoBist

HInv == Newest /\ Room

(* Whenever the MQ takes a job, in a tick or after a BIST, there is room   *)
(* in the ring for all that MQ and ASICs then hold.                        *)
HardwareFits ==
  \A n \in Nat : n * WORDS_PER_JOB < MQ_TOO_FULL \/ n < BIST_JOBS
                   => n + 1 + ASIC_DEPTH <= RT_QUEUE_SIZE
-----------------------------------------------------------------------------
(* A response for a job that is not complete yet.                          *)
LEMMA LastAppended ==
  ASSUME TInv, OneClient, LastWord(Answers(Client)), NEW r \in Responses, r.job \notin Done,
         rsp' = [rsp EXCEPT ![Client] = Append(rsp[Client], r)], UNCHANGED delivered
  PROVE  LastWord(Answers(Client)')
<1> DEFINE a == Answers(Client)
           b == Answers(Client)'
           n == Len(a)
<1>1. /\ Len(b) = n + 1 /\ b[n + 1] = r /\ \A i \in 1 .. n : b[i] = a[i]
  BY AnswersAppended
<1>2. n \in Nat /\ a \in Seq(Responses) /\ Done = CompleteIn(a)
  BY AnswersIs, DoneIs
<1>3. \A i \in 1 .. n : a[i].job = r.job => ~ a[i].complete
  <2> HIDE DEF a
  <2>1. \A i \in 1 .. n : a[i].job \in JobOrNone
    <3>1. \A i \in 1 .. n : a[i] \in Responses
      BY <1>2, ElementOfSeq
    <3> QED
      BY <3>1 DEF Responses
  <2> QED
    BY <1>2, <2>1 DEF CompleteIn
<1> HIDE DEF a, b
<1>4. \A i, k \in 1 .. Len(b) : i < k => i \in 1 .. n /\ (k \in 1 .. n \/ k = n + 1)
  BY <1>1, <1>2
<1>5. \A i, k \in 1 .. n : i < k /\ a[i].job = a[k].job => ~ a[i].complete
  BY DEF LastWord, a
<1>6. LastWord(b)
  <2> SUFFICES ASSUME NEW i \in 1 .. Len(b), NEW k \in 1 .. Len(b), i < k,
                      b[i].job = b[k].job
               PROVE  ~ b[i].complete
    BY DEF LastWord
  <2> QED
    BY <1>1, <1>3, <1>4, <1>5
<1> QED
  BY <1>6 DEF b

(* A step that leaves the slots' states, the replies and the report of a   *)
(* win alone.                                                              *)
LEMMA SameLast ==
  ASSUME LInv, Answers(Client)' = Answers(Client), win'[Rt] = win[Rt],
         \A i \in Slots : rt'.slot[i].state = rt.slot[i].state, SlotOfWin(Rt) \in Slots,
         pc'[Rt] \in Reports => pc[Rt] \in Reports,
         pc'[Rt] = "old" => pc[Rt] = "old" /\ UNCHANGED old
  PROVE  LInv'
  BY DEF LInv, LastWord, SlotOfWin

(* A win is looked up in a slot of the ring.                               *)
LEMMA SlotOK ==
  ASSUME TInv
  PROVE  SlotOfWin(Rt) \in Slots
  BY HwTypes, ThreadsAre DEF TInv, WinTyped, SlotOfWin

(* The RT thread completes only jobs that were not completed before.       *)
LEMMA LastRt ==
  ASSUME TInv, OneClient, PInv, WInv, LInv, RtStep
  PROVE  LInv'
<1>0. /\ pc \in [Threads -> Labels] /\ Rt \in Threads /\ RingOK(rt)
      /\ rt.slot \in [Slots -> SlotType]
  BY ClientIs, ThreadsAre DEF TInv, ThreadsTyped, QueueTyped, RingOK, RingType
<1>1. CASE RtMqTooFull \/ RtPull \/ RtNoJob \/ RtTestFull \/ RtPushToHw \/ RtBist \/ RtEndTick
  <2>1. UNCHANGED <<rt, rsp, delivered, old>> /\ win'[Rt] = win[Rt]
    BY <1>1 DEF RtMqTooFull, RtPull, RtNoJob, RtTestFull, RtPushToHw, RtBist, RtEndTick,
       queueVars, netVars, winVars
  <2>2. pc'[Rt] \notin Reports \cup {"old"}
    BY <1>0, <1>1 DEF RtMqTooFull, RtPull, RtNoJob, RtTestFull, RtPushToHw, RtBist,
       RtEndTick, TryPush, Goto, Reports
  <2> QED
    BY <2>1, <2>2, SlotOK, SameLast DEF Answers
<1>2. CASE RtEvict
  <2>1. /\ UNCHANGED <<rsp, delivered>> /\ pc[Rt] = "evict" /\ pc'[Rt] = "old"
    BY <1>0, <1>2 DEF RtEvict, Goto, netVars
  <2>2. rt.size # 0
    BY <2>1, RtQueueAssumption DEF PInv, Control, RingFull
  <2>3. old'.win = Oldest(rt).win
    BY <1>2, <2>2 DEF RtEvict
  <2>4. Oldest(rt).win = NoJob
    BY <1>0, <2>1 DEF WInv, Oldest, RingOK, RingType
  <2> QED
    BY <2>1, <2>3, <2>4 DEF LInv, Answers, Reports, LastWord
<1>3. CASE RtCompleteOld
  <2>1. /\ UNCHANGED <<rt, delivered, win>> /\ pc[Rt] = "old" /\ old.win = NoJob
    BY <1>3 DEF RtCompleteOld, winVars, LInv
  <2>2. PushWorkRsp(old.job, old.win, TRUE) /\ pc'[Rt] = "write"
    BY <1>0, <1>3, <2>1 DEF RtCompleteOld, Goto
  <2> DEFINE r == Response(old.job, old.win, TRUE, FALSE)
  <2>3. old.job \in Evicted
    BY <2>1 DEF Evicted
  <2>4. old.job \in Submitted /\ old.job \notin Done
    BY <2>3, WhereIs, OnlyThere DEF PInv, PlaceNames
  <2>5. r \in Responses /\ r.job = old.job
    BY Typed DEF Response, Responses
  <2>6. rsp' = [rsp EXCEPT ![Client] = Append(rsp[Client], r)]
    BY <2>2, <2>4, ClientIs DEF PushWorkRsp, PInv, Control
  <2> HIDE DEF r
  <2>7. LastWord(Answers(Client)')
    BY <2>1, <2>4, <2>5, <2>6, LastAppended DEF LInv
  <2> QED
    BY <2>2, <2>7 DEF LInv, Reports
<1>4. CASE RtWrite
  <2>1. /\ UNCHANGED <<rsp, delivered>> /\ pc'[Rt] = "hwpush"
    BY <1>0, <1>4 DEF RtWrite, Goto, netVars
  <2> QED
    BY <2>1 DEF LInv, Answers, Reports, LastWord
<1> QED
  BY <1>1, <1>2, <1>3, <1>4 DEF RtStep

(* A win is reported only while its slot has the job: it is not            *)
(* complete.                                                               *)
LEMMA LastWin ==
  ASSUME TInv, OneClient, PInv, LInv, WinStep(Rt)
  PROVE  LInv'
<1>0. /\ pc \in [Threads -> Labels] /\ Rt \in Threads /\ RingOK(rt)
      /\ rt.slot \in [Slots -> SlotType] /\ SlotOfWin(Rt) \in Slots
      /\ win[Rt].job \in JobOrNone
  BY ClientIs, ThreadsAre, SlotOK, HwTypes
  DEF TInv, ThreadsTyped, QueueTyped, RingOK, RingType, WinTyped
<1> DEFINE i == SlotOfWin(Rt)
<1>1. CASE PollWin(Rt) \/ PollStuck(Rt) \/ WinBad(Rt) \/ WinRestart(Rt)
  <2>1. UNCHANGED <<rt, rsp, delivered>> /\ pc'[Rt] \in {"poll", "win"}
    BY <1>0, <1>1 DEF PollWin, PollStuck, WinBad, WinRestart, Goto, queueVars, netVars
  <2> QED
    BY <2>1 DEF LInv, Answers, Reports, LastWord
<1>2. CASE WinGood(Rt)
  <2>1. /\ UNCHANGED <<rt, rsp, delivered, win>> /\ pc'[Rt] = "winset"
        /\ rt.slot[i].state = "has_job"
    BY <1>0, <1>2 DEF WinGood, WinIsGood, Goto, queueVars, netVars, winVars
  <2> QED
    BY <2>1 DEF LInv, Answers, LastWord, SlotOfWin
<1>3. CASE WinSet(Rt) \/ WinClear(Rt)
  <2>1. /\ UNCHANGED <<rsp, delivered>> /\ \E j \in JobOrNone : SetNonce(Rt, j)
    BY <1>0, <1>3 DEF WinSet, WinClear, netVars, JobOrNone
  <2>2. \A s \in Slots : rt'.slot[s].state = rt.slot[s].state
    BY <1>0, <2>1 DEF SetNonce, RingOK, RingType
  <2>3. \/ pc[Rt] = "winset" /\ pc'[Rt] = "winpush" /\ UNCHANGED win
        \/ pc'[Rt] = "poll"
    BY <1>0, <1>3 DEF WinSet, WinClear, Goto, winVars
  <2> QED
    BY <1>0, <2>1, <2>2, <2>3 DEF LInv, Reports, Answers, LastWord, SlotOfWin
<1>4. CASE WinPush(Rt)
  <2>1. /\ UNCHANGED <<rt, delivered, win>> /\ pc[Rt] = "winpush" /\ pc'[Rt] = "winclear"
        /\ PushWorkRsp(rt.slot[i].job, rt.slot[i].win, FALSE)
    BY <1>0, <1>4 DEF WinPush, Goto, queueVars, winVars
  <2> DEFINE j == rt.slot[i].job
             r == Response(j, rt.slot[i].win, FALSE, FALSE)
  <2>2. j \in InRing
    BY <1>0, <2>1 DEF LInv, Reports, InRing, LiveJobs
  <2>3. j \in Submitted /\ j \notin Done
    BY <2>2, WhereIs, OnlyThere DEF PInv, PlaceNames
  <2>4. r \in Responses /\ r.job = j
    BY <1>0 DEF Response, Responses, SlotType, JobOrNone
  <2>5. rsp' = [rsp EXCEPT ![Client] = Append(rsp[Client], r)]
    BY <2>1, <2>3, ClientIs DEF PushWorkRsp, PInv, Control
  <2> HIDE DEF r
  <2>6. LastWord(Answers(Client)')
    BY <2>1, <2>3, <2>4, <2>5, LastAppended DEF LInv
  <2> QED
    BY <2>1, <2>6 DEF LInv, Reports, SlotOfWin
<1> QED
  BY <1>1, <1>2, <1>3, <1>4 DEF WinStep, PollDone

(* Without a drop a connection changes no slot and adds no answer.         *)
LEMMA LastClient ==
  ASSUME TInv, OneClient, PInv, NoDrops, LInv, ClientStep(Client) \/ ConnectionStep(Client)
  PROVE  LInv'
<1>0. /\ pc \in [Threads -> Labels] /\ pc[Client] \in WithoutDrops
      /\ ~ ClearOldJob(Client) /\ ~ Disconnect(Client)
  BY Typed, ClientIs, NothingToClear DEF NoDrops
<1>1. UNCHANGED <<rt, old>> /\ pc'[Rt] = pc[Rt] /\ win'[Rt] = win[Rt]
  BY <1>0, ClientIs DEF ClientStep, ConnectionStep, Accept, Receive,
     ClearDone, Wake, PushWorkReq, ReqsDone, DropLock, DropRingJob,
     DropRingDone, DropPull, DropPush, DropRequestsDone, DropStop, Send, Goto, queueVars, winVars,
     WithoutDrops
<1>2. CASE PushWorkReq(Client)
  <2> DEFINE j == Head(packet[Client].jobs)
             r == Response(j, NoJob, TRUE, TRUE)
  <2>1. UNCHANGED delivered /\ packet[Client].jobs # <<>>
    BY <1>2 DEF PushWorkReq
  <2>2. rsp' = rsp \/ rsp' = [rsp EXCEPT ![Client] = Append(rsp[Client], r)]
    BY <1>2 DEF PushWorkReq
  <2>3. j \in InPacket /\ j \in Jobs
    BY <2>1, Typed, TailOnce DEF InPacket, PInv, OneEach
  <2>4. j \notin Done
    BY <2>3, WhereIs, OnlyThere DEF PInv, PlaceNames
  <2>5. r \in Responses /\ r.job = j
    BY <2>3 DEF Response, Responses, JobOrNone
  <2> HIDE DEF j, r
  <2>6. LastWord(Answers(Client)')
    <3>1. CASE rsp' = rsp
      BY <2>1, <3>1 DEF LInv, Answers, LastWord
    <3>2. CASE rsp' = [rsp EXCEPT ![Client] = Append(rsp[Client], r)]
      BY <2>1, <2>4, <2>5, <3>2, LastAppended DEF LInv
    <3> QED
      BY <2>2, <3>1, <3>2
  <2> QED
    BY <1>1, <2>6 DEF LInv, SlotOfWin
<1>3. CASE ~ PushWorkReq(Client)
  <2>1. Answers(Client)' = Answers(Client)
    <3>1. CASE Send(Client)
      BY <3>1, SendKeepsAnswers
    <3>2. CASE ~ Send(Client)
      <4>1. UNCHANGED <<rsp, delivered>>
        BY <1>0, <1>3, <3>2 DEF ClientStep, ConnectionStep, Accept, Receive,
           ClearDone, Wake, ReqsDone, DropLock, DropRingJob, DropRingDone, DropPull, DropPush,
           DropRequestsDone, DropStop, Goto, netVars, WithoutDrops
      <4> QED
        BY <4>1 DEF Answers
    <3> QED
      BY <3>1, <3>2
  <2> QED
    BY <1>1, <2>1, SlotOK, SameLast
<1> QED
  BY <1>2, <1>3

(* Without drops, only the RT thread polls wins.                           *)
LEMMA OnlyRtPolls ==
  ASSUME TInv, NoDrops, NEW t \in Threads, WinStep(t)
  PROVE  t = Rt
<1>1. ASSUME t \in Sessions PROVE FALSE
  BY <1>1 DEF NoDrops, WithoutDrops, WinStep, PollWin, PollDone, PollStuck, WinGood, WinBad,
     WinRestart, WinSet, WinPush, WinClear, Goto
<1> QED
  BY <1>1 DEF Threads

(* No step of any actor answers for a completed job.                       *)
LEMMA LastStep ==
  ASSUME TInv, OneClient, PInv, NoDrops, WInv, LInv, [Next]_vars
  PROVE  LInv'
<1>1. CASE RtStep
  BY <1>1, LastRt
<1>2. CASE \E t \in Threads : WinStep(t)
  BY <1>2, OnlyRtPolls, LastWin
<1>3. CASE \E s \in Sessions : ClientStep(s) \/ ConnectionStep(s)
  BY <1>3, ClientIs, LastClient
<1>4. CASE HwLoad \/ HwFinish \/ HwWin \/ UNCHANGED vars
  <2>1. UNCHANGED <<rt, rsp, delivered, win, pc, old>>
    BY <1>4 DEF HwLoad, HwFinish, HwWin, vars, queueVars, netVars, winVars
  <2> QED
    BY <2>1, SlotOK, SameLast DEF Answers
<1> QED
  BY <1>1, <1>2, <1>3, <1>4 DEF Next
-----------------------------------------------------------------------------
(* The queue of the hardware: the ASICs' jobs, then those of the MQ.       *)
LEMMA Loaded ==
  ASSUME NEW S, NEW a \in Seq(S), NEW m \in Seq(S), m # <<>>
  PROVE  Append(a, Head(m)) \o Tail(m) = a \o m
<1>1. /\ Head(m) \in S /\ Head(m) = m[1] /\ Tail(m) \in Seq(S) /\ Len(m) \in Nat /\ Len(m) > 0
      /\ Len(Tail(m)) = Len(m) - 1 /\ \A i \in 1 .. Len(m) - 1 : Tail(m)[i] = m[i + 1]
  BY HeadTailProperties, EmptySeq, LenProperties
<1> DEFINE b == Append(a, Head(m))
           c == Tail(m)
<1>2. /\ b \in Seq(S) /\ Len(b) = Len(a) + 1 /\ b[Len(a) + 1] = m[1] /\ Len(a) \in Nat
      /\ \A i \in 1 .. Len(a) : b[i] = a[i]
  BY <1>1, AppendProperties, LenProperties
<1>3. c \in Seq(S) /\ Len(c) = Len(m) - 1 /\ \A i \in 1 .. Len(m) - 1 : c[i] = m[i + 1]
  BY <1>1
<1> HIDE DEF b, c
<1>4. /\ b \o c \in Seq(S) /\ a \o m \in Seq(S)
      /\ Len(b \o c) = Len(a) + Len(m) /\ Len(a \o m) = Len(a) + Len(m)
  <2>1. b \o c \in Seq(S) /\ Len(b \o c) = Len(b) + Len(c)
    BY <1>2, <1>3, ConcatProperties
  <2>2. a \o m \in Seq(S) /\ Len(a \o m) = Len(a) + Len(m)
    BY ConcatProperties
  <2> QED
    BY <1>1, <1>2, <1>3, <2>1, <2>2
<1>5. ASSUME NEW i \in 1 .. Len(a) + Len(m) PROVE (b \o c)[i] = (a \o m)[i]
  <2>1. (a \o m)[i] = IF i <= Len(a) THEN a[i] ELSE m[i - Len(a)]
    BY <1>2, ConcatProperties
  <2>2. (b \o c)[i] = IF i <= Len(a) + 1 THEN b[i] ELSE c[i - (Len(a) + 1)]
    BY <1>1, <1>2, <1>3, ConcatProperties
  <2>3. CASE i <= Len(a)
    BY <1>2, <2>1, <2>2, <2>3
  <2>4. CASE i = Len(a) + 1
    BY <1>2, <2>1, <2>2, <2>4
  <2>5. CASE i > Len(a) + 1
    <3>1. i - (Len(a) + 1) \in 1 .. Len(m) - 1 /\ (i - (Len(a) + 1)) + 1 = i - Len(a)
      BY <1>1, <1>2, <2>5
    <3>2. c[i - (Len(a) + 1)] = m[i - Len(a)]
      BY <1>3, <3>1
    <3> QED
      BY <1>2, <2>1, <2>2, <2>5, <3>2
  <2>6. i <= Len(a) \/ i = Len(a) + 1 \/ i > Len(a) + 1
    BY <1>1, <1>2
  <2> QED
    BY <2>3, <2>4, <2>5, <2>6
<1> QED
  BY <1>4, <1>5, SeqEqual DEF b, c

(* The ASICs finish the oldest job of the hardware.                        *)
LEMMA Finished ==
  ASSUME NEW S, NEW a \in Seq(S), NEW m \in Seq(S), a # <<>>
  PROVE  a \o m # <<>> /\ Tail(a) \o m = Tail(a \o m)
<1> DEFINE q == a \o m
           r == Tail(a) \o m
<1>1. /\ Len(a) \in Nat /\ Len(a) > 0 /\ Len(m) \in Nat /\ Tail(a) \in Seq(S)
      /\ Len(Tail(a)) = Len(a) - 1 /\ \A i \in 1 .. Len(a) - 1 : Tail(a)[i] = a[i + 1]
  BY HeadTailProperties, EmptySeq, LenProperties
<1>2. /\ q \in Seq(S) /\ Len(q) = Len(a) + Len(m) /\ r \in Seq(S)
      /\ Len(r) = Len(a) - 1 + Len(m)
  BY <1>1, ConcatProperties
<1>3. \A i \in 1 .. Len(a) + Len(m) : q[i] = IF i <= Len(a) THEN a[i] ELSE m[i - Len(a)]
  BY <1>1, ConcatProperties
<1>4. \A i \in 1 .. Len(a) - 1 + Len(m) :
        r[i] = IF i <= Len(a) - 1 THEN Tail(a)[i] ELSE m[i - (Len(a) - 1)]
  BY <1>1, ConcatProperties
<1> HIDE DEF q, r
<1>5. q # <<>>
  BY <1>1, <1>2, EmptySeq
<1>6. /\ Tail(q) \in Seq(S) /\ Len(Tail(q)) = Len(q) - 1
      /\ \A i \in 1 .. Len(q) - 1 : Tail(q)[i] = q[i + 1]
  BY <1>2, <1>5, HeadTailProperties
<1>7. ASSUME NEW i \in 1 .. Len(r) PROVE r[i] = Tail(q)[i]
  <2>1. Tail(q)[i] = q[i + 1] /\ i + 1 \in 1 .. Len(a) + Len(m)
    BY <1>1, <1>2, <1>6
  <2>2. CASE i <= Len(a) - 1
    BY <1>1, <1>2, <1>3, <1>4, <2>1, <2>2
  <2>3. CASE ~ (i <= Len(a) - 1)
    <3>1. i - (Len(a) - 1) = (i + 1) - Len(a)
      BY <1>1
    <3> QED
      BY <1>1, <1>2, <1>3, <1>4, <2>1, <2>3, <3>1, SMTT(40)
  <2> QED
    BY <2>2, <2>3
<1>8. r = Tail(q)
  BY <1>1, <1>2, <1>6, <1>7, SeqEqual
<1> QED
  BY <1>5, <1>8 DEF q, r

(* A job written to the MQ is the newest job of the hardware.              *)
LEMMA Pushed ==
  ASSUME NEW S, NEW a \in Seq(S), NEW m \in Seq(S), NEW x \in S
  PROVE  a \o Append(m, x) = Append(a \o m, x)
<1> DEFINE e == <<x>>
<1>1. e \in Seq(S) /\ Append(m, x) = m \o e
  BY AppendIsConcat
<1>2. a \o m \in Seq(S)
  BY ConcatProperties
<1>3. Append(a \o m, x) = (a \o m) \o e
  BY <1>2, AppendIsConcat
<1> HIDE DEF e
<1>4. (a \o m) \o e = a \o (m \o e)
  BY <1>1, ConcatAssociative
<1> QED
  BY <1>1, <1>3, <1>4
-----------------------------------------------------------------------------
(* How the hardware's jobs stay the newest of the ring.                    *)
LEMMA NewestNone ==
  ASSUME NEW r, r.size \in Nat
  PROVE  NewestIn(<<>>, r, 0)
<1> DEFINE e == <<>>
<1>1. Len(e) = 0
  BY EmptySeq
<1> HIDE DEF e
<1>2. NewestIn(e, r, 0)
  BY <1>1 DEF NewestIn
<1> QED
  BY <1>2 DEF e

(* Only the ids and jobs of the slots and the two counters of the ring     *)
(* matter.                                                                 *)
LEMMA NewestSame ==
  ASSUME NEW q, NEW r, NEW s, NEW b, NewestIn(q, r, b), s.size = r.size, s.hw_done = r.hw_done,
         \A i \in Slots : s.slot[i].id = r.slot[i].id /\ s.slot[i].job = r.slot[i].job
  PROVE  NewestIn(q, s, b)
  BY DEF NewestIn, Ahead

(* With the oldest job gone the others are still the newest of the ring.   *)
LEMMA NewestTail ==
  ASSUME NEW S, NEW q \in Seq(S), q # <<>>, NEW r, r.size \in Nat, NEW b \in {0, 1},
         NewestIn(q, r, b)
  PROVE  NewestIn(Tail(q), r, b)
<1> DEFINE t == Tail(q)
<1>1. /\ Len(q) \in Nat /\ Len(t) = Len(q) - 1 /\ Len(q) > 0
      /\ \A k \in 1 .. Len(t) : t[k] = q[k + 1]
  BY HeadTailProperties, EmptySeq, LenProperties
<1> HIDE DEF t
<1>2. \A k \in 1 .. Len(t) : /\ k + 1 \in 1 .. Len(q)
                             /\ r.size - Len(q) - b + (k + 1) - 1 = r.size - Len(t) - b + k - 1
  BY <1>1
<1>3. Len(t) + b <= r.size
  BY <1>1 DEF NewestIn
<1>4. NewestIn(t, r, b)
  BY <1>1, <1>2, <1>3 DEF NewestIn
<1> QED
  BY <1>4 DEF t

(* An eviction takes none of them while the hardware has fewer jobs than   *)
(* the ring.                                                               *)
LEMMA NewestOneDone ==
  ASSUME NEW S, NEW q \in Seq(S), NEW r, RingOK(r), Len(q) < r.size, NewestIn(q, r, 0)
  PROVE  NewestIn(q, OneDone(r), 0)
<1> DEFINE s == OneDone(r)
           d == r.hw_done
<1>1. /\ d \in Slots /\ r.size \in 1 .. RT_QUEUE_SIZE /\ r.slot \in [Slots -> SlotType]
      /\ Len(q) \in Nat
  BY RtQueueAssumption, LenProperties DEF RingOK, RingType
<1>2. s.size = r.size - 1 /\ s.hw_done = NextSlot(d)
  BY DEF OneDone
<1>3. \A i \in Slots : s.slot[i].id = r.slot[i].id /\ s.slot[i].job = r.slot[i].job
  BY <1>1 DEF OneDone, Freed
<1>4. \A i \in Slots : Ahead(r, i) > 0 => Ahead(s, i) = Ahead(r, i) - 1
  <2>1. s.hw_done = IF d + 1 = RT_QUEUE_SIZE THEN 0 ELSE d + 1
    BY <1>1, <1>2, NextSlotValue
  <2> SUFFICES ASSUME NEW i \in Slots, Ahead(r, i) > 0
               PROVE  Ahead(s, i) = Ahead(r, i) - 1
    OBVIOUS
  <2>2. i \in 0 .. RT_QUEUE_SIZE - 1 /\ d \in 0 .. RT_QUEUE_SIZE - 1 /\ RT_QUEUE_SIZE \in Nat
    BY <1>1, RtQueueAssumption DEF Slots
  <2>3. Ahead(r, i) = IF i < d THEN i + RT_QUEUE_SIZE - d ELSE i - d
    BY DEF Ahead
  <2>4. Ahead(s, i) = IF i < s.hw_done THEN i + RT_QUEUE_SIZE - s.hw_done ELSE i - s.hw_done
    BY DEF Ahead
  <2> HIDE DEF s, d
  <2>5. CASE d + 1 = RT_QUEUE_SIZE
    BY <2>1, <2>2, <2>3, <2>4, <2>5
  <2>6. CASE d + 1 # RT_QUEUE_SIZE
    BY <2>1, <2>2, <2>3, <2>4, <2>6
  <2> QED
    BY <2>5, <2>6
<1> HIDE DEF s, d
<1>5. ASSUME NEW k \in 1 .. Len(q)
      PROVE  \E i \in Slots : /\ Ahead(s, i) = s.size - Len(q) - 0 + k - 1
                              /\ q[k] = Win(s.slot[i].id, s.slot[i].job)
  <2>1. PICK i \in Slots : /\ Ahead(r, i) = r.size - Len(q) - 0 + k - 1
                           /\ q[k] = Win(r.slot[i].id, r.slot[i].job)
    BY DEF NewestIn
  <2>2. Ahead(r, i) > 0
    BY <1>1, <2>1
  <2>3. Ahead(s, i) = s.size - Len(q) - 0 + k - 1
    BY <1>1, <1>2, <1>4, <2>1, <2>2
  <2> QED
    BY <1>3, <2>1, <2>3
<1> QED
  BY <1>1, <1>2, <1>5 DEF NewestIn, s

(* A written slot is ahead of all of them by one, until its job is         *)
(* pushed.                                                                 *)
LEMMA NewestWrite ==
  ASSUME NEW S, NEW q \in Seq(S), NEW r, RingOK(r), ~ RingFull(r), NEW j, NewestIn(q, r, 0)
  PROVE  NewestIn(q, WriteSlot(r, j), 1)
<1> DEFINE s == WriteSlot(r, j)
           w == r.sw_write
<1>1. /\ w \in Slots /\ r.hw_done \in Slots /\ r.size \in 0 .. RT_QUEUE_SIZE - 1
      /\ r.slot \in [Slots -> SlotType] /\ Len(q) \in Nat
  BY RtQueueAssumption, LenProperties DEF RingOK, RingType, RingFull
<1>2. Ahead(r, w) = r.size
  BY <1>1, RtQueueAssumption DEF RingOK, DoneToWrite, Ahead, Slots
<1>3. s.size = r.size + 1 /\ s.hw_done = r.hw_done
  BY DEF WriteSlot
<1>4. \A i \in Slots : i # w => s.slot[i].id = r.slot[i].id /\ s.slot[i].job = r.slot[i].job
  BY <1>1 DEF WriteSlot
<1>5. \A i \in Slots : Ahead(s, i) = Ahead(r, i)
  BY <1>3 DEF Ahead
<1> HIDE DEF s, w
<1>6. ASSUME NEW k \in 1 .. Len(q)
      PROVE  \E i \in Slots : /\ Ahead(s, i) = s.size - Len(q) - 1 + k - 1
                              /\ q[k] = Win(s.slot[i].id, s.slot[i].job)
  <2>1. PICK i \in Slots : /\ Ahead(r, i) = r.size - Len(q) - 0 + k - 1
                           /\ q[k] = Win(r.slot[i].id, r.slot[i].job)
    BY DEF NewestIn
  <2>2. i # w
    BY <1>1, <1>2, <2>1
  <2>3. Ahead(s, i) = s.size - Len(q) - 1 + k - 1
    BY <1>1, <1>3, <1>5, <2>1
  <2> QED
    BY <1>4, <2>1, <2>2, <2>3
<1>7. Len(q) + 1 <= s.size
  BY <1>1, <1>3 DEF NewestIn
<1> QED
  BY <1>6, <1>7 DEF NewestIn, s

(* The pushed job is the newest of the ring and of the hardware.           *)
LEMMA NewestPushed ==
  ASSUME NEW S, NEW q \in Seq(S), NEW r, RingOK(r), NewestIn(q, r, 1), NEW i \in Slots,
         NextSlot(i) = r.sw_write, Win(r.slot[i].id, r.slot[i].job) \in S
  PROVE  NewestIn(Append(q, Win(r.slot[i].id, r.slot[i].job)), r, 0)
<1> DEFINE x == Win(r.slot[i].id, r.slot[i].job)
           p == Append(q, x)
<1>1. /\ Len(q) \in Nat /\ Len(p) = Len(q) + 1 /\ p[Len(q) + 1] = x
      /\ \A k \in 1 .. Len(q) : p[k] = q[k]
  BY AppendProperties, LenProperties
<1>2. r.size \in 1 .. RT_QUEUE_SIZE /\ r.hw_done \in Slots /\ r.sw_write \in Slots
  BY <1>1 DEF NewestIn, RingOK, RingType
<1>3. Ahead(r, i) = r.size - 1
  <2>1. r.sw_write = IF i + 1 = RT_QUEUE_SIZE THEN 0 ELSE i + 1
    BY NextSlotValue
  <2>2. r.sw_write = IF r.hw_done + r.size < RT_QUEUE_SIZE
                       THEN r.hw_done + r.size ELSE r.hw_done + r.size - RT_QUEUE_SIZE
    BY DEF RingOK, DoneToWrite
  <2>3. Ahead(r, i) = IF i < r.hw_done THEN i + RT_QUEUE_SIZE - r.hw_done ELSE i - r.hw_done
    BY DEF Ahead
  <2>4. /\ i \in 0 .. RT_QUEUE_SIZE - 1 /\ r.hw_done \in 0 .. RT_QUEUE_SIZE - 1
        /\ RT_QUEUE_SIZE \in Nat
    BY <1>2, RtQueueAssumption DEF Slots
  <2>5. CASE i + 1 = RT_QUEUE_SIZE
    BY <1>2, <2>1, <2>2, <2>3, <2>4, <2>5
  <2>6. CASE i + 1 # RT_QUEUE_SIZE
    <3>1. r.sw_write = i + 1 /\ r.size - 1 >= 0 /\ r.size <= RT_QUEUE_SIZE
      BY <1>2, <2>1, <2>6
    <3>2. CASE r.hw_done + r.size < RT_QUEUE_SIZE
      BY <1>2, <2>2, <2>3, <2>4, <3>1, <3>2
    <3>3. CASE ~ (r.hw_done + r.size < RT_QUEUE_SIZE)
      BY <1>2, <2>2, <2>3, <2>4, <3>1, <3>3, SMTT(40)
    <3> QED
      BY <3>2, <3>3
  <2> QED
    BY <2>5, <2>6
<1> HIDE DEF p, x
<1>4. ASSUME NEW k \in 1 .. Len(p)
      PROVE  \E s \in Slots : /\ Ahead(r, s) = r.size - Len(p) - 0 + k - 1
                              /\ p[k] = Win(r.slot[s].id, r.slot[s].job)
  <2>1. CASE k = Len(q) + 1
    <3>1. Ahead(r, i) = r.size - Len(p) - 0 + k - 1
      BY <1>1, <1>2, <1>3, <2>1
    <3> QED
      BY <1>1, <2>1, <3>1 DEF x
  <2>2. CASE k \in 1 .. Len(q)
    <3>1. PICK s \in Slots : /\ Ahead(r, s) = r.size - Len(q) - 1 + k - 1
                             /\ q[k] = Win(r.slot[s].id, r.slot[s].job)
      BY <2>2 DEF NewestIn
    <3>2. Ahead(r, s) = r.size - Len(p) - 0 + k - 1
      BY <1>1, <1>2, <3>1
    <3> QED
      BY <1>1, <2>2, <3>1, <3>2
  <2> QED
    BY <1>1, <2>1, <2>2
<1>5. Len(p) + 0 <= r.size
  BY <1>1, <1>2 DEF NewestIn
<1> QED
  BY <1>4, <1>5 DEF NewestIn, p, x

(* The newest jobs are live, and found by their ids.                       *)
LEMMA NewestLive ==
  ASSUME NEW S, NEW q \in Seq(S), NEW r, RingOK(r), NEW b \in {0, 1}, NewestIn(q, r, b),
         NEW k \in 1 .. Len(q)
  PROVE  /\ WinSlot(q[k].id) \in Slots
         /\ r.slot[WinSlot(q[k].id)].state = "has_job"
         /\ r.slot[WinSlot(q[k].id)].job = q[k].job
<1>1. PICK i \in Slots : /\ Ahead(r, i) = r.size - Len(q) - b + k - 1
                         /\ q[k] = Win(r.slot[i].id, r.slot[i].job)
  BY DEF NewestIn
<1>2. Len(q) \in Nat /\ r.size \in Nat
  BY LenProperties, RtQueueAssumption DEF RingOK, RingType
<1>3. Ahead(r, i) < r.size
  BY <1>1, <1>2
<1>4. r.slot[i].state = "has_job" /\ r.slot[i].id = i * MQ_INCREMENTS
  BY <1>3 DEF RingOK, MarkedAhead, IdOfSlot
<1>5. 0 \in 0 .. MQ_INCREMENTS - 1 /\ i * MQ_INCREMENTS + 0 = i * MQ_INCREMENTS
  BY RtQueueAssumption DEF Slots
<1>6. WinSlot(i * MQ_INCREMENTS) = i
  BY <1>5, WinDecoding
<1> QED
  BY <1>1, <1>4, <1>6 DEF Win
-----------------------------------------------------------------------------
(* Lengths and counters are numbers within their bounds.                   *)
LEMMA HwSizes ==
  ASSUME TInv
  PROVE  /\ mq \in Seq(HwIds) /\ asic \in Seq(HwIds) /\ asic \o mq \in Seq(HwIds)
         /\ Len(mq) \in Nat /\ Len(asic) \in Nat /\ Len(asic \o mq) = Len(asic) + Len(mq)
         /\ tries \in Int /\ tries \in {NoBist} \cup 0 .. BIST_JOBS /\ NoBist = -1
         /\ rt.size \in 0 .. RT_QUEUE_SIZE /\ RT_QUEUE_SIZE \in Nat \ {0}
         /\ BIST_JOBS \in Nat /\ ASIC_DEPTH \in Nat
<1>1. mq \in Seq(HwIds) /\ asic \in Seq(HwIds)
  BY DEF TInv, HwTyped
<1>2. /\ tries \in {NoBist} \cup 0 .. BIST_JOBS /\ NoBist = -1
      /\ BIST_JOBS \in Nat /\ ASIC_DEPTH \in Nat
  BY JobPipelineAssumption DEF TInv, QueueTyped, NoBist
<1>3. tries \in Int
  BY <1>2
<1>4. rt.size \in 0 .. RT_QUEUE_SIZE /\ RT_QUEUE_SIZE \in Nat \ {0}
  BY RtQueueAssumption DEF TInv, QueueTyped, RingOK, RingType
<1> QED
  BY <1>1, <1>2, <1>3, <1>4, LenProperties, ConcatProperties

(* A step within the places of the RT thread that mean the same here, and  *)
(* one that empties the hardware.                                          *)
LEMMA HwSame ==
  ASSUME HInv, UNCHANGED <<mq, asic, tries>>,
         rt'.size = rt.size, rt'.hw_done = rt.hw_done,
         \A i \in Slots : rt'.slot[i].id = rt.slot[i].id /\ rt'.slot[i].job = rt.slot[i].job,
         pc'[Rt] = "hwpush" <=> pc[Rt] = "hwpush",
         pc'[Rt] \in {"full", "evict", "old", "write"} <=>
           pc[Rt] \in {"full", "evict", "old", "write"},
         pc'[Rt] = "idle" => tries = NoBist
  PROVE  HInv'
<1>1. Newest'
  BY NewestSame DEF HInv, Newest
<1>2. Room'
  <2>1. Filled' = Filled
    BY DEF Filled
  <2> QED
    BY <2>1 DEF HInv, Room
<1> QED
  BY <1>1, <1>2 DEF HInv

(* A restart empties the hardware and leaves no job behind in it.          *)
LEMMA HwEmptied ==
  ASSUME TInv, mq' = <<>>, asic' = <<>>, UNCHANGED rt, pc'[Rt] = "poll",
         tries' \in {NoBist} \cup 0 .. BIST_JOBS
  PROVE  HInv'
<1> DEFINE e == <<>>
<1>1. e \in Seq(HwIds) /\ Len(e) = 0 /\ e \o e = e
  BY EmptySeq, ConcatEmptySeq
<1>2. NewestIn(e, rt, 0)
  BY HwSizes, NewestNone
<1>3. mq' = e /\ asic' = e
  OBVIOUS
<1> HIDE DEF e
<1>4. Newest'
  BY <1>1, <1>2, <1>3 DEF Newest
<1>5. Filled' = 0 /\ Len(asic') = 0
  BY <1>1, <1>3 DEF Filled
<1>6. Room'
  BY <1>5, HwSizes DEF Room
<1> QED
  BY <1>4, <1>6 DEF HInv

(* The RT thread pulls a job only when the MQ is not too full, or during   *)
(* a BIST.                                                                 *)
LEMMA HwPull ==
  ASSUME TInv, HardwareFits, HInv, RtPull
  PROVE  HInv'
<1>1. /\ UNCHANGED <<mq, asic, rt>> /\ pc'[Rt] = "full" /\ pc[Rt] \in {"idle", "poll"}
  BY ThreadsAre DEF RtPull, TryPush, Goto, hwVars, TInv, ThreadsTyped
<1>2. Newest'
  BY <1>1 DEF HInv, Newest
<1>3. Filled = Len(mq) /\ Filled' = Len(mq) + 1
  BY <1>1, HwSizes DEF Filled
<1>4. CASE pc[Rt] = "idle"
  <2>1. UNCHANGED tries /\ ~ MqTooFull
    BY <1>4, ThreadsAre DEF RtPull, TryPush, Goto
  <2>2. Len(mq) * WORDS_PER_JOB < MQ_TOO_FULL
    <3>1. Len(mq) * WORDS_PER_JOB \in Nat /\ MQ_TOO_FULL \in Nat
      BY HwSizes, JobPipelineAssumption
    <3> QED
      BY <2>1, <3>1 DEF MqTooFull
  <2>3. Len(mq) + 1 + ASIC_DEPTH <= RT_QUEUE_SIZE
    BY <2>2, HwSizes DEF HardwareFits
  <2>4. tries = NoBist
    BY <1>4 DEF HInv, Room
  <2>5. Room'
    BY <1>1, <1>3, <2>1, <2>3, <2>4, HwSizes DEF HInv, Room
  <2> QED
    BY <1>2, <2>5 DEF HInv
<1>5. CASE pc[Rt] = "poll"
  <2>1. tries > 0 /\ tries' = tries - 1
    BY <1>5, ThreadsAre DEF RtPull, TryPush, Goto
  <2>2. Len(mq) <= BIST_JOBS - tries
    BY <1>3, <2>1, HwSizes DEF HInv, Room
  <2>3. Len(mq) < BIST_JOBS
    BY <2>1, <2>2, HwSizes
  <2>4. Len(mq) + 1 + ASIC_DEPTH <= RT_QUEUE_SIZE
    BY <2>3, HwSizes DEF HardwareFits
  <2>5. Room'
    BY <1>1, <1>3, <2>1, <2>2, <2>4, HwSizes DEF HInv, Room
  <2> QED
    BY <1>2, <2>5 DEF HInv
<1> QED
  BY <1>1, <1>4, <1>5

(* The evicted job is older than every job of the hardware.                *)
LEMMA HwEvict ==
  ASSUME TInv, PInv, HInv, RtEvict
  PROVE  HInv'
<1>1. /\ UNCHANGED <<mq, asic, tries>> /\ pc[Rt] = "evict" /\ pc'[Rt] = "old"
  BY ThreadsAre DEF RtEvict, Goto, hwVars, TInv, ThreadsTyped
<1>2. rt.size = RT_QUEUE_SIZE
  BY <1>1 DEF PInv, Control, RingFull
<1>3. rt' = OneDone(rt)
  BY <1>2, HwSizes DEF RtEvict
<1>4. Len(asic) + Len(mq) < rt.size
  <2>1. Filled = Len(mq) + 1
    BY <1>1 DEF Filled
  <2> QED
    BY <1>2, <2>1, HwSizes DEF HInv, Room
<1>5. NewestIn(asic \o mq, rt, 0) /\ RingOK(rt)
  BY <1>1 DEF HInv, Newest, TInv, QueueTyped
<1>6. NewestIn(asic \o mq, rt', 0)
  BY <1>3, <1>4, <1>5, HwSizes, NewestOneDone
<1>7. Newest'
  BY <1>1, <1>6 DEF Newest
<1>8. Room'
  <2>1. Filled' = Filled
    BY <1>1 DEF Filled
  <2> QED
    BY <1>1, <2>1 DEF HInv, Room
<1> QED
  BY <1>7, <1>8 DEF HInv

(* The written slot is not pushed yet.                                     *)
LEMMA HwWrite ==
  ASSUME TInv, HInv, RtWrite
  PROVE  HInv'
<1>1. /\ UNCHANGED <<mq, asic, tries>> /\ pc[Rt] = "write" /\ pc'[Rt] = "hwpush"
      /\ rt' = WriteSlot(rt, work)
  BY ThreadsAre DEF RtWrite, Goto, hwVars, TInv, ThreadsTyped
<1>2. ~ RingFull(rt) /\ RingOK(rt)
  BY <1>1 DEF TInv, RtWrites, QueueTyped
<1>3. NewestIn(asic \o mq, rt, 0)
  BY <1>1 DEF HInv, Newest
<1>4. NewestIn(asic \o mq, rt', 1)
  BY <1>1, <1>2, <1>3, HwSizes, NewestWrite
<1>5. Newest'
  BY <1>1, <1>4 DEF Newest
<1>6. Room'
  <2>1. Filled' = Filled
    BY <1>1 DEF Filled
  <2> QED
    BY <1>1, <2>1 DEF HInv, Room
<1> QED
  BY <1>5, <1>6 DEF HInv

(* The job goes to the MQ: the hardware has room for it.                   *)
LEMMA HwPush ==
  ASSUME TInv, HInv, RtPushToHw
  PROVE  HInv'
<1> DEFINE s == CHOOSE s \in Slots : NextSlot(s) = rt.sw_write
           x == Win(rt.slot[s].id, rt.slot[s].job)
<1>1. /\ UNCHANGED <<rt, asic, tries>> /\ pc[Rt] = "hwpush" /\ pc'[Rt] = "poll"
      /\ mq' = Append(mq, x)
  BY ThreadsAre DEF RtPushToHw, Goto, queueVars, TInv, ThreadsTyped
<1>2. RingOK(rt) /\ s \in Slots /\ NextSlot(s) = rt.sw_write
  BY LastWritten DEF TInv, QueueTyped, RingOK, RingType
<1> HIDE DEF s
<1>3. x \in HwIds
  BY <1>2 DEF RingOK, RingType, SlotType, HwIds, Ids, Win, JobOrNone
<1>4. NewestIn(asic \o mq, rt, 1)
  BY <1>1 DEF HInv, Newest
<1>5. NewestIn(Append(asic \o mq, x), rt, 0)
  BY <1>2, <1>3, <1>4, HwSizes, NewestPushed
<1> HIDE DEF x
<1>6. asic \o Append(mq, x) = Append(asic \o mq, x)
  BY <1>3, HwSizes, Pushed
<1>7. Newest'
  BY <1>1, <1>5, <1>6 DEF Newest
<1>8. Room'
  <2>1. Len(mq') = Len(mq) + 1
    BY <1>1, <1>3, HwSizes, AppendProperties
  <2>2. Filled' = Filled
    BY <1>1, <2>1, HwSizes DEF Filled
  <2> QED
    BY <1>1, <2>2 DEF HInv, Room
<1> QED
  BY <1>7, <1>8 DEF HInv

(* All the steps of the RT thread.                                         *)
LEMMA HwRt ==
  ASSUME TInv, PInv, HardwareFits, HInv, RtStep
  PROVE  HInv'
<1>0. pc \in [Threads -> Labels] /\ Rt \in Threads
  BY ThreadsAre DEF TInv, ThreadsTyped
<1>1. CASE RtMqTooFull \/ RtTestFull \/ RtCompleteOld
  <2>1. UNCHANGED <<rt, mq, asic, tries>>
    BY <1>1 DEF RtMqTooFull, RtTestFull, RtCompleteOld, queueVars, hwVars
  <2>2. \/ pc[Rt] = "idle" /\ pc'[Rt] = "poll"
        \/ /\ pc[Rt] \in {"full", "evict", "old", "write"}
           /\ pc'[Rt] \in {"full", "evict", "old", "write"}
    BY <1>0, <1>1 DEF RtMqTooFull, RtTestFull, RtCompleteOld, Goto
  <2> QED
    BY <2>1, <2>2, HwSame
<1>2. CASE RtNoJob \/ RtBist
  <2>1. mq' = <<>> /\ asic' = <<>> /\ UNCHANGED rt /\ pc'[Rt] = "poll"
    BY <1>0, <1>2 DEF RtNoJob, RtBist, TryPush, Goto, StopHardware, ResetHardware
  <2>2. tries' \in {NoBist} \cup 0 .. BIST_JOBS
    BY <1>2, HwSizes DEF RtNoJob, RtBist, TryPush
  <2> QED
    BY <2>1, <2>2, HwEmptied
<1>3. CASE RtEndTick
  <2>1. /\ UNCHANGED <<rt, mq, asic>> /\ pc[Rt] = "poll" /\ pc'[Rt] = "idle"
        /\ tries \in {NoBist, 0} /\ tries' = NoBist
    BY <1>0, <1>3 DEF RtEndTick, Goto, hwVars
  <2>2. Newest'
    BY <2>1 DEF HInv, Newest
  <2>3. Filled' = Filled
    BY <2>1 DEF Filled
  <2>4. Room'
    BY <2>1, <2>3 DEF HInv, Room
  <2> QED
    BY <2>2, <2>4 DEF HInv
<1> QED
  BY <1>1, <1>2, <1>3, HwPull, HwEvict, HwWrite, HwPush DEF RtStep

(* Polling wins: a restart empties the hardware, the rest leaves it alone. *)
LEMMA HwWinStep ==
  ASSUME TInv, HInv, WinStep(Rt)
  PROVE  HInv'
<1>0. pc \in [Threads -> Labels] /\ Rt \in Threads /\ RingOK(rt)
  BY ThreadsAre DEF TInv, ThreadsTyped, QueueTyped
<1>1. CASE WinRestart(Rt) \/ PollStuck(Rt)
  <2>1. /\ mq' = <<>> /\ asic' = <<>> /\ UNCHANGED rt /\ pc'[Rt] = "poll"
        /\ tries' \in {0, tries}
    BY <1>0, <1>1 DEF WinRestart, PollStuck, Goto, ResetHardware
  <2> QED
    BY <2>1, HwSizes, HwEmptied
<1>2. CASE ~ (WinRestart(Rt) \/ PollStuck(Rt))
  <2>1. /\ UNCHANGED <<mq, asic, tries>>
        /\ pc[Rt] \in {"poll", "win", "winset", "winpush", "winclear"}
        /\ pc'[Rt] \in {"poll", "win", "winset", "winpush", "winclear"}
    BY <1>0, <1>2 DEF WinStep, PollWin, PollDone, WinGood, WinBad, WinSet, WinPush, WinClear,
       Goto, queueVars, hwVars
  <2>2. /\ rt'.size = rt.size /\ rt'.hw_done = rt.hw_done
        /\ \A i \in Slots : rt'.slot[i].id = rt.slot[i].id /\ rt'.slot[i].job = rt.slot[i].job
    <3>1. CASE UNCHANGED rt
      BY <3>1
    <3>2. CASE \E j \in JobOrNone : SetNonce(Rt, j)
      BY <1>0, <3>2 DEF SetNonce, RingOK, RingType
    <3>3. win[Rt].job \in JobOrNone /\ NoJob \in JobOrNone
      BY HwTypes, ThreadsAre DEF TInv, WinTyped, JobOrNone
    <3> QED
      BY <1>2, <3>1, <3>2, <3>3 DEF WinStep, PollWin, PollDone, WinGood, WinBad, WinSet,
         WinPush, WinClear, queueVars
  <2> QED
    BY <2>1, <2>2, HwSame
<1> QED
  BY <1>1, <1>2

(* Without a drop a connection touches neither ring nor hardware.          *)
LEMMA HwClient ==
  ASSUME TInv, OneClient, PInv, NoDrops, HInv, ClientStep(Client) \/ ConnectionStep(Client)
  PROVE  HInv'
<1>0. /\ pc \in [Threads -> Labels] /\ pc[Client] \in WithoutDrops
      /\ ~ ClearOldJob(Client) /\ ~ Disconnect(Client)
  BY Typed, ClientIs, NothingToClear DEF NoDrops
<1>1. UNCHANGED <<rt, mq, asic, tries>> /\ pc'[Rt] = pc[Rt]
  BY <1>0, ClientIs DEF ClientStep, ConnectionStep, Accept, Receive,
     ClearDone, Wake, PushWorkReq, ReqsDone, DropLock, DropRingJob,
     DropRingDone, DropPull, DropPush, DropRequestsDone, DropStop, Send, Goto, queueVars, hwVars,
     WithoutDrops
<1>2. pc'[Rt] = "idle" => tries = NoBist
  BY <1>1 DEF HInv, Room
<1> QED
  BY <1>1, <1>2, HwSame

(* The hardware moves its oldest jobs on; a win takes none from it.        *)
LEMMA HwItself ==
  ASSUME TInv, HInv, HwLoad \/ HwFinish \/ HwWin \/ UNCHANGED vars
  PROVE  HInv'
<1>1. CASE HwLoad
  <2>1. /\ mq # <<>> /\ Len(asic) < ASIC_DEPTH /\ asic' = Append(asic, Head(mq))
        /\ mq' = Tail(mq) /\ UNCHANGED <<pc, rt, tries>>
    BY <1>1 DEF HwLoad, queueVars
  <2>2. asic' \o mq' = asic \o mq
    BY <2>1, HwSizes, Loaded
  <2>3. Newest'
    BY <2>1, <2>2 DEF HInv, Newest
  <2>4. Len(asic') = Len(asic) + 1 /\ Len(mq') = Len(mq) - 1
    BY <2>1, HwSizes, HeadTailProperties, AppendProperties
  <2>5. Filled' = Filled - 1 /\ Filled \in Nat /\ Filled > 0
    <3>1. Len(mq) > 0
      BY <2>1, HwSizes, EmptySeq
    <3> QED
      BY <2>1, <2>4, <3>1, HwSizes DEF Filled
  <2>6. Len(asic') <= ASIC_DEPTH
    BY <2>1, <2>4, HwSizes
  <2>7. Room'
    BY <2>1, <2>5, <2>6, HwSizes DEF HInv, Room
  <2> QED
    BY <2>3, <2>7 DEF HInv
<1>2. CASE HwFinish
  <2>1. asic # <<>> /\ asic' = Tail(asic) /\ UNCHANGED <<pc, rt, tries, mq>>
    BY <1>2 DEF HwFinish, queueVars
  <2>2. asic \o mq # <<>> /\ asic' \o mq' = Tail(asic \o mq)
    BY <2>1, HwSizes, Finished
  <2>3. Newest'
    <3> DEFINE b == IF pc[Rt] = "hwpush" THEN 1 ELSE 0
    <3>1. b \in {0, 1} /\ NewestIn(asic \o mq, rt, b)
      BY DEF HInv, Newest
    <3> HIDE DEF b
    <3>2. rt.size \in Nat
      BY HwSizes
    <3>3. NewestIn(Tail(asic \o mq), rt, b)
      BY <2>2, <3>1, <3>2, HwSizes, NewestTail
    <3> QED
      BY <2>1, <2>2, <3>3 DEF Newest, b
  <2>4. Len(asic') <= ASIC_DEPTH
    <3>1. Len(asic') = Len(asic) - 1
      BY <2>1, HwSizes, HeadTailProperties
    <3> QED
      BY <3>1, HwSizes DEF HInv, Room
  <2>5. Filled' = Filled
    BY <2>1 DEF Filled
  <2>6. Room'
    BY <2>1, <2>4, <2>5 DEF HInv, Room
  <2> QED
    BY <2>3, <2>6 DEF HInv
<1>3. CASE HwWin \/ UNCHANGED vars
  <2>1. UNCHANGED <<pc, rt, tries, mq, asic>>
    BY <1>3 DEF HwWin, vars, queueVars, hwVars
  <2>2. pc'[Rt] = "idle" => tries = NoBist
    BY <2>1 DEF HInv, Room
  <2> QED
    BY <2>1, <2>2, HwSame
<1> QED
  BY <1>1, <1>2, <1>3

(* No step of any actor lets the ring forget a job the hardware has.       *)
LEMMA HwStep ==
  ASSUME TInv, OneClient, PInv, NoDrops, HardwareFits, HInv, [Next]_vars
  PROVE  HInv'
<1>1. CASE \E t \in Threads : WinStep(t)
  BY <1>1, OnlyRtPolls, HwWinStep
<1>2. CASE \E s \in Sessions : ClientStep(s) \/ ConnectionStep(s)
  BY <1>2, ClientIs, HwClient
<1> QED
  BY <1>1, <1>2, HwRt, HwItself DEF Next

(* At the start hardware and ring are empty.                               *)
LEMMA HwInit ==
  ASSUME Init
  PROVE  HInv
<1> DEFINE e == <<>>
<1>1. mq = e /\ asic = e /\ pc[Rt] = "idle" /\ rt.size = 0 /\ tries = NoBist
  BY ThreadsAre DEF Init, ResetRing
<1>2. e \in Seq(HwIds) /\ Len(e) = 0 /\ e \o e = e
  BY EmptySeq, ConcatEmptySeq
<1>3. NewestIn(e, rt, 0)
  BY <1>1, NewestNone
<1> HIDE DEF e
<1>4. Newest
  BY <1>1, <1>2, <1>3 DEF Newest
<1>5. Room
  BY <1>1, <1>2, JobPipelineAssumption DEF Room, Filled
<1> QED
  BY <1>4, <1>5 DEF HInv

(* At the start nobody was told anything.                                  *)
LEMMA LastInit ==
  ASSUME Init, OneClient
  PROVE  LInv
<1>1. Len(Answers(Client)) = 0
  <2> DEFINE e == <<>>
  <2>1. e \in Seq(Responses) /\ Len(e) = 0
    BY EmptySeq
  <2>2. Answers(Client) = e \o e
    BY ClientIs DEF Init, Answers
  <2> HIDE DEF e
  <2> QED
    BY <2>1, <2>2, ConcatProperties
<1>2. pc[Rt] = "idle"
  BY ThreadsAre DEF Init
<1> QED
  BY <1>1, <1>2 DEF LInv, LastWord, Reports
-----------------------------------------------------------------------------
(* In every reachable state a completion is the last answer, and an        *)
(* evicted job has no nonce.                                               *)
LEMMA LInvariance == ASSUME OneClient, NeverDrops PROVE Spec => []LInv
<1>1. Init => LInv
  BY LastInit
<1>2. TInv /\ PInv /\ NoDrops /\ WInv /\ LInv /\ [Next]_vars => LInv'
  BY LastStep
<1>3. Spec => []TInv
  BY TInvariance
<1>4. Spec => []PInv
  BY PInvariance
<1>5. Spec => []NoDrops
  BY NoDropsInvariance DEF NeverDrops
<1>6. Spec => []WInv
  BY WInvariance DEF NeverDrops
<1> QED
  BY <1>1, <1>2, <1>3, <1>4, <1>5, <1>6, PTL DEF Spec

(* The completion of a job is the last a client hears of it: no win comes  *)
(* after it, because a slot is only free once its job is on its way to be  *)
(* completed, and no second completion, whatever engines make up.          *)
THEOREM CompletionComesLast ==
  ASSUME OneClient, NeverDrops
  PROVE  Spec => []CompletionIsLast
<1>1. Spec => []LInv
  BY LInvariance
<1>2. LInv => CompletionIsLast
  BY ClientIs DEF LInv, LastWord, CompletionIsLast
<1> QED
  BY <1>1, <1>2, PTL

(* No eviction has used an uninitialised old_w.                            *)
NoneStrayed == strays = {}

(* While the only client stays, a full ring has a job to evict: old_w is   *)
(* never left uninitialised.                                               *)
LEMMA NoStrays ==
  ASSUME OneClient
  PROVE  Spec => []NoneStrayed
<1>1. TInv /\ PInv /\ NoneStrayed /\ [Next]_vars => NoneStrayed'
  <2> SUFFICES ASSUME TInv, PInv, strays = {}, [Next]_vars PROVE strays' = {}
    BY DEF NoneStrayed
  <2>1. CASE RtEvict
    <3>1. rt.size # 0
      BY <2>1, RtQueueAssumption DEF RtEvict, Goto, PInv, Control, RingFull
    <3> QED
      BY <2>1, <3>1 DEF RtEvict
  <2>2. CASE RtStep /\ ~ RtEvict
    BY <2>2 DEF RtStep, RtMqTooFull, RtPull, RtNoJob, RtTestFull, RtCompleteOld,
       RtWrite, RtPushToHw, RtBist, RtEndTick
  <2>3. CASE \E t \in Threads : WinStep(t)
    BY <2>3 DEF WinStep, PollWin, PollDone, PollStuck, WinGood, WinBad, WinRestart,
       WinSet, WinPush, WinClear
  <2>4. CASE \E s \in Sessions : ClientStep(s) \/ ConnectionStep(s)
    BY <2>4 DEF ClientStep, ConnectionStep, Accept, Receive, Disconnect, ClearOldJob,
       ClearDone, Wake, PushWorkReq, ReqsDone, DropLock, DropRingJob, DropRingDone, DropPull,
       DropPush, DropRequestsDone, DropStop, Send
  <2>5. CASE HwLoad \/ HwFinish \/ HwWin \/ UNCHANGED vars
    BY <2>5 DEF HwLoad, HwFinish, HwWin, vars
  <2> QED
    BY <2>1, <2>2, <2>3, <2>4, <2>5 DEF Next
<1>2. Init => NoneStrayed
  BY DEF Init, NoneStrayed
<1>3. Spec => []TInv
  BY TInvariance
<1>4. Spec => []PInv
  BY PInvariance
<1> QED
  BY <1>1, <1>2, <1>3, <1>4, PTL DEF Spec

(* So all that a client hears is right: nothing of a job that is complete, *)
(* and no nonce for a job it does not solve; and there is no job of which  *)
(* that could not be said.                                                 *)
THEOREM ClientHearsRight ==
  ASSUME OneClient, NeverDrops
  PROVE  Spec => [](RepliesAreRight /\ NoneStrayed)
<1>1. Spec => []CompletionIsLast
  BY CompletionComesLast
<1>2. Spec => []WinsCreditTheirJob
  BY WinsAreCredited DEF NeverDrops
<1>3. CompletionIsLast /\ WinsCreditTheirJob => RepliesAreRight
  BY DEF CompletionIsLast, RepliesAreRight
<1> QED
  BY <1>1, <1>2, <1>3, NoStrays, PTL

(* passert(old_w.winner_nonce == 0) in add_to_sw_rt_queue never fails when *)
(* only the RT thread polls wins: it has reported a nonce, and cleared it, *)
(* before it evicts.                                                       *)
THEOREM EvictionFindsNoNonce ==
  ASSUME OneClient, NeverDrops
  PROVE  Spec => []EvictedJobHasNoNonce
<1>1. Spec => []LInv
  BY LInvariance
<1>2. LInv => EvictedJobHasNoNonce
  BY DEF LInv, EvictedJobHasNoNonce
<1> QED
  BY <1>1, <1>2, PTL

(* The newest jobs of the ring are live: their slots are found again by    *)
(* their ids.                                                              *)
LEMMA Live ==
  ASSUME TInv, HInv
  PROVE  HardwareJobsAreLive
<1> SUFFICES ASSUME NEW h \in Range(mq \o asic)
             PROVE  /\ rt.slot[WinSlot(h.id)].state = "has_job"
                    /\ rt.slot[WinSlot(h.id)].job = h.job
  BY DEF HardwareJobsAreLive
<1>1. PICK i \in 1 .. Len(mq) + Len(asic) : h = (mq \o asic)[i]
  <2>1. mq \o asic \in Seq(HwIds) /\ Len(mq \o asic) = Len(mq) + Len(asic)
    BY HwSizes, ConcatProperties
  <2> DEFINE q == mq \o asic
  <2>2. q \in Seq(HwIds) /\ h \in Range(q) /\ Len(q) = Len(mq) + Len(asic)
    BY <2>1
  <2> HIDE DEF q
  <2>3. h \in {q[i] : i \in 1 .. Len(q)}
    BY <2>2, RangeIs
  <2> QED
    BY <2>2, <2>3 DEF q
<1>2. PICK k \in 1 .. Len(asic \o mq) : h = (asic \o mq)[k]
  <2>1. CASE i <= Len(mq)
    <3>1. h = mq[i] /\ Len(asic) + i \in 1 .. Len(asic) + Len(mq)
      BY <1>1, <2>1, HwSizes, ConcatProperties
    <3>2. (asic \o mq)[Len(asic) + i] = mq[i]
      <4>1. ~ (Len(asic) + i <= Len(asic)) /\ (Len(asic) + i) - Len(asic) = i
        BY HwSizes
      <4> QED
        BY <3>1, <4>1, HwSizes, ConcatProperties
    <3> QED
      BY <3>1, <3>2, HwSizes
  <2>2. CASE ~ (i <= Len(mq))
    <3>1. h = asic[i - Len(mq)] /\ i - Len(mq) \in 1 .. Len(asic)
      BY <1>1, <2>2, HwSizes, ConcatProperties
    <3>2. i - Len(mq) \in 1 .. Len(asic) + Len(mq) /\ i - Len(mq) <= Len(asic)
      BY <3>1, HwSizes
    <3>3. (asic \o mq)[i - Len(mq)] = asic[i - Len(mq)]
      BY <3>2, HwSizes, ConcatProperties
    <3> QED
      BY <3>1, <3>2, <3>3, HwSizes
  <2> QED
    BY <2>1, <2>2
<1> DEFINE b == IF pc[Rt] = "hwpush" THEN 1 ELSE 0
<1>3. b \in {0, 1} /\ NewestIn(asic \o mq, rt, b) /\ RingOK(rt)
  BY DEF HInv, Newest, TInv, QueueTyped
<1> HIDE DEF b
<1> QED
  BY <1>2, <1>3, HwSizes, NewestLive

(* The ring is large enough: whatever the MQ and the ASICs still work on   *)
(* has kept its slot, provided HardwareFits, which the code's own numbers  *)
(* fulfil (CodeFits).                                                      *)
THEOREM HardwareKeepsSlots ==
  ASSUME OneClient, NeverDrops, HardwareFits
  PROVE  Spec => []HardwareJobsAreLive
<1>1. Init => HInv
  BY HwInit
<1>2. TInv /\ PInv /\ NoDrops /\ HInv /\ [Next]_vars => HInv'
  BY HwStep
<1>3. Spec => []TInv
  BY TInvariance
<1>4. Spec => []PInv
  BY PInvariance
<1>5. Spec => []NoDrops
  BY NoDropsInvariance DEF NeverDrops
<1>6. TInv /\ HInv => HardwareJobsAreLive
  BY Live
<1> QED
  BY <1>1, <1>2, <1>3, <1>4, <1>5, <1>6, PTL DEF Spec

(* A job is 13 register writes of 2 words, the MQ takes one below 50 words *)
(* or 2 after a BIST, the ASICs hold 2, and the ring 4: it fits exactly.   *)
LEMMA CodeFits ==
  ASSUME WORDS_PER_JOB = 26, MQ_TOO_FULL = 50, BIST_JOBS = 2, ASIC_DEPTH = 2,
         RT_QUEUE_SIZE = 4
  PROVE  HardwareFits
  BY DEF HardwareFits
=============================================================================
