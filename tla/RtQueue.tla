------------------------------ MODULE RtQueue ------------------------------
(***************************************************************************)
(* The software queue of jobs the hardware is working on                   *)
(* (src/miner_gate/real_time_queue.c), as operators on a ring record:      *)
(*                                                                         *)
(*   slot     - rt_queue[], one RT_JOB per slot                            *)
(*   sw_write - rt_queue_sw_write, the slot the next job goes to           *)
(*   hw_done  - rt_queue_hw_done, the slot of the oldest job               *)
(*   size     - rt_queue_size                                              *)
(*                                                                         *)
(* An RT_JOB is abstracted to the job it holds, its work_state, its        *)
(* work_id_in_hw and its winner_nonce.  A nonce is represented by the job  *)
(* it was found for, and winner_nonce = 0 by NoJob.                        *)
(***************************************************************************)
EXTENDS Integers

CONSTANTS
  RT_QUEUE_SIZE,   \* slots of the ring, MAX_PACKETS_IN_RT_QUEUE as well
  RT_QUEUE_FIRST,  \* the index the ring starts at ("start with 3, why not?")
  MQ_INCREMENTS,   \* hardware ids, and timestamps, that one job covers
  Jobs,            \* the jobs clients submit
  NoJob            \* what a slot holds after memset, and "no nonce"

(* The widths the code relies on: the job id register of the ASIC has 8    *)
(* bits (job_id & 0xFF), "can not have more - 4*60(timestamp inc)=240".    *)
ASSUME RtQueueAssumption ==
  /\ RT_QUEUE_SIZE \in Nat \ {0}
  /\ RT_QUEUE_FIRST \in 0 .. RT_QUEUE_SIZE - 1
  /\ MQ_INCREMENTS \in Nat \ {0}
  /\ RT_QUEUE_SIZE * MQ_INCREMENTS <= 256
  /\ NoJob \notin Jobs

Slots == 0 .. RT_QUEUE_SIZE - 1

SlotType == [job : Jobs \cup {NoJob}, state : {"free", "has_job"},
             id : {s * MQ_INCREMENTS : s \in Slots},
             win : Jobs \cup {NoJob}]

RingType == [slot : [Slots -> SlotType], sw_write : Slots, hw_done : Slots,
             size : 0 .. RT_QUEUE_SIZE]

(* A slot cleared by memset: job id 0, WORK_STATE_FREE, no nonce.          *)
BlankSlot == [job |-> NoJob, state |-> "free", id |-> 0, win |-> NoJob]

(* reset_sw_rt_queue.                                                      *)
ResetRing ==
  [slot |-> [s \in Slots |-> BlankSlot], sw_write |-> RT_QUEUE_FIRST,
   hw_done |-> RT_QUEUE_FIRST, size |-> 0]

(* Variants of the definitions below that a slip in the code would make:   *)
(* no wrap-around, and a full ring recognised a job early or late.         *)
NextSlotUnwrapped(s) == s + 1

RingFullEarly(q) == q.size = RT_QUEUE_SIZE - 1

RingFullLate(q) == q.size > RT_QUEUE_SIZE

(* one_done_sw_rt_queue without its work_state = WORK_STATE_FREE.          *)
FreedStillHasJob(e) == e

NextSlot(s) == (s + 1) % RT_QUEUE_SIZE

(* The entry one_done_sw_rt_queue copies out.                              *)
Oldest(q) == q.slot[q.hw_done]

(* Only work_state is cleared: the job, the id and the nonce stay.         *)
Freed(e) == [job |-> e.job, state |-> "free", id |-> e.id, win |-> e.win]

(* The ring after one_done_sw_rt_queue returned 1: only for q.size # 0,    *)
(* otherwise the call returns 0 and changes nothing.                       *)
OneDone(q) ==
  [slot |-> [q.slot EXCEPT ![q.hw_done] = Freed(@)],
   sw_write |-> q.sw_write, hw_done |-> NextSlot(q.hw_done),
   size |-> q.size - 1]

RingFull(q) == q.size = RT_QUEUE_SIZE

(* The part of add_to_sw_rt_queue after a possible eviction.  Jobs come    *)
(* from pull_work_req_adapter, which clears winner_nonce.                  *)
WriteSlot(q, j) ==
  [slot |-> [q.slot EXCEPT ![q.sw_write] =
               [job |-> j, state |-> "has_job",
                id |-> q.sw_write * MQ_INCREMENTS, win |-> NoJob]],
   sw_write |-> NextSlot(q.sw_write), hw_done |-> q.hw_done,
   size |-> q.size + 1]

(* add_to_sw_rt_queue when nothing interferes: a full ring first gives up  *)
(* its oldest job.                                                         *)
Add(q, j) == WriteSlot(IF RingFull(q) THEN OneDone(q) ELSE q, j)

(* The slot get_print_win_restart_if_error looks up for a job id that the  *)
(* hardware reports, which is work_id_in_hw plus the timestamp increments  *)
(* the MQ made, in an 8-bit register.                                      *)
WinSlot(job_id) == (job_id % 256) \div MQ_INCREMENTS

(* ntime_offset of that win.                                               *)
WinOffset(job_id) == (job_id % 256) % MQ_INCREMENTS
-----------------------------------------------------------------------------
(* What makes the three counters and the slots describe one queue.         *)

(* The slot that holds the i-th oldest of the jobs in the ring.            *)
SlotAt(q, i) == (q.hw_done + i - 1) % RT_QUEUE_SIZE

(* The jobs in the ring, oldest first.                                     *)
JobsOf(q) == [i \in 1 .. q.size |-> q.slot[SlotAt(q, i)].job]

(* The write index is exactly size slots ahead of the done index.  The     *)
(* passert of real_time_queue.c:73 aims at this.                           *)
IndicesAgree(q) == q.sw_write = (q.hw_done + q.size) % RT_QUEUE_SIZE

(* A slot is marked WORK_STATE_HAS_JOB exactly when it is one of the size  *)
(* slots from hw_done on: a win for any other slot is taken for an orphan. *)
StatesAgree(q) ==
  \A s \in Slots :
    (q.slot[s].state = "has_job") <=> (\E i \in 1 .. q.size : s = SlotAt(q, i))

(* A job the hardware may be working on is found again from any job id the *)
(* hardware reports for it, whatever its timestamp increment.              *)
WinsFindTheirSlot(q) ==
  \A s \in Slots : q.slot[s].state = "has_job" =>
    \A k \in 0 .. MQ_INCREMENTS - 1 :
      /\ WinSlot(q.slot[s].id + k) = s
      /\ WinOffset(q.slot[s].id + k) = k
=============================================================================
