---------------------------- MODULE JobPipeline ----------------------------
(***************************************************************************)
(* The way of a job through minergate: a client sends it in a packet to    *)
(* its connection thread, which queues it on its adapter; the RT thread    *)
(* pulls it, writes it into the real-time queue and into the FPGA's MQ;    *)
(* the ASICs load it, and report wins for it; the RT thread turns wins     *)
(* into responses, and completes the job when its slot is needed again.    *)
(*                                                                         *)
(* Threads: the RT thread (squid_regular_state_machine_rt) and one thread  *)
(* per accepted connection (connection_handler_thread).  A step is what    *)
(* one thread does between two points where another can see its effect:    *)
(* the calls under network_hw_mutex are single steps, what is done under   *)
(* asic_mutex is not, because connection threads also touch the queue and  *)
(* the hardware without that mutex.                                        *)
(***************************************************************************)
EXTENDS RtQueue, SequencesExt, FiniteSets

CONSTANTS
  Sessions,        \* connections, one thread each
  Rt,              \* the RT thread
  NoThread,        \* adapters[0] == NULL, or nobody holds asic_mutex
  MaxPacket,       \* jobs in a packet (MAX_REQUESTS_SP30 is 30)
  REQ_LIMIT,       \* MINERGATE_ADAPTER_QUEUE_SP30 - 2
  MAX_RESPONDS,    \* MAX_RESPONDS_SP30
  WORDS_PER_JOB,   \* words push_to_hw_queue_rt writes into the MQ per job
  MQ_TOO_FULL,     \* mq_size() from which no job is pushed
  BIST_JOBS,       \* jobs tried after a BIST, without asking mq_size() (2)
  ASIC_DEPTH,      \* jobs the ASICs hold: the current one and the next
  HW_ERR_LIMIT,    \* consecutive bad wins before restart_asics_full
  MaxWins,         \* bound: wins latched in the hardware at a time
  BadEngines,      \* whether engines also claim nonces that solve no job
  DropMasks,       \* the values of (mask & 0x02) # 0 that clients send
  Disconnects,     \* whether clients close their connection
  Lingers          \* whether the conductor stays busy after END_CURRENT_JOB

ASSUME JobPipelineAssumption ==
  /\ IsFiniteSet(Jobs) /\ Jobs = 1 .. Cardinality(Jobs) /\ NoJob = 0
  /\ Rt \notin Sessions /\ NoThread \notin Sessions \cup {Rt}
  /\ {MaxPacket, REQ_LIMIT, MAX_RESPONDS, WORDS_PER_JOB, MQ_TOO_FULL,
      BIST_JOBS, ASIC_DEPTH, HW_ERR_LIMIT, MaxWins} \subseteq Nat
  /\ DropMasks \subseteq BOOLEAN /\ {BadEngines, Disconnects, Lingers} \subseteq BOOLEAN

(* Thread-local variables are set back to an empty value when the code is  *)
(* done with them.                                                         *)
VARIABLES
  rt,          \* the real-time queue
  adapters,    \* adapters[0]
  req,         \* work_minergate_req of each adapter
  rsp,         \* work_minergate_rsp of each adapter
  delivered,   \* the responses written to each client, in order
  asic_mutex,  \* the thread that holds it
  pc,          \* where each thread is
  tries,       \* how often the RT thread still calls try_push_job_to_mq
               \* for the BIST of this tick, NoBist when it ran none
  work,        \* the RT_JOB the RT thread has pulled
  old,         \* old_w of add_to_sw_rt_queue: a job and its winner_nonce
  win,         \* the win each thread is processing
  packet,      \* the packet each connection thread handles: the jobs not yet
               \* queued, its drop bit, and (history) the jobs it came with
               \* when the drop bit is set
  mq,          \* the jobs in the FPGA's MQ
  asic,        \* the jobs in the ASICs, the current one first
  wins,        \* wins latched in the ASICs
  hwerrs,      \* vm.concecutive_hw_errs
  owner,       \* who submitted each job (history)
  strays,      \* the jobs an uninitialised old_w happened to name (history)
  aborted      \* a passert has failed

queueVars == <<rt, work, old, tries>>
netVars   == <<adapters, req, rsp, delivered, packet, owner>>
hwVars    == <<mq, asic, wins>>
winVars   == <<win, hwerrs>>
vars == <<queueVars, netVars, hwVars, winVars, asic_mutex, pc, strays, aborted>>

Threads == Sessions \cup {Rt}

JobOrNone == Jobs \cup {NoJob}

(* What a client gets: the job, the nonce, job_complete, and whether       *)
(* res = 1 (overflow).                                                     *)
Response(j, w, complete, overflow) ==
  [job |-> j, win |-> w, complete |-> complete, overflow |-> overflow]

(* A win in the hardware: the job id it reports and the job its nonce      *)
(* solves, NoJob for a nonce that solves none (a failing engine).          *)
Win(id, j) == [id |-> id, job |-> j]

NoWin == Win(0, NoJob)

NoBist == -1

NoOldWork == [job |-> NoJob, win |-> NoJob]

NoPacket == [jobs |-> <<>>, drop |-> FALSE]

Init ==
  /\ rt = ResetRing
  /\ adapters = NoThread
  /\ req = [s \in Sessions |-> <<>>]
  /\ rsp = [s \in Sessions |-> <<>>]
  /\ delivered = [s \in Sessions |-> <<>>]
  /\ asic_mutex = NoThread
  /\ pc = [t \in Threads |-> IF t = Rt THEN "idle" ELSE "off"]
  /\ work = NoJob
  /\ tries = NoBist
  /\ old = NoOldWork
  /\ win = [t \in Threads |-> NoWin]
  /\ packet = [s \in Sessions |-> NoPacket]
  /\ mq = <<>> /\ asic = <<>> /\ wins = {}
  /\ hwerrs = 0
  /\ owner = [j \in Jobs |-> NoThread]
  /\ strays = {} /\ aborted = FALSE

Goto(t, from, to) == pc[t] = from /\ pc' = [pc EXCEPT ![t] = to]

Lock(t) == asic_mutex = NoThread /\ asic_mutex' = t

Unlock(t) == asic_mutex' = NoThread

(* push_work_rsp: every RT_JOB carries adapter_id 0, so the response goes  *)
(* to whoever is adapters[0] now, or nowhere.                              *)
PushWorkRsp(j, w, complete) ==
  rsp' = IF adapters = NoThread THEN rsp
         ELSE [rsp EXCEPT ![adapters] = Append(@, Response(j, w, complete, FALSE))]

HasRequest == adapters # NoThread /\ req[adapters] # <<>>

(* The first part of stop_all_work_rt_restart_if_error: reset the MQ, and  *)
(* END_CURRENT_JOB twice, for the job that runs and the one behind it.     *)
StopHardware == mq' = <<>> /\ asic' = <<>> /\ UNCHANGED wins

(* A BIST does so as well and clears the wins.  The real-time queue keeps  *)
(* its jobs.                                                               *)
ResetHardware == mq' = <<>> /\ asic' = <<>> /\ wins' = {}
-----------------------------------------------------------------------------
(* The RT thread: one tick of squid_regular_state_machine_rt.              *)

MqTooFull == Len(mq) * WORDS_PER_JOB >= MQ_TOO_FULL

(* The tick starts by locking asic_mutex; the MQ has no room.              *)
RtMqTooFull ==
  /\ Goto(Rt, "idle", "poll") /\ Lock(Rt)
  /\ MqTooFull
  /\ UNCHANGED <<queueVars, netVars, hwVars, winVars, strays, aborted>>

(* The tick calls try_push_job_to_mq, or the end of a BIST does, which     *)
(* does not ask for room.                                                  *)
TryPush(to) ==
  \/ /\ Goto(Rt, "idle", to) /\ Lock(Rt)
     /\ ~ MqTooFull
     /\ UNCHANGED tries
  \/ /\ Goto(Rt, "poll", to)
     /\ tries > 0 /\ tries' = tries - 1
     /\ UNCHANGED asic_mutex

(* pull_work_req found a job.                                              *)
RtPull ==
  /\ TryPush("full")
  /\ HasRequest
  /\ work' = Head(req[adapters])
  /\ req' = [req EXCEPT ![adapters] = Tail(@)]
  /\ UNCHANGED <<rt, old, adapters, rsp, delivered, packet, owner, hwVars,
                 winVars, strays, aborted>>

(* No job: stop the hardware, then poll wins until the conductor is idle.  *)
RtNoJob ==
  /\ TryPush("poll")
  /\ ~ HasRequest
  /\ StopHardware
  /\ UNCHANGED <<rt, work, old, netVars, winVars, strays, aborted>>

(* add_to_sw_rt_queue: the test for a full queue.                          *)
RtTestFull ==
  /\ \/ RingFull(rt) /\ Goto(Rt, "full", "evict")
     \/ ~ RingFull(rt) /\ Goto(Rt, "full", "write")
  /\ UNCHANGED <<queueVars, netVars, hwVars, winVars, asic_mutex, strays, aborted>>

(* Its one_done_sw_rt_queue(&old_w).  When a connection thread has emptied *)
(* the queue since the test, old_w stays uninitialised: its job and its    *)
(* nonce are whatever the stack holds.                                     *)
RtEvict ==
  /\ Goto(Rt, "evict", "old")
  /\ \/ /\ rt.size # 0
        /\ old' = [job |-> Oldest(rt).job, win |-> Oldest(rt).win]
        /\ rt' = OneDone(rt)
        /\ UNCHANGED strays
     \/ /\ rt.size = 0
        /\ \E j, k \in JobOrNone :
             old' = [job |-> j, win |-> k] /\ strays' = strays \cup {j}
        /\ UNCHANGED rt
  /\ UNCHANGED <<work, tries, netVars, hwVars, winVars, asic_mutex, aborted>>

(* A variant of RtCompleteOld that forgets the completion.                 *)
RtDiscardOld ==
  /\ Goto(Rt, "old", "write")
  /\ old' = NoOldWork
  /\ UNCHANGED <<rt, work, tries, netVars, hwVars, winVars, asic_mutex, strays, aborted>>

(* passert(old_w.winner_nonce == 0), then the completion.                  *)
RtCompleteOld ==
  /\ \/ /\ old.win # NoJob
        /\ aborted' = TRUE
        /\ UNCHANGED <<pc, rsp, old>>
     \/ /\ old.win = NoJob
        /\ PushWorkRsp(old.job, old.win, TRUE)
        /\ Goto(Rt, "old", "write")
        /\ old' = NoOldWork
        /\ UNCHANGED aborted
  /\ pc[Rt] = "old"
  /\ UNCHANGED <<rt, work, tries, adapters, req, delivered, packet, owner,
                 hwVars, winVars, asic_mutex, strays>>

RtWrite ==
  /\ Goto(Rt, "write", "hwpush")
  /\ rt' = WriteSlot(rt, work)
  /\ work' = NoJob
  /\ UNCHANGED <<old, tries, netVars, hwVars, winVars, asic_mutex, strays, aborted>>

(* push_to_hw_queue_rt.                                                    *)
RtPushToHw ==
  /\ Goto(Rt, "hwpush", "poll")
  /\ LET s == CHOOSE s \in Slots : NextSlot(s) = rt.sw_write
     IN  mq' = Append(mq, Win(rt.slot[s].id, rt.slot[s].job))
  /\ UNCHANGED <<queueVars, netVars, asic, wins, winVars, asic_mutex, strays, aborted>>

(* Every so often the tick also runs a BIST, which resets the MQ, ends the *)
(* jobs of the ASICs and clears their wins (do_bist_ok), and then pushes   *)
(* jobs to get them going again (do_bist_loop_push_job).                   *)
RtBist ==
  /\ pc[Rt] = "poll"
  /\ tries = NoBist /\ tries' = BIST_JOBS
  /\ ResetHardware
  /\ UNCHANGED <<pc, rt, work, old, netVars, winVars, asic_mutex, strays, aborted>>

(* The tick is over.                                                       *)
RtEndTick ==
  /\ Goto(Rt, "poll", "idle") /\ Unlock(Rt)
  /\ tries \in {NoBist, 0} /\ tries' = NoBist
  /\ UNCHANGED <<rt, work, old, netVars, hwVars, winVars, strays, aborted>>
-----------------------------------------------------------------------------
(* poll_win_temp_rt, called by the RT thread in its tick, and by the       *)
(* connection thread that dropped old work while it waits for the          *)
(* hardware to stop.                                                       *)

PollWin(t) ==
  /\ Goto(t, "poll", "win")
  /\ \E w \in wins : win' = [win EXCEPT ![t] = w] /\ wins' = wins \ {w}
  /\ UNCHANGED <<queueVars, netVars, mq, asic, hwerrs, asic_mutex, strays, aborted>>

(* The conductor is idle: the wait of stop_all_work is over.               *)
PollDone(t) ==
  /\ t # Rt /\ Goto(t, "poll", "send")
  /\ UNCHANGED <<queueVars, netVars, hwVars, winVars, asic_mutex, strays, aborted>>

(* It stayed busy for all polls: restart_asics_full, which ends with two   *)
(* BISTs.  The drop goes on as if nothing had happened; the tick ends      *)
(* without a BIST (did_asic_reset), but a BIST it ran pushes its jobs.     *)
PollStuck(t) ==
  /\ Lingers
  /\ Goto(t, "poll", IF t = Rt THEN "poll" ELSE "send")
  /\ tries' = IF t = Rt /\ tries = NoBist THEN 0 ELSE tries
  /\ ResetHardware
  /\ UNCHANGED <<rt, work, old, netVars, winVars, asic_mutex, strays, aborted>>

SlotOfWin(t) == WinSlot(win[t].id)

(* A variant of WinIsGood that does not compute the hash.                  *)
WinIsGoodUnhashed(t) == rt.slot[SlotOfWin(t)].state = "has_job"

(* get_print_win_restart_if_error up to the leading zeroes: the slot of    *)
(* the job id must hold a job, and the nonce must hash with that job.      *)
WinIsGood(t) ==
  /\ rt.slot[SlotOfWin(t)].state = "has_job"
  /\ win[t].job # NoJob
  /\ rt.slot[SlotOfWin(t)].job = win[t].job

WinGood(t) ==
  /\ Goto(t, "win", "winset")
  /\ WinIsGood(t)
  /\ UNCHANGED <<queueVars, netVars, hwVars, winVars, asic_mutex, strays, aborted>>

(* A HW error or an orphan: the next win is read.                          *)
WinBad(t) ==
  /\ Goto(t, "win", "poll")
  /\ ~ WinIsGood(t)
  /\ win' = [win EXCEPT ![t] = NoWin]
  /\ hwerrs < HW_ERR_LIMIT /\ hwerrs' = hwerrs + 1
  /\ UNCHANGED <<queueVars, netVars, hwVars, asic_mutex, strays, aborted>>

(* One too many in a row: restart_asics_full, which ends with two BISTs.   *)
(* It does to the tick what PollStuck does.                                *)
WinRestart(t) ==
  /\ Goto(t, "win", "poll")
  /\ ~ WinIsGood(t)
  /\ win' = [win EXCEPT ![t] = NoWin]
  /\ hwerrs = HW_ERR_LIMIT /\ hwerrs' = 0
  /\ tries' = IF t = Rt /\ tries = NoBist THEN 0 ELSE tries
  /\ ResetHardware
  /\ UNCHANGED <<rt, work, old, netVars, asic_mutex, strays, aborted>>

SetNonce(t, j) ==
  rt' = [rt EXCEPT !.slot[SlotOfWin(t)].win = j]

WinSet(t) ==
  /\ Goto(t, "winset", "winpush")
  /\ SetNonce(t, win[t].job)
  /\ UNCHANGED <<work, old, tries, netVars, hwVars, winVars, asic_mutex, strays, aborted>>

WinPush(t) ==
  /\ Goto(t, "winpush", "winclear")
  /\ LET e == rt.slot[SlotOfWin(t)] IN PushWorkRsp(e.job, e.win, FALSE)
  /\ UNCHANGED <<queueVars, adapters, req, delivered, packet, owner, hwVars,
                 winVars, asic_mutex, strays, aborted>>

(* A variant of WinClear that leaves the nonce in the slot.                *)
WinKeep(t) ==
  /\ Goto(t, "winclear", "poll")
  /\ hwerrs' = 0
  /\ win' = [win EXCEPT ![t] = NoWin]
  /\ UNCHANGED <<queueVars, netVars, hwVars, asic_mutex, strays, aborted>>

WinClear(t) ==
  /\ Goto(t, "winclear", "poll")
  /\ SetNonce(t, NoJob)
  /\ hwerrs' = 0
  /\ win' = [win EXCEPT ![t] = NoWin]
  /\ UNCHANGED <<work, old, tries, netVars, hwVars, asic_mutex, strays, aborted>>
-----------------------------------------------------------------------------
(* A connection thread.                                                    *)

(* accept() returns, and the new thread registers its adapter: adapters[0] *)
(* = adapter, without network_hw_mutex.                                    *)
Accept(s) ==
  /\ Goto(s, "off", "clear")
  /\ adapters' = s
  /\ UNCHANGED <<queueVars, req, rsp, delivered, packet, owner, hwVars,
                 winVars, asic_mutex, strays, aborted>>

(* The loop that throws away the previous client's jobs, without           *)
(* asic_mutex.                                                             *)
ClearOldJob(s) ==
  /\ pc[s] = "clear"
  /\ rt.size # 0
  /\ rt' = OneDone(rt)
  /\ UNCHANGED <<pc, work, old, tries, netVars, hwVars, winVars, asic_mutex, strays, aborted>>

ClearDone(s) ==
  /\ Goto(s, "clear", "read")
  /\ rt.size = 0
  /\ UNCHANGED <<queueVars, netVars, hwVars, winVars, asic_mutex, strays, aborted>>

Submitted == {j \in Jobs : owner[j] # NoThread}

(* read() returns a packet: the next n jobs, and the drop bit.  Bound: an  *)
(* empty packet that asks for nothing is only sent to fetch responses.     *)
Receive(s) ==
  /\ Goto(s, "read", "wake")
  /\ \E n \in 0 .. MaxPacket, d \in DropMasks :
       LET first == Cardinality(Submitted)
           new   == {j \in Jobs : first < j /\ j <= first + n}
       IN  /\ Cardinality(new) = n
           /\ n = 0 => d \/ rsp[s] # <<>>
           /\ packet' = [packet EXCEPT ![s] = [jobs |-> [i \in 1 .. n |-> first + i],
                                               drop |-> d]]
           /\ owner' = [j \in Jobs |-> IF j \in new THEN s ELSE owner[j]]
  /\ UNCHANGED <<queueVars, adapters, req, rsp, delivered, hwVars, winVars,
                 asic_mutex, strays, aborted>>

(* not_mining_time = 0 under asic_mutex: the thread waits for the tick.    *)
Wake(s) ==
  /\ Goto(s, "wake", "reqs")
  /\ asic_mutex = NoThread
  /\ UNCHANGED <<queueVars, netVars, hwVars, winVars, asic_mutex, strays, aborted>>

(* A variant of PushWorkReq without its else: an overflow is queued too.   *)
PushWorkReqAnyway(s) ==
  /\ pc[s] = "reqs"
  /\ packet[s].jobs # <<>>
  /\ LET j == Head(packet[s].jobs)
     IN  /\ rsp' = [rsp EXCEPT ![s] = IF Len(req[s]) >= REQ_LIMIT
                      THEN Append(@, Response(j, NoJob, TRUE, TRUE)) ELSE @]
         /\ req' = [req EXCEPT ![s] = Append(@, j)]
  /\ packet' = [packet EXCEPT ![s].jobs = Tail(@)]
  /\ UNCHANGED <<pc, queueVars, adapters, delivered, owner, hwVars, winVars,
                 asic_mutex, strays, aborted>>

(* push_work_req: a full adapter queue answers at once with res = 1.       *)
PushWorkReq(s) ==
  /\ pc[s] = "reqs"
  /\ packet[s].jobs # <<>>
  /\ LET j == Head(packet[s].jobs)
     IN  IF Len(req[s]) >= REQ_LIMIT
           THEN /\ rsp' = [rsp EXCEPT ![s] = Append(@, Response(j, NoJob, TRUE, TRUE))]
                /\ UNCHANGED req
           ELSE /\ req' = [req EXCEPT ![s] = Append(@, j)]
                /\ UNCHANGED rsp
  /\ packet' = [packet EXCEPT ![s].jobs = Tail(@)]
  /\ UNCHANGED <<pc, queueVars, adapters, delivered, owner, hwVars, winVars,
                 asic_mutex, strays, aborted>>

ReqsDone(s) ==
  /\ Goto(s, "reqs", IF packet[s].drop THEN "droplock" ELSE "send")
  /\ packet[s].jobs = <<>>
  /\ UNCHANGED <<queueVars, netVars, hwVars, winVars, asic_mutex, strays, aborted>>

DropLock(s) ==
  /\ Goto(s, "droplock", "dropring") /\ Lock(s)
  /\ UNCHANGED <<queueVars, netVars, hwVars, winVars, strays, aborted>>

(* A variant of DropRingJob that throws the jobs away unanswered, as a new *)
(* connection does.                                                        *)
DropRingJobUnanswered(s) ==
  /\ pc[s] = "dropring"
  /\ rt.size # 0
  /\ rt' = OneDone(rt)
  /\ UNCHANGED <<pc, work, old, tries, netVars, hwVars, winVars, asic_mutex, strays, aborted>>

(* Every job in the real-time queue is completed, under asic_mutex.        *)
DropRingJob(s) ==
  /\ pc[s] = "dropring"
  /\ rt.size # 0
  /\ PushWorkRsp(Oldest(rt).job, Oldest(rt).win, TRUE)
  /\ rt' = OneDone(rt)
  /\ UNCHANGED <<pc, work, old, tries, adapters, req, delivered, packet, owner,
                 hwVars, winVars, asic_mutex, strays, aborted>>

(* A variant of DropRingDone that forgets to unlock asic_mutex.            *)
DropRingDoneLocked(s) ==
  /\ Goto(s, "dropring", "dropreq")
  /\ rt.size = 0
  /\ UNCHANGED <<queueVars, netVars, hwVars, winVars, asic_mutex, strays, aborted>>

DropRingDone(s) ==
  /\ Goto(s, "dropring", "dropreq") /\ Unlock(s)
  /\ rt.size = 0
  /\ UNCHANGED <<queueVars, netVars, hwVars, winVars, strays, aborted>>

(* Then every queued request, without asic_mutex: it is pulled (here: into *)
(* the packet, whose own jobs are all queued by now), then answered.       *)
DropPull(s) ==
  /\ Goto(s, "dropreq", "droprsp")
  /\ HasRequest
  /\ packet' = [packet EXCEPT ![s].jobs = <<Head(req[adapters])>>]
  /\ req' = [req EXCEPT ![adapters] = Tail(@)]
  /\ UNCHANGED <<queueVars, adapters, rsp, delivered, owner, hwVars, winVars,
                 asic_mutex, strays, aborted>>

DropPush(s) ==
  /\ Goto(s, "droprsp", "dropreq")
  /\ packet[s].jobs # <<>>
  /\ PushWorkRsp(Head(packet[s].jobs), NoJob, TRUE)
  /\ packet' = [packet EXCEPT ![s].jobs = <<>>]
  /\ UNCHANGED <<queueVars, adapters, req, delivered, owner, hwVars, winVars,
                 asic_mutex, strays, aborted>>

DropRequestsDone(s) ==
  /\ Goto(s, "dropreq", "stop")
  /\ ~ HasRequest
  /\ UNCHANGED <<queueVars, netVars, hwVars, winVars, asic_mutex, strays, aborted>>

(* stop_all_work_rt_restart_if_error, still without asic_mutex.            *)
DropStop(s) ==
  /\ \/ Goto(s, "stop", "send")
     \/ Lingers /\ Goto(s, "stop", "poll")
  /\ StopHardware
  /\ UNCHANGED <<queueVars, netVars, winVars, asic_mutex, strays, aborted>>

(* At most MAX_RESPONDS responses go out with the reply to the packet.     *)
Send(s) ==
  /\ Goto(s, "send", "read")
  /\ LET n == IF Len(rsp[s]) > MAX_RESPONDS THEN MAX_RESPONDS ELSE Len(rsp[s])
     IN  /\ delivered' = [delivered EXCEPT ![s] = @ \o SubSeq(rsp[s], 1, n)]
         /\ rsp' = [rsp EXCEPT ![s] = SubSeq(@, n + 1, Len(@))]
  /\ packet' = [packet EXCEPT ![s] = NoPacket]
  /\ UNCHANGED <<queueVars, adapters, req, owner, hwVars, winVars, asic_mutex,
                 strays, aborted>>

(* read() fails: adapters[0] = NULL, whoever is registered by now, and the *)
(* adapter is freed with its queues.                                       *)
Disconnect(s) ==
  /\ Disconnects
  /\ Goto(s, "read", "gone")
  /\ adapters' = NoThread
  /\ req' = [req EXCEPT ![s] = <<>>]
  /\ rsp' = [rsp EXCEPT ![s] = <<>>]
  /\ UNCHANGED <<queueVars, delivered, packet, owner, hwVars, winVars,
                 asic_mutex, strays, aborted>>
-----------------------------------------------------------------------------
(* Everything a client has been, or will be, told.                         *)
Answers(s) == delivered[s] \o rsp[s]

Completed(j) ==
  \E s \in Sessions : \E i \in 1 .. Len(Answers(s)) :
    Answers(s)[i].job = j /\ Answers(s)[i].complete

Reported(j) ==
  \E s \in Sessions : \E i \in 1 .. Len(Answers(s)) :
    Answers(s)[i].job = j /\ ~ Answers(s)[i].complete

(* The FPGA and the ASICs, as the code relies on them.                     *)

HwLoad ==
  /\ mq # <<>>
  /\ Len(asic) < ASIC_DEPTH
  /\ asic' = Append(asic, Head(mq))
  /\ mq' = Tail(mq)
  /\ UNCHANGED <<pc, queueVars, netVars, wins, winVars, asic_mutex, strays, aborted>>

HwFinish ==
  /\ asic # <<>>
  /\ asic' = Tail(asic)
  /\ UNCHANGED <<pc, queueVars, netVars, mq, wins, winVars, asic_mutex, strays, aborted>>

(* The current job finds a nonce, or an engine claims one that is none.    *)
(* The job id is the one of the last timestamp increment, closest to the   *)
(* ids of the next slot (WinDecoding in RtQueueProofs has all of them).    *)
(* Bounds: MaxWins latched wins, and one reported nonce per job.           *)
HwWin ==
  /\ asic # <<>>
  /\ Cardinality(wins) < MaxWins
  /\ \E j \in {Head(asic).job, NoJob} :
       /\ IF j = NoJob THEN BadEngines ELSE ~ Reported(j)
       /\ wins' = wins \cup {Win(Head(asic).id + MQ_INCREMENTS - 1, j)}
  /\ UNCHANGED <<pc, queueVars, netVars, mq, asic, winVars, asic_mutex, strays, aborted>>
-----------------------------------------------------------------------------
RtStep ==
  \/ RtMqTooFull \/ RtPull \/ RtNoJob \/ RtTestFull \/ RtEvict \/ RtCompleteOld
  \/ RtWrite \/ RtPushToHw \/ RtBist \/ RtEndTick

WinStep(t) ==
  \/ PollWin(t) \/ PollDone(t) \/ PollStuck(t) \/ WinGood(t) \/ WinBad(t) \/ WinRestart(t)
  \/ WinSet(t) \/ WinPush(t) \/ WinClear(t)

ClientStep(s) == Accept(s) \/ Receive(s) \/ Disconnect(s)

ConnectionStep(s) ==
  \/ ClearOldJob(s) \/ ClearDone(s) \/ Wake(s) \/ PushWorkReq(s)
  \/ ReqsDone(s) \/ DropLock(s) \/ DropRingJob(s) \/ DropRingDone(s)
  \/ DropPull(s) \/ DropPush(s) \/ DropRequestsDone(s) \/ DropStop(s) \/ Send(s)

Next ==
  /\ ~ aborted
  /\ \/ RtStep
     \/ \E t \in Threads : WinStep(t)
     \/ \E s \in Sessions : ClientStep(s) \/ ConnectionStep(s)
     \/ HwLoad \/ HwFinish \/ HwWin

Spec == Init /\ [][Next]_vars

(* Every thread keeps running, the hardware works its jobs off, and nobody *)
(* is starved of asic_mutex: the RT thread sleeps between its ticks.       *)
(* Clients may stop sending, and need not find or report anything.         *)
Fairness ==
  /\ SF_vars(~ aborted /\ RtStep)
  /\ \A t \in Threads : WF_vars(~ aborted /\ WinStep(t))
  /\ \A s \in Sessions :
       /\ WF_vars(~ aborted /\ ConnectionStep(s))
       /\ SF_vars(~ aborted /\ (Wake(s) \/ DropLock(s)))
  /\ WF_vars(~ aborted /\ HwLoad) /\ WF_vars(~ aborted /\ HwFinish)

FairSpec == Spec /\ Fairness
-----------------------------------------------------------------------------
Labels == {"idle", "full", "evict", "old", "write", "hwpush",
           "poll", "win", "winset", "winpush", "winclear", "off",
           "clear", "read", "wake", "reqs", "droplock", "dropring", "dropreq",
           "droprsp", "stop", "send", "gone"}

Responses == [job : JobOrNone, win : JobOrNone, complete : BOOLEAN,
              overflow : BOOLEAN]

HwJobs == [id : 0 .. 255, job : JobOrNone]

TypeOK ==
  /\ rt \in RingType
  /\ adapters \in Sessions \cup {NoThread}
  /\ req \in [Sessions -> Seq(Jobs)]
  /\ rsp \in [Sessions -> Seq(Responses)]
  /\ delivered \in [Sessions -> Seq(Responses)]
  /\ asic_mutex \in Threads \cup {NoThread}
  /\ pc \in [Threads -> Labels]
  /\ work \in JobOrNone
  /\ tries \in {NoBist} \cup 0 .. BIST_JOBS
  /\ old \in [job : JobOrNone, win : JobOrNone]
  /\ win \in [Threads -> HwJobs]
  /\ packet \in [Sessions -> [jobs : Seq(Jobs), drop : BOOLEAN]]
  /\ mq \in Seq(HwJobs) /\ asic \in Seq(HwJobs) /\ wins \subseteq HwJobs
  /\ hwerrs \in 0 .. HW_ERR_LIMIT
  /\ owner \in [Jobs -> Sessions \cup {NoThread}]
  /\ strays \subseteq JobOrNone /\ aborted \in BOOLEAN

LiveSlots(j) == {i \in Slots : rt.slot[i].state = "has_job" /\ rt.slot[i].job = j}

(* Where a submitted job can be.                                           *)
Places(j) ==
  {<<"packet", s>> : s \in {t \in Sessions : j \in Range(packet[t].jobs)}}
    \cup {<<"req", s>> : s \in {t \in Sessions : j \in Range(req[t])}}
    \cup {<<"ring", i>> : i \in LiveSlots(j)}
    \cup {<<p, Rt>> : p \in
            {q \in {"pulled", "evicted", "done"} :
               CASE q = "pulled"  -> work = j /\ pc[Rt] \in {"full", "evict", "old", "write"}
                 [] q = "evicted" -> old.job = j /\ pc[Rt] = "old"
                 [] q = "done"    -> Completed(j)}}

(* No job is lost or handled twice on its way through the packet, the      *)
(* adapter queue, the RT thread, the ring, an eviction or a drop, and its  *)
(* completion: it is always in exactly one of these places.                *)
JobInOnePlace == \A j \in Submitted : Cardinality(Places(j)) = 1

(* The completion of a job is the last thing its client hears of it: no    *)
(* second completion, and no win after it.                                 *)
CompletionIsLast ==
  \A s \in Sessions : \A i, k \in 1 .. Len(Answers(s)) :
    i < k /\ Answers(s)[i].job = Answers(s)[k].job => ~ Answers(s)[i].complete

(* A nonce is only ever credited to the job it solves, and only in a win,  *)
(* though the slot it is looked up by is reused for job after job.         *)
WinsCreditTheirJob ==
  \A s \in Sessions : \A i \in 1 .. Len(Answers(s)) :
    LET r == Answers(s)[i]
    IN  IF r.complete THEN r.win = NoJob ELSE r.win = r.job

(* What a client hears is right: nothing of a job once it is completed, be *)
(* it from the slot of an old job or the adapter of another connection,    *)
(* and no nonce for a job it does not solve.  Only a job that an           *)
(* uninitialised old_w named may be completed while it is still at work,   *)
(* and answered again.                                                     *)
RepliesAreRight ==
  /\ WinsCreditTheirJob
  /\ \A s \in Sessions : \A i, k \in 1 .. Len(Answers(s)) :
       /\ i < k /\ Answers(s)[i].job = Answers(s)[k].job
       /\ Answers(s)[i].job \notin strays
       => ~ Answers(s)[i].complete

(* No client is told twice that a job is complete.                         *)
CompletedOnce ==
  \A s \in Sessions : \A i, k \in 1 .. Len(Answers(s)) :
    /\ Answers(s)[i].complete /\ Answers(s)[k].complete
    /\ Answers(s)[i].job = Answers(s)[k].job
    => i = k

(* A drop, which empties the rings that the RT thread and the wins use,    *)
(* loses no job, leaves none behind, and completes each of them once.      *)
DropsCompleteOnce == JobInOnePlace /\ CompletedOnce

(* The ring is large enough for the hardware: a job that the MQ or the     *)
(* ASICs still hold has kept its slot, so its wins will be recognised.     *)
HardwareJobsAreLive ==
  \A h \in Range(mq \o asic) :
    rt.slot[WinSlot(h.id)].state = "has_job" /\ rt.slot[WinSlot(h.id)].job = h.job

(* passert(old_w.winner_nonce == 0), real_time_queue.c:59: an evicted job  *)
(* never carries a nonce that nobody has reported.                         *)
EvictedJobHasNoNonce == pc[Rt] = "old" => old.win = NoJob
-----------------------------------------------------------------------------
Overflowed(j) ==
  \E s \in Sessions : \E i \in 1 .. Len(Answers(s)) :
    Answers(s)[i].job = j /\ Answers(s)[i].overflow

Accepted(j) ==
  /\ j \in Submitted /\ ~ Overflowed(j)
  /\ \A s \in Sessions : j \notin Range(packet[s].jobs)

(* A job is completed once RT_QUEUE_SIZE younger jobs were accepted: that  *)
(* is what pushes it out of the real-time queue.  (Without younger jobs it *)
(* stays there: only a drop or the next jobs complete it.)                 *)
YoungerJobsCompleteIt ==
  \A j \in Jobs :
    (/\ Accepted(j)
     /\ Cardinality({k \in Jobs : k > j /\ Accepted(k)}) >= RT_QUEUE_SIZE)
      ~> Completed(j)

(* A client that sends a packet gets the reply to it, whatever the RT      *)
(* thread does with asic_mutex meanwhile.                                  *)
PacketsAreAnswered ==
  \A s \in Sessions : pc[s] = "wake" ~> pc[s] = "read"
=============================================================================
