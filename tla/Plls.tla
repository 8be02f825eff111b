-------------------------------- MODULE Plls --------------------------------
(***************************************************************************)
(* The PLLs and the engines of the ASICs while the machine mines: pll.c,   *)
(* the BIST that finds broken engines (asic_lib.c:897) and the restart of  *)
(* all ASICs that an ASIC in trouble leads to (miner_gate.c:1594).  A PLL  *)
(* may need any time to lock, or never lock; an ASIC may lose its address, *)
(* an engine fail, a reading get lost.  One thread does all this, with     *)
(* asic_mutex; todo is the sequence of what it has still to do.            *)
(***************************************************************************)
EXTENDS Integers, FiniteSets, Sequences

CONSTANTS
  ASICS_COUNT,                   \* (30)
  ENGINES,                       \* of an ASIC (193)
  MIN_ENGINES,                   \* an ASIC with less is given up (100)
  ASIC_FREQ_MIN, ASIC_FREQ_MAX,  \* (350, 1480)
  MAX_DISASICS,                  \* calls of disable_asic_forever (30)
  STUCK_TRIES, MAYHEM_TRIES      \* readings until a PLL is stuck, all is lost (50, 100)

VARIABLES
  asics,          \* the ASICs in use when mining began
  present,        \* those with asic_present
  engines_down,   \* those with engines_down
  asic,           \* of each: good (not_brocken_engines), freq_hw, wanted
  enable,         \* hardware: the engines ADDR_ENABLE_ENGINES enables
  pll, locked,    \* hardware: what each PLL is programmed to, which are ready
  vm,             \* in_asic_reset, did_asic_reset, disasics, working_asics_before_restart
  failed,         \* some_one_failed of do_bist_ok
  todo,           \* the calls that are left, the current one first
  ended           \* "no", or why the process ended

hw == <<enable, pll, locked>>
vars == <<asics, present, engines_down, asic, hw, vm, failed, todo, ended>>

ASICS == 0 .. ASICS_COUNT - 1
Freqs == {f \in ASIC_FREQ_MIN .. ASIC_FREQ_MAX : f % 5 = 0}
SENTINEL == -889275714            \* 0xcafebabe in an int

ASSUME PllsAssumption ==
  /\ ASICS_COUNT \in Nat \ {0} /\ IsFiniteSet(ENGINES)
  /\ MIN_ENGINES \in 1 .. Cardinality(ENGINES)
  /\ ASIC_FREQ_MIN \in Nat /\ ASIC_FREQ_MAX \in Nat /\ ASIC_FREQ_MIN % 5 = 0
  /\ 10 < ASIC_FREQ_MIN /\ ASIC_FREQ_MIN < ASIC_FREQ_MAX
  /\ {MAX_DISASICS, STUCK_TRIES, MAYHEM_TRIES} \subseteq Nat

-----------------------------------------------------------------------------
(* The calls, and the functions as sequences of them. *)
disable_asic_forever(a) == <<<<"disable", a>>>>
enable_engines_asic(a) == <<<<"enable", a>>>>
restart_asics_full == <<<<"restart">>>>
squid_wait == <<<<"squid wait">>>>
set_pll(a, f) == <<<<"set_pll", a, f>>>>
set_plls_to_wanted == <<<<"program">>>>
do_bist_ok(fast) == <<<<"bist", fast>>>>
do_bist_loop == do_bist_ok(TRUE) \o <<<<"again">>>>

EachAsic(name, arg) == [i \in 1 .. ASICS_COUNT |-> <<name, i - 1, arg>>]
\* of each in turn what is so named, but only of those in A
Those(name, A) ==
  [i \in 1 .. ASICS_COUNT |-> IF i - 1 \in A THEN <<name, i - 1>> ELSE <<"none">>]
Disabling(A) == Those("disable", A)

\* do_bist_ok after the BIST ran
JudgeAll(fast) ==
  squid_wait \o EachAsic("judge", fast) \o set_plls_to_wanted \o <<<<"good", 0, FALSE>>>>

\* the end of restart_asics_full: set_initial_voltage_freq_on_restart
set_initial_freq_on_restart ==
  EachAsic("restart pll", 0) \o <<<<"wait any">>>> \o do_bist_ok(FALSE) \o do_bist_ok(FALSE)
    \o <<<<"restarted">>>>

Unknown == [good |-> {}, freq_hw |-> ASIC_FREQ_MIN, wanted |-> 0]
Fresh == [in_asic_reset |-> 0, did_asic_reset |-> FALSE, disasics |-> 0, working |-> 0]

At(name) == todo # <<>> /\ Head(todo)[1] = name
Arg == Head(todo)[2]
Proceed(calls) == todo' = calls \o Tail(todo) /\ UNCHANGED <<asics, ended>>
\* what the process knew is gone, and the hardware is not followed further
Stop(why) ==
  /\ ended' = why /\ todo' = <<>>
  /\ present' = {} /\ engines_down' = {} /\ locked' = {} /\ failed' = FALSE
  /\ asic' = [a \in ASICS |-> Unknown] /\ enable' = [a \in ASICS |-> {}]
  /\ pll' = [a \in ASICS |-> 0] /\ vm' = Fresh /\ UNCHANGED asics

\* no ASIC of the loop to be dealt with
None ==
  /\ At("none") /\ Proceed(<<>>)
  /\ UNCHANGED <<present, engines_down, asic, hw, vm, failed>>

soft == <<present, engines_down, asic>>
\* called within itself, restart_asics_full aborts
CallRestart(rest) ==
  \/ /\ vm.in_asic_reset = 0 /\ Proceed(restart_asics_full \o rest)
     /\ UNCHANGED <<soft, hw, vm, failed>>
  \/ vm.in_asic_reset # 0 /\ Stop(<<"recursive restart">>)
-----------------------------------------------------------------------------
(* Programming the PLLs. *)

(* The ASICs that F gives a frequency: engines off, then the PLL.          *)
Program(F) ==
  /\ engines_down' = engines_down \cup DOMAIN F
  /\ enable' = [a \in ASICS |-> IF a \in DOMAIN F THEN {} ELSE enable[a]]
  /\ pll' = [a \in ASICS |-> IF a \in DOMAIN F THEN F[a] ELSE pll[a]]
  /\ locked' = locked \ DOMAIN F

InRange(f) == ASIC_FREQ_MIN <= f /\ f <= ASIC_FREQ_MAX
Wanting == {a \in present : asic[a].wanted # 0}

\* without a frequency to set nothing is read, so nothing can fail
SetNothing ==
  /\ At("program") /\ Wanting = {}
  /\ asic' = [a \in ASICS |-> [asic[a] EXCEPT !.wanted = 0]]
  /\ Proceed(<<>>) /\ UNCHANGED <<present, engines_down, hw, vm, failed>>
SetWanted ==
  /\ At("program") /\ Wanting # {} /\ \A a \in Wanting : InRange(asic[a].wanted)
  /\ asic' = [a \in ASICS |->
       IF a \in Wanting THEN [asic[a] EXCEPT !.freq_hw = asic[a].wanted, !.wanted = SENTINEL]
       ELSE asic[a]]
  /\ Program([a \in Wanting |-> asic[a].wanted])
  /\ Proceed(squid_wait \o <<<<"poll">>>>) /\ UNCHANGED <<present, vm, failed>>

\* passert(freq >= ASIC_FREQ_MIN) and passert(freq <= ASIC_FREQ_MAX)
WantedOutOfRange ==
  /\ At("program")
  /\ \E a \in Wanting :
       /\ ~ InRange(asic[a].wanted)
       /\ \A b \in Wanting : b < a => InRange(asic[b].wanted)
       /\ Stop(<<"freq", asic[a].wanted, asic[a].freq_hw, vm.in_asic_reset>>)

Pending == {a \in present : asic[a].wanted = SENTINEL}

(* The readings of the PLLs that were programmed: the ones that are not    *)
(* ready are waited for, then each ASIC gets its engines back.             *)
PollPlls ==
  /\ At("poll")
  /\ \E L \in SUBSET (Pending \ locked) :
       LET waiting == Pending \ (locked \cup L) IN
       /\ locked' = locked \cup L
       /\ Proceed(Those("wait wanted", waiting) \o <<<<"enable wanted">>>>)
  /\ UNCHANGED <<soft, enable, pll, vm, failed>>

WaitWanted ==
  /\ At("wait wanted")
  /\ Proceed(IF Arg \in Pending THEN <<<<"wait", Arg>>>> ELSE <<>>)
  /\ UNCHANGED <<soft, hw, vm, failed>>

(* An ASIC without good engines is disabled instead. *)
Enabled(kept) ==
  /\ At("enable wanted")
  /\ engines_down' = engines_down \ Pending
  /\ enable' = [a \in ASICS |-> IF a \in Pending THEN asic[a].good ELSE enable[a]]
  /\ asic' = [a \in ASICS |-> [asic[a] EXCEPT !.wanted = IF a \in kept THEN @ ELSE 0]]
  /\ Proceed(Disabling({a \in Pending : asic[a].good = {}}))
  /\ UNCHANGED <<present, pll, locked, vm, failed>>
\* mutant: wanted_pll_freq keeps the mark
EnableWantedMarked == Enabled(Pending)
EnableWanted == Enabled({})

(* At once, or in a restart, which has every ASIC run as it did before.    *)
SetPll ==
  /\ At("set_pll") \/ At("restart pll")
  /\ LET freq == IF At("set_pll") THEN Head(todo)[3] ELSE asic[Arg].freq_hw IN
     /\ Arg \in present /\ InRange(freq)
     /\ asic' = [asic EXCEPT ![Arg].freq_hw = freq]
     /\ Program([a \in {Arg} |-> freq])
  /\ Proceed(<<<<"wait once", Arg>>, <<"wait", Arg>>>> \o enable_engines_asic(Arg))
  /\ UNCHANGED <<present, vm, failed>>
RestartPllAbsent ==
  /\ At("restart pll") /\ Arg \notin present
  /\ Proceed(<<>>) /\ UNCHANGED <<soft, hw, vm, failed>>

-----------------------------------------------------------------------------
(* Waiting for PLLs: wait_dll_ready reads until the PLL is ready or takes  *)
(* it for stuck, and is called once or until it returns 0.  An ASIC that   *)
(* is not present may answer anything.                                     *)
Waiting == At("wait once") \/ At("wait")
WaitReady ==
  /\ Waiting
  /\ locked' = locked \cup ({Arg} \cap present)
  /\ Proceed(<<>>) /\ UNCHANGED <<soft, enable, pll, vm, failed>>
WaitStuck ==
  /\ Waiting /\ Arg \notin locked
  /\ Proceed(disable_asic_forever(Arg) \o (IF At("wait") THEN <<Head(todo)>> ELSE <<>>))
  /\ UNCHANGED <<soft, hw, vm, failed>>
\* the reading does not name an ASIC
WaitLostAddress ==
  /\ Waiting /\ Arg \notin locked
  /\ CallRestart(<<>>)

(* All PLLs at once.  A stuck one disables vm.asic[ANY_ASIC], which is     *)
(* behind the array: if it looks present, what is there is overwritten.    *)
WaitAnyReady ==
  /\ At("wait any")
  /\ locked' = locked \cup present
  /\ Proceed(<<>>) /\ UNCHANGED <<soft, enable, pll, vm, failed>>
AnyStuck == At("wait any") /\ ~ present \subseteq locked
WaitAnyStuck ==
  /\ AnyStuck /\ vm.disasics < MAX_DISASICS
  /\ vm' = [vm EXCEPT !.disasics = @ + 1]
  /\ UNCHANGED <<asics, soft, hw, failed, todo, ended>>
WaitAnyEnds ==
  /\ AnyStuck
  /\ Stop(<<IF vm.disasics < MAX_DISASICS THEN "vm.asic[ANY_ASIC]" ELSE "disasics">>)
WaitAnyLostAddress ==
  /\ AnyStuck /\ CallRestart(<<>>)

-----------------------------------------------------------------------------
(* Enabling and disabling. *)
EnableEngines ==
  /\ At("enable")
  /\ engines_down' = engines_down \ {Arg}
  /\ enable' = [enable EXCEPT ![Arg] = asic[Arg].good]
  /\ Proceed(IF asic[Arg].good = {} THEN disable_asic_forever(Arg) ELSE <<>>)
  /\ UNCHANGED <<present, asic, pll, locked, vm, failed>>

\* disable_asic_forever_rt_restart_if_error; in_asic_reset is never 1 here
Disasic(counts) ==
  /\ At("disable")
  /\ vm' = IF counts THEN [vm EXCEPT !.disasics = @ + 1] ELSE vm
\* mutant: an ASIC that is not present is not counted
DisableAbsentUncounted ==
  /\ Disasic(FALSE) /\ vm.disasics < MAX_DISASICS /\ Arg \notin present
  /\ Proceed(<<>>) /\ UNCHANGED <<soft, hw, failed>>
DisableAbsent ==
  /\ Disasic(TRUE) /\ vm.disasics < MAX_DISASICS /\ Arg \notin present
  /\ Proceed(<<>>) /\ UNCHANGED <<soft, hw, failed>>
DisableMining ==
  /\ Disasic(TRUE) /\ vm.disasics < MAX_DISASICS /\ Arg \in present /\ vm.in_asic_reset = 0
  /\ Proceed(restart_asics_full) /\ UNCHANGED <<soft, hw, failed>>
DisableForever ==
  /\ Disasic(TRUE) /\ vm.disasics < MAX_DISASICS /\ Arg \in present /\ vm.in_asic_reset = 2
  /\ present # {Arg}
  /\ present' = present \ {Arg}
  /\ engines_down' = engines_down \cup {Arg}
  \* its frequency stays in the code, where nothing reads it again
  /\ asic' = [asic EXCEPT ![Arg] = Unknown]
  /\ enable' = [enable EXCEPT ![Arg] = {}]
  /\ locked' = locked \ {Arg}
  /\ Proceed(<<>>) /\ UNCHANGED <<pll, failed>>
DisableEnds ==
  /\ At("disable")
  /\ \/ vm.disasics = MAX_DISASICS /\ Stop(<<"disasics">>)
     \/ /\ vm.disasics < MAX_DISASICS
        /\ present = {Arg} /\ vm.in_asic_reset = 2 /\ Stop(<<"all ASICs disabled">>)

-----------------------------------------------------------------------------
(* The BIST. *)
\* squid_wait_asic_reads: failed reads may restart the ASICs (FpgaReads)
SquidWait ==
  /\ At("squid wait")
  /\ \/ Proceed(<<>>) /\ UNCHANGED <<soft, hw, vm, failed>>
     \/ CallRestart(<<>>)

\* without fast_bist a job that does not end restarts the ASICs
BistStart ==
  /\ At("bist")
  /\ \/ failed' = FALSE /\ Proceed(JudgeAll(Arg)) /\ UNCHANGED <<soft, hw, vm>>
     \/ ~ Arg /\ CallRestart(JudgeAll(Arg))

(* An ASIC passes when the engines that pass are those known as good; a    *)
(* fast BIST compares only some of them.  Of one that is not fast, a       *)
(* reading that makes no sense gives the ASIC up.                          *)
JudgePassed ==
  /\ At("judge")
  /\ \/ Arg \notin present
     \/ asic[Arg].good \subseteq enable[Arg] \/ Head(todo)[3]
  /\ Proceed(<<>>) /\ UNCHANGED <<soft, hw, vm, failed>>
JudgeEvil ==
  /\ At("judge") /\ Arg \in present /\ ~ Head(todo)[3]
  /\ Proceed(disable_asic_forever(Arg)) /\ UNCHANGED <<soft, hw, vm, failed>>

JudgeFailed ==
  /\ At("judge") /\ Arg \in present /\ failed' = TRUE
  /\ SUBSET enable[Arg] # {asic[Arg].good}
FailedSlower ==
  /\ JudgeFailed /\ asic[Arg].freq_hw > ASIC_FREQ_MIN
  /\ asic' = [asic EXCEPT ![Arg].wanted = asic[Arg].freq_hw - 10]
  /\ Proceed(squid_wait) /\ UNCHANGED <<present, engines_down, hw, vm>>
FailedDropsEngines ==
  /\ JudgeFailed /\ asic[Arg].freq_hw = ASIC_FREQ_MIN
  /\ Proceed(squid_wait \o <<<<"drop engines", Arg>>>> \o squid_wait)
  /\ UNCHANGED <<soft, hw, vm>>

(* What is kept are the engines that passed, which are not the ones known. *)
(* A restart since the BIST may have kept the readings, or some of them,   *)
(* from their destination.                                                 *)
DropEngines ==
  /\ At("drop engines")
  /\ \E E \in IF vm.did_asic_reset THEN SUBSET ENGINES
                                   ELSE SUBSET enable[Arg] \ {asic[Arg].good} :
       /\ asic' = [asic EXCEPT ![Arg].good = E]
       /\ IF Cardinality(E) < MIN_ENGINES
          THEN Proceed(disable_asic_forever(Arg)) /\ UNCHANGED <<engines_down, enable>>
          ELSE \* reset_others: the last write enables the others instead
               /\ engines_down' = engines_down \ {Arg}
               /\ enable' = [enable EXCEPT ![Arg] = ENGINES \ E]
               /\ Proceed(<<>>)
  /\ UNCHANGED <<present, pll, locked, vm, failed>>

\* do_bist_loop_push_job
BistAgain ==
  /\ At("again")
  /\ failed' = FALSE
  /\ Proceed(IF failed /\ ~ vm.did_asic_reset THEN do_bist_loop ELSE <<>>)
  /\ UNCHANGED <<soft, hw, vm>>

-----------------------------------------------------------------------------
(* enable_good_engines: i readings so far, did one lead to disabling?      *)
Good(i, killed) == <<<<"good", i, killed>>>>
Killed == Head(todo)[3]
\* mutant: the ASICs with broken engines are passed over
GoodPassesBroken ==
  /\ At("good")
  /\ locked' = locked \cup present
  /\ enable' = [a \in ASICS |-> IF a \in present THEN ENGINES ELSE {}]
  /\ engines_down' = ASICS \ present
  /\ Proceed(<<>>) /\ UNCHANGED <<present, asic, pll, vm, failed>>
GoodReady ==
  /\ At("good")
  /\ locked' = locked \cup present
  /\ enable' = [a \in ASICS |-> IF a \in present THEN asic[a].good ELSE {}]
  /\ engines_down' = ASICS \ present
  /\ Proceed(Disabling({a \in present : asic[a].good = {}}))
  /\ UNCHANGED <<present, asic, pll, vm, failed>>

GoodNotReady == At("good") /\ ~ present \subseteq locked
GoodTries ==
  /\ GoodNotReady /\ Arg <= STUCK_TRIES
  /\ Proceed(Good(Arg + 1, Killed)) /\ UNCHANGED <<soft, hw, vm, failed>>
GoodDisables ==
  /\ GoodNotReady /\ Arg \in STUCK_TRIES + 1 .. MAYHEM_TRIES
  /\ \E a \in present \ locked :
       Proceed(disable_asic_forever(a) \o Good(Arg + 1, TRUE))
  /\ UNCHANGED <<soft, hw, vm, failed>>
\* no ASIC has the address, or too many readings: gives up its own work
GoodRestarts ==
  /\ GoodNotReady /\ Arg > STUCK_TRIES
  /\ CallRestart(<<>>)
\* passert(test_serial(-2))
GoodSerialFails == At("good") /\ Killed /\ Stop(<<"test_serial">>)

-----------------------------------------------------------------------------
(* The restart: the count of disabled ASICs starts again; the ASICs are    *)
(* reset, addressed and enabled again; what is known of those in use is    *)
(* kept.  Some may not be found again, and some that were disabled are     *)
(* found, and disabled again.  The loops themselves keep working.          *)
Restart ==
  /\ At("restart")
  /\ \E lost \in SUBSET present, found \in SUBSET (ASICS \ present) :
       /\ present' = (present \ lost) \cup found
       /\ asic' = [a \in ASICS |-> IF a \in lost THEN Unknown ELSE asic[a]]
       /\ Proceed(Disabling(found) \o set_initial_freq_on_restart)
  /\ vm' = [vm EXCEPT !.in_asic_reset = 2, !.working = Cardinality(present), !.disasics = 0]
  /\ enable' = [a \in ASICS |-> ENGINES]
  /\ pll' = [a \in ASICS |-> 0] /\ locked' = {}
  /\ failed' = FALSE \* a BIST that it interrupts is not repeated
  /\ UNCHANGED engines_down

Restarted ==
  /\ At("restarted") /\ Cardinality(present) >= vm.working
  /\ vm' = [vm EXCEPT !.in_asic_reset = 0, !.did_asic_reset = TRUE, !.working = 0]
  /\ failed' = FALSE /\ Proceed(<<>>) /\ UNCHANGED <<soft, hw>>
NotRestarted ==
  /\ At("restarted")
  /\ \/ Cardinality(present) < vm.working /\ Stop(<<"not all ASICs recover">>)
     \/ Stop(<<"stuck in reset">>)

-----------------------------------------------------------------------------
(* What a tick of the RT thread may begin. *)
Tick(calls) ==
  /\ todo = <<>> /\ ended = <<>>
  /\ todo' = calls
  /\ vm' = [vm EXCEPT !.did_asic_reset = FALSE]
  /\ UNCHANGED <<asics, present, engines_down, hw, failed, ended>>

(* The scaling asks for freq_bist_limit, which is not below freq_hw: for   *)
(* any ASICs before a BIST, for one that has cooled.                       *)
Want(A, f) ==
  asic' = [a \in ASICS |-> IF a \in A THEN [asic[a] EXCEPT !.wanted = f] ELSE asic[a]]
TickBist ==
  \E f \in Freqs : \E A \in SUBSET {a \in present : asic[a].freq_hw <= f} :
    Tick(set_plls_to_wanted \o do_bist_loop) /\ Want(A, f)
TickCooled ==
  \E f \in Freqs : \E a \in {b \in present : asic[b].freq_hw <= f} :
    Tick(set_plls_to_wanted) /\ Want({a}, f)
TickTooHot == \E a \in present : Tick(set_pll(a, ASIC_FREQ_MIN)) /\ UNCHANGED asic
TickUp ==
  \E a \in present : asic[a].freq_hw < ASIC_FREQ_MAX
                     /\ Tick(set_pll(a, asic[a].freq_hw + 5)) /\ UNCHANGED asic
(* Wins that solve no job, or an orphan win again, come from a bad engine: *)
(* disable_engine.                                                         *)
TickBadEngine ==
  \E a \in present, e \in ENGINES :
    Tick(enable_engines_asic(a)) /\ asic' = [asic EXCEPT ![a].good = @ \ {e}]
TickLazy == \E a \in present : Tick(disable_asic_forever(a)) /\ UNCHANGED asic
TickRestart == Tick(restart_asics_full) /\ UNCHANGED asic

\* hardware: a PLL is no longer ready, which only its next reading notices
LoseLock(a) ==
  /\ \/ Waiting /\ a = Arg
     \/ At("wait any") \/ At("good")
  /\ a \in locked
  /\ locked' = locked \ {a}
  /\ UNCHANGED <<asics, soft, enable, pll, vm, failed, todo, ended>>

-----------------------------------------------------------------------------
Init ==
  /\ present \in SUBSET ASICS \ {{}} /\ asics = present
  /\ engines_down = ASICS \ present
  /\ asic \in [ASICS -> [good : SUBSET ENGINES, freq_hw : Freqs, wanted : {0}]]
  /\ \A a \in ASICS : IF a \in present THEN Cardinality(asic[a].good) >= MIN_ENGINES
                                       ELSE asic[a] = Unknown
  /\ enable = [a \in ASICS |-> IF a \in present THEN asic[a].good ELSE {}]
  /\ pll = [a \in ASICS |-> asic[a].freq_hw] /\ locked = present
  /\ \E n \in 0 .. MAX_DISASICS : vm = [Fresh EXCEPT !.disasics = n]
  /\ failed = FALSE /\ todo = <<>> /\ ended = <<>>

Step ==
  \/ None \/ SquidWait
  \/ GoodReady \/ GoodTries \/ GoodDisables \/ GoodRestarts \/ GoodSerialFails
  \/ JudgePassed \/ JudgeEvil \/ FailedSlower \/ FailedDropsEngines
  \/ DropEngines \/ BistStart \/ BistAgain
  \/ DisableAbsent \/ DisableMining \/ DisableForever \/ DisableEnds
  \/ WaitReady \/ WaitStuck \/ WaitLostAddress
  \/ WaitAnyReady \/ WaitAnyStuck \/ WaitAnyEnds \/ WaitAnyLostAddress
  \/ SetNothing \/ SetWanted \/ WantedOutOfRange \/ PollPlls \/ WaitWanted \/ EnableWanted
  \/ SetPll \/ RestartPllAbsent
  \/ EnableEngines
  \/ Restart \/ Restarted \/ NotRestarted

Next ==
  \/ Step \/ TickBist \/ TickCooled \/ TickTooHot \/ TickUp \/ TickLazy \/ TickBadEngine
  \/ TickRestart
  \/ \E a \in ASICS : LoseLock(a)

Spec == Init /\ [][Next]_vars
(* The thread keeps running; ticks need not bring anything, and PLLs need  *)
(* not lock.                                                               *)
FairSpec == Spec /\ WF_vars(Step)
-----------------------------------------------------------------------------
Mining == todo = <<>> /\ ended = <<>>

(* Between two calls the same ASICs mine that did when mining began, each  *)
(* with exactly the engines that are not known to be broken, on the        *)
(* frequency the scaling counts with: whatever restarts, stuck PLLs and    *)
(* failed BISTs the call met, and though on_failed_bist enables the broken *)
(* engines in place of the good ones (pll.c:374) and a restart enables all *)
(* of them.                                                                *)
MiningEngines ==
  Mining =>
    /\ present = asics /\ engines_down = ASICS \ present
    /\ \A a \in present :
         asic[a].good # {} /\ enable[a] = asic[a].good /\ pll[a] = asic[a].freq_hw
    /\ \A a \in ASICS \ present : enable[a] = {}

(* The passert on the frequency (pll.c:504) fails in two ways only: for an *)
(* ASIC that fails its BIST at the second-lowest frequency, and for the    *)
(* mark 0xcafebabe that set_plls_to_wanted leaves in wanted_pll_freq while *)
(* it waits, when an ASIC in trouble restarts all of them meanwhile.       *)
OutOfRangeIsKnown ==
  Len(ended) = 4 =>
    LET wanted == ended[2]  freq_hw == ended[3]  in_asic_reset == ended[4] IN
    \/ wanted = ASIC_FREQ_MIN - 5 /\ freq_hw = ASIC_FREQ_MIN + 5
    \/ wanted = SENTINEL /\ in_asic_reset = 2

(* Every call ends, or the process does, also when PLLs never lock and     *)
(* BISTs never pass: the waits give up by the count of                     *)
(* disable_asic_forever, the BISTs run out of frequencies and engines.     *)
(* Only PLLs that lock for each restart and lose it again after it can     *)
(* keep set_pll (pll.c:599) restarting for ever, the count starting again  *)
(* each time (miner_gate.c:1597).                                          *)
CallsEnd == <>[][\A a \in ASICS : ~ LoseLock(a)]_vars => []<>(todo = <<>>)
=============================================================================
