------------------------------ MODULE Scaling ------------------------------
(***************************************************************************)
(* Voltage and frequency of the ASICs (asic_lib.c, pll.c, dc2dc.c): the    *)
(* search for the first frequencies at start-up, then once a second the    *)
(* scaling logic of the RT thread, which raises the voltage of ASICs that  *)
(* have head-room, tests them (BIST), slows the ones that fail, are too    *)
(* hot or draw too much, and restarts all of them on an error.             *)
(*                                                                         *)
(* One thread runs all of this.  What the hardware answers is chosen by    *)
(* the environment: which ASICs fail a BIST, which are hot, what a power   *)
(* supply draws, when a converter warns of an overcurrent.  Frequencies    *)
(* are in MHz and powers in watts, as in the code; the ranges are small.   *)
(* A failed passert aborts the process: vm.abort then names it.            *)
(***************************************************************************)
EXTENDS Integers, FiniteSets, FiniteSetsExt

CONSTANTS ASICS_COUNT, ASICS_PER_PSU, ASICS_PER_BOARD,
          VTRIM_MIN, VTRIM_MAX,
          vtrim_max, vtrim_start,   \* from voltage_max, voltage_start of the user
          ASIC_FREQ_MIN, ASIC_FREQ_MAX,
          FREQ_AFTER_DISABLE,       \* ASIC_FREQ_MAX - 200 in the code
          ac2dc_power_limit,        \* of every power supply
          Readings,                 \* what a power supply may report, in watts
          BIST_PERIOD_SECS, BIST_PERIOD_SECS_LONG

Asics == 0 .. ASICS_COUNT - 1
PSU_ID(a) == a \div ASICS_PER_PSU
ASIC_TO_BOARD_ID(a) == a \div ASICS_PER_BOARD
Psus == {PSU_ID(a) : a \in Asics}

ASSUME ScalingAssumption ==
  /\ {ASICS_COUNT, ASICS_PER_PSU, ASICS_PER_BOARD} \subseteq Nat \ {0}
  /\ {VTRIM_MIN, VTRIM_MAX, vtrim_max, vtrim_start} \subseteq Int
  /\ {ASIC_FREQ_MIN, ASIC_FREQ_MAX, ac2dc_power_limit} \subseteq Int
  /\ VTRIM_MIN < vtrim_start /\ vtrim_start <= vtrim_max /\ vtrim_max <= VTRIM_MAX
  \* a step below the lowest frequency is not 0, which is none asked for
  /\ ASIC_FREQ_MIN > 5
  /\ ASIC_FREQ_MIN % 5 = 0 /\ ASIC_FREQ_MAX % 5 = 0 /\ FREQ_AFTER_DISABLE % 5 = 0
  /\ FREQ_AFTER_DISABLE \in ASIC_FREQ_MIN + 5 .. ASIC_FREQ_MAX
  /\ Readings \subseteq Nat /\ Readings # {}
  /\ {BIST_PERIOD_SECS, BIST_PERIOD_SECS_LONG} \subseteq Nat
  /\ BIST_PERIOD_SECS <= BIST_PERIOD_SECS_LONG
  \* the cooling counters are kept in ac2dc[], under the board's number
  /\ \A a \in Asics : ASIC_TO_BOARD_ID(a) \in Psus

VARIABLES
  vm,        \* the state of the machine: asic[], ac2dc[], countdown, flags
             \* (asic[a].hot: found too hot in this second)
  at,        \* where the thread is
  i,         \* the PSU or ASIC its loop has reached
  can_upscale, psu_pimped, do_bist,  \* locals of once_second_scaling_logic
  tries,     \* BISTs a restart still makes
  resume     \* where the thread goes on after a restart

vars == <<vm, at, i, can_upscale, psu_pimped, do_bist, tries, resume>>

Present == {a \in Asics : vm.asic[a].asic_present}

\* passert(): the process ends at the first one that fails, for one of the
\* ASICs in Bad.
Passert(v, Bad, name) == [v EXCEPT !.abort = IF Bad = {} \/ @ # "none" THEN @ ELSE name]

----------------------------------------------------------------------------
(* Voltage and frequency.  Loops of the code that call a function for some *)
(* of the ASICs call it here once, for all of them: each call changes the  *)
(* entry of its own ASIC.                                                  *)

Updated(v, A, asic) ==
  [v EXCEPT !.asic = [a \in Asics |-> IF a \in A THEN asic[a] ELSE @[a]]]

Headroom(v, a) == ac2dc_power_limit - v.ac2dc[PSU_ID(a)].assumed

dc2dc_can_down(v, a) == v.asic[a].vtrim > VTRIM_MIN

(* Variant: the user's maximum is forgotten.                               *)
CanUpAnyVoltage(v, a, warm) ==
  /\ v.asic[a].vtrim < v.asic[a].max_vtrim_currentwise
  /\ v.asic[a].vtrim < v.asic[a].max_vtrim_temperature
  /\ a \notin warm /\ Headroom(v, a) > 5

\* vtrim_max is also max_vtrim_user, set from the same voltage_max.
dc2dc_can_up(v, a, warm) ==
  LET d == v.asic[a] IN
  /\ d.vtrim < d.max_vtrim_currentwise
  /\ d.vtrim < d.max_vtrim_temperature
  /\ d.vtrim < vtrim_max
  /\ a \notin warm
  /\ Headroom(v, a) > 5

\* vtrim[a] is the new voltage of a.
dc2dc_set_vtrim(v, A, vtrim) ==
  LET w == Passert(v, {a \in A : vtrim[a] < VTRIM_MIN}, "vtrim below VTRIM_MIN")
  IN  Updated(Passert(w, {a \in A : vtrim[a] > vtrim_max}, "vtrim above vtrim_max"),
              A, [a \in Asics |-> [v.asic[a] EXCEPT !.vtrim = vtrim[a]]])

dc2dc_down(v, A, clicks) ==
  LET w == dc2dc_set_vtrim(v, A, [a \in Asics |-> v.asic[a].vtrim - clicks])
  IN  Updated(w, A, [a \in Asics |-> [w.asic[a] EXCEPT !.revolted = TRUE]])

\* freq[a] is the new frequency of a.
set_pll(v, A, freq) ==
  LET w == Passert(v, {a \in A : freq[a] > ASIC_FREQ_MAX}, "freq above ASIC_FREQ_MAX")
  IN  Updated(Passert(w, {a \in A : freq[a] < ASIC_FREQ_MIN}, "freq below ASIC_FREQ_MIN"),
              A, [a \in Asics |-> [v.asic[a] EXCEPT !.freq_hw = freq[a]]])

\* wanted_pll_freq = 0: nothing wanted.
set_plls_to_wanted(v) ==
  LET Wanted == {a \in Asics : v.asic[a].asic_present /\ v.asic[a].wanted # 0}
      w == set_pll(v, Wanted, [a \in Asics |-> v.asic[a].wanted])
  IN  Updated(w, Asics, [a \in Asics |-> [w.asic[a] EXCEPT !.wanted = 0]])

\* C division truncates towards zero.
Truncated(n, d) == IF n >= 0 THEN n \div d ELSE -((-n) \div d)

(* Variant: the end of cooling is not noted.                               *)
MaxRequestStaysCool(v, a) ==
  LET hz == v.asic[a].freq_bist_limit - v.asic[a].freq_hw
  IN  IF hz > Headroom(v, a) * 3 THEN v
      ELSE [v EXCEPT !.ac2dc[PSU_ID(a)].assumed = @ + hz \div 3,
                     !.asic[a].wanted = v.asic[a].freq_bist_limit]

\* Three MHz are taken to cost one watt.
asic_up_freq_max_request(v, a) ==
  LET wanted == v.asic[a].freq_bist_limit
      wanted_hz == wanted - v.asic[a].freq_hw
      allowed_hz == Headroom(v, a) * 3
      full == wanted_hz <= allowed_hz
      hz == IF full THEN wanted_hz ELSE Truncated(allowed_hz, 5) * 5
      b == ASIC_TO_BOARD_ID(a)
      cooled == IF full /\ v.asic[a].cooling_down
                THEN [v EXCEPT !.asic[a].cooling_down = FALSE,
                               !.ac2dc[b].board_cooling_now = Max({@ - 1, 0})]
                ELSE v
  IN  IF hz < 0 THEN cooled
      ELSE [cooled EXCEPT !.ac2dc[PSU_ID(a)].assumed = @ + hz \div 3,
                          !.asic[a].wanted = wanted]

(* Variant: the head-room of the PSU is not looked at.                     *)
CanUpFreqAnyPower(v, a, warm) == v.asic[a].freq_hw < ASIC_FREQ_MAX /\ a \notin warm

asic_can_up_freq(v, a, warm) ==
  v.asic[a].freq_hw < ASIC_FREQ_MAX /\ a \notin warm /\ Headroom(v, a) > 2

(* Variant: the limit grows past ASIC_FREQ_MAX.                            *)
DcUpUncapped(v, a, warm) ==
  [dc2dc_set_vtrim(v, {a}, [b \in Asics |-> v.asic[b].vtrim + 1]) EXCEPT
     !.asic[a].revolted = TRUE, !.asic[a].freq_bist_limit = @ + 20]

\* dc2dc_up() of an ASIC that is not a runaway.
dc2dc_up(v, a, warm) ==
  LET u == [dc2dc_set_vtrim(v, {a}, [b \in Asics |-> v.asic[b].vtrim + 1]) EXCEPT
              !.asic[a].revolted = TRUE,
              !.asic[a].freq_bist_limit = Min({@ + 20, ASIC_FREQ_MAX})]
  IN  IF ~u.asic[a].cooling_down /\ asic_can_up_freq(u, a, warm)
      THEN asic_up_freq_max_request(u, a)
      ELSE u

Runaway(v, a) == v.asic[a].freq_bist_limit >= ASIC_FREQ_MAX

asic_up_freq(v, a) ==
  [set_pll(v, {a}, [b \in Asics |-> v.asic[b].freq_hw + 5])
     EXCEPT !.ac2dc[PSU_ID(a)].assumed = @ + 1]

\* What the power supplies answer; a read that fails gives no reading.
NoReading == -1
Answers == [Psus -> Readings \cup {NoReading}]

\* update_ac2dc_power_measurments(): the assumed power is the largest of
\* the last three readings; nothing reads ac2dc_power_last_last later.
update_ac2dc_stats(v, reading) ==
  [v EXCEPT !.ac2dc = [p \in Psus |->
     LET s == v.ac2dc[p]
         top == Max({reading[p], s.now, s.last})
     IN  IF reading[p] = NoReading THEN s
         ELSE [s EXCEPT !.now = reading[p], !.last = s.now, !.assumed = top]]]

----------------------------------------------------------------------------
(* BIST: the ASICs of F fail, the ones of D (at the lowest frequency) with *)
(* fewer than 100 engines left.                                            *)

(* Variant: the new limit is stored, the PLL is not stepped down.          *)
OnFailedKeepPll(d) ==
  IF d.freq_hw > ASIC_FREQ_MIN
  THEN [d EXCEPT !.bist_failed_called = TRUE, !.freq_bist_limit = d.freq_hw - 10]
  ELSE [d EXCEPT !.freq_bist_limit = FREQ_AFTER_DISABLE]

\* What becomes of an ASIC.
on_failed_bist(d) ==
  IF d.freq_hw > ASIC_FREQ_MIN
  THEN [d EXCEPT !.bist_failed_called = TRUE,
                 !.wanted = d.freq_hw - 10, !.freq_bist_limit = d.freq_hw - 10]
  ELSE [d EXCEPT !.freq_bist_limit = FREQ_AFTER_DISABLE]

FailAll(v, F) ==
  Updated(Passert(v, {a \in F : /\ v.asic[a].freq_hw > ASIC_FREQ_MIN
                                /\ v.asic[a].freq_bist_limit <= ASIC_FREQ_MIN},
                  "freq_bist_limit above ASIC_FREQ_MIN"),
          F, [a \in Asics |-> on_failed_bist(v.asic[a])])

\* disable_asic_forever_rt outside of mining and at the end of a restart.
disable_asic_forever(v, D) ==
  [v EXCEPT
     !.asic = [a \in Asics |-> IF a \in D
                 THEN [v.asic[a] EXCEPT !.asic_present = FALSE, !.cooling_down = FALSE]
                 ELSE v.asic[a]],
     !.ac2dc = [p \in Psus |-> [v.ac2dc[p] EXCEPT !.board_cooling_now =
                 Max({0, @ - Cardinality({a \in D : v.asic[a].cooling_down
                                             /\ ASIC_TO_BOARD_ID(a) = p})})]]]

do_bist_ok(v, F) == set_plls_to_wanted(FailAll(v, F))

AtMinimum(F) == {a \in F : vm.asic[a].freq_hw = ASIC_FREQ_MIN}

\* The start of restart_asics_full(), called from a place where the thread
\* goes on at place.
restart_asics_full(v, place) ==
  /\ vm' = [v EXCEPT !.next_bist_countdown = BIST_PERIOD_SECS]
  /\ at' = "restart" /\ tries' = 2 /\ resume' = place

\* Its middle: the ASICs are copied, reset and copied back, which undoes
\* bist_failed_called = 0, then set_initial_voltage_freq_on_restart() lowers
\* every voltage.
RestartVoltages(v) ==
  dc2dc_set_vtrim(
    [v EXCEPT !.ac2dc = [p \in Psus |-> [v.ac2dc[p] EXCEPT !.board_cooling_now = 0]]],
    {a \in Asics : v.asic[a].asic_present}, [a \in Asics |-> v.asic[a].vtrim - 1])

\* update_dc2dc_stats() finds overcurrent warnings; they are looked at only
\* above VTRIM_MIN.
overcurrent_warning(v, A) ==
  LET w == dc2dc_down(v, A, 2)
  IN  [Updated(w, A, [a \in Asics |->
         [w.asic[a] EXCEPT !.max_vtrim_currentwise = w.asic[a].vtrim]])
         EXCEPT !.next_bist_countdown = IF A = {} THEN @ ELSE Min({1, @})]

----------------------------------------------------------------------------
Init ==
  /\ vm = [asic |-> [a \in Asics |->
             [asic_present |-> TRUE, vtrim |-> vtrim_start, freq_hw |-> ASIC_FREQ_MIN,
              freq_bist_limit |-> ASIC_FREQ_MAX, wanted |-> 0, cooling_down |-> FALSE,
              bist_failed_called |-> FALSE, revolted |-> FALSE, hot |-> FALSE,
              max_vtrim_currentwise |-> VTRIM_MAX, max_vtrim_temperature |-> VTRIM_MAX]],
           ac2dc |-> [p \in Psus |->
             [now |-> 0, last |-> 0, assumed |-> 0,
              board_cooling_now |-> 0]],
           next_bist_countdown |-> BIST_PERIOD_SECS,
           did_asic_reset |-> FALSE, abort |-> "none"]
  /\ at = "minimal" /\ i = 0 /\ tries = 0 /\ resume = "end"
  /\ can_upscale = TRUE /\ psu_pimped = {} /\ do_bist = FALSE

\* The process runs on: no passert has failed, no exit_nicely.
Alive == vm.abort = "none" /\ at # "exit"
Locals == <<can_upscale, psu_pimped, do_bist>>
NotRestarting == UNCHANGED <<tries, resume>>

\* set_initial_voltage_freq() 2): at the lowest frequency, until all pass.
MinimalBist ==
  /\ at = "minimal"
  /\ \E F \in SUBSET Present : \E D \in SUBSET F :
       LET v == disable_asic_forever(do_bist_ok(vm, F), D) IN
       /\ vm' = v
       /\ at' = IF \A a \in Asics : ~v.asic[a].asic_present THEN "exit"
                ELSE IF F = {} THEN "raise" ELSE "minimal"
  /\ UNCHANGED <<i, Locals>> /\ NotRestarting

\* 3): ten MHz more for every ASIC that has not failed yet, until all have.
RaiseStep ==
  /\ at = "raise"
  /\ \E F \in SUBSET Present : \E D \in SUBSET AtMinimum(F) :
       LET v == disable_asic_forever(do_bist_ok(vm, F), D)
           freq == [a \in Asics |-> v.asic[a].freq_hw + 10]
           Rising == {a \in Asics : v.asic[a].asic_present /\ ~v.asic[a].bist_failed_called}
           \* the test of the code, freq_hw <= ASIC_FREQ_MAX
           Up == {a \in Rising : v.asic[a].freq_hw <= ASIC_FREQ_MAX}
       IN  /\ vm' = set_pll(disable_asic_forever(v, Rising \ Up), Up, freq)
           /\ at' = IF \A a \in Asics : ~v.asic[a].asic_present THEN "exit"
                    ELSE IF Rising = {} THEN "mining" ELSE "raise"
  /\ UNCHANGED <<i, Locals>> /\ NotRestarting

----------------------------------------------------------------------------
(* The RT thread between two seconds. *)

\* update_dc2dc_stats() of one ASIC
OvercurrentWarning(a) ==
  /\ at = "mining" /\ dc2dc_can_down(vm, a)
  /\ vm' = overcurrent_warning(vm, {a})
  /\ UNCHANGED <<at, i, Locals>> /\ NotRestarting

\* every three hours
forget_all_limits ==
  /\ at = "mining"
  /\ vm' = [vm EXCEPT !.asic = [a \in Asics |-> [vm.asic[a] EXCEPT
              !.max_vtrim_currentwise = VTRIM_MAX, !.max_vtrim_temperature = VTRIM_MAX]]]
  /\ UNCHANGED <<at, i, Locals>> /\ NotRestarting

\* an idle ASIC, an error of the power supply or of the bus, a lost address
ErrorRestart ==
  /\ at = "mining"
  /\ restart_asics_full(vm, "end")
  /\ UNCHANGED <<i, Locals>>

\* once_second_scaling_logic() until its BIST section
OnceSecond ==
  /\ at = "mining"
  /\ \E reading \in Answers :
       LET v == update_ac2dc_stats(vm, reading)
           left == v.next_bist_countdown - 1
       IN  IF left <= 0
           THEN /\ vm' = [v EXCEPT !.next_bist_countdown = BIST_PERIOD_SECS_LONG,
                            !.asic = [a \in Asics |-> [v.asic[a] EXCEPT !.revolted = FALSE]]]
                /\ at' = "upvolt"
           ELSE /\ vm' = [v EXCEPT !.next_bist_countdown = left]
                /\ at' = "lazy"
  /\ UNCHANGED <<i, Locals>> /\ NotRestarting

----------------------------------------------------------------------------
(* Once in a while: raise voltages, then test. *)

\* best_asic_to_upvolt(): the lowest voltage, the last of equals.
IsBestToUpvolt(a, S) ==
  a \in S /\ \A b \in S : \/ vm.asic[a].vtrim < vm.asic[b].vtrim
                          \/ (vm.asic[a].vtrim = vm.asic[b].vtrim /\ b <= a)

Upvoltable(p, warm) ==
  {a \in Present : PSU_ID(a) = p /\ ~vm.asic[a].revolted /\ dc2dc_can_up(vm, a, warm)}

Upvolt ==
  /\ at = "upvolt" /\ i \in Psus
  /\ vm.ac2dc[i].board_cooling_now = 0
  /\ \E warm \in SUBSET Present, a \in Asics :
       /\ IsBestToUpvolt(a, Upvoltable(i, warm))
       /\ IF Runaway(vm, a)
          THEN restart_asics_full(vm, "upvolt")
          ELSE /\ vm' = [dc2dc_up(vm, a, warm) EXCEPT
                           !.next_bist_countdown = BIST_PERIOD_SECS]
               /\ UNCHANGED at /\ NotRestarting
  /\ psu_pimped' = psu_pimped \cup {i}
  /\ UNCHANGED <<i, can_upscale, do_bist>>

NextPsu ==
  /\ at = "upvolt" /\ i \in Psus
  /\ \/ vm.ac2dc[i].board_cooling_now > 0
     \/ \E warm \in SUBSET Present : Upvoltable(i, warm) = {}
  /\ vm' = IF vm.ac2dc[i].board_cooling_now > 0
           THEN [vm EXCEPT !.next_bist_countdown = BIST_PERIOD_SECS] ELSE vm
  /\ i' = i + 1
  /\ UNCHANGED <<at, Locals>> /\ NotRestarting

Upscaled ==
  /\ at = "upvolt" /\ i \notin Psus
  /\ \E reading \in Answers :
       vm' = update_ac2dc_stats(set_plls_to_wanted(vm), reading)
  /\ at' = "bist" /\ i' = 0
  /\ UNCHANGED Locals /\ NotRestarting

\* do_bist_loop_push_job(): until all pass, or a restart.  An ASIC that has
\* too few engines left restarts them all: those after it are looked at
\* again, with the results the restart left, by the next BIST here.
BistLoop ==
  /\ at = "bist"
  /\ \E F \in SUBSET Present : \E D \in SUBSET AtMinimum(F) :
       IF D = {}
       THEN /\ vm' = do_bist_ok(vm, F)
            /\ at' = IF F = {} \/ vm.did_asic_reset THEN "lazy" ELSE "bist"
            /\ NotRestarting
       ELSE restart_asics_full(FailAll(vm, {a \in F : a <= Min(D)}), "bist")
  /\ UNCHANGED <<i, Locals>>

\* test_all_loops_and_dc2dc() looks at every converter; after an error it
\* does so twice, with a new measurement of the power in between.
RestartTest ==
  /\ at \in {"restart", "retest"}
  /\ \E C \in SUBSET {a \in Present : dc2dc_can_down(vm, a)} :
       LET v == overcurrent_warning(vm, C) IN
       \/ vm' = RestartVoltages(v) /\ at' = "rebist"
       \/ /\ at = "restart"
          /\ \E reading \in Answers : vm' = update_ac2dc_stats(v, reading)
          /\ at' = "retest"
  /\ UNCHANGED <<i, Locals>> /\ NotRestarting

\* set_initial_voltage_freq_on_restart(): two BISTs.  An ASIC disabled here
\* is missed at the end of the restart, and the process exits.
RestartBist ==
  /\ at = "rebist"
  /\ \E F \in SUBSET Present : \E D \in SUBSET AtMinimum(F) :
       LET v == disable_asic_forever(do_bist_ok(vm, F), D) IN
       /\ vm' = IF tries = 1 THEN [v EXCEPT !.did_asic_reset = TRUE] ELSE v
       /\ at' = IF D # {} THEN "exit" ELSE IF tries = 1 THEN resume ELSE "rebist"
  /\ tries' = tries - 1
  /\ UNCHANGED <<i, resume, Locals>>

----------------------------------------------------------------------------
(* The rest of the second. *)

NoneRevolted(v) == [v EXCEPT !.asic = [a \in Asics |-> [v.asic[a] EXCEPT !.revolted = FALSE]]]

\* An ASIC that draws less than 10 A restarts all of them after the loop;
\* the sixth time it is to be disabled, which while mining is a restart
\* at once, after which the loop goes on.
LazyAsics ==
  /\ at = "lazy"
  /\ \/ /\ i = 0 => ~vm.did_asic_reset
        /\ \E a \in Present : /\ a >= i /\ i' = a + 1
                             /\ restart_asics_full(NoneRevolted(vm), "lazy")
     \/ /\ i = 0 => ~vm.did_asic_reset
        /\ Present # {} /\ i' = 0
        /\ restart_asics_full(NoneRevolted(vm), "end")
     \/ /\ vm' = IF i = 0 /\ vm.did_asic_reset THEN vm ELSE NoneRevolted(vm)
        /\ i' = 0
        /\ at' = IF vm.did_asic_reset THEN "end" ELSE "power"
        /\ NotRestarting
  /\ UNCHANGED Locals

OverPower(p) ==
  /\ p \notin psu_pimped
  /\ ac2dc_power_limit + 5 < (vm.ac2dc[p].now + vm.ac2dc[p].last) \div 2

\* best_asic_to_downvolt(), five times: the highest voltages, each once.
Downvoltable(p) ==
  {a \in Present : PSU_ID(a) = p /\ ~vm.asic[a].revolted /\ dc2dc_can_down(vm, a)}

Higher(b, a) ==
  vm.asic[b].vtrim > vm.asic[a].vtrim \/ (vm.asic[b].vtrim = vm.asic[a].vtrim /\ b > a)
BestToDownvolt(S) == {a \in S : Cardinality({b \in S : Higher(b, a)}) < 5}

\* With no ASIC left to name best_asic_to_downvolt() returns -1, and what
\* lies in memory before asic[0] is taken for an ASIC: an error counter for
\* asic_present, the firmware version for vtrim, which dc2dc_set_vtrim()
\* then refuses.
NoneToDownvolt(p, T) ==
  Cardinality(T) < 5 /\ \A a \in Present : PSU_ID(a) = p => vm.asic[a].revolted \/ a \in T

PowerTooHigh ==
  /\ at = "power" /\ i \in Psus
  /\ IF OverPower(i)
     THEN LET T == BestToDownvolt(Downvoltable(i))
              v == dc2dc_down(vm, T, 2)
          IN  \E stray \in SUBSET IF NoneToDownvolt(i, T) THEN {-1} ELSE {} :
                vm' = [Passert(v, stray, "asic[-1]") EXCEPT
                         !.ac2dc[i].last = v.ac2dc[i].now, !.ac2dc[i].now = 0]
     ELSE vm' = vm
  \* do_bist is cleared for every PSU: the last one's value is used
  /\ do_bist' = OverPower(i)
  /\ i' = i + 1
  /\ UNCHANGED <<at, can_upscale, psu_pimped>> /\ NotRestarting

PowerDone ==
  /\ at = "power" /\ i \notin Psus
  /\ LET v == NoneRevolted(vm) IN
     vm' = IF do_bist THEN [v EXCEPT !.next_bist_countdown = Min({3, @})] ELSE v
  /\ at' = "temp" /\ i' = 0
  /\ UNCHANGED Locals /\ NotRestarting

(* Variant: an ASIC that is cooling already is counted once more.          *)
TooHotCountedAgain(v, a) ==
  IF dc2dc_can_down(v, a)
  THEN [dc2dc_down(v, {a}, 2) EXCEPT
          !.asic[a].freq_hw = ASIC_FREQ_MIN, !.asic[a].cooling_down = TRUE,
          !.ac2dc[ASIC_TO_BOARD_ID(a)].board_cooling_now = @ + 1]
  ELSE v

\* act_on_temperature()
TooHot(v, a) ==
  IF v.asic[a].max_vtrim_temperature > VTRIM_MIN /\ dc2dc_can_down(v, a)
  THEN LET d == dc2dc_down([v EXCEPT !.asic[a].max_vtrim_temperature = v.asic[a].vtrim - 2], {a}, 2)
           w == set_pll(d, {a}, [b \in Asics |-> ASIC_FREQ_MIN])
       IN  IF v.asic[a].cooling_down THEN w
           ELSE [w EXCEPT !.asic[a].cooling_down = TRUE,
                          !.ac2dc[ASIC_TO_BOARD_ID(a)].board_cooling_now = @ + 1]
  ELSE v

CoolingDone(v, a) ==
  [set_plls_to_wanted(asic_up_freq_max_request(v, a))
     EXCEPT !.next_bist_countdown = Min({1, @})]

\* One turn of the temperature loop.
Temperature ==
  /\ at = "temp" /\ i \in Asics
  /\ \E hot \in BOOLEAN, warm \in SUBSET {i} :
       LET d == [vm EXCEPT !.asic[i].hot = hot]
           upscales == ~hot /\ vm.asic[i].cooling_down /\ can_upscale
           acted == IF hot THEN TooHot(d, i)
                    ELSE IF upscales THEN CoolingDone(d, i) ELSE d
           b == acted.asic[i]
       IN  IF vm.asic[i].asic_present
           THEN /\ vm' = IF /\ ~b.cooling_down /\ b.freq_hw < b.freq_bist_limit
                            /\ asic_can_up_freq(acted, i, warm)
                         THEN asic_up_freq(acted, i) ELSE acted
                /\ can_upscale' = (can_upscale /\ ~upscales)
           ELSE UNCHANGED <<vm, can_upscale>>
  /\ i' = i + 1
  /\ UNCHANGED <<at, psu_pimped, do_bist>> /\ NotRestarting

\* The tick ends, and with it the locals: did_asic_reset is cleared by the next.
EndTick ==
  /\ at = "end" \/ (at = "temp" /\ i \notin Asics)
  /\ vm' = [vm EXCEPT !.did_asic_reset = FALSE,
                      !.asic = [a \in Asics |-> [vm.asic[a] EXCEPT !.hot = FALSE]]]
  /\ at' = "mining" /\ i' = 0 /\ resume' = "end"
  /\ can_upscale' = TRUE /\ psu_pimped' = {} /\ do_bist' = FALSE
  /\ UNCHANGED tries

Next ==
  /\ Alive
  /\ \/ MinimalBist \/ RaiseStep
     \/ \E a \in Present : OvercurrentWarning(a)
     \/ forget_all_limits \/ ErrorRestart \/ OnceSecond
     \/ Upvolt \/ NextPsu \/ Upscaled \/ BistLoop \/ RestartTest \/ RestartBist
     \/ LazyAsics \/ PowerTooHigh \/ PowerDone \/ Temperature \/ EndTick

Spec == Init /\ [][Next]_vars

\* The RT thread never stops, and the scaling logic gets its turn.
FairSpec == Spec /\ WF_vars(Next) /\ SF_vars(OnceSecond)

----------------------------------------------------------------------------
(* Types.  A state that aborted may be out of range: nobody reads it.      *)
Freqs == {f \in ASIC_FREQ_MIN .. ASIC_FREQ_MAX : f % 5 = 0}
Vtrims == VTRIM_MIN .. vtrim_max

AsicType ==
  [asic_present : BOOLEAN, vtrim : Vtrims, freq_hw : Freqs,
   \* an ASIC that failed at 355 and waits for its PLL (it then aborts)
   freq_bist_limit : Freqs \cup {ASIC_FREQ_MIN - 5},
   wanted : Freqs \cup {0, ASIC_FREQ_MIN - 5}, cooling_down : BOOLEAN, bist_failed_called : BOOLEAN,
   revolted : BOOLEAN, hot : BOOLEAN, max_vtrim_currentwise : VTRIM_MIN .. VTRIM_MAX,
   max_vtrim_temperature : VTRIM_MIN .. VTRIM_MAX]

PsuType ==
  [now : Readings \cup {0}, last : Readings \cup {0}, assumed : Nat, board_cooling_now : 0 .. ASICS_COUNT]

(* Every field holds a value of its type, as long as no passert failed.    *)
TypeOK ==
  /\ Alive => /\ vm.asic \in [Asics -> AsicType]
              /\ vm.ac2dc \in [Psus -> PsuType]
  /\ vm.next_bist_countdown \in 0 .. BIST_PERIOD_SECS_LONG
  /\ vm.did_asic_reset \in BOOLEAN
  /\ at \in {"minimal", "raise", "mining", "upvolt", "bist", "restart", "retest", "rebist",
             "lazy", "power", "temp", "end", "exit"}
  /\ i \in 0 .. ASICS_COUNT /\ can_upscale \in BOOLEAN /\ psu_pimped \subseteq Psus /\ do_bist \in BOOLEAN
  /\ tries \in 0 .. 2 /\ resume \in {"upvolt", "bist", "lazy", "end"}

(* Once the first frequencies are found, an ASIC never runs faster than    *)
(* freq_bist_limit, the "max frequency in this voltage based on BIST"      *)
(* (asic.h:278): the steps of 5 and 20 MHz, failed BISTs, cooling and      *)
(* restarts all keep freq_hw at or under it, or about to be set so.        *)
FreqWithinBistLimit ==
  (Alive /\ at # "raise") =>
    \A a \in Present : \/ vm.asic[a].freq_hw <= vm.asic[a].freq_bist_limit
                       \/ vm.asic[a].wanted \in 1 .. vm.asic[a].freq_bist_limit

(* board_cooling_now never counts a board's ASIC that is not cooling: a    *)
(* count that stays behind would end all upscaling on that board.          *)
CoolingCountNotAhead ==
  \A p \in Psus : vm.ac2dc[p].board_cooling_now
    <= Cardinality({a \in Asics : ASIC_TO_BOARD_ID(a) = p /\ vm.asic[a].cooling_down})

(* Raising a frequency never takes the power assumed of a PSU over its     *)
(* limit; only a reading can.                                              *)
UpscalingKeepsLimit ==
  [][(at \in {"upvolt", "temp"} /\ at' = at) =>
       (\A p \in Psus : vm'.ac2dc[p].assumed > vm.ac2dc[p].assumed
                        => vm'.ac2dc[p].assumed <= ac2dc_power_limit)]_vars

(* dc2dc_set_vtrim (dc2dc.c:666) is never asked for more than voltage_max  *)
(* allows, and set_pll and set_plls_to_wanted (pll.c:504) never for more   *)
(* than ASIC_FREQ_MAX once the first frequencies are found.                *)
UpperLimitsHold ==
  /\ vm.abort # "vtrim above vtrim_max"
  /\ vm.abort = "freq above ASIC_FREQ_MAX" => at = "raise"

(* An ASIC that fails a BIST above the lowest frequency has a limit above  *)
(* it too (the passert of on_failed_bist, asic_lib.c:909).                 *)
BistLimitAboveMin == vm.abort # "freq_bist_limit above ASIC_FREQ_MIN"

(* Once no ASIC is found hot or fails a BIST any more, no PSU is over its  *)
(* limit and the temperature loop goes on being reached, every ASIC that   *)
(* was cooling down gets back to work: one per second (can_upscale), even  *)
(* where the head-room allows only a part of the frequency.  (An ASIC that *)
(* is released in part and fails each BIST after that cools for ever.)     *)
CoolingEnds ==
  ( /\ <>[](\A a \in Asics : ~vm.asic[a].hot)
    /\ <>[](\A p \in Psus : vm.ac2dc[p].assumed <= ac2dc_power_limit)
    /\ <>[][\A a \in Asics :
              vm'.asic[a].freq_bist_limit >= vm.asic[a].freq_bist_limit]_vars
    /\ []<>(at = "temp" /\ i = 0) )
  => <>[](\A a \in Asics : ~vm.asic[a].cooling_down)
=============================================================================
