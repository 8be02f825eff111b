------------------------------ MODULE WorkMode ------------------------------
(***************************************************************************)
(* The settings a user makes in /etc/mg_custom_mode, and what minergate    *)
(* makes of them: it reads the file when it starts, caps the power limits  *)
(* by what the supplies and their input voltage allow (read_work_mode,     *)
(* miner_gate.c:1310), and lowers the limit of a supply that reports an    *)
(* overload in the file itself, before it ends to be started anew          *)
(* (test_fix_ac2dc_limits, ac2dc.c:448).  The file is rewritten in place,  *)
(* in steps.  The user edits the file at any time, the process is killed   *)
(* at any time, and the power may fail.                                    *)
(***************************************************************************)
EXTENDS Integers, FiniteSetsExt

CONSTANTS
  Machines,        \* the supplies: the types fitted, and /etc/mg_generic_psu
  UserFiles,       \* what the user writes into /etc/mg_custom_mode
  InputVoltages,   \* what a supply reads as its input voltage
  Empty, NoFile    \* a file cut short, and none

VARIABLES
  custom,          \* /etc/mg_custom_mode, or Empty
  stream,          \* what is to be written into it, or NoFile
  flushed,         \* is the disk up to date with it?
  alternative,     \* /tmp/mg_custom_mode, or NoFile
  machine,         \* the supplies, which do not change
  ignore_fcc,      \* is there /etc/mg_ignore_110_fcc?
  psu,             \* ac2dc_type and voltage, as ac2dc_init found them
  vm,              \* the settings in force
  fix,             \* top_fix and bot_fix of read_work_mode
  at,              \* where the process is
  edited,          \* has the user edited the file since the process read it?
  mixed,           \* did the process lower what it had not read at its start?
  cut              \* was the file lost in a rewrite, after the user's last edit?

files == <<custom, flushed, alternative>>
history == <<edited, mixed, cut>>
vars == <<files, stream, machine, ignore_fcc, psu, vm, fix, at, history>>

Psus == 0 .. 1     \* PSU_0, the top one, and PSU_1
PsuTypes == {"EMERSON_1_2", "EMERSON_1_6", "MURATA_NEW", "UNKNOWN"}

(* What read_work_mode asserts, and the passert on vtrim_max: a file that  *)
(* fails one ends every start.                                             *)
VOLTAGE_TO_VTRIM_MILLI(v) == (v * 100 - 55500) \div 266 + 65476
VTRIM_MAX == 65566
ReadsWell(f) ==
  /\ f.max \in 580 .. 830
  /\ VOLTAGE_TO_VTRIM_MILLI(f.max) <= VTRIM_MAX
  /\ \A p \in Psus : /\ f.start[p] \in 580 .. f.max
                     /\ f.limit[p] \in 70 .. 2500

(* What a file that is there holds.                                        *)
Settings == [start : [Psus -> Int], limit : [Psus -> Int], max : Nat]

ASSUME WorkModeAssumption ==
  /\ Machines \subseteq [fitted : [Psus -> PsuTypes], generic : [Psus -> BOOLEAN]]
  /\ \A f \in UserFiles :
       /\ f = [start |-> f.start, limit |-> f.limit, max |-> f.max]
       /\ f.max \in Nat
       /\ f.start \in [Psus -> Nat] /\ f.limit \in [Psus -> Nat]
       /\ ReadsWell(f)
  /\ InputVoltages \subseteq Nat
  /\ Empty \notin Settings /\ NoFile \notin Settings

(***************************************************************************)
(* The limits of a supply: its type's cap, and by input voltage.           *)
(***************************************************************************)
Cap(type) == CASE type = "MURATA_NEW"  -> 1300
               [] type = "EMERSON_1_6" -> 1600
               [] OTHER                -> 2500
Capped(type, limit) == IF limit < Cap(type) THEN limit ELSE Cap(type)

Ranges == {105, 114, 119, 195, 210}
apl(type, range) ==
  CASE type = "MURATA_NEW"  -> (CASE range = 105 -> 800 [] range = 114 -> 1050
                                  [] range = 210 -> 1300 [] OTHER -> 1200)
    [] type = "EMERSON_1_2" -> (CASE range = 105 -> 800 [] range = 114 -> 1050
                                  [] range = 210 -> 1250 [] OTHER -> 1100)
    [] type = "EMERSON_1_6" -> IF range = 210 THEN 1800 ELSE 800
    [] OTHER -> 0
RangesOf(voltage) == {r \in Ranges : voltage < r}
Limited(p) == psu[p].type # "UNKNOWN" /\ ~machine.generic[p]

(* The first range whose limit is exceeded, or all with a high start       *)
(* voltage; the difference may be negative then.                           *)
Exceeded(p, start, limit) ==
  {r \in RangesOf(psu[p].voltage) : start > 660 \/ limit > apl(psu[p].type, r)}
\* mutant: the highest range instead of the first
FixOfHighest(p, start, limit) ==
  IF ~Limited(p) \/ Exceeded(p, start, limit) = {} THEN 0
  ELSE limit - apl(psu[p].type, Max(Exceeded(p, start, limit)))
FixOf(p, start, limit) ==
  IF ~Limited(p) \/ Exceeded(p, start, limit) = {} THEN 0
  ELSE limit - apl(psu[p].type, Min(Exceeded(p, start, limit)))

ac2dc_power_DECREASE_START_VOLTAGE == 1240
Lowered(p, start, limit) ==
  LET top == IF psu[p].type = "EMERSON_1_6" THEN 620 ELSE 660 IN
  IF limit < ac2dc_power_DECREASE_START_VOLTAGE /\ start > top THEN top ELSE start

\* mutant: a fix is subtracted whatever its sign
UpdatedAlways(f, decrease) ==
  LET limit == [p \in Psus |-> f.limit[p] - decrease[p]]
  IN  [start |-> [p \in Psus |-> Lowered(p, f.start[p], limit[p])],
       limit |-> limit, max |-> f.max]
\* mutant: the start voltages stay
UpdatedLimits(f, decrease) ==
  [f EXCEPT !.limit = [p \in Psus |-> IF decrease[p] > 0 THEN f.limit[p] - decrease[p]
                                      ELSE f.limit[p]]]
(* update_work_mode: the settings it reads from the file, lowered.         *)
Updated(f, decrease) ==
  LET limit == [p \in Psus |-> IF decrease[p] > 0 THEN f.limit[p] - decrease[p]
                               ELSE f.limit[p]]
  IN  [start |-> [p \in Psus |-> Lowered(p, f.start[p], limit[p])],
       limit |-> limit, max |-> f.max]

InForce(f) == [start |-> f.start, limit |-> f.limit,
               vtrim_start |-> [p \in Psus |-> VOLTAGE_TO_VTRIM_MILLI(f.start[p])]]

(***************************************************************************)
(* Start: ac2dc_init, read_work_mode, test_fix_ac2dc_limits.               *)
(***************************************************************************)
NoSettings == [start |-> [p \in Psus |-> 0], limit |-> [p \in Psus |-> 0],
               vtrim_start |-> [p \in Psus |-> 0]]
NoPsus == [p \in Psus |-> [type |-> "UNKNOWN", voltage |-> 0]]
NoFix == [p \in Psus |-> 0]

Init ==
  /\ custom \in UserFiles /\ flushed = TRUE /\ alternative = NoFile /\ stream = NoFile
  /\ machine \in Machines /\ ignore_fcc \in BOOLEAN
  /\ psu = NoPsus /\ vm = NoSettings /\ fix = NoFix
  /\ at = "off" /\ edited = FALSE /\ mixed = FALSE /\ cut = FALSE

(* The process is gone, with its memory.                                   *)
Ended ==
  /\ at' = "off" /\ vm' = NoSettings /\ psu' = NoPsus /\ fix' = NoFix /\ stream' = NoFile

(* A supply that does not answer is of an unknown type, and an input       *)
(* voltage that cannot be read is 0.                                       *)
ac2dc_init ==
  /\ at = "off" /\ at' = "detected"
  /\ psu' \in [Psus -> [type : PsuTypes, voltage : InputVoltages \cup {0}]]
  /\ \A p \in Psus : IF psu'[p].type = "UNKNOWN" THEN psu'[p].voltage = 0
                     ELSE ~machine.generic[p] /\ psu'[p].type = machine.fitted[p]
  /\ UNCHANGED <<files, stream, machine, ignore_fcc, vm, fix, history>>

(* read_work_mode up to the call of update_work_mode.  With                *)
(* /etc/mg_ignore_110_fcc it closes its stream twice, which may end it.    *)
Readable == custom # Empty /\ ReadsWell(custom)
TooLow == \E p \in Psus : Limited(p) /\ psu[p].voltage < 88
\* mutant: vtrim_start is not computed
ReadRaw(settings) == vm' = settings /\ edited' = FALSE
Read(settings) == vm' = InForce(settings) /\ edited' = FALSE
\* mutant: an old alternative file stays
keep == UNCHANGED alternative
unlink == alternative' = NoFile
ReadWorkMode ==
  /\ at = "detected"
  /\ UNCHANGED <<custom, flushed, machine, ignore_fcc, mixed, cut>>
  /\ \/ /\ ~Readable \/ ignore_fcc \/ TooLow
        /\ Ended /\ UNCHANGED <<alternative, edited>>
     \/ /\ Readable /\ ignore_fcc
        /\ Read(custom) /\ at' = "read"
        /\ UNCHANGED <<psu, fix, alternative, stream>>
     \/ /\ Readable /\ ~ignore_fcc /\ ~TooLow
        /\ LET limit == [p \in Psus |-> Capped(psu[p].type, custom.limit[p])] IN
             /\ Read([custom EXCEPT !.limit = limit])
             /\ fix' = [p \in Psus |-> FixOf(p, custom.start[p], limit[p])]
        /\ IF fix' = NoFix THEN unlink /\ at' = "read"
           ELSE at' = "fixing" /\ UNCHANGED alternative
        /\ UNCHANGED <<psu, stream>>

(* update_work_mode(top_fix, bot_fix, true): the rewrite of the alternative *)
(* file is one step, but for the process being killed in it.               *)
FixLimits ==
  /\ at = "fixing" /\ at' = "read"
  /\ alternative' = Updated(custom, fix)
  /\ vm' = InForce(Updated(custom, fix))
  /\ mixed' = edited
  /\ fix' = NoFix
  /\ UNCHANGED <<custom, flushed, stream, machine, ignore_fcc, psu, edited, cut>>

(* test_fix_ac2dc_limits, at the start and in every restart of the ASICs:  *)
(* a supply reports an error, an overcurrent (OC_ERR) or another one, or   *)
(* none, or does not answer.                                               *)
OVERLOAD_LIMIT(p) == CASE psu[p].type = "EMERSON_1_2" -> 1270
                       [] psu[p].type = "EMERSON_1_6" /\ p = 0 -> 1560
                       [] OTHER -> 1570
Overload(p) == [NoFix EXCEPT ![p] = 5]
Lower(p) ==
  /\ stream' = Updated(custom, Overload(p))
  /\ vm' = [vm EXCEPT !.start = stream'.start, !.limit = stream'.limit]
  /\ at' = "lowered" /\ UNCHANGED <<psu, fix>>
\* mutant: the limit is lowered whatever it is
OverloadedAlways(p) == Lower(p)
(* With a high limit update_work_mode reads and lowers the file, before it *)
(* rewrites it; otherwise the process just ends.                           *)
Overloaded(p) == IF vm.limit[p] > OVERLOAD_LIMIT(p) THEN Lower(p) ELSE Ended
test_fix_ac2dc_limits ==
  /\ at \in {"read", "mining"}
  /\ \/ at' = "mining" /\ UNCHANGED <<stream, psu, vm, fix>>
     \/ \E p \in Psus, overcurrent \in BOOLEAN :
          /\ psu[p].type \in {"EMERSON_1_2", "EMERSON_1_6"}
          /\ IF overcurrent THEN Overloaded(p) ELSE Ended
  /\ UNCHANGED <<files, machine, ignore_fcc, history>>

\* fopen(MG_CUSTOM_MODE_FILE, "w") empties the file.
Truncate ==
  /\ at = "lowered" /\ at' = "rewriting"
  /\ custom' = Empty /\ flushed' = FALSE
  /\ UNCHANGED <<alternative, stream, machine, ignore_fcc, psu, vm, fix, history>>

\* mutant: the descriptor is closed and not the stream, which loses its contents
CloseUnwritten ==
  /\ at = "rewriting" /\ Ended
  /\ UNCHANGED <<files, machine, ignore_fcc, history>>
(* The file is synced before its new contents leave the stream with        *)
(* fclose; then the process ends.  What a user has put there meanwhile is  *)
(* overwritten, or stays if it is a new file of that name.                 *)
Close ==
  /\ at = "rewriting" /\ Ended
  /\ \/ custom' = stream /\ flushed' = FALSE /\ mixed' = edited
     \/ custom # Empty /\ UNCHANGED <<custom, flushed, mixed>>
  /\ UNCHANGED <<alternative, machine, ignore_fcc, edited, cut>>

(* update_ac2dc_power_measurments_thread: a supply that was not found      *)
(* answers now (ac2dc_check_connected), and the process ends.  In the      *)
(* middle of a rewrite that is what Killed is, or Close: exit() writes     *)
(* what a stream holds.                                                    *)
ac2dc_check_connected(p) == machine.fitted[p] # "UNKNOWN"
MeasurePower ==
  /\ at = "mining"
  /\ \E p \in Psus : /\ psu[p].type = "UNKNOWN" /\ ~machine.generic[p]
                     /\ ac2dc_check_connected(p)
  /\ Ended
  /\ UNCHANGED <<files, machine, ignore_fcc, history>>

(***************************************************************************)
(* The world around it.                                                    *)
(***************************************************************************)
UserEdits ==
  /\ custom' \in UserFiles /\ custom' # custom /\ flushed' = TRUE
  /\ edited' = TRUE /\ mixed' = FALSE /\ cut' = FALSE
  /\ UNCHANGED <<alternative, stream, machine, ignore_fcc, psu, vm, fix, at>>

\* read once in each start, so that a change counts from the next start on
UserSetsFlag ==
  /\ at = "off" /\ ignore_fcc' = ~ignore_fcc
  /\ UNCHANGED <<files, stream, machine, psu, vm, fix, at, history>>

\* The alternative file may be left empty by that, too.
Killed ==
  /\ at # "off" /\ Ended
  /\ alternative' \in {alternative} \cup (IF at = "fixing" THEN {Empty} ELSE {})
  /\ cut' = (cut \/ at = "rewriting")
  /\ UNCHANGED <<custom, flushed, machine, ignore_fcc, edited, mixed>>

Flush ==
  /\ ~flushed /\ flushed' = TRUE
  /\ UNCHANGED <<custom, alternative, stream, machine, ignore_fcc, psu, vm, fix, at, history>>

\* An emptied file that is not on the disk yet may also be there as it was:
\* as if the power had failed before Truncate.
PowerFails ==
  /\ Ended /\ flushed' = TRUE /\ alternative' = NoFile
  /\ custom' = IF flushed THEN custom ELSE Empty
  /\ cut' = (cut \/ at = "rewriting" \/ ~flushed)
  /\ UNCHANGED <<machine, ignore_fcc, edited, mixed>>

Next ==
  \/ ac2dc_init \/ ReadWorkMode \/ FixLimits \/ test_fix_ac2dc_limits
  \/ Truncate \/ Close \/ MeasurePower \/ UserEdits \/ UserSetsFlag \/ Killed \/ Flush \/ PowerFails

Spec == Init /\ [][Next]_vars

(***************************************************************************)
(* Properties.                                                             *)
(***************************************************************************)
(* Type invariant.                                                         *)
TypeOK ==
  /\ (custom = Empty \/ custom \in Settings) /\ flushed \in BOOLEAN
  /\ alternative \in {NoFile, Empty} \/ alternative \in Settings
  /\ stream = NoFile \/ stream \in Settings
  /\ machine \in Machines /\ ignore_fcc \in BOOLEAN
  /\ psu \in [Psus -> [type : PsuTypes, voltage : Nat]]
  /\ vm \in [start : [Psus -> Int], limit : [Psus -> Int], vtrim_start : [Psus -> Int]]
  /\ fix \in [Psus -> Int]
  /\ at \in {"off", "detected", "fixing", "read", "mining", "lowered", "rewriting"}
  /\ edited \in BOOLEAN /\ mixed \in BOOLEAN /\ cut \in BOOLEAN

Checked == at \in {"read", "mining"} /\ ~ignore_fcc

(* No supply is given more than the file says, nor, at its input voltage,  *)
(* more than the range allows; except for what the file has above the cap  *)
(* of its type, which comes back when either supply needs a fix:           *)
(* update_work_mode reads the limits again and does not cap them.          *)
LimitInForce ==
  Checked /\ ~edited /\ ~mixed =>
    \A p \in Psus :
      /\ vm.limit[p] <= custom.limit[p]
      /\ Limited(p) =>
           \A r \in RangesOf(psu[p].voltage) :
             vm.limit[p] <= apl(psu[p].type, r)
                            + custom.limit[p] - Capped(psu[p].type, custom.limit[p])

(* The voltage the converters of a supply with low input start with is low *)
(* when its limit is, unless the limit is just that of the range: then     *)
(* read_work_mode sees nothing to fix.                                     *)
StartVoltageLowered ==
  Checked =>
    \A p \in Psus :
      Limited(p) /\ RangesOf(psu[p].voltage) # {}
        /\ vm.limit[p] < ac2dc_power_DECREASE_START_VOLTAGE
        /\ vm.limit[p] # apl(psu[p].type, Min(RangesOf(psu[p].voltage)))
      => vm.vtrim_start[p] <= VOLTAGE_TO_VTRIM_MILLI(660)

(* /tmp/mg_custom_mode is whole and tells the settings in force whenever   *)
(* it is there, and is there whenever they are not those of the user's     *)
(* file (capped).                                                          *)
AlternativeInForce ==
  Checked =>
    IF alternative # NoFile THEN alternative # Empty /\ vm = InForce(alternative)
    ELSE ~edited =>
           /\ vm.start = custom.start
           /\ \A p \in Psus : vm.limit[p] = Capped(psu[p].type, custom.limit[p])

(* The next start reads the file, whatever overloads have made of it and   *)
(* wherever the process has ended: with three exceptions.  A kill between  *)
(* the fopen that empties the file and the fclose that writes it leaves it *)
(* empty, and so does a power failure before what was written is on the    *)
(* disk; and if a user edits it to the lowest values while the process     *)
(* runs, an overload takes one below what a start accepts.                 *)
NextStartReads ==
  at # "rewriting" /\ ~cut /\ ~mixed => custom # Empty /\ ReadsWell(custom)

(* What an overload writes has one limit of the file lowered, and only one *)
(* that is over what a supply must bear; a start voltage goes down only    *)
(* with a limit under 1240.  Not so for limits edited since the process    *)
(* read them.                                                              *)
OverloadStep ==
  test_fix_ac2dc_limits /\ at' = "lowered" /\ ~edited =>
    /\ \E p \in Psus : \A q \in Psus \ {p} : stream'.limit[q] = custom.limit[q]
    /\ \A p \in Psus :
         /\ stream'.limit[p] \in {custom.limit[p], custom.limit[p] - 5}
         /\ stream'.limit[p] >= Min({custom.limit[p], 1266})
         /\ stream'.start[p] < custom.start[p] =>
              custom.limit[p] < ac2dc_power_DECREASE_START_VOLTAGE
OverloadKeepsPower == [][OverloadStep]_vars
=============================================================================
