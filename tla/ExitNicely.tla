----------------------------- MODULE ExitNicely -----------------------------
(***************************************************************************)
(* The i2c bus and the end of the process.  The converters, supplies and   *)
(* sensors are behind switches: a transaction locks i2c_mutex, selects a   *)
(* device, accesses it, closes the switches and unlocks (dc2dc.c), and     *)
(* each of its transfers locks i2cm (i2c.c).  exit_nicely                  *)
(* (miner_gate.c:148) may be called by any thread, a signal interrupts the *)
(* main thread anywhere, with either mutex held by anybody, and the        *)
(* converters have to be off at the end.  A thread is the sequence of the  *)
(* operations it has before it.                                            *)
(***************************************************************************)
EXTENDS Integers, Sequences, SequencesExt

CONSTANTS
  ASICS_COUNT, ASICS_PER_BOARD,  \* (30, 15)
  Converters,      \* the DC2DC converters that are not removed
  Others,          \* threads beside the main and the RT thread: connections
  MAX_RECURSIVE,   \* entries of exit_nicely until it gives up (5)
  MaxFaults        \* bound: transfers and ioctls that fail

VARIABLES
  todo,            \* of each thread: the operations it has before it
  i2cm, i2c_mutex, \* the owner, or Free
  switch,          \* pins of the primary one; offsets by board and group
  on,              \* the converters that are switched on
  present,         \* those with dc2dc_present
  vm,              \* in_asic_reset, exiting; recursive, kill_app, signalled, started
  faults,
  called,          \* the mutexes each thread held when it called exit_nicely
  disturbed,       \* did another thread or a failed transfer get in its way
                   \* while an exit switched the converters off?
  ended            \* "no", or how the process ended

mutexes == <<i2cm, i2c_mutex>>
bus == <<switch, on>>
vars == <<todo, mutexes, bus, present, vm, faults, called, disturbed, ended>>

Threads == Others \cup {"main", "rt"}
Free == "free"
Boards == 0 .. ASICS_COUNT \div ASICS_PER_BOARD - 1
GROUPS == 0 .. 1                  \* I2C_DC2DC_SWITCH_GROUP0 and _GROUP1

\* where dc2dc_select_i2c finds a converter
board_of(d) == d \div ASICS_PER_BOARD
i2c_group(d) == IF d % ASICS_PER_BOARD >= 8 THEN 1 ELSE 0
\* mutant: the offset is not within the group
OffsetUnmasked(d) == d % ASICS_PER_BOARD
dc2dc_offset(d) == (d % ASICS_PER_BOARD) % 8
THERMAL == 7                      \* the pin of a board's sensor, in group 1

ASSUME ExitAssumption ==
  /\ {ASICS_COUNT, ASICS_PER_BOARD, MAX_RECURSIVE} \subseteq Nat \ {0}
  /\ MaxFaults \in Nat /\ {"main", "rt", Free} \cap Others = {}
  /\ Converters \subseteq 0 .. ASICS_COUNT - 1 /\ Converters # {}
  /\ \A d, e \in 0 .. ASICS_COUNT - 1 :
       /\ board_of(d) \in Boards
       /\ <<board_of(d), i2c_group(d), dc2dc_offset(d)>>
            = <<board_of(e), i2c_group(e), dc2dc_offset(e)>> => d = e

(***************************************************************************)
(* The operations, and the functions as sequences of them.                 *)
(***************************************************************************)
(* Writes to the switches, in this order: of the pins of the primary one,  *)
(* or of the offsets of a group of the boards that are selected.           *)
Switch(writes) == <<"switch", writes>>
Primary(pins) == <<"primary", pins>>
Group(g, offsets) == <<"group", g, offsets>>
Access(what, d) == <<"access", what, d>>
Locked(f, d) == <<"lock", f, d>>  \* i2c_mutex, for the transaction f
Unlock == <<"unlock">>
Call(f) == <<f>>
Unlocked(f) == <<"unlock", f>>    \* at the end of f

\* the pins of the primary switch
BoardPin(b) == {<<"board", b>>}
PsuPin == {<<"psu", 0>>}
SensorPin == {<<"sensor", 0>>}

\* mutant: the switches stay as they are
LeaveOpen == <<>>
dc2dc_i2c_close == <<Switch(<<Group(0, {}), Group(1, {}), Primary({})>>)>>

dc2dc_select_i2c(d) ==
  <<Switch(<<Primary(BoardPin(board_of(d))), Group(i2c_group(d), {dc2dc_offset(d)}),
             Group(1 - i2c_group(d), {})>>)>>

(* What a transaction does once it has i2c_mutex: both channels are read   *)
(* for the readings, and an error ends them and, with                      *)
(* update_dc2dc_stats_restart_if_error, restarts the ASICs.                *)
Accesses(f, d) ==
  IF f \in {"stats", "stats_or_restart"} THEN <<Access(f, d), Access(f, d)>> ELSE <<Access(f, d)>>
\* mutant: the mutex stays locked
TransactionHeld(f, d) == dc2dc_select_i2c(d) \o Accesses(f, d) \o dc2dc_i2c_close
Transaction(f, d) ==
  dc2dc_select_i2c(d) \o Accesses(f, d) \o dc2dc_i2c_close \o <<Unlocked(f)>>
Body(f, d) ==
  CASE f = "psu" -> <<Switch(<<Primary(PsuPin)>>), Unlock>>
    [] f = "none" -> <<>>
    [] OTHER -> Transaction(f, d)

dc2dc_get_all_stats(d) == <<Locked("stats", d)>>
update_dc2dc_stats_restart_if_error(d) == <<Locked("stats_or_restart", d)>>
dc2dc_set_vtrim(d)     == <<Locked("vtrim", d)>>
dc2dc_disable_dc2dc(d) == <<Locked("disable", d)>>
dc2dc_enable_dc2dc(d)  == <<Locked("enable", d)>>
PSU12vONOFF            == <<Locked("psu", 0)>>
Lock                   == Locked("none", 0)

(* Of each channel the first write is checked and those of its settings    *)
(* are not; the settings of the first switch the converter on.             *)
InitChannel0(d) == <<Access("init", d), Access("configure", d)>>
InitChannel1(d) == <<Access("init", d), Access("protect", d)>>
(* With i2c_mutex locked, unlocked only to enable the converter.           *)
dc2dc_init_rb(d) ==
  dc2dc_select_i2c(d) \o InitChannel0(d) \o InitChannel1(d) \o dc2dc_i2c_close
    \o <<Unlock, <<"enable", d>>>> \o dc2dc_set_vtrim(d) \o <<Lock, <<"present", d>>>>
InitFailed(d) ==
  dc2dc_i2c_close \o <<Unlock>> \o dc2dc_disable_dc2dc(d) \o <<<<"absent", d>>, Lock>>

ConverterAccess ==
  {"stats", "stats_or_restart", "vtrim", "disable", "enable", "init", "configure", "protect"}

ForAll(ds, f(_)) == FlattenSeq([i \in 1 .. Len(ds) |-> f(ds[i])])
InOrder ==
  CHOOSE ds \in [1 .. Cardinality(Converters) -> Converters] :
    \A i, j \in DOMAIN ds : i < j => ds[i] < ds[j]
\* mutant: the last converter is forgotten
DisableButOne == [i \in 1 .. Len(InOrder) - 1 |-> Locked("disable", InOrder[i])]
DisableAll == [i \in DOMAIN InOrder |-> Locked("disable", InOrder[i])]

dc2dc_init == DisableAll \o <<Lock>> \o ForAll(InOrder, dc2dc_init_rb) \o <<Unlock>>

(* A reading of a supply or of a sensor changes nothing but the switches:  *)
(* it is one step.                                                         *)
ReadPsu == Switch(<<Primary(PsuPin), Primary({})>>)
update_single_psu == <<ReadPsu, Call("may_exit")>>
update_ac2dc_power_measurments == <<Lock>> \o update_single_psu \o <<Unlock>>
read_ac2dc_errors == <<ReadPsu>>
\* of an overload, the power cycle too
test_fix_ac2dc_limits == <<ReadPsu, Call("overload?")>>
Overload == PSU12vONOFF \o PSU12vONOFF \o <<Switch(<<Primary({})>>), Call("exit_now")>>
get_mng_board_temp == <<Switch(<<Primary(SensorPin), Primary({})>>)>>
get_board_temp(b) ==
  <<Switch(<<Primary(BoardPin(b)), Group(1, {THERMAL}), Group(1, {}), Primary({})>>)>>

(* What of a restart uses the bus, or may exit; one converter stands for   *)
(* all of them.                                                            *)
restart_asics_full ==
  LET d == Head(InOrder) IN
  <<Call("restart")>> \o dc2dc_get_all_stats(d) \o read_ac2dc_errors
    \o <<Call("reset_power?")>> \o dc2dc_i2c_close \o test_fix_ac2dc_limits
    \o dc2dc_set_vtrim(d) \o <<Call("may_exit"), Call("restarted")>>

exit_nicely ==
  <<Call("enter")>> \o dc2dc_i2c_close
    \o <<Call("stop_all_work"), Call("exiting?"), Call("unlock_all"), Call("sleep")>>
    \o DisableAll \o <<Call("exit")>>

(***************************************************************************)
(* The hardware.                                                           *)
(***************************************************************************)
Closed == [primary |-> {}, group |-> [b \in Boards |-> [g \in GROUPS |-> {}]]]
Reached ==
  {d \in Converters : /\ <<"board", board_of(d)>> \in switch.primary
                      /\ dc2dc_offset(d) \in switch.group[board_of(d)][i2c_group(d)]}

\* a group switch is behind the primary one
Written(w, sw) ==
  IF w[1] = "primary" THEN [sw EXCEPT !.primary = w[2]]
  ELSE [sw EXCEPT !.group = [b \in Boards |->
          IF <<"board", b>> \in sw.primary THEN [@[b] EXCEPT ![w[2]] = w[3]] ELSE @[b]]]

(* The writes of one operation, one after the other.                       *)
WrittenAll(writes, sw) ==
  LET after[n \in 0 .. Len(writes)] ==
        IF n = 0 THEN sw ELSE Written(writes[n], after[n - 1])
  IN  after[Len(writes)]

(* What a transfer does; of the writes to the switches one may be lost.    *)
Acknowledged(op) ==
  IF op[1] = "switch" THEN switch' = WrittenAll(op[2], switch) /\ UNCHANGED on
  ELSE /\ on' = CASE op[2] = "disable" -> on \ Reached
                  [] op[2] \in {"configure", "enable"} -> on \cup Reached
                  [] OTHER -> on
       /\ UNCHANGED switch

Fresh == [in_asic_reset |-> 2, exiting |-> 0, recursive |-> 0, kill_app |-> 0,
          signalled |-> FALSE, started |-> FALSE]

Init ==
  /\ todo = [t \in Threads |-> IF t = "main" THEN dc2dc_init \o <<Call("start")>> ELSE <<>>]
  /\ i2cm = Free /\ i2c_mutex = Free
  /\ switch = Closed
  /\ on = Converters /\ present = {}
  /\ vm = Fresh
  /\ faults = 0 /\ called = [t \in Threads |-> {}] /\ disturbed = FALSE
  /\ ended = "no"

(***************************************************************************)
(* The steps of a thread.                                                  *)
(***************************************************************************)
InExit(t) == Call("exit") \in ToSet(todo[t])
At(t, op) == ended = "no" /\ todo[t] # <<>> /\ Head(todo[t])[1] = op
Go(t) == todo' = [todo EXCEPT ![t] = Tail(@)]
\* with the process its threads, their mutexes and its memory are gone
End(how) ==
  /\ ended' = how /\ todo' = [t \in Threads |-> <<>>] /\ vm' = Fresh
  /\ i2cm' = Free /\ i2c_mutex' = Free
  /\ called' = [t \in Threads |-> {}]
Replace(t, ops) == todo' = [todo EXCEPT ![t] = ops \o Tail(@)]
After(ops, op) == SubSeq(ops, SelectInSeq(ops, LAMBDA o : o = op) + 1, Len(ops))
HeldBy(t) == {m \in {"i2cm", "i2c_mutex"} :
                IF m = "i2cm" THEN i2cm = t ELSE i2c_mutex = t}
CallExit(t) ==
  /\ todo' = [todo EXCEPT ![t] = exit_nicely]
  /\ called' = [called EXCEPT ![t] = HeldBy(t)]
\* past its sleep
SwitchingOff(t) == InExit(t) /\ Call("sleep") \notin ToSet(todo[t])

LockI2cMutex(t) ==
  /\ At(t, "lock") /\ i2c_mutex = Free /\ i2c_mutex' = t
  /\ Replace(t, Body(Head(todo[t])[2], Head(todo[t])[3]))
  /\ UNCHANGED <<i2cm, bus, present, vm, faults, called, disturbed, ended>>
\* whoever holds it by now
UnlockI2cMutex(t) ==
  /\ At(t, "unlock") /\ i2c_mutex' = Free /\ Go(t)
  /\ UNCHANGED <<i2cm, bus, present, vm, faults, called, disturbed, ended>>

IsTransfer(op) == op[1] \in {"switch", "access"}

(* What follows a transfer that is not acknowledged.  Each transfer clears *)
(* the error of the one before it: of a selection only the write of the    *)
(* converter's pin, the second, counts, where dc2dc_init_rb asks.          *)
Unacknowledged(op, rest) ==
  IF op[1] = "access" /\ op[2] = "init"
  THEN InitFailed(op[3]) \o After(rest, <<"present", op[3]>>)
  ELSE IF op[1] = "access" /\ op[2] = "stats"
       THEN dc2dc_i2c_close \o <<Unlock>> \o After(rest, Unlocked("stats"))
  ELSE IF op[1] = "access" /\ op[2] = "stats_or_restart"
       THEN dc2dc_i2c_close \o <<Unlock>> \o restart_asics_full
              \o After(rest, Unlocked("stats_or_restart"))
  ELSE rest
Lost(i, rest) ==
  IF i = 2 /\ rest # <<>> /\ rest[1] \in {Access("init", d) : d \in Converters}
  THEN InitFailed(rest[1][3]) \o After(rest, <<"present", rest[1][3]>>)
  ELSE rest

(* i2c_write and the others.  i2cm is locked for each transfer; those to   *)
(* the switches in a row, and a transfer, are one step.  A thread is left  *)
(* with i2cm if the ioctl of i2c_set_address fails, which aborts, or if a  *)
(* signal interrupts it (Signal).                                          *)
I2cTransfer(t) ==
  /\ ended = "no" /\ todo[t] # <<>> /\ IsTransfer(Head(todo[t])) /\ i2cm = Free
  /\ LET op == Head(todo[t])
         rest == Tail(todo[t])
     IN \/ /\ Acknowledged(op) /\ UNCHANGED <<i2cm, faults, called>>
           /\ todo' = [todo EXCEPT ![t] = rest]
           /\ disturbed' = (disturbed \/ \E u \in Threads \ {t} : SwitchingOff(u))
        \/ /\ faults < MaxFaults /\ faults' = faults + 1 /\ UNCHANGED <<i2cm, called>>
           /\ \/ op[1] = "access" /\ UNCHANGED bus
                /\ todo' = [todo EXCEPT ![t] = Unacknowledged(op, rest)]
              \/ /\ op[1] = "switch"
                 /\ \E i \in DOMAIN op[2] :
                      /\ Acknowledged(Switch(RemoveAt(op[2], i)))
                      /\ todo' = [todo EXCEPT ![t] = Lost(i, rest)]
           /\ disturbed' = (disturbed \/ \E u \in Threads : SwitchingOff(u))
        \/ /\ faults < MaxFaults /\ faults' = faults + 1
           /\ i2cm' = t /\ todo' = [todo EXCEPT ![t] = exit_nicely]
           /\ called' = [called EXCEPT ![t] = HeldBy(t) \cup {"i2cm"}]
           /\ UNCHANGED <<bus, disturbed>>
  /\ UNCHANGED <<i2c_mutex, present, vm, ended>>

Present(t) ==
  /\ At(t, "present") \/ At(t, "absent")
  /\ present' = IF At(t, "present") THEN present \cup {Head(todo[t])[2]}
                ELSE present \ {Head(todo[t])[2]}
  /\ Go(t)
  /\ UNCHANGED <<mutexes, bus, vm, faults, called, disturbed, ended>>

\* of a converter found present before
Enable(t) ==
  /\ At(t, "enable")
  /\ LET d == Head(todo[t])[2] IN
       Replace(t, IF d \in present THEN dc2dc_enable_dc2dc(d) ELSE <<>>)
  /\ UNCHANGED <<mutexes, bus, present, vm, faults, called, disturbed, ended>>

Sleep(t) ==
  /\ At(t, "sleep") /\ Go(t)
  /\ UNCHANGED <<mutexes, bus, present, vm, faults, called, disturbed, ended>>

Start(t) ==
  /\ At(t, "start") /\ Go(t)
  /\ vm' = [vm EXCEPT !.in_asic_reset = 0, !.started = TRUE]
  /\ UNCHANGED <<mutexes, bus, present, faults, called, disturbed, ended>>

\* "Bad PSU FW" and "AC2DC connected", "Not all ASICs recover": with what is held
MayExit(t) ==
  /\ \/ At(t, "may_exit") /\ Go(t) /\ UNCHANGED called
     \/ (At(t, "may_exit") \/ At(t, "exit_now")) /\ CallExit(t)
  /\ UNCHANGED <<mutexes, bus, present, vm, faults, disturbed, ended>>

Choose(t) ==
  /\ \/ At(t, "overload?") /\ (Go(t) \/ Replace(t, Overload))
     \/ At(t, "reset_power?") /\ (Go(t) \/ Replace(t, update_ac2dc_power_measurments))
  /\ UNCHANGED <<mutexes, bus, present, vm, faults, called, disturbed, ended>>

Restart(t) ==
  /\ At(t, "restart")
  /\ IF vm.in_asic_reset # 0 THEN CallExit(t) /\ UNCHANGED vm   \* passert(0)
     ELSE Go(t) /\ vm' = [vm EXCEPT !.in_asic_reset = 1] /\ UNCHANGED called
  /\ UNCHANGED <<mutexes, bus, present, faults, disturbed, ended>>
Restarted(t) ==
  /\ At(t, "restarted") /\ Go(t) /\ vm' = [vm EXCEPT !.in_asic_reset = 0]
  /\ UNCHANGED <<mutexes, bus, present, faults, called, disturbed, ended>>

(***************************************************************************)
(* exit_nicely.                                                            *)
(***************************************************************************)
\* reset_i2c resets the switches, without either mutex
Enter(t) ==
  /\ At(t, "enter")
  /\ switch' = Closed
  /\ disturbed' = (disturbed \/ \E u \in Threads \ {t} : SwitchingOff(u))
  /\ IF vm.recursive > MAX_RECURSIVE THEN End("recursive")
     ELSE Go(t) /\ UNCHANGED <<mutexes, vm, called, ended>>
  /\ UNCHANGED <<on, present, faults>>

(* The first call stops all work; ASICs that stay busy are restarted.      *)
StopAllWork(t) ==
  /\ At(t, "stop_all_work")
  /\ vm' = [vm EXCEPT !.recursive = @ + 1]
  /\ IF vm.recursive # 0 THEN Go(t)
     ELSE \/ Replace(t, <<Call("stopped")>>)
          \/ Replace(t, restart_asics_full \o <<Call("stopped")>>)
  /\ UNCHANGED <<mutexes, bus, present, faults, called, disturbed, ended>>
Stopped(t) ==
  /\ At(t, "stopped") /\ Go(t) /\ vm' = [vm EXCEPT !.recursive = @ + 1]
  /\ UNCHANGED <<mutexes, bus, present, faults, called, disturbed, ended>>

Exiting(t) ==
  /\ At(t, "exiting?")
  /\ IF vm.exiting = 1 THEN End("cut") ELSE Go(t) /\ UNCHANGED <<mutexes, vm, called, ended>>
  /\ UNCHANGED <<bus, present, faults, disturbed>>

\* mutant: i2c_mutex is not unlocked
UnlockI2cm == i2cm' = Free /\ UNCHANGED i2c_mutex
UnlockBoth == i2cm' = Free /\ i2c_mutex' = Free
UnlockAll(t) ==
  /\ At(t, "unlock_all") /\ Go(t) /\ UnlockBoth
  /\ vm' = [vm EXCEPT !.exiting = 1, !.kill_app = 1]
  /\ UNCHANGED <<bus, present, faults, called, disturbed, ended>>

Exit(t) ==
  /\ At(t, "exit") /\ End("full")
  /\ UNCHANGED <<bus, present, faults, disturbed>>

(***************************************************************************)
(* What the threads start.                                                 *)
(***************************************************************************)
RtTask ==
  /\ ended = "no" /\ vm.started /\ todo["rt"] = <<>>
  /\ \E f \in {update_ac2dc_power_measurments, get_mng_board_temp, restart_asics_full}
              \cup {get_board_temp(b) : b \in Boards}
              \cup {update_dc2dc_stats_restart_if_error(d) : d \in present}
              \cup {dc2dc_set_vtrim(d) : d \in present} :
       todo' = [todo EXCEPT !["rt"] = f]
  /\ UNCHANGED <<mutexes, bus, present, vm, faults, called, disturbed, ended>>

\* the RT thread leaves once it has nothing to do
RtOut ==
  /\ ended = "no" /\ vm.started /\ vm.kill_app = 1 /\ todo["rt"] = <<>>
  /\ todo' = [todo EXCEPT !["rt"] = <<Call("out")>>]
  /\ UNCHANGED <<mutexes, bus, present, vm, faults, called, disturbed, ended>>

\* "Too hot", "All ASICs disabled", "Hash rate too low", a passert outside of
\* the bus; of the main thread it is as a signal that comes while it accepts
ExitCalled(t) ==
  /\ ended = "no" /\ vm.started /\ todo[t] = <<>> /\ t # "main" /\ CallExit(t)
  /\ UNCHANGED <<mutexes, bus, present, vm, faults, disturbed, ended>>

(* The handler interrupts the main thread, in a transfer too; it restores  *)
(* the default handlers first, so that a second signal ends the process.   *)
Signal ==
  /\ ended = "no" /\ ~vm.signalled /\ vm' = [vm EXCEPT !.signalled = TRUE]
  /\ todo' = [todo EXCEPT !["main"] = exit_nicely]
  /\ \/ UNCHANGED i2cm
     \/ todo["main"] # <<>> /\ IsTransfer(Head(todo["main"])) /\ i2cm = Free /\ i2cm' = "main"
  /\ called' = [called EXCEPT !["main"] =
                   HeldBy("main") \cup (IF i2cm' = "main" THEN {"i2cm"} ELSE {})]
  /\ UNCHANGED <<i2c_mutex, bus, present, faults, disturbed, ended>>
SecondSignal ==
  /\ ended = "no" /\ vm.signalled /\ End("killed")
  /\ UNCHANGED <<bus, present, faults, disturbed>>

Step(t) ==
  \/ LockI2cMutex(t) \/ UnlockI2cMutex(t) \/ I2cTransfer(t) \/ Present(t)
  \/ Enable(t) \/ Sleep(t) \/ Start(t) \/ MayExit(t) \/ Choose(t)
  \/ Restart(t) \/ Restarted(t)
  \/ Enter(t) \/ StopAllWork(t) \/ Stopped(t) \/ Exiting(t) \/ UnlockAll(t) \/ Exit(t)

Next == RtTask \/ RtOut \/ Signal \/ SecondSignal \/ \E t \in Threads : Step(t) \/ ExitCalled(t)

Spec == Init /\ [][Next]_vars

(* Every thread is scheduled, and a mutex that is released again and again *)
(* is granted.                                                             *)
FairSpec == Spec /\ \A t \in Threads : SF_vars(Step(t))

(***************************************************************************)
(* Properties.                                                             *)
(***************************************************************************)
Mutexes == {"i2cm", "i2c_mutex"}

\* Types: the owners of the mutexes, and what the switches are set to.
TypeOK ==
  /\ DOMAIN todo = Threads /\ \A t \in Threads : \A i \in DOMAIN todo[t] : todo[t][i] # <<>>
  /\ {i2cm, i2c_mutex} \subseteq Threads \cup {Free}
  /\ switch.primary \subseteq {<<"board", b>> : b \in Boards} \cup PsuPin \cup SensorPin
  /\ switch.group \in [Boards -> [GROUPS -> SUBSET (0 .. 7)]]
  /\ {on, present} \subseteq SUBSET Converters
  /\ vm.in_asic_reset \in 0 .. 2 /\ {vm.exiting, vm.kill_app} \subseteq 0 .. 1
  /\ vm.recursive \in Nat /\ {vm.signalled, vm.started, disturbed} \subseteq BOOLEAN
  /\ faults \in 0 .. MaxFaults /\ called \in [Threads -> SUBSET Mutexes]
  /\ ended \in {"no", "full", "cut", "recursive", "killed"}

(* An exit that reaches its end leaves every converter off, whatever the   *)
(* other threads were doing when it began, in whatever position they left  *)
(* the switches and whichever mutex they held, unless a thread that        *)
(* outlived the sleep used the bus, or a transfer failed, while it         *)
(* switched them off.                                                      *)
ConvertersOff == ended = "full" /\ ~disturbed => on = {}

WaitsForItself(t) ==
  /\ ended = "no" /\ todo[t] # <<>>
  /\ \/ IsTransfer(Head(todo[t])) /\ i2cm = t
     \/ At(t, "lock") /\ i2c_mutex = t
CalledLocked(t) ==
  \/ InExit(t) /\ IsTransfer(Head(todo[t])) /\ "i2cm" \in called[t]
  \/ InExit(t) /\ At(t, "lock") /\ "i2c_mutex" \in called[t] /\ Call("restarted") \in ToSet(todo[t])

(* A thread waits for a mutex that it holds itself only in an exit called  *)
(* with that mutex held: i2cm where an ioctl failed or a signal hit a      *)
(* transfer, or i2c_mutex, while the exit restarts the ASICs.              *)
SelfBlockOnlyInExit == \A t \in Threads : WaitsForItself(t) => CalledLocked(t)

(* As long as nothing exits, one failed transfer, wherever it is, never    *)
(* makes an access meant for a converter reach another one: the switches   *)
(* are closed after each use, so that a failed selection reaches nothing.  *)
AccessReachesItsConverter ==
  [][\A t \in Threads :
       /\ At(t, "access") /\ Head(todo[t])[2] \in ConverterAccess /\ todo'[t] # todo[t]
       /\ faults' <= 1 /\ \A u \in Threads : ~InExit(u)
       => Reached \subseteq {Head(todo[t])[3]}]_vars

(* A call of exit_nicely ends the process, unless a thread in exit_nicely  *)
(* waits for a mutex that it called it with.                               *)
ExitEnds ==
  (\E t \in Threads : InExit(t)) ~>
    (ended # "no" \/ \E t \in Threads : WaitsForItself(t) /\ CalledLocked(t))
=============================================================================
