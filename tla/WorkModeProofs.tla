--------------------------- MODULE WorkModeProofs ---------------------------
(***************************************************************************)
(* Proofs about the settings of a user, for all supplies, all files that   *)
(* minergate can read and all input voltages.                              *)
(***************************************************************************)
EXTENDS WorkMode, TLAPS

(* The numbers of the code have their types.                               *)
LEMMA CapType == ASSUME NEW t PROVE Cap(t) \in Nat
  BY DEF Cap

(* What apl() can bear is a number, for every type and range.              *)
LEMMA AplType == ASSUME NEW t, NEW r PROVE apl(t, r) \in Nat
  BY DEF apl

(* A voltage becomes a vtrim, which is a number.                           *)
LEMMA VtrimType == ASSUME NEW v \in Int PROVE VOLTAGE_TO_VTRIM_MILLI(v) \in Int
  BY DEF VOLTAGE_TO_VTRIM_MILLI

(* The cap of a supply only lowers a limit.                                *)
LEMMA CappedType ==
  ASSUME NEW t, NEW l \in Int
  PROVE  Capped(t, l) \in Int /\ Capped(t, l) <= l
  BY CapType DEF Capped

(* An overload only lowers the start voltage.                              *)
LEMMA LoweredType ==
  ASSUME NEW p \in Psus, NEW s \in Int, NEW l \in Int
  PROVE  Lowered(p, s, l) \in Int /\ Lowered(p, s, l) <= s
  BY DEF Lowered, ac2dc_power_DECREASE_START_VOLTAGE

(* Settings lowered or in force are settings; no limit is raised.          *)
LEMMA UpdatedType ==
  ASSUME NEW f \in Settings, NEW d \in [Psus -> Int]
  PROVE  /\ Updated(f, d) \in Settings
         /\ \A p \in Psus : Updated(f, d).limit[p] <= f.limit[p]
<1> DEFINE limit == [p \in Psus |-> IF d[p] > 0 THEN f.limit[p] - d[p] ELSE f.limit[p]]
           start == [p \in Psus |-> Lowered(p, f.start[p], limit[p])]
<1>1. limit \in [Psus -> Int] /\ \A p \in Psus : limit[p] <= f.limit[p]
  BY DEF Settings
<1>2. start \in [Psus -> Int]
  BY <1>1, LoweredType DEF Settings
<1>3. Updated(f, d) = [start |-> start, limit |-> limit, max |-> f.max]
  BY DEF Updated
<1> QED
  BY <1>1, <1>2, <1>3 DEF Settings

(* What a file puts in force is well typed.                                *)
LEMMA InForceType ==
  ASSUME NEW f \in Settings
  PROVE  InForce(f) \in [start : [Psus -> Int], limit : [Psus -> Int],
                         vtrim_start : [Psus -> Int]]
  BY VtrimType DEF InForce, Settings

(* A file the user writes is well typed and can be read.                   *)
LEMMA UserFileType ==
  ASSUME NEW f \in UserFiles
  PROVE  f \in Settings /\ ReadsWell(f)
<1>1. /\ f = [start |-> f.start, limit |-> f.limit, max |-> f.max] /\ f.max \in Nat
      /\ f.start \in [Psus -> Nat] /\ f.limit \in [Psus -> Nat] /\ ReadsWell(f)
  BY WorkModeAssumption
<1>2. f.start \in [Psus -> Int] /\ f.limit \in [Psus -> Int]
  BY <1>1
<1> QED
  BY <1>1, <1>2 DEF Settings

(* The correction of a limit is a number.                                  *)
LEMMA FixType ==
  ASSUME NEW p \in Psus, NEW s \in Int, NEW l \in Int
  PROVE  FixOf(p, s, l) \in Int
  BY AplType DEF FixOf
-----------------------------------------------------------------------------
(* What an overload leaves can be read: the limit it lowers is far above   *)
(* the least, and the start voltages it lowers too.                        *)
LEMMA OverloadReads ==
  ASSUME NEW f \in Settings, ReadsWell(f), NEW p \in Psus, f.limit[p] >= 75
  PROVE  ReadsWell(Updated(f, Overload(p)))
<1> DEFINE d == Overload(p)
           limit == [q \in Psus |-> IF d[q] > 0 THEN f.limit[q] - d[q] ELSE f.limit[q]]
           start == [q \in Psus |-> Lowered(q, f.start[q], limit[q])]
<1>1. \A q \in Psus : d[q] = IF q = p THEN 5 ELSE 0
  BY DEF Overload, NoFix
<1>2. /\ f.limit \in [Psus -> Int] /\ f.start \in [Psus -> Int] /\ f.max \in Nat
  BY DEF Settings
<1>3. /\ f.max \in 580 .. 830 /\ VOLTAGE_TO_VTRIM_MILLI(f.max) <= VTRIM_MAX
      /\ \A q \in Psus : f.start[q] \in 580 .. f.max /\ f.limit[q] \in 70 .. 2500
  BY DEF ReadsWell
<1>4. \A q \in Psus : limit[q] \in 70 .. 2500
  <2> TAKE q \in Psus
  <2>1. f.limit[q] \in 70 .. 2500 /\ (q = p => f.limit[q] >= 75)
    BY <1>3
  <2>2. limit[q] = IF d[q] > 0 THEN f.limit[q] - d[q] ELSE f.limit[q]
    OBVIOUS
  <2> HIDE DEF d, limit, start
  <2>3. CASE q = p
    <3>1. d[q] = 5
      BY <1>1, <2>3
    <3>2. limit[q] = f.limit[q] - 5
      BY <2>2, <3>1
    <3> QED
      BY <2>1, <2>3, <3>2
  <2>4. CASE q # p
    <3>1. d[q] = 0
      BY <1>1, <2>4
    <3>2. limit[q] = f.limit[q]
      BY <2>2, <3>1
    <3> QED
      BY <2>1, <3>2
  <2> QED
    BY <2>3, <2>4
<1>5. \A q \in Psus : start[q] \in 580 .. f.max
  <2> HIDE DEF limit
  <2> TAKE q \in Psus
  <2>1. f.start[q] \in 580 .. f.max /\ limit[q] \in 70 .. 2500 /\ f.max \in 580 .. 830
    BY <1>3, <1>4
  <2>2. start[q] = Lowered(q, f.start[q], limit[q])
    OBVIOUS
  <2> HIDE DEF start
  <2>3. start[q] = f.start[q] \/ (start[q] \in {620, 660} /\ start[q] < f.start[q])
    BY <2>1, <2>2 DEF Lowered
  <2> QED
    BY <2>1, <2>3
<1> DEFINE g == Updated(f, d)
<1>6. /\ g.max = f.max
      /\ \A q \in Psus : g.start[q] = start[q] /\ g.limit[q] = limit[q]
  BY DEF Updated
<1> HIDE DEF g, d, start, limit
<1>7. /\ g.max \in 580 .. 830 /\ VOLTAGE_TO_VTRIM_MILLI(g.max) <= VTRIM_MAX
  BY <1>3, <1>6
<1>8. \A q \in Psus : g.start[q] \in 580 .. g.max /\ g.limit[q] \in 70 .. 2500
  BY <1>4, <1>5, <1>6
<1>9. ReadsWell(g)
  BY <1>7, <1>8 DEF ReadsWell
<1> QED
  BY <1>9 DEF g, d

(* While the process runs it has read a file that is still there, and      *)
(* unless the user edited it since, that file can be read again and gives  *)
(* no supply less than is in force.  What it is about to write into the    *)
(* file can be read as well, unless the user edited what it was made from; *)
(* and a file that is there before it is written is a user's.              *)
Running == at \in {"fixing", "read", "mining", "lowered"}
FileRead ==
  /\ Running => custom \in Settings
  /\ Running /\ ~edited => ReadsWell(custom)
  /\ at \in {"read", "mining"} /\ ~edited =>
       \A p \in Psus : vm.limit[p] <= custom.limit[p]

StreamReads ==
  /\ at \in {"lowered", "rewriting"} => stream \in Settings /\ (~edited => ReadsWell(stream))
  /\ at = "rewriting" => custom = Empty \/ ReadsWell(custom)

IInv == TypeOK /\ FileRead /\ StreamReads /\ NextStartReads

(* One step of each kind keeps the invariant.                              *)
LEMMA InitIInv == Init => IInv
<1> SUFFICES ASSUME Init PROVE IInv
  OBVIOUS
<1>1. custom \in Settings /\ ReadsWell(custom)
  BY UserFileType DEF Init
<1>2. TypeOK
  <2>1. NoSettings \in [start : [Psus -> Int], limit : [Psus -> Int], vtrim_start : [Psus -> Int]]
    BY DEF NoSettings
  <2>2. NoPsus \in [Psus -> [type : PsuTypes, voltage : Nat]] /\ NoFix \in [Psus -> Int]
    BY DEF NoPsus, NoFix, PsuTypes
  <2> QED
    BY <1>1, <2>1, <2>2 DEF Init, TypeOK
<1> QED
  BY <1>1, <1>2, WorkModeAssumption DEF Init, IInv, FileRead, StreamReads, Running, NextStartReads

(* A process that ended has a typed memory.                                *)
LEMMA EndedOK ==
  ASSUME Ended
  PROVE  /\ at' = "off"
         /\ vm' \in [start : [Psus -> Int], limit : [Psus -> Int], vtrim_start : [Psus -> Int]]
         /\ psu' \in [Psus -> [type : PsuTypes, voltage : Nat]] /\ fix' \in [Psus -> Int]
         /\ stream' = NoFile
  BY DEF Ended, NoSettings, NoPsus, NoFix, PsuTypes

(* read_work_mode keeps the invariant.                                     *)
LEMMA ReadOK ==
  ASSUME IInv, ReadWorkMode
  PROVE  IInv'
<1> USE DEF IInv, files, history
<1>0. at = "detected"
  BY DEF ReadWorkMode
<1>1. CASE (~Readable \/ ignore_fcc \/ TooLow) /\ Ended /\ UNCHANGED <<alternative, edited>>
           /\ UNCHANGED <<custom, flushed, machine, ignore_fcc, mixed, cut>>
  BY <1>0, <1>1, EndedOK DEF TypeOK, FileRead, StreamReads, Running, NextStartReads
<1>2. CASE Readable /\ ignore_fcc /\ Read(custom) /\ at' = "read"
           /\ UNCHANGED <<psu, fix, alternative, stream>>
           /\ UNCHANGED <<custom, flushed, machine, ignore_fcc, mixed, cut>>
  <2>1. custom \in Settings /\ ReadsWell(custom)
    BY <1>2 DEF Readable, TypeOK
  <2>2. vm'.limit = custom.limit /\ edited' = FALSE
    BY <1>2 DEF Read, InForce
  <2>3. custom.limit \in [Psus -> Int]
    BY <2>1 DEF Settings
  <2>4. \A p \in Psus : vm'.limit[p] <= custom.limit[p]
    BY <2>2, <2>3
  <2>5. TypeOK'
    BY <1>2, <2>1, InForceType DEF TypeOK, Read
  <2> QED
    BY <1>0, <1>2, <2>1, <2>4, <2>5 DEF FileRead, StreamReads, Running, NextStartReads
<1>3. CASE /\ Readable /\ ~ignore_fcc /\ ~TooLow
           /\ LET limit == [p \in Psus |-> Capped(psu[p].type, custom.limit[p])] IN
                /\ Read([custom EXCEPT !.limit = limit])
                /\ fix' = [p \in Psus |-> FixOf(p, custom.start[p], limit[p])]
           /\ IF fix' = NoFix THEN unlink /\ at' = "read"
              ELSE at' = "fixing" /\ UNCHANGED alternative
           /\ UNCHANGED <<psu, stream>> /\ UNCHANGED <<custom, flushed, machine, ignore_fcc, mixed, cut>>
  <2> DEFINE limit == [p \in Psus |-> Capped(psu[p].type, custom.limit[p])]
             capped == [custom EXCEPT !.limit = limit]
  <2>1. custom \in Settings /\ ReadsWell(custom)
    BY <1>3 DEF Readable, TypeOK
  <2>2. custom.limit \in [Psus -> Int] /\ custom.start \in [Psus -> Int]
    BY <2>1 DEF Settings
  <2>3. limit \in [Psus -> Int] /\ \A p \in Psus : limit[p] <= custom.limit[p]
    BY <2>2, CappedType
  <2>4. capped \in Settings /\ capped.limit = limit
    BY <2>1, <2>3 DEF Settings
  <2>5. vm' = InForce(capped) /\ edited' = FALSE
    BY <1>3 DEF Read
  <2>6. vm'.limit = limit
    BY <2>4, <2>5 DEF InForce
  <2>7. fix' \in [Psus -> Int]
    BY <1>3, <2>2, <2>3, FixType
  <2>8. at' \in {"read", "fixing"} /\ alternative' \in {alternative, NoFile}
    BY <1>3 DEF unlink
  <2>9. TypeOK'
    BY <1>3, <2>4, <2>5, <2>7, <2>8, InForceType DEF TypeOK
  <2> QED
    BY <1>0, <1>3, <2>1, <2>3, <2>5, <2>6, <2>8, <2>9
    DEF FileRead, StreamReads, Running, NextStartReads
<1> QED
  BY <1>1, <1>2, <1>3 DEF ReadWorkMode

(* The correction of the limits at the start keeps it.                     *)
LEMMA FixOK ==
  ASSUME IInv, FixLimits
  PROVE  IInv'
<1>1. custom \in Settings /\ fix \in [Psus -> Int] /\ TypeOK
  BY DEF IInv, FileRead, Running, FixLimits, TypeOK
<1>2. /\ Updated(custom, fix) \in Settings
      /\ \A p \in Psus : Updated(custom, fix).limit[p] <= custom.limit[p]
  BY <1>1, UpdatedType
<1>3. vm'.limit = Updated(custom, fix).limit
  BY DEF FixLimits, InForce
<1>4. TypeOK'
  BY <1>1, <1>2, InForceType DEF FixLimits, TypeOK, NoFix
<1> QED
  <2>1. NextStartReads'
    BY <1>1, WorkModeAssumption DEF IInv, NextStartReads, FixLimits, FileRead, Running
  <2> QED
    BY <1>1, <1>2, <1>3, <1>4, <2>1 DEF IInv, FileRead, StreamReads, Running, FixLimits

(* test_fix_ac2dc_limits keeps it.                                         *)
LEMMA OverloadOK ==
  ASSUME IInv, test_fix_ac2dc_limits
  PROVE  IInv'
<1> USE DEF files, history
<1>1. CASE /\ at' = "mining" /\ UNCHANGED <<stream, psu, vm, fix>>
           /\ UNCHANGED <<files, machine, ignore_fcc, history>>
  BY <1>1 DEF IInv, TypeOK, FileRead, StreamReads, Running, NextStartReads, test_fix_ac2dc_limits
<1>2. CASE Ended /\ UNCHANGED <<files, machine, ignore_fcc, history>>
  BY <1>2, EndedOK
  DEF IInv, TypeOK, FileRead, StreamReads, Running, NextStartReads, test_fix_ac2dc_limits
<1>3. ASSUME NEW p \in Psus, vm.limit[p] > OVERLOAD_LIMIT(p), Lower(p),
             UNCHANGED <<files, machine, ignore_fcc, history>>
      PROVE  IInv'
  <2>1. custom \in Settings /\ TypeOK
    BY DEF IInv, FileRead, Running, test_fix_ac2dc_limits
  <2>2. Overload(p) \in [Psus -> Int]
    BY DEF Overload, NoFix
  <2>3. stream' \in Settings /\ stream' = Updated(custom, Overload(p))
    BY <1>3, <2>1, <2>2, UpdatedType DEF Lower
  <2>4. vm' \in [start : [Psus -> Int], limit : [Psus -> Int], vtrim_start : [Psus -> Int]]
    <3>1. stream'.start \in [Psus -> Int] /\ stream'.limit \in [Psus -> Int]
      BY <2>3 DEF Settings
    <3>2. vm' = [start |-> stream'.start, limit |-> stream'.limit, vtrim_start |-> vm.vtrim_start]
      BY <1>3, <2>1 DEF Lower, TypeOK
    <3> QED
      BY <2>1, <3>1, <3>2 DEF TypeOK
  <2>5. TypeOK'
    BY <1>3, <2>1, <2>3, <2>4 DEF TypeOK, Lower
  <2>6. ~edited => ReadsWell(custom) /\ ReadsWell(stream')
    <3> SUFFICES ASSUME ~edited PROVE ReadsWell(custom) /\ ReadsWell(stream')
      OBVIOUS
    <3>1. ReadsWell(custom) /\ vm.limit[p] <= custom.limit[p]
      BY DEF IInv, FileRead, Running, test_fix_ac2dc_limits
    <3>2. OVERLOAD_LIMIT(p) >= 1270 /\ OVERLOAD_LIMIT(p) \in Nat
      BY DEF OVERLOAD_LIMIT
    <3>3. vm.limit[p] \in Int /\ custom.limit[p] \in Int
      BY <2>1 DEF TypeOK, Settings
    <3>4. custom.limit[p] >= 75
      BY <1>3, <3>1, <3>2, <3>3
    <3> QED
      BY <2>1, <2>3, <3>1, <3>4, OverloadReads
  <2>7. NextStartReads'
    BY <1>3 DEF IInv, NextStartReads, test_fix_ac2dc_limits
  <2> QED
    BY <1>3, <2>1, <2>3, <2>5, <2>6, <2>7 DEF IInv, FileRead, StreamReads, Running, Lower
<1> QED
  BY <1>1, <1>2, <1>3 DEF test_fix_ac2dc_limits, Overloaded

(* The rewrite of the file keeps it: from its opening, which empties it,   *)
(* to its close, nothing is said of it.                                    *)
LEMMA RewriteOK ==
  ASSUME IInv, Truncate \/ Close
  PROVE  IInv'
<1> USE DEF IInv, files, history
<1>1. CASE Truncate
  BY <1>1 DEF Truncate, TypeOK, FileRead, StreamReads, Running, NextStartReads
<1>2. CASE Close
  <2>1. /\ stream \in Settings /\ (~edited => ReadsWell(stream))
        /\ custom # Empty => ReadsWell(custom)
        /\ stream # Empty
    BY <1>2, WorkModeAssumption DEF Close, StreamReads
  <2>2. TypeOK'
    BY <1>2, <2>1, EndedOK DEF Close, TypeOK
  <2> QED
    BY <1>2, <2>1, <2>2, EndedOK DEF Close, FileRead, StreamReads, Running, NextStartReads
<1> QED
  BY <1>1, <1>2

(* So do detection, measuring, edits, kills and power failures.            *)
LEMMA OthersOK ==
  ASSUME IInv,
         \/ ac2dc_init \/ MeasurePower \/ UserEdits \/ UserSetsFlag \/ Killed \/ Flush
         \/ PowerFails \/ UNCHANGED vars
  PROVE  IInv'
<1> USE DEF IInv, TypeOK, FileRead, StreamReads, Running, NextStartReads, files, history
<1>1. CASE ac2dc_init
  <2>1. psu' \in [Psus -> [type : PsuTypes, voltage : Nat]]
    BY <1>1, WorkModeAssumption DEF ac2dc_init
  <2> QED
    BY <1>1, <2>1 DEF ac2dc_init
<1>2. CASE MeasurePower
  BY <1>2, EndedOK DEF MeasurePower
<1>3. CASE UserEdits
  <2>1. custom' \in Settings /\ ReadsWell(custom') /\ custom' # Empty
    BY <1>3, UserFileType, WorkModeAssumption DEF UserEdits
  <2>2. TypeOK'
    BY <1>3, <2>1 DEF UserEdits
  <2>3. FileRead' /\ StreamReads' /\ NextStartReads'
    BY <1>3, <2>1 DEF UserEdits
  <2> QED
    BY <2>2, <2>3
<1>4. CASE UserSetsFlag
  BY <1>4 DEF UserSetsFlag
<1>5. CASE Killed
  BY <1>5, EndedOK DEF Killed
<1>6. CASE Flush
  BY <1>6 DEF Flush
<1>7. CASE PowerFails
  BY <1>7, EndedOK DEF PowerFails
<1>8. CASE UNCHANGED vars
  BY <1>8 DEF vars
<1> QED
  BY <1>1, <1>2, <1>3, <1>4, <1>5, <1>6, <1>7, <1>8

(* Every step keeps the invariant.                                         *)
LEMMA StepIInv == IInv /\ [Next]_vars => IInv'
  BY ReadOK, FixOK, OverloadOK, RewriteOK, OthersOK DEF Next

(* Every reachable state satisfies it.                                     *)
LEMMA Invariance == Spec => []IInv
  BY InitIInv, StepIInv, PTL DEF Spec

(* Everything has its type.                                                *)
THEOREM Typing == Spec => []TypeOK
<1>1. IInv => TypeOK
  BY DEF IInv
<1> QED
  BY <1>1, Invariance, PTL

(* The next start reads a user's file, whatever overloads have made of it, *)
(* but for a kill between the opening and the close of a rewrite, a power  *)
(* failure before it is on the disk, and edits while the process runs.     *)
THEOREM FileReadable == Spec => []NextStartReads
<1>1. IInv => NextStartReads
  BY DEF IInv
<1> QED
  BY <1>1, Invariance, PTL
-----------------------------------------------------------------------------
(* An overload takes power from the supply that had it, and no more than   *)
(* it may lose.                                                            *)
LEMMA MinWith1266 ==
  ASSUME NEW a \in Int
  PROVE  Min({a, 1266}) \in Int /\ Min({a, 1266}) <= a /\ Min({a, 1266}) <= 1266
<1>1. \E x \in {a, 1266} : \A y \in {a, 1266} : x <= y
  <2>1. CASE a <= 1266
    BY <2>1
  <2>2. CASE ~(a <= 1266)
    BY <2>2
  <2> QED
    BY <2>1, <2>2
<1>2. Min({a, 1266}) \in {a, 1266} /\ \A y \in {a, 1266} : Min({a, 1266}) <= y
  BY <1>1 DEF Min
<1> QED
  BY <1>2

(* An overload from such a state lowers one limit by one step.             *)
LEMMA OverloadIsSmall == IInv => OverloadStep
<1> SUFFICES ASSUME IInv, test_fix_ac2dc_limits, at' = "lowered", ~edited
             PROVE  /\ \E p \in Psus : \A q \in Psus \ {p} : stream'.limit[q] = custom.limit[q]
                    /\ \A p \in Psus :
                         /\ stream'.limit[p] \in {custom.limit[p], custom.limit[p] - 5}
                         /\ stream'.limit[p] >= Min({custom.limit[p], 1266})
                         /\ stream'.start[p] < custom.start[p] =>
                              custom.limit[p] < ac2dc_power_DECREASE_START_VOLTAGE
  BY DEF OverloadStep
<1>1. PICK p \in Psus : /\ vm.limit[p] > OVERLOAD_LIMIT(p)
                        /\ stream' = Updated(custom, Overload(p))
  BY DEF test_fix_ac2dc_limits, Overloaded, Lower, Ended
<1>2. custom \in Settings /\ TypeOK /\ vm.limit[p] <= custom.limit[p]
  BY DEF IInv, FileRead, Running, test_fix_ac2dc_limits
<1>3. /\ custom.limit \in [Psus -> Int] /\ custom.start \in [Psus -> Int]
      /\ vm.limit[p] \in Int
  BY <1>2 DEF Settings, TypeOK
<1>4. custom.limit[p] > 1270
  <2>1. OVERLOAD_LIMIT(p) >= 1270 /\ OVERLOAD_LIMIT(p) \in Nat
    BY DEF OVERLOAD_LIMIT
  <2> QED
    BY <1>1, <1>2, <1>3, <2>1
<1>5. \A q \in Psus :
        /\ stream'.limit[q] = IF q = p THEN custom.limit[q] - 5 ELSE custom.limit[q]
        /\ stream'.start[q] = Lowered(q, custom.start[q], stream'.limit[q])
  <2> DEFINE d == Overload(p)
             limit == [q \in Psus |-> IF d[q] > 0 THEN custom.limit[q] - d[q] ELSE custom.limit[q]]
  <2>1. \A q \in Psus : d[q] = IF q = p THEN 5 ELSE 0
    BY DEF Overload, NoFix
  <2>2. /\ stream'.limit = limit
        /\ stream'.start = [q \in Psus |-> Lowered(q, custom.start[q], limit[q])]
    BY <1>1 DEF Updated
  <2> HIDE DEF d
  <2>3. \A q \in Psus : limit[q] = IF q = p THEN custom.limit[q] - 5 ELSE custom.limit[q]
    BY <2>1
  <2> HIDE DEF limit
  <2> QED
    BY <2>2, <2>3
<1>6. \A q \in Psus \ {p} : stream'.limit[q] = custom.limit[q]
  BY <1>5
<1>7. ASSUME NEW q \in Psus
      PROVE  /\ stream'.limit[q] \in {custom.limit[q], custom.limit[q] - 5}
             /\ stream'.limit[q] >= Min({custom.limit[q], 1266})
             /\ stream'.start[q] < custom.start[q] =>
                  custom.limit[q] < ac2dc_power_DECREASE_START_VOLTAGE
  <2>1. custom.limit[q] \in Int /\ custom.start[q] \in Int
    BY <1>3
  <2>2. /\ Min({custom.limit[q], 1266}) <= custom.limit[q]
        /\ Min({custom.limit[q], 1266}) <= 1266
        /\ Min({custom.limit[q], 1266}) \in Int
    BY <2>1, MinWith1266
  <2>3. stream'.limit[q] < 1240 => q # p /\ custom.limit[q] < 1240
    BY <1>4, <1>5, <2>1
  <2>4. stream'.start[q] < custom.start[q] => stream'.limit[q] < 1240
    BY <1>5, <2>1 DEF Lowered, ac2dc_power_DECREASE_START_VOLTAGE
  <2>5. stream'.limit[q] >= Min({custom.limit[q], 1266})
    BY <1>4, <1>5, <2>1, <2>2
  <2> QED
    BY <1>5, <2>3, <2>4, <2>5 DEF ac2dc_power_DECREASE_START_VOLTAGE
<1> QED
  BY <1>6, <1>7

(* An overload lowers one limit by 5, never under 1266, and a start        *)
(* voltage only with a low limit, unless the user edited the file.         *)
THEOREM OverloadKeeps == Spec => OverloadKeepsPower
  BY Invariance, OverloadIsSmall, PTL DEF Spec, OverloadKeepsPower
-----------------------------------------------------------------------------
(* The limits in force.  A higher range allows no less power, so that the  *)
(* first range whose limit is exceeded is the one to obey.                 *)
LEMMA AplGrows ==
  ASSUME NEW t, NEW r \in Ranges, NEW s \in Ranges, r <= s
  PROVE  apl(t, r) <= apl(t, s)
<1>1. CASE t = "MURATA_NEW"
  BY <1>1 DEF apl, Ranges
<1>2. CASE t = "EMERSON_1_2"
  BY <1>2 DEF apl, Ranges
<1>3. CASE t \notin {"MURATA_NEW", "EMERSON_1_2"}
  BY <1>3 DEF apl, Ranges
<1> QED
  BY <1>1, <1>2, <1>3

(* A set of ranges of input voltages has a first one.                      *)
LEMMA FirstRange ==
  ASSUME NEW S \in SUBSET Ranges, S # {}
  PROVE  Min(S) \in S /\ \A r \in S : Min(S) <= r
<1>1. \A r \in S : r \in {105, 114, 119, 195, 210}
  BY DEF Ranges
<1>2. \E x \in S : \A y \in S : x <= y
  <2>1. CASE 105 \in S
    BY <1>1, <2>1
  <2>2. CASE 105 \notin S /\ 114 \in S
    BY <1>1, <2>2
  <2>3. CASE 105 \notin S /\ 114 \notin S /\ 119 \in S
    BY <1>1, <2>3
  <2>4. CASE 105 \notin S /\ 114 \notin S /\ 119 \notin S /\ 195 \in S
    BY <1>1, <2>4
  <2>5. CASE 105 \notin S /\ 114 \notin S /\ 119 \notin S /\ 195 \notin S
    BY <1>1, <2>5
  <2> QED
    BY <2>1, <2>2, <2>3, <2>4, <2>5
<1> QED
  BY <1>2 DEF Min

(* What a fix leaves of a limit f, capped to l, in a range r of a supply.  *)
LEMMA FixSuffices ==
  ASSUME NEW p \in Psus, NEW s \in Int, NEW l \in Int, NEW f \in Int,
         Limited(p), NEW r \in RangesOf(psu[p].voltage)
  PROVE  (IF FixOf(p, s, l) > 0 THEN f - FixOf(p, s, l) ELSE f)
           <= apl(psu[p].type, r) + f - l
<1> DEFINE t == psu[p].type
           X == Exceeded(p, s, l)
           m == Min(X)
<1>1. /\ X \subseteq Ranges /\ r \in Ranges
      /\ \A q \in X : s > 660 \/ l > apl(t, q)
      /\ r \notin X => ~(s > 660) /\ ~(l > apl(t, r))
      /\ s > 660 => r \in X
  BY DEF Exceeded, RangesOf
<1>2. apl(t, r) \in Nat
  BY AplType
<1>3. CASE X = {}
  <2>1. FixOf(p, s, l) = 0
    BY <1>3 DEF FixOf
  <2>2. l <= apl(t, r)
    BY <1>1, <1>2, <1>3
  <2> HIDE DEF t
  <2>3. f <= apl(t, r) + f - l
    BY <1>2, <2>2
  <2> QED
    BY <2>1, <2>3 DEF t
<1>4. CASE X # {}
  <2>1. m \in X /\ \A q \in X : m <= q
    BY <1>1, <1>4, FirstRange
  <2>2. FixOf(p, s, l) = l - apl(t, m)
    BY <1>4 DEF FixOf
  <2>3. apl(t, m) \in Nat
    BY AplType
  <2>4. r \in X => apl(t, m) <= apl(t, r)
    BY <1>1, <2>1, AplGrows
  <2>5. (s > 660 \/ l > apl(t, m)) /\ (r \notin X => l <= apl(t, r))
    BY <1>1, <1>2, <2>1
  <2>6. s > 660 => r \in X
    BY <1>1
  <2> HIDE DEF t, X, m
  <2>7. (IF l - apl(t, m) > 0 THEN f - (l - apl(t, m)) ELSE f) <= apl(t, r) + f - l
    BY <1>2, <2>3, <2>4, <2>5, <2>6
  <2> QED
    BY <2>2, <2>7 DEF t
<1> QED
  BY <1>3, <1>4

(* A fix that is about to be made is the one for the file that was read.   *)
CappedLimit(p) == Capped(psu[p].type, custom.limit[p])
FixIsComputed ==
  at = "fixing" /\ ~edited =>
    \A p \in Psus : fix[p] = FixOf(p, custom.start[p], CappedLimit(p))
LInv == FixIsComputed /\ LimitInForce

(* LimitInForce of a file, settings and supplies, now and after a step.    *)
Bearable(file, settings, supplies, m) ==
  \A p \in Psus :
    /\ settings.limit[p] <= file.limit[p]
    /\ supplies[p].type # "UNKNOWN" /\ ~m.generic[p] =>
         \A r \in RangesOf(supplies[p].voltage) :
           settings.limit[p] <= apl(supplies[p].type, r)
                                + file.limit[p] - Capped(supplies[p].type, file.limit[p])

(* LimitInForce after a step, in terms of the state after it.              *)
LEMMA BearableAfter ==
  LimitInForce' = (Checked' /\ ~edited' /\ ~mixed' =>
                     Bearable(custom', vm', psu', machine'))
  BY DEF LimitInForce, Bearable, Limited

(* The correction depends on file, supply and machine only.                *)
LEMMA SameFix ==
  ASSUME UNCHANGED <<custom, psu, machine>>
  PROVE  \A p \in Psus : (FixOf(p, custom.start[p], CappedLimit(p)))' =
                           FixOf(p, custom.start[p], CappedLimit(p))
  BY DEF FixOf, Limited, Exceeded, CappedLimit

(* The two steps that put limits in force.                                 *)
LEMMA ReadLimits ==
  ASSUME IInv, LInv, ReadWorkMode
  PROVE  LInv'
<1>1. CASE Ended
  BY <1>1 DEF Ended, LInv, FixIsComputed, LimitInForce, Checked
<1>2. CASE ignore_fcc /\ at' = "read" /\ UNCHANGED ignore_fcc
  BY <1>2 DEF LInv, FixIsComputed, LimitInForce, Checked
<1>3. CASE /\ Readable /\ ~ignore_fcc /\ ~TooLow
           /\ LET limit == [p \in Psus |-> Capped(psu[p].type, custom.limit[p])] IN
                /\ Read([custom EXCEPT !.limit = limit])
                /\ fix' = [p \in Psus |-> FixOf(p, custom.start[p], limit[p])]
           /\ IF fix' = NoFix THEN unlink /\ at' = "read"
              ELSE at' = "fixing" /\ UNCHANGED alternative
           /\ UNCHANGED <<psu, stream>> /\ UNCHANGED <<custom, flushed, machine, ignore_fcc, mixed, cut>>
  <2> DEFINE limit == [p \in Psus |-> Capped(psu[p].type, custom.limit[p])]
  <2>1. custom \in Settings
    BY <1>3 DEF Readable, IInv, TypeOK
  <2>2. custom.limit \in [Psus -> Int] /\ custom.start \in [Psus -> Int]
    BY <2>1 DEF Settings
  <2>3. \A p \in Psus : CappedLimit(p) \in Int /\ CappedLimit(p) <= custom.limit[p]
    BY <2>2, CappedType DEF CappedLimit
  <2>4. fix' = [p \in Psus |-> FixOf(p, custom.start[p], CappedLimit(p))]
    BY <1>3 DEF CappedLimit
  <2>5. \A p \in Psus : vm'.limit[p] = CappedLimit(p)
    <3>1. vm' = InForce([custom EXCEPT !.limit = limit])
      BY <1>3 DEF Read
    <3>2. [custom EXCEPT !.limit = limit].limit = limit
      BY <2>1 DEF Settings
    <3> QED
      BY <3>1, <3>2 DEF InForce, CappedLimit
  <2>6. FixIsComputed'
    BY <1>3, <2>4, SameFix DEF FixIsComputed
  <2>7. ASSUME at' = "read", NEW p \in Psus, Limited(p), NEW r \in RangesOf(psu[p].voltage)
        PROVE  CappedLimit(p) <= apl(psu[p].type, r)
    <3>1. FixOf(p, custom.start[p], CappedLimit(p)) = 0
      BY <1>3, <2>4, <2>7 DEF NoFix
    <3>2. custom.limit[p] <= apl(psu[p].type, r) + custom.limit[p] - CappedLimit(p)
      <4>1. /\ custom.start[p] \in Int /\ custom.limit[p] \in Int
            /\ CappedLimit(p) \in Int
        BY <2>2, <2>3
      <4>2. (IF FixOf(p, custom.start[p], CappedLimit(p)) > 0
             THEN custom.limit[p] - FixOf(p, custom.start[p], CappedLimit(p))
             ELSE custom.limit[p])
              <= apl(psu[p].type, r) + custom.limit[p] - CappedLimit(p)
        BY <2>7, <4>1, FixSuffices
      <4> QED
        BY <3>1, <4>2
    <3>3. apl(psu[p].type, r) \in Nat /\ custom.limit[p] \in Int /\ CappedLimit(p) \in Int
      BY <2>2, <2>3, AplType
    <3> QED
      BY <3>2, <3>3
  <2>8. ASSUME at' = "read" PROVE Bearable(custom, vm', psu, machine)
    <3>1. ASSUME NEW p \in Psus, Limited(p), NEW r \in RangesOf(psu[p].voltage)
          PROVE  CappedLimit(p) <= apl(psu[p].type, r) + custom.limit[p] - CappedLimit(p)
      <4>1. CappedLimit(p) <= apl(psu[p].type, r)
        BY <2>7, <2>8, <3>1
      <4> QED
        BY <2>2, <2>3, <4>1, AplType
    <3> QED
      BY <2>3, <2>5, <3>1 DEF Bearable, Limited, CappedLimit
  <2>9. LimitInForce'
    BY <1>3, <2>8, BearableAfter DEF Checked
  <2> QED
    BY <2>6, <2>9 DEF LInv
<1> QED
  BY <1>1, <1>2, <1>3 DEF ReadWorkMode

(* After the correction every limit can be borne.                          *)
LEMMA FixedLimits ==
  ASSUME IInv, LInv, FixLimits
  PROVE  LInv'
<1>1. custom \in Settings /\ UNCHANGED <<custom, psu, machine, edited>> /\ mixed' = edited
  BY DEF IInv, FileRead, Running, FixLimits
<1>2. custom.limit \in [Psus -> Int] /\ custom.start \in [Psus -> Int]
  BY <1>1 DEF Settings
<1>3. \A p \in Psus : CappedLimit(p) \in Int /\ CappedLimit(p) <= custom.limit[p]
  BY <1>2, CappedType DEF CappedLimit
<1>4. ASSUME ~edited PROVE Bearable(custom, vm', psu, machine)
  <2>1. \A p \in Psus : vm'.limit[p] = IF fix[p] > 0 THEN custom.limit[p] - fix[p]
                                       ELSE custom.limit[p]
    BY DEF FixLimits, InForce, Updated
  <2>2. \A p \in Psus : fix[p] = FixOf(p, custom.start[p], CappedLimit(p))
    BY <1>4 DEF LInv, FixIsComputed, FixLimits
  <2>3. fix \in [Psus -> Int]
    BY DEF IInv, TypeOK
  <2>4. \A p \in Psus : vm'.limit[p] <= custom.limit[p]
    BY <1>2, <2>1, <2>3
  <2>5. ASSUME NEW p \in Psus, Limited(p), NEW r \in RangesOf(psu[p].voltage)
        PROVE  vm'.limit[p] <= apl(psu[p].type, r) + custom.limit[p] - CappedLimit(p)
    BY <1>2, <1>3, <2>1, <2>2, <2>5, FixSuffices
  <2> QED
    BY <2>4, <2>5 DEF Bearable, Limited, CappedLimit
<1>5. LimitInForce'
  BY <1>1, <1>4, BearableAfter
<1> QED
  BY <1>5 DEF LInv, FixIsComputed, FixLimits

(* Everything else leaves the limits in force and what they depend on      *)
(* alone, or ends the process, or is not what the property is about.       *)
LEMMA OtherLimits ==
  ASSUME LInv,
         \/ ac2dc_init \/ test_fix_ac2dc_limits \/ Truncate \/ Close \/ MeasurePower
         \/ UserEdits \/ UserSetsFlag \/ Killed \/ Flush \/ PowerFails \/ UNCHANGED vars
  PROVE  LInv'
<1>1. CASE at' \in {"off", "detected", "lowered", "rewriting"}
  BY <1>1 DEF LInv, FixIsComputed, LimitInForce, Checked
<1>2. CASE UserEdits
  BY <1>2 DEF UserEdits, LInv, FixIsComputed, LimitInForce, Checked
<1>3. CASE /\ at' = "mining" /\ at \in {"read", "mining"}
           /\ UNCHANGED <<custom, psu, vm, machine, ignore_fcc, edited, mixed>>
  <2>1. LimitInForce = (Checked /\ ~edited /\ ~mixed => Bearable(custom, vm, psu, machine))
    BY DEF LimitInForce, Bearable, Limited
  <2>2. Checked' => Checked
    BY <1>3 DEF Checked
  <2> QED
    BY <1>3, <2>1, <2>2, BearableAfter DEF LInv, FixIsComputed
<1>4. CASE UNCHANGED <<at, custom, psu, vm, fix, machine, ignore_fcc, edited, mixed>>
  <2>1. LimitInForce = (Checked /\ ~edited /\ ~mixed => Bearable(custom, vm, psu, machine))
    BY DEF LimitInForce, Bearable, Limited
  <2>2. Checked' = Checked
    BY <1>4 DEF Checked
  <2>3. LimitInForce'
    BY <1>4, <2>1, <2>2, BearableAfter DEF LInv
  <2>4. FixIsComputed'
    BY <1>4, SameFix DEF LInv, FixIsComputed
  <2> QED
    BY <2>3, <2>4 DEF LInv
<1>5. CASE ac2dc_init \/ Truncate \/ Close \/ MeasurePower \/ Killed \/ PowerFails
  <2>1. at' \in {"off", "detected", "rewriting"}
    BY <1>5 DEF ac2dc_init, Truncate, Close, MeasurePower, Killed, PowerFails, Ended
  <2> QED
    BY <1>1, <2>1
<1>6. CASE test_fix_ac2dc_limits
  BY <1>1, <1>3, <1>6
  DEF test_fix_ac2dc_limits, Overloaded, Lower, Ended, files, history
<1>7. CASE UserSetsFlag
  <2>1. at' = "off"
    BY <1>7 DEF UserSetsFlag
  <2> QED
    BY <1>1, <2>1
<1>8. CASE Flush \/ UNCHANGED vars
  BY <1>4, <1>8 DEF Flush, vars, files, history
<1> QED
  BY <1>2, <1>5, <1>6, <1>7, <1>8

(* No supply is given more than the file says, nor more than the range of  *)
(* its input voltage allows, except for the part of the file's limit that  *)
(* is above its type's cap.                                                *)
THEOREM LimitsAreBearable == Spec => []LimitInForce
<1>1. Init => LInv
  BY DEF Init, LInv, FixIsComputed, LimitInForce, Checked
<1>2. IInv /\ LInv /\ [Next]_vars => LInv'
  BY ReadLimits, FixedLimits, OtherLimits DEF Next
<1>3. LInv => LimitInForce
  BY DEF LInv
<1> QED
  BY <1>1, <1>2, <1>3, Invariance, PTL DEF Spec
-----------------------------------------------------------------------------
(* The steps that neither put settings in force nor end the process leave  *)
(* alone what the two properties below depend on.                          *)
LEMMA OtherSteps ==
  ASSUME \/ ac2dc_init \/ test_fix_ac2dc_limits \/ Truncate \/ Close \/ MeasurePower
         \/ UserEdits \/ UserSetsFlag \/ Killed \/ Flush \/ PowerFails \/ UNCHANGED vars
  PROVE  \/ ~Checked'
         \/ /\ Checked /\ UNCHANGED <<alternative, vm, psu, machine>>
            /\ (custom' = custom /\ edited' = edited) \/ edited' = TRUE
<1>1. CASE \/ ac2dc_init \/ Truncate \/ Close \/ MeasurePower \/ UserSetsFlag \/ Killed
           \/ PowerFails
  BY <1>1 DEF ac2dc_init, Truncate, Close, MeasurePower, UserSetsFlag, Killed, PowerFails, Ended, Checked
<1>2. CASE test_fix_ac2dc_limits
  BY <1>2
  DEF test_fix_ac2dc_limits, Overloaded, Lower, Ended, Checked, files, history
<1>3. CASE UserEdits \/ Flush \/ UNCHANGED vars
  BY <1>3 DEF UserEdits, Flush, vars, files, history, Checked
<1> QED
  BY <1>1, <1>2, <1>3

(* A lower voltage is no higher a vtrim.                                   *)
LEMMA VtrimGrows ==
  ASSUME NEW v \in Int, NEW w \in Int, v <= w
  PROVE  VOLTAGE_TO_VTRIM_MILLI(v) <= VOLTAGE_TO_VTRIM_MILLI(w)
  BY DEF VOLTAGE_TO_VTRIM_MILLI

(* A supply that needs no fix has a low start voltage, or just the limit   *)
(* of its range.                                                           *)
LEMMA NoFixNeeded ==
  ASSUME NEW p \in Psus, NEW s \in Int, NEW l \in Int, Limited(p),
         RangesOf(psu[p].voltage) # {}, FixOf(p, s, l) = 0
  PROVE  s <= 660 \/ l = apl(psu[p].type, Min(RangesOf(psu[p].voltage)))
<1> SUFFICES ASSUME s > 660 PROVE l = apl(psu[p].type, Min(RangesOf(psu[p].voltage)))
  OBVIOUS
<1>1. Exceeded(p, s, l) = RangesOf(psu[p].voltage)
  BY DEF Exceeded
<1>2. FixOf(p, s, l) = l - apl(psu[p].type, Min(RangesOf(psu[p].voltage)))
  BY <1>1 DEF FixOf
<1>3. apl(psu[p].type, Min(RangesOf(psu[p].voltage))) \in Nat
  BY AplType
<1> QED
  BY <1>2, <1>3

(* What a start without a fix puts in force.                               *)
LEMMA ReadSettings ==
  ASSUME IInv, ReadWorkMode, Checked'
  PROVE  /\ custom \in Settings /\ alternative' = NoFile
         /\ UNCHANGED <<custom, psu, machine>>
         /\ vm'.start = custom.start
         /\ \A p \in Psus :
              /\ vm'.limit[p] = CappedLimit(p) /\ CappedLimit(p) \in Int
              /\ vm'.vtrim_start[p] = VOLTAGE_TO_VTRIM_MILLI(custom.start[p])
              /\ FixOf(p, custom.start[p], CappedLimit(p)) = 0
<1> DEFINE limit == [p \in Psus |-> Capped(psu[p].type, custom.limit[p])]
<1>1. /\ Readable /\ vm' = InForce([custom EXCEPT !.limit = limit])
      /\ fix' = [p \in Psus |-> FixOf(p, custom.start[p], limit[p])]
      /\ fix' = NoFix /\ alternative' = NoFile /\ UNCHANGED <<custom, psu, machine>>
  BY DEF ReadWorkMode, Checked, Ended, Read, unlink
<1>2. custom \in Settings
  BY <1>1 DEF Readable, IInv, TypeOK
<1>3. \A p \in Psus : CappedLimit(p) \in Int
  BY <1>2, CappedType DEF CappedLimit, Settings
<1>4. /\ vm'.start = custom.start /\ vm'.limit = limit
      /\ vm'.vtrim_start = [p \in Psus |-> VOLTAGE_TO_VTRIM_MILLI(custom.start[p])]
  BY <1>1, <1>2 DEF InForce, Settings
<1>5. \A p \in Psus : FixOf(p, custom.start[p], CappedLimit(p)) = 0
  BY <1>1 DEF NoFix, CappedLimit
<1> QED
  BY <1>1, <1>2, <1>3, <1>4, <1>5 DEF CappedLimit

(* Every step keeps start voltages as low as their limits ask.             *)
LEMMA StartStep == IInv /\ StartVoltageLowered /\ [Next]_vars => StartVoltageLowered'
<1> SUFFICES ASSUME IInv, StartVoltageLowered, [Next]_vars, Checked'
             PROVE  StartVoltageLowered'
  BY DEF StartVoltageLowered
<1>1. ASSUME NEW S \in [Psus -> Int], S = vm'.vtrim_start, UNCHANGED <<psu, machine>>,
             \A p \in Psus :
               Limited(p) /\ RangesOf(psu[p].voltage) # {}
                 /\ vm'.limit[p] < ac2dc_power_DECREASE_START_VOLTAGE
                 /\ vm'.limit[p] # apl(psu[p].type, Min(RangesOf(psu[p].voltage)))
               => S[p] <= VOLTAGE_TO_VTRIM_MILLI(660)
      PROVE  StartVoltageLowered'
  BY <1>1 DEF StartVoltageLowered, Limited
<1>2. CASE ReadWorkMode
  <2>1. /\ custom \in Settings /\ UNCHANGED <<psu, machine>>
        /\ \A p \in Psus :
             /\ vm'.limit[p] = CappedLimit(p) /\ CappedLimit(p) \in Int
             /\ vm'.vtrim_start[p] = VOLTAGE_TO_VTRIM_MILLI(custom.start[p])
             /\ FixOf(p, custom.start[p], CappedLimit(p)) = 0
    BY <1>2, ReadSettings
  <2>2. \A p \in Psus : custom.start[p] \in Int
    BY <2>1 DEF Settings
  <2>3. ASSUME NEW p \in Psus, Limited(p), RangesOf(psu[p].voltage) # {},
               vm'.limit[p] # apl(psu[p].type, Min(RangesOf(psu[p].voltage)))
        PROVE  vm'.vtrim_start[p] <= VOLTAGE_TO_VTRIM_MILLI(660)
    <3>1. custom.start[p] <= 660
      BY <2>1, <2>2, <2>3, NoFixNeeded
    <3> QED
      BY <2>1, <2>2, <3>1, VtrimGrows
  <2>4. vm'.vtrim_start \in [Psus -> Int]
    BY <1>2, ReadOK DEF IInv, TypeOK
  <2> QED
    BY <1>1, <2>1, <2>3, <2>4
<1>3. CASE FixLimits
  <2> DEFINE l == [p \in Psus |-> IF fix[p] > 0 THEN custom.limit[p] - fix[p]
                                  ELSE custom.limit[p]]
  <2>1. custom \in Settings /\ fix \in [Psus -> Int] /\ UNCHANGED <<psu, machine>>
    BY <1>3 DEF IInv, FileRead, Running, FixLimits, TypeOK
  <2>2. /\ vm'.limit = l
        /\ vm'.vtrim_start =
             [p \in Psus |-> VOLTAGE_TO_VTRIM_MILLI(Lowered(p, custom.start[p], l[p]))]
    BY <1>3 DEF FixLimits, InForce, Updated
  <2>3. \A p \in Psus : custom.start[p] \in Int /\ l[p] \in Int
    BY <2>1 DEF Settings
  <2> HIDE DEF l
  <2>4. ASSUME NEW p \in Psus, vm'.limit[p] < ac2dc_power_DECREASE_START_VOLTAGE
        PROVE  vm'.vtrim_start[p] <= VOLTAGE_TO_VTRIM_MILLI(660)
    <3>1. Lowered(p, custom.start[p], l[p]) <= 660
      BY <2>2, <2>3, <2>4 DEF Lowered
    <3> QED
      BY <2>2, <2>3, <3>1, LoweredType, VtrimGrows
  <2>5. vm'.vtrim_start \in [Psus -> Int]
    BY <1>3, FixOK DEF IInv, TypeOK
  <2> QED
    BY <1>1, <2>1, <2>4, <2>5
<1>4. CASE Checked /\ UNCHANGED <<vm, psu, machine>>
  BY <1>4 DEF StartVoltageLowered, Limited
<1> QED
  BY <1>2, <1>3, <1>4, OtherSteps DEF Next

(* The converters of a supply with low input and a low limit start with a  *)
(* low voltage, unless the limit is just that of the range.                *)
THEOREM StartIsLow == Spec => []StartVoltageLowered
<1>1. Init => StartVoltageLowered
  BY DEF Init, StartVoltageLowered, Checked
<1> QED
  BY <1>1, StartStep, Invariance, PTL DEF Spec

(* Every step keeps the file in force that was read.                       *)
LEMMA AlternativeStep == IInv /\ AlternativeInForce /\ [Next]_vars => AlternativeInForce'
<1> SUFFICES ASSUME IInv, AlternativeInForce, [Next]_vars, Checked'
             PROVE  AlternativeInForce'
  BY DEF AlternativeInForce
<1>1. CASE ReadWorkMode
  BY <1>1, ReadSettings DEF AlternativeInForce, CappedLimit
<1>2. CASE FixLimits
  <2>1. custom \in Settings /\ fix \in [Psus -> Int]
    BY <1>2 DEF IInv, FileRead, Running, FixLimits, TypeOK
  <2>2. Updated(custom, fix) \notin {NoFile, Empty}
    BY <2>1, UpdatedType, WorkModeAssumption
  <2> QED
    BY <1>2, <2>2 DEF FixLimits, AlternativeInForce, InForce
<1>3. CASE /\ Checked /\ UNCHANGED <<alternative, vm, psu, machine>>
           /\ (custom' = custom /\ edited' = edited) \/ edited' = TRUE
  BY <1>3 DEF AlternativeInForce, InForce
<1> QED
  BY <1>1, <1>2, <1>3, OtherSteps DEF Next

(* /tmp/mg_custom_mode tells the settings in force whenever it is there,   *)
(* and is there whenever they are not those of the user's file.            *)
THEOREM AlternativeIsInForce == Spec => []AlternativeInForce
<1>1. Init => AlternativeInForce
  BY DEF Init, AlternativeInForce, Checked
<1> QED
  BY <1>1, AlternativeStep, Invariance, PTL DEF Spec
=============================================================================
