-------------------------- MODULE ExitNicelyProofs -------------------------
(***************************************************************************)
(* Proofs about the bus and the end of the process, for any number of      *)
(* converters and threads, any boards and any number of failed transfers.  *)
(* A state is what each thread has before it; so most of this is about     *)
(* sequences of operations that are put before one another.  The last part *)
(* is about the switches: an access reaches its converter only.            *)
(***************************************************************************)
EXTENDS ExitNicely, SequenceTheorems, FiniteSetTheorems, WellFoundedInduction, TLAPS

(* A set of numbers that is not empty has a least one: the sets of the     *)
(* smaller numbers are finite, and one of them has no other in it.         *)
LEMMA Least ==
  ASSUME NEW T \in SUBSET Nat, T # {}
  PROVE  Min(T) \in T /\ \A y \in T : Min(T) <= y
<1> DEFINE Below(n) == 0 .. n - 1
           U == {Below(n) : n \in T}
<1>1. \A n \in Nat : Below(n) \subseteq Nat /\ IsFiniteSet(Below(n))
  BY FS_Interval
<1>2. U \subseteq FiniteSubsetsOf(Nat) /\ U # {}
  <2> HIDE DEF Below
  <2> QED
    BY <1>1 DEF FiniteSubsetsOf
<1>3. PICK u \in U : \A v \in U : ~ (<<v, u>> \in StrictSubsetOrdering(Nat))
  <2> HIDE DEF U
  <2> QED
    BY <1>2, WFMin, FS_StrictSubsetOrderingWellFounded
<1>4. PICK x \in T : u = Below(x)
  BY <1>3
<1>5. ASSUME NEW y \in T, y < x
      PROVE  FALSE
  <2>1. Below(y) \subseteq Below(x) /\ x - 1 \in Below(x) /\ x - 1 \notin Below(y)
    BY <1>5
  <2>2. Below(y) \in SUBSET Nat /\ Below(x) \in SUBSET Nat
    BY <1>1
  <2> HIDE DEF Below
  <2>3. <<Below(y), Below(x)>> \in StrictSubsetOrdering(Nat)
    BY <2>1, <2>2 DEF StrictSubsetOrdering
  <2> QED
    BY <1>3, <1>4, <2>3
<1>6. \A y \in T : x <= y
  BY <1>5
<1> QED
  BY <1>6 DEF Min

(* A set of numbers with 0 and each next one holds all of them.            *)
LEMMA Counting ==
  ASSUME NEW T \in SUBSET Nat, 0 \in T, \A n \in T : n + 1 \in T
  PROVE  T = Nat
<1> SUFFICES ASSUME Nat \ T # {}
             PROVE  FALSE
  OBVIOUS
<1> DEFINE x == Min(Nat \ T)
<1>1. x \in Nat \ T /\ \A y \in Nat \ T : x <= y
  <2> DEFINE R == Nat \ T
  <2>1. R \in SUBSET Nat /\ R # {}
    OBVIOUS
  <2> HIDE DEF R
  <2>2. Min(R) \in R /\ \A y \in R : Min(R) <= y
    BY <2>1, Least
  <2> QED
    BY <2>2 DEF R
<1> HIDE DEF x
<1>2. x - 1 \in T /\ (x - 1) + 1 = x
  BY <1>1
<1> QED
  BY <1>1, <1>2

(* Numbers in their order.                                                 *)
Sorted(s, S) == \A i, j \in DOMAIN s : i < j => s[i] < s[j]

(* Every finite set of numbers can be put in order: the least one first.   *)
LEMMA CanBeSorted ==
  ASSUME NEW S \in SUBSET Nat, IsFiniteSet(S)
  PROVE  \E s \in [1 .. Cardinality(S) -> S] : Sorted(s, S)
<1> DEFINE OK(n) == \A V \in SUBSET Nat : IsFiniteSet(V) /\ Cardinality(V) = n
                      => \E s \in [1 .. n -> V] : Sorted(s, V)
           T == {n \in Nat : OK(n)}
<1>1. 0 \in T
  <2> SUFFICES ASSUME NEW V \in SUBSET Nat, IsFiniteSet(V), Cardinality(V) = 0
               PROVE  \E s \in [1 .. 0 -> V] : Sorted(s, V)
    OBVIOUS
  <2> DEFINE e == [i \in 1 .. 0 |-> 0]
  <2>1. e \in [1 .. 0 -> V] /\ Sorted(e, V)
    BY DEF Sorted
  <2> QED
    BY <2>1
<1>2. ASSUME NEW n \in T
      PROVE  n + 1 \in T
  <2> SUFFICES ASSUME NEW V \in SUBSET Nat, IsFiniteSet(V), Cardinality(V) = n + 1
               PROVE  \E s \in [1 .. n + 1 -> V] : Sorted(s, V)
    OBVIOUS
  <2> DEFINE m == Min(V)
             U == V \ {m}
  <2>1. m \in V /\ \A y \in V : m <= y
    <3>1. V # {}
      BY FS_EmptySet
    <3> QED
      BY <3>1, Least
  <2>2. U \in SUBSET Nat /\ IsFiniteSet(U) /\ Cardinality(U) = n
    <3> HIDE DEF m
    <3>1. IsFiniteSet(U) /\ Cardinality(U) = Cardinality(V) - 1
      BY <2>1, FS_RemoveElement
    <3>2. n \in Nat /\ U \in SUBSET Nat
      OBVIOUS
    <3> HIDE DEF U, OK
    <3>3. (n + 1) - 1 = n
      BY <3>2
    <3> QED
      BY <3>1, <3>2, <3>3
  <2> HIDE DEF m
  <2>3. PICK r \in [1 .. n -> U] : Sorted(r, U)
    BY <2>2
  <2> DEFINE s == [i \in 1 .. n + 1 |-> IF i = 1 THEN m ELSE r[i - 1]]
  <2>4. \A i \in 2 .. n + 1 : i - 1 \in 1 .. n /\ r[i - 1] \in V /\ m < r[i - 1]
    <3> SUFFICES ASSUME NEW i \in 2 .. n + 1
                 PROVE  i - 1 \in 1 .. n /\ r[i - 1] \in V /\ m < r[i - 1]
      OBVIOUS
    <3>1. i - 1 \in 1 .. n
      OBVIOUS
    <3>2. r[i - 1] \in V /\ r[i - 1] # m
      BY <2>3, <3>1
    <3>3. m \in Nat /\ r[i - 1] \in Nat /\ m <= r[i - 1]
      BY <2>1, <3>2
    <3> QED
      BY <3>1, <3>2, <3>3
  <2>5. s \in [1 .. n + 1 -> V]
    <3>1. \A i \in 1 .. n + 1 : i = 1 \/ i \in 2 .. n + 1
      OBVIOUS
    <3> QED
      BY <2>1, <2>4, <3>1
  <2>6. Sorted(s, V)
    <3> SUFFICES ASSUME NEW i \in 1 .. n + 1, NEW j \in 1 .. n + 1, i < j
                 PROVE  s[i] < s[j]
      BY DEF Sorted
    <3>1. j \in 2 .. n + 1
      OBVIOUS
    <3>2. CASE i = 1
      BY <2>4, <3>1, <3>2
    <3>3. CASE i # 1
      <4>1. i \in 2 .. n + 1 /\ i - 1 < j - 1
        BY <3>3
      <4>2. i - 1 \in DOMAIN r /\ j - 1 \in DOMAIN r
        BY <2>3, <2>4, <3>1, <4>1
      <4> QED
        BY <2>3, <3>1, <4>1, <4>2 DEF Sorted
    <3> QED
      BY <3>2, <3>3
  <2> HIDE DEF s
  <2> QED
    BY <2>5, <2>6
<1> HIDE DEF OK
<1>3. T = Nat
  <2> HIDE DEF T
  <2>1. T \in SUBSET Nat
    BY DEF T
  <2> QED
    BY <1>1, <1>2, <2>1, Counting
<1>4. Cardinality(S) \in Nat
  BY FS_CardinalityType
<1> QED
  BY <1>3, <1>4 DEF OK

N == Cardinality(Converters)

(* The loops over the converters go through each of them.                  *)
LEMMA InOrderIs ==
  /\ N \in Nat \ {0} /\ InOrder \in [1 .. N -> Converters]
  /\ \A d \in Converters : \E i \in 1 .. N : InOrder[i] = d
<1>1. Converters \in SUBSET Nat /\ IsFiniteSet(Converters) /\ Converters # {}
  <2>1. ASICS_COUNT \in Nat /\ Converters \subseteq 0 .. ASICS_COUNT - 1 /\ Converters # {}
    BY ExitAssumption
  <2>2. IsFiniteSet(0 .. ASICS_COUNT - 1)
    BY <2>1, FS_Interval
  <2>3. IsFiniteSet(Converters)
    BY <2>1, <2>2, FS_Subset
  <2> QED
    BY <2>1, <2>3
<1>2. N \in Nat \ {0}
  BY <1>1, FS_CardinalityType, FS_EmptySet DEF N
<1>3. InOrder \in [1 .. N -> Converters] /\ \A i, j \in 1 .. N : i < j => InOrder[i] < InOrder[j]
  <2>1. \E s \in [1 .. N -> Converters] : \A i, j \in DOMAIN s : i < j => s[i] < s[j]
    BY <1>1, CanBeSorted DEF N, Sorted
  <2>2. InOrder = CHOOSE s \in [1 .. N -> Converters] :
          \A i, j \in DOMAIN s : i < j => s[i] < s[j]
    BY DEF InOrder, N
  <2>3. InOrder \in [1 .. N -> Converters]
        /\ \A i, j \in DOMAIN InOrder : i < j => InOrder[i] < InOrder[j]
    BY <2>1, <2>2
  <2> QED
    BY <2>3
<1>4. InOrder \in Injection(1 .. N, Converters)
  <2> SUFFICES ASSUME NEW i \in 1 .. N, NEW j \in 1 .. N, InOrder[i] = InOrder[j]
               PROVE  i = j
    BY <1>3 DEF Injection, IsInjective
  <2>1. InOrder[i] \in Converters
    BY <1>3
  <2>2. ~ (InOrder[i] < InOrder[j]) /\ ~ (InOrder[j] < InOrder[i])
    <3>1. InOrder[i] \in Nat
      BY <1>1, <2>1
    <3>2. ~ (InOrder[i] < InOrder[i])
      BY <3>1
    <3> QED
      BY <3>2
  <2>3. ~ (i < j) /\ ~ (j < i)
    BY <1>3, <2>2
  <2>4. i \in Int /\ j \in Int
    BY <1>2
  <2> QED
    BY <2>3, <2>4
<1>5. Cardinality(1 .. N) = N
  BY <1>2, FS_Interval
<1>6. InOrder \in Surjection(1 .. N, Converters)
  BY <1>1, <1>4, <1>5, FS_Injection DEF N
<1> QED
  BY <1>2, <1>3, <1>6 DEF Surjection
-----------------------------------------------------------------------------
(* The switches and what is written to them.                               *)
Pins == {<<"board", b>> : b \in Boards} \cup PsuPin \cup SensorPin
Offsets == 0 .. 7
Switches == [primary : SUBSET Pins, group : [Boards -> [GROUPS -> SUBSET Offsets]]]
Writes == ({"primary"} \X SUBSET Pins) \cup ({"group"} \X GROUPS \X SUBSET Offsets)

(* A write leaves the switches set to something they can be set to.        *)
LEMMA WrittenType ==
  ASSUME NEW w \in Writes, NEW sw \in Switches
  PROVE  Written(w, sw) \in Switches
<1>1. CASE w \in {"primary"} \X SUBSET Pins
  BY <1>1 DEF Written, Switches
<1>2. CASE w \in {"group"} \X GROUPS \X SUBSET Offsets
  <2>1. w[1] # "primary" /\ w[2] \in GROUPS /\ w[3] \in SUBSET Offsets
    BY <1>2
  <2>2. sw.group \in [Boards -> [GROUPS -> SUBSET Offsets]]
    BY DEF Switches
  <2> DEFINE G == [b \in Boards |-> IF <<"board", b>> \in sw.primary
                                     THEN [sw.group[b] EXCEPT ![w[2]] = w[3]] ELSE sw.group[b]]
  <2>3. G \in [Boards -> [GROUPS -> SUBSET Offsets]]
    BY <2>1, <2>2
  <2>4. Written(w, sw) = [sw EXCEPT !.group = G]
    BY <2>1, <2>2 DEF Written
  <2> HIDE DEF G
  <2> QED
    BY <2>3, <2>4 DEF Switches
<1> QED
  BY <1>1, <1>2 DEF Writes

(* Several writes are made one after the other.                            *)
LEMMA WrittenAllIs ==
  ASSUME NEW ws \in Seq(Writes), NEW sw \in Switches
  PROVE  \E f \in [0 .. Len(ws) -> Switches] :
           /\ f[0] = sw /\ WrittenAll(ws, sw) = f[Len(ws)]
           /\ \A n \in 1 .. Len(ws) : f[n] = Written(ws[n], f[n - 1])
<1> DEFINE Does(f, n) == f[0] = sw /\ \A k \in 1 .. n : f[k] = Written(ws[k], f[k - 1])
           T == {n \in Nat : n <= Len(ws) => \E f \in [0 .. n -> Switches] : Does(f, n)}
<1>1. Len(ws) \in Nat /\ \A k \in 1 .. Len(ws) : ws[k] \in Writes
  BY LenProperties, ElementOfSeq
<1>2. 0 \in T
  <2> DEFINE f == [k \in 0 .. 0 |-> sw]
  <2>1. f \in [0 .. 0 -> Switches] /\ Does(f, 0)
    OBVIOUS
  <2> QED
    BY <2>1
<1>3. ASSUME NEW n \in T
      PROVE  n + 1 \in T
  <2> SUFFICES ASSUME n + 1 <= Len(ws)
               PROVE  \E f \in [0 .. n + 1 -> Switches] : Does(f, n + 1)
    <3>1. n + 1 \in Nat
      OBVIOUS
    <3> HIDE DEF Does
    <3> QED
      BY <3>1
  <2>1. n \in Nat /\ n <= Len(ws)
    BY <1>1
  <2>2. PICK f \in [0 .. n -> Switches] : Does(f, n)
    BY <2>1
  <2> DEFINE g == [k \in 0 .. n + 1 |-> IF k = n + 1 THEN Written(ws[n + 1], f[n]) ELSE f[k]]
  <2>3. Written(ws[n + 1], f[n]) \in Switches
    <3>1. ws[n + 1] \in Writes /\ f[n] \in Switches
      BY <1>1, <2>1
    <3> QED
      BY <3>1, WrittenType
  <2>4. \A k \in 0 .. n + 1 : k = n + 1 \/ k \in 0 .. n
    BY <2>1
  <2>5. g \in [0 .. n + 1 -> Switches]
    BY <2>3, <2>4
  <2>6. \A k \in 0 .. n : g[k] = f[k]
    BY <2>1
  <2>7. ASSUME NEW k \in 1 .. n + 1
        PROVE  g[k] = Written(ws[k], g[k - 1])
    <3>1. CASE k = n + 1
      <4>1. k - 1 = n /\ k \in 0 .. n + 1 /\ n \in 0 .. n
        BY <2>1, <3>1
      <4> QED
        BY <2>6, <3>1, <4>1
    <3>2. CASE k # n + 1
      <4>1. k \in 1 .. n /\ k \in 0 .. n /\ k - 1 \in 0 .. n
        BY <2>1, <3>2
      <4> QED
        BY <2>2, <2>6, <4>1
    <3> QED
      BY <3>1, <3>2
  <2>8. g[0] = sw
    BY <2>1, <2>2, <2>6
  <2> HIDE DEF g
  <2> QED
    BY <2>5, <2>7, <2>8
<1>4. Len(ws) \in T
  <2> HIDE DEF T
  <2>1. T \in SUBSET Nat
    BY DEF T
  <2> QED
    BY <1>1, <1>2, <1>3, <2>1, Counting
<1>5. PICK f \in [0 .. Len(ws) -> Switches] : Does(f, Len(ws))
  BY <1>1, <1>4
<1> DEFINE Made(h) == h = [n \in 0 .. Len(ws) |-> IF n = 0 THEN sw ELSE Written(ws[n], h[n - 1])]
           h == CHOOSE after : Made(after)
<1>6. Made(f)
  <2>1. \A n \in 0 .. Len(ws) : n = 0 \/ n \in 1 .. Len(ws)
    BY <1>1
  <2> QED
    BY <1>5, <2>1
<1>7. WrittenAll(ws, sw) = h[Len(ws)]
  BY DEF WrittenAll
<1>8. Made(h)
  <2> HIDE DEF Made
  <2> QED
    BY <1>6
<1>9. h[0] = sw /\ \A n \in 1 .. Len(ws) : h[n] = Written(ws[n], h[n - 1])
  <2>1. \A n \in 0 .. Len(ws) : h[n] = IF n = 0 THEN sw ELSE Written(ws[n], h[n - 1])
    <3> HIDE DEF h
    <3> QED
      BY <1>8
  <2>2. 0 \in 0 .. Len(ws) /\ \A n \in 1 .. Len(ws) : n \in 0 .. Len(ws) /\ n # 0
    BY <1>1
  <2> HIDE DEF h
  <2> QED
    BY <2>1, <2>2
<1> HIDE DEF h, Made
<1>10. h[Len(ws)] = f[Len(ws)]
  <2> DEFINE E == {n \in Nat : n <= Len(ws) => h[n] = f[n]}
  <2>1. 0 \in E
    BY <1>5, <1>9
  <2>2. ASSUME NEW n \in E
        PROVE  n + 1 \in E
    <3> SUFFICES ASSUME n + 1 <= Len(ws)
                 PROVE  h[n + 1] = f[n + 1]
      OBVIOUS
    <3>1. n + 1 \in 1 .. Len(ws) /\ (n + 1) - 1 = n /\ h[n] = f[n]
      BY <1>1
    <3> QED
      BY <1>5, <1>9, <3>1
  <2>3. E \in SUBSET Nat
    OBVIOUS
  <2> HIDE DEF E
  <2>4. E = Nat
    BY <2>1, <2>2, <2>3, Counting
  <2> QED
    BY <1>1, <2>4 DEF E
<1> QED
  BY <1>5, <1>7, <1>10
-----------------------------------------------------------------------------
(* The operations that there are, by their names.                          *)
SwitchOps == {"switch"} \X Seq(Writes)
AccessOps == {"access"} \X ConverterAccess \X Converters
Transactions == {"stats", "stats_or_restart", "vtrim", "disable", "enable"}
LockOps == ({"lock"} \X Transactions \X Converters) \cup {Locked("psu", 0), Locked("none", 0)}
UnlockOps == {Unlock} \cup ({"unlock"} \X Transactions)
ConverterOps == {"present", "absent", "enable"} \X Converters
Calls == {"may_exit", "exit_now", "overload?", "reset_power?", "restart", "restarted",
          "enter", "stop_all_work", "stopped", "exiting?", "unlock_all", "sleep", "exit",
          "start", "out"}
CallOps == {Call(f) : f \in Calls}
Ops == SwitchOps \cup AccessOps \cup LockOps \cup UnlockOps \cup ConverterOps \cup CallOps

(* A thread may be blocked by these, or by what takes their place.         *)
Blocks == {"lock", "enable", "overload?", "reset_power?"}
NoBlock(s, i, k) == \A j \in i .. k : s[j][1] \notin Blocks \cup {"stop_all_work"}
\* from its i-th operation on, i2c_mutex is unlocked before it is locked
Unlocks(s, i) == \E k \in i .. Len(s) : s[k][1] = "unlock" /\ NoBlock(s, i, k - 1)

InitAccess(op) == op[1] = "access" /\ op[2] = "init"
(* What has to be followed by an unlocking: it is done, or reached, with   *)
(* i2c_mutex locked.                                                       *)
Asks(op) == op[1] = "present" \/ InitAccess(op) \/ (op[1] = "lock" /\ op[2] = "none")

Select(d) == Switch(<<Primary(BoardPin(board_of(d))), Group(i2c_group(d), {dc2dc_offset(d)}),
                      Group(1 - i2c_group(d), {})>>)
OffOp(op) == \/ op[1] \in {"unlock", "exit", "switch"}
             \/ op[1] \in {"lock", "access"} /\ op[2] = "disable"
SleepAhead(s, i) == \E j \in i .. Len(s) : s[j][1] = "sleep"

Has(s, c) == \E i \in 1 .. Len(s) : s[i][1] = c

ExitIsLast(s, i) == s[i][1] = "exit" => i = Len(s)
AllAreDisabled(s, i) ==
  s[i][1] = "sleep" =>
    /\ Len(s) = i + N + 1 /\ s[Len(s)][1] = "exit"
    /\ \A k \in 1 .. N : s[i + k] = Locked("disable", InOrder[k])
ThenSleeps(s, i) == s[i][1] = "unlock_all" => i < Len(s) /\ s[i + 1][1] = "sleep"
Recovers(s, i) ==
  \A u \in i + 1 .. Len(s) : s[u][1] = "unlock_all" =>
    /\ ~ InitAccess(s[i])
    /\ s[i][1] \in Blocks => \E j \in i + 1 .. Len(s) : s[j] = Call("restarted")
SwitchesOff(s, i) ==
  s[Len(s)][1] = "exit" /\ ~ SleepAhead(s, i) =>
    /\ OffOp(s[i])
    /\ s[i][1] = "access" => i = 1 \/ s[i - 1] = Select(s[i][3])
Answered(s, i) == Asks(s[i]) => Unlocks(s, i + 1)

(* What a thread has before it: an exit ends it, sleeps before it switches *)
(* the converters off, each of them, and has freed the mutexes before      *)
(* that; what locks i2c_mutex unlocks it.                                  *)
Program(s) ==
  /\ s \in Seq(Ops)
  /\ \A i \in 1 .. Len(s) :
       /\ ExitIsLast(s, i) /\ AllAreDisabled(s, i) /\ ThenSleeps(s, i)
       /\ Recovers(s, i) /\ SwitchesOff(s, i) /\ Answered(s, i)

(* What an operation is about, by its name.                                *)
LEMMA OpsAre ==
  ASSUME NEW op \in Ops
  PROVE  /\ op[1] \in Calls => op = Call(op[1])
         /\ op[1] = "switch" => op[2] \in Seq(Writes)
         /\ op[1] = "access" => op[2] \in ConverterAccess /\ op[3] \in Converters
         /\ op[1] = "lock" => \/ op = Locked("psu", 0) \/ op = Locked("none", 0)
                              \/ op[2] \in Transactions /\ op[3] \in Converters
         /\ op[1] \in {"present", "absent", "enable"} => op[2] \in Converters
<1>1. CASE op \in SwitchOps
  <2>1. op[1] = "switch" /\ op[2] \in Seq(Writes)
    BY <1>1 DEF SwitchOps
  <2> QED
    BY <2>1 DEF Calls
<1>2. CASE op \in AccessOps
  <2>1. op[1] = "access" /\ op[2] \in ConverterAccess /\ op[3] \in Converters
    BY <1>2 DEF AccessOps
  <2> QED
    BY <2>1 DEF Calls
<1>3. CASE op \in LockOps
  <2>1. op[1] = "lock"
    BY <1>3 DEF LockOps, Locked
  <2>2. \/ op = Locked("psu", 0) \/ op = Locked("none", 0)
        \/ op[2] \in Transactions /\ op[3] \in Converters
    BY <1>3 DEF LockOps
  <2> QED
    BY <2>1, <2>2 DEF Calls
<1>4. CASE op \in UnlockOps
  <2>1. op[1] = "unlock"
    BY <1>4 DEF UnlockOps, Unlock
  <2> QED
    BY <2>1 DEF Calls
<1>5. CASE op \in ConverterOps
  <2>1. op[1] \in {"present", "absent", "enable"} /\ op[2] \in Converters
    BY <1>5 DEF ConverterOps
  <2> QED
    BY <2>1 DEF Calls
<1>6. CASE op \in CallOps
  <2>1. PICK f \in Calls : op = Call(f)
    BY <1>6 DEF CallOps
  <2>2. op[1] = f
    BY <2>1 DEF Call
  <2>3. op[1] \notin {"switch", "access", "lock", "present", "absent", "enable"}
    BY <2>2 DEF Calls
  <2> QED
    BY <2>1, <2>2, <2>3
<1> QED
  BY <1>1, <1>2, <1>3, <1>4, <1>5, <1>6 DEF Ops

(* An operation has a name.                                                *)
LEMMA OpsAreNotEmpty ==
  ASSUME NEW op \in Ops
  PROVE  op # <<>>
<1>1. CASE op \in SwitchOps
  <2> DEFINE W == Seq(Writes)
  <2>1. op \in {"switch"} \X W
    BY <1>1 DEF SwitchOps
  <2> HIDE DEF W
  <2> QED
    BY <2>1
<1>2. CASE op \in AccessOps
  BY <1>2 DEF AccessOps
<1>3. CASE op \in LockOps
  BY <1>3 DEF LockOps, Locked
<1>4. CASE op \in UnlockOps
  BY <1>4 DEF UnlockOps, Unlock
<1>5. CASE op \in ConverterOps
  BY <1>5 DEF ConverterOps
<1>6. CASE op \in CallOps
  BY <1>6 DEF CallOps, Call
<1> QED
  BY <1>1, <1>2, <1>3, <1>4, <1>5, <1>6 DEF Ops

(* What is left of a sequence without its first m operations.              *)
Suffix(r, s, m) ==
  /\ r \in Seq(Ops) /\ m \in 0 .. Len(s) /\ Len(r) = Len(s) - m
  /\ \A i \in 1 .. Len(r) : r[i] = s[i + m]

(* The first operation, and what is left without it.                       *)
LEMMA TailIs ==
  ASSUME NEW s \in Seq(Ops), s # <<>>
  PROVE  /\ Len(s) \in Nat \ {0} /\ Head(s) = s[1] /\ s[1] \in Ops
         /\ Suffix(Tail(s), s, 1)
<1>1. Len(s) \in Nat \ {0}
  BY EmptySeq
<1>2. Head(s) = s[1] /\ s[1] \in Ops
  BY <1>1, ElementOfSeq
<1>3. Tail(s) \in Seq(Ops) /\ Len(Tail(s)) = Len(s) - 1
      /\ \A i \in 1 .. Len(Tail(s)) : Tail(s)[i] = s[i + 1]
  BY HeadTailProperties
<1> QED
  BY <1>1, <1>2, <1>3 DEF Suffix

(* Whether i2c_mutex is unlocked does not depend on what was before.       *)
LEMMA SuffixUnlocks ==
  ASSUME NEW s \in Seq(Ops), NEW r, NEW m, Suffix(r, s, m), NEW i \in 1 .. Len(r) + 1
  PROVE  Unlocks(r, i) <=> Unlocks(s, i + m)
<1>1. Len(s) \in Nat /\ m \in Nat /\ Len(r) \in Nat /\ Len(s) = Len(r) + m
  BY LenProperties DEF Suffix
<1>2. \A j \in i .. Len(r) : r[j] = s[j + m] /\ j + m \in i + m .. Len(s)
  BY <1>1 DEF Suffix
<1>3. ASSUME Unlocks(r, i)
      PROVE  Unlocks(s, i + m)
  <2>1. PICK k \in i .. Len(r) : r[k][1] = "unlock" /\ NoBlock(r, i, k - 1)
    BY <1>3 DEF Unlocks
  <2>k. k \in i .. Len(r)
    BY <2>1
  <2>2. k + m \in i + m .. Len(s) /\ s[k + m][1] = "unlock"
    BY <1>2, <2>1
  <2>3. NoBlock(s, i + m, (k + m) - 1)
    <3> SUFFICES ASSUME NEW j \in i + m .. (k + m) - 1
                 PROVE  s[j][1] \notin Blocks \cup {"stop_all_work"}
      BY DEF NoBlock
    <3>1. j - m \in i .. k - 1 /\ j - m \in i .. Len(r) /\ (j - m) + m = j
      BY <1>1, <2>k
    <3> QED
      BY <1>2, <2>1, <3>1 DEF NoBlock
  <2> QED
    BY <2>2, <2>3 DEF Unlocks
<1>4. ASSUME Unlocks(s, i + m)
      PROVE  Unlocks(r, i)
  <2>1. PICK k \in i + m .. Len(s) : s[k][1] = "unlock" /\ NoBlock(s, i + m, k - 1)
    BY <1>4 DEF Unlocks
  <2>2. k - m \in i .. Len(r) /\ (k - m) + m = k
    BY <1>1, <2>1
  <2>3. r[k - m][1] = "unlock"
    BY <1>2, <2>1, <2>2
  <2>4. NoBlock(r, i, (k - m) - 1)
    <3> SUFFICES ASSUME NEW j \in i .. (k - m) - 1
                 PROVE  r[j][1] \notin Blocks \cup {"stop_all_work"}
      BY DEF NoBlock
    <3>1. j + m \in i + m .. k - 1 /\ j \in i .. Len(r)
      BY <1>1, <2>1
    <3> QED
      BY <1>2, <2>1, <3>1 DEF NoBlock
  <2> QED
    BY <2>2, <2>3, <2>4 DEF Unlocks
<1> QED
  BY <1>3, <1>4

(* What is left of a program is one.                                       *)
LEMMA SuffixIsProgram ==
  ASSUME NEW s, Program(s), NEW r, NEW m, Suffix(r, s, m)
  PROVE  Program(r)
<1>1. s \in Seq(Ops) /\ r \in Seq(Ops)
  BY DEF Program, Suffix
<1>2. Len(s) \in Nat /\ m \in Nat /\ Len(r) \in Nat /\ Len(s) = Len(r) + m
  BY <1>1, LenProperties DEF Suffix
<1>3. \A i \in 1 .. Len(r) : r[i] = s[i + m] /\ i + m \in 1 .. Len(s)
  BY <1>2 DEF Suffix
<1> SUFFICES ASSUME NEW i \in 1 .. Len(r)
             PROVE  /\ ExitIsLast(r, i) /\ AllAreDisabled(r, i) /\ ThenSleeps(r, i)
                    /\ Recovers(r, i) /\ SwitchesOff(r, i) /\ Answered(r, i)
  BY <1>1 DEF Program
<1>4. /\ ExitIsLast(s, i + m) /\ AllAreDisabled(s, i + m) /\ ThenSleeps(s, i + m)
      /\ Recovers(s, i + m) /\ SwitchesOff(s, i + m) /\ Answered(s, i + m)
  BY <1>3 DEF Program
<1>5. r[i] = s[i + m] /\ Len(r) \in 1 .. Len(r) /\ r[Len(r)] = s[Len(s)]
  BY <1>2, <1>3
<1>6. ExitIsLast(r, i)
  BY <1>2, <1>4, <1>5 DEF ExitIsLast
<1>7. AllAreDisabled(r, i)
  <2> SUFFICES ASSUME r[i][1] = "sleep"
               PROVE  /\ Len(r) = i + N + 1 /\ r[Len(r)][1] = "exit"
                      /\ \A k \in 1 .. N : r[i + k] = Locked("disable", InOrder[k])
    BY DEF AllAreDisabled
  <2>1. N \in Nat
    BY InOrderIs
  <2>2. /\ Len(s) = (i + m) + N + 1 /\ s[Len(s)][1] = "exit"
        /\ \A k \in 1 .. N : s[(i + m) + k] = Locked("disable", InOrder[k])
    BY <1>4, <1>5 DEF AllAreDisabled
  <2>3. Len(r) = i + N + 1
    BY <1>2, <2>1, <2>2
  <2>4. \A k \in 1 .. N : i + k \in 1 .. Len(r) /\ (i + k) + m = (i + m) + k
    BY <1>2, <2>1, <2>3
  <2> QED
    BY <1>3, <1>5, <2>2, <2>3, <2>4
<1>8. ThenSleeps(r, i)
  <2> SUFFICES ASSUME r[i][1] = "unlock_all"
               PROVE  i < Len(r) /\ r[i + 1][1] = "sleep"
    BY DEF ThenSleeps
  <2>1. i + m < Len(s) /\ s[(i + m) + 1][1] = "sleep"
    BY <1>4, <1>5 DEF ThenSleeps
  <2>2. i < Len(r) /\ i + 1 \in 1 .. Len(r) /\ (i + 1) + m = (i + m) + 1
    BY <1>2, <2>1
  <2> QED
    BY <1>3, <2>1, <2>2
<1>9. Recovers(r, i)
  <2> SUFFICES ASSUME NEW u \in i + 1 .. Len(r), r[u][1] = "unlock_all"
               PROVE  /\ ~ InitAccess(r[i])
                      /\ r[i][1] \in Blocks => \E j \in i + 1 .. Len(r) : r[j] = Call("restarted")
    BY DEF Recovers
  <2>1. u \in 1 .. Len(r) /\ u + m \in (i + m) + 1 .. Len(s)
    BY <1>2
  <2>2. s[u + m][1] = "unlock_all"
    BY <1>3, <2>1
  <2>3. /\ ~ InitAccess(s[i + m])
        /\ s[i + m][1] \in Blocks => \E j \in (i + m) + 1 .. Len(s) : s[j] = Call("restarted")
    BY <1>4, <2>1, <2>2 DEF Recovers
  <2>4. ASSUME NEW j \in (i + m) + 1 .. Len(s)
        PROVE  j - m \in i + 1 .. Len(r) /\ j - m \in 1 .. Len(r) /\ (j - m) + m = j
    BY <1>2
  <2> QED
    BY <1>3, <1>5, <2>3, <2>4
<1>10. SwitchesOff(r, i)
  <2> SUFFICES ASSUME r[Len(r)][1] = "exit", ~ SleepAhead(r, i)
               PROVE  /\ OffOp(r[i])
                      /\ r[i][1] = "access" => i = 1 \/ r[i - 1] = Select(r[i][3])
    BY DEF SwitchesOff
  <2>1. ~ SleepAhead(s, i + m)
    <3> SUFFICES ASSUME NEW j \in i + m .. Len(s), s[j][1] = "sleep"
                 PROVE  FALSE
      BY DEF SleepAhead
    <3>1. j - m \in i .. Len(r) /\ j - m \in 1 .. Len(r) /\ (j - m) + m = j
      BY <1>2
    <3> QED
      BY <1>3, <3>1 DEF SleepAhead
  <2>2. /\ OffOp(s[i + m])
        /\ s[i + m][1] = "access" => i + m = 1 \/ s[(i + m) - 1] = Select(s[i + m][3])
    BY <1>4, <1>5, <2>1 DEF SwitchesOff
  <2>3. i # 1 => i + m # 1 /\ i - 1 \in 1 .. Len(r) /\ (i - 1) + m = (i + m) - 1
    BY <1>2
  <2> QED
    BY <1>3, <1>5, <2>2, <2>3
<1>11. Answered(r, i)
  <2> SUFFICES ASSUME Asks(r[i])
               PROVE  Unlocks(r, i + 1)
    BY DEF Answered
  <2>1. Unlocks(s, (i + m) + 1)
    BY <1>4, <1>5 DEF Answered
  <2>2. i + 1 \in 1 .. Len(r) + 1 /\ (i + 1) + m = (i + m) + 1
    BY <1>2
  <2> QED
    BY <1>1, <2>1, <2>2, SuffixUnlocks
<1> QED
  BY <1>6, <1>7, <1>8, <1>9, <1>10, <1>11

(* After looks for an operation, and leaves everything if there is none.   *)
LEMMA AfterIs ==
  ASSUME NEW s \in Seq(Ops), NEW op
  PROVE  \E m \in 0 .. Len(s) :
           /\ Suffix(After(s, op), s, m) /\ (m = 0 \/ s[m] = op)
           /\ (\E i \in 1 .. Len(s) : s[i] = op) => m # 0
<1> DEFINE I == {i \in 1 .. Len(s) : s[i] = op}
           m == IF I # {} THEN Min(I) ELSE 0
<1>1. Len(s) \in Nat /\ \A i \in 1 .. Len(s) : s[i] \in Ops
  BY LenProperties, ElementOfSeq
<1>2. After(s, op) = SubSeq(s, m + 1, Len(s))
  BY DEF After, SelectInSeq
<1>3. m \in 0 .. Len(s) /\ (m = 0 \/ s[m] = op) /\ (I # {} => m # 0)
  <2>1. CASE I = {}
    BY <1>1, <2>1
  <2>2. CASE I # {}
    <3>1. I \in SUBSET Nat
      BY <1>1
    <3> HIDE DEF I
    <3>2. Min(I) \in I
      BY <2>2, <3>1, Least
    <3>3. m \in I
      BY <2>2, <3>2
    <3> HIDE DEF m
    <3> QED
      BY <1>1, <3>3 DEF I
  <2> QED
    BY <2>1, <2>2
<1> HIDE DEF m
<1>4. \A i \in m + 1 .. Len(s) : s[i] \in Ops
  BY <1>1, <1>3
<1>5. m + 1 \in Int /\ Len(s) \in Int
  BY <1>1, <1>3
<1> DEFINE r == SubSeq(s, m + 1, Len(s))
<1>6. /\ r \in Seq(Ops)
      /\ Len(r) = IF m + 1 <= Len(s) THEN Len(s) - (m + 1) + 1 ELSE 0
      /\ \A i \in 1 .. Len(s) - (m + 1) + 1 : r[i] = s[(m + 1) + i - 1]
  BY <1>4, <1>5, SubSeqProperties
<1> HIDE DEF r
<1>7. Len(r) = Len(s) - m
  BY <1>1, <1>3, <1>6
<1>8. \A i \in 1 .. Len(r) : r[i] = s[i + m]
  <2>1. \A i \in 1 .. Len(r) : i \in 1 .. Len(s) - (m + 1) + 1 /\ (m + 1) + i - 1 = i + m
    BY <1>1, <1>3, <1>7
  <2> QED
    BY <1>6, <2>1
<1>9. Suffix(r, s, m)
  BY <1>3, <1>6, <1>7, <1>8 DEF Suffix
<1> QED
  BY <1>2, <1>3, <1>9 DEF r

Stages == {"exit", "sleep", "unlock_all"}
Same(s, r) == \A c \in Stages : Has(r, c) <=> Has(s, c)

(* The stages of an exit are ahead as long as none of them is passed.      *)
LEMMA SuffixIsSame ==
  ASSUME NEW s, Program(s), NEW r, NEW m, Suffix(r, s, m),
         m # 0 => s[m][1] \notin Stages /\ (m # 1 => s[m][1] # "lock")
  PROVE  Same(s, r)
<1>1. s \in Seq(Ops) /\ r \in Seq(Ops)
  BY DEF Program, Suffix
<1>2. Len(s) \in Nat /\ m \in Nat /\ Len(r) \in Nat /\ Len(s) = Len(r) + m
  BY <1>1, LenProperties DEF Suffix
<1>3. \A i \in 1 .. Len(r) : r[i] = s[i + m] /\ i + m \in 1 .. Len(s)
  BY <1>2 DEF Suffix
<1>4. \A i \in 1 .. Len(s) : i > m => i - m \in 1 .. Len(r) /\ r[i - m] = s[i]
  <2>1. \A i \in 1 .. Len(s) : i > m => i - m \in 1 .. Len(r) /\ (i - m) + m = i
    BY <1>2
  <2> QED
    BY <1>3, <2>1
<1>5. ASSUME NEW c \in Stages, Has(r, c)
      PROVE  Has(s, c)
  BY <1>3, <1>5 DEF Has
<1>6. ASSUME NEW i \in 1 .. Len(s), s[i][1] = "exit"
      PROVE  i > m
  <2>1. i = Len(s)
    BY <1>6 DEF Program, ExitIsLast
  <2>2. i # m
    BY <1>6 DEF Stages
  <2> QED
    BY <1>2, <2>1, <2>2
<1>7. ASSUME NEW i \in 1 .. Len(s), s[i][1] = "sleep"
      PROVE  i > m
  <2>1. i # m
    BY <1>7 DEF Stages
  <2>2. ASSUME i < m
        PROVE  FALSE
    <3>1. /\ Len(s) = i + N + 1 /\ s[Len(s)][1] = "exit"
          /\ \A k \in 1 .. N : s[i + k] = Locked("disable", InOrder[k])
      BY <1>7 DEF Program, AllAreDisabled
    <3>2. N \in Nat /\ m <= Len(s)
      BY <1>2, InOrderIs
    <3>3. m = Len(s) \/ (m - i \in 1 .. N /\ i + (m - i) = m)
      BY <1>2, <2>2, <3>1, <3>2
    <3>4. s[m][1] \in {"exit", "lock"}
      BY <3>1, <3>3 DEF Locked
    <3> QED
      BY <1>2, <2>2, <3>4 DEF Stages
  <2> QED
    BY <1>2, <2>1, <2>2
<1>8. ASSUME NEW i \in 1 .. Len(s), s[i][1] = "unlock_all"
      PROVE  i > m
  <2>1. i # m
    BY <1>8 DEF Stages
  <2>2. i < Len(s) /\ s[i + 1][1] = "sleep"
    BY <1>8 DEF Program, ThenSleeps
  <2>3. i + 1 \in 1 .. Len(s)
    BY <1>2, <2>2
  <2>4. i + 1 > m
    BY <1>7, <2>2, <2>3
  <2> QED
    BY <1>2, <2>1, <2>4
<1>9. ASSUME NEW c \in Stages, Has(s, c)
      PROVE  Has(r, c)
  <2>1. PICK i \in 1 .. Len(s) : s[i][1] = c
    BY <1>9 DEF Has
  <2>2. i > m
    BY <1>6, <1>7, <1>8, <2>1 DEF Stages
  <2> QED
    BY <1>4, <2>1, <2>2 DEF Has
<1> QED
  BY <1>5, <1>9 DEF Same

(* Operations put before others.                                           *)
LEMMA ConcatIs ==
  ASSUME NEW ops \in Seq(Ops), NEW r \in Seq(Ops)
  PROVE  /\ Len(ops) \in Nat /\ Len(r) \in Nat
         /\ ops \o r \in Seq(Ops) /\ Len(ops \o r) = Len(ops) + Len(r)
         /\ \A i \in 1 .. Len(ops) : (ops \o r)[i] = ops[i] /\ i \in 1 .. Len(ops \o r)
         /\ Suffix(r, ops \o r, Len(ops))
<1>1. Len(ops) \in Nat /\ Len(r) \in Nat
  BY LenProperties
<1>2. /\ ops \o r \in Seq(Ops) /\ Len(ops \o r) = Len(ops) + Len(r)
      /\ \A i \in 1 .. Len(ops) + Len(r) :
           (ops \o r)[i] = IF i <= Len(ops) THEN ops[i] ELSE r[i - Len(ops)]
  BY ConcatProperties
<1> DEFINE x == ops \o r
<1> HIDE DEF x
<1>3. \A i \in 1 .. Len(ops) : i <= Len(ops) /\ i \in 1 .. Len(ops) + Len(r)
  BY <1>1
<1>4. \A i \in 1 .. Len(r) : ~ (i + Len(ops) <= Len(ops))
        /\ i + Len(ops) \in 1 .. Len(ops) + Len(r)
                             /\ (i + Len(ops)) - Len(ops) = i
  BY <1>1
<1>5. \A i \in 1 .. Len(ops) : x[i] = ops[i] /\ i \in 1 .. Len(x)
  BY <1>2, <1>3 DEF x
<1>6. Suffix(r, x, Len(ops))
  <2>1. \A i \in 1 .. Len(r) : r[i] = x[i + Len(ops)]
    BY <1>2, <1>4 DEF x
  <2>2. Len(ops) \in 0 .. Len(x) /\ Len(r) = Len(x) - Len(ops)
    BY <1>1, <1>2 DEF x
  <2> QED
    BY <2>1, <2>2 DEF Suffix
<1> QED
  BY <1>1, <1>2, <1>5, <1>6 DEF x

(* What may come before a program.                                         *)
Plain(ops) == \A i \in 1 .. Len(ops) : ops[i][1] \notin Stages
Restores(ops, r) ==
  \A i \in 1 .. Len(ops) :
    /\ ~ InitAccess(ops[i])
    /\ ops[i][1] \in Blocks =>
         \/ \E j \in i + 1 .. Len(ops) : ops[j] = Call("restarted")
         \/ \E j \in 1 .. Len(r) : r[j] = Call("restarted")
Disables(ops, r) ==
  /\ \A i \in 1 .. Len(ops) :
       /\ OffOp(ops[i])
       /\ ops[i][1] = "access" => i = 1 \/ ops[i - 1] = Select(ops[i][3])
  /\ r # <<>> => r[1][1] # "access"
Answers(ops, r) ==
  \A i \in 1 .. Len(ops) : Asks(ops[i]) =>
    Unlocks(ops, i + 1) \/ (NoBlock(ops, i + 1, Len(ops)) /\ Unlocks(r, 1))

(* i2c_mutex is unlocked by what is put in front, or, if that does not     *)
(* lock it, by what follows.                                               *)
LEMMA ConcatUnlocks ==
  ASSUME NEW ops \in Seq(Ops), NEW r \in Seq(Ops), NEW i \in 1 .. Len(ops) + 1,
         Unlocks(ops, i) \/ (NoBlock(ops, i, Len(ops)) /\ Unlocks(r, 1))
  PROVE  Unlocks(ops \o r, i)
<1> DEFINE x == ops \o r
<1>1. /\ Len(ops) \in Nat /\ Len(r) \in Nat
      /\ x \in Seq(Ops) /\ Len(x) = Len(ops) + Len(r)
      /\ \A j \in 1 .. Len(ops) : x[j] = ops[j]
      /\ \A j \in 1 .. Len(r) : r[j] = x[j + Len(ops)]
  BY ConcatIs DEF Suffix
<1> HIDE DEF x
<1>2. CASE Unlocks(ops, i)
  <2>1. PICK k \in i .. Len(ops) : ops[k][1] = "unlock" /\ NoBlock(ops, i, k - 1)
    BY <1>2 DEF Unlocks
  <2>2. k \in i .. Len(x) /\ x[k][1] = "unlock"
    BY <1>1, <2>1
  <2>3. \A j \in i .. k - 1 : j \in 1 .. Len(ops)
    BY <1>1, <2>1
  <2>4. NoBlock(x, i, k - 1)
    BY <1>1, <2>1, <2>3 DEF NoBlock
  <2> QED
    BY <2>2, <2>4 DEF Unlocks, x
<1>3. CASE NoBlock(ops, i, Len(ops)) /\ Unlocks(r, 1)
  <2>1. PICK k \in 1 .. Len(r) : r[k][1] = "unlock" /\ NoBlock(r, 1, k - 1)
    BY <1>3 DEF Unlocks
  <2>2. k + Len(ops) \in i .. Len(x) /\ x[k + Len(ops)][1] = "unlock"
    BY <1>1, <2>1
  <2>3. NoBlock(x, i, (k + Len(ops)) - 1)
    <3> SUFFICES ASSUME NEW j \in i .. (k + Len(ops)) - 1
                 PROVE  x[j][1] \notin Blocks \cup {"stop_all_work"}
      BY DEF NoBlock
    <3>1. CASE j <= Len(ops)
      <4>1. j \in i .. Len(ops) /\ j \in 1 .. Len(ops)
        BY <1>1, <3>1
      <4> QED
        BY <1>1, <1>3, <4>1 DEF NoBlock
    <3>2. CASE ~ (j <= Len(ops))
      <4>1. j - Len(ops) \in 1 .. k - 1 /\ j - Len(ops) \in 1 .. Len(r)
            /\ (j - Len(ops)) + Len(ops) = j
        BY <1>1, <2>1, <3>2
      <4> QED
        BY <1>1, <2>1, <4>1 DEF NoBlock
    <3> QED
      BY <3>1, <3>2
  <2> QED
    BY <2>2, <2>3 DEF Unlocks, x
<1> QED
  BY <1>2, <1>3

(* What is put before a program gives a program, with the same stages      *)
(* ahead: nothing of an exit itself, nothing that fails where the mutexes  *)
(* are freed later, past the sleep only what switches off, and what has to *)
(* be unlocked is.                                                         *)
LEMMA PrependIsProgram ==
  ASSUME NEW ops \in Seq(Ops), NEW r, Program(r), Plain(ops),
         Has(r, "unlock_all") => Restores(ops, r),
         Has(r, "exit") /\ ~ Has(r, "sleep") => Disables(ops, r),
         Answers(ops, r)
  PROVE  Program(ops \o r) /\ Same(r, ops \o r)
<1> DEFINE x == ops \o r
           n == Len(ops)
<1>1. r \in Seq(Ops)
  BY DEF Program
<1>2. /\ n \in Nat /\ Len(r) \in Nat
      /\ x \in Seq(Ops) /\ Len(x) = n + Len(r)
      /\ \A i \in 1 .. n : x[i] = ops[i] /\ i \in 1 .. Len(x)
      /\ Suffix(r, x, n)
  BY <1>1, ConcatIs
<1> HIDE DEF x, n
<1>n. n \in Nat /\ Len(r) \in Nat /\ Len(x) = n + Len(r)
  BY <1>2
<1>3. \A i \in 1 .. Len(r) : r[i] = x[i + n] /\ i + n \in 1 .. Len(x) /\ i + n > n
  BY <1>2 DEF Suffix
<1>4. \A i \in 1 .. Len(x) : i > n => i - n \in 1 .. Len(r) /\ x[i] = r[i - n]
  <2>1. \A i \in 1 .. Len(x) : i > n => i - n \in 1 .. Len(r) /\ (i - n) + n = i
    BY <1>2
  <2> QED
    BY <1>3, <2>1
<1>5. \A i \in 1 .. Len(x) : x[i][1] \in Stages => i > n
  <2> SUFFICES ASSUME NEW i \in 1 .. Len(x), x[i][1] \in Stages, ~ (i > n)
               PROVE  FALSE
    OBVIOUS
  <2>1. i \in 1 .. n
    BY <1>2
  <2> QED
    BY <1>2, <2>1 DEF Plain, n
<1>6. Same(r, x)
  <2> SUFFICES ASSUME NEW c \in Stages
               PROVE  Has(x, c) <=> Has(r, c)
    BY DEF Same
  <2>1. Has(r, c) => Has(x, c)
    BY <1>3 DEF Has
  <2>2. Has(x, c) => Has(r, c)
    BY <1>4, <1>5 DEF Has
  <2> QED
    BY <2>1, <2>2
<1>7. ASSUME NEW i \in 1 .. Len(x)
      PROVE  /\ ExitIsLast(x, i) /\ AllAreDisabled(x, i) /\ ThenSleeps(x, i)
             /\ Recovers(x, i) /\ SwitchesOff(x, i) /\ Answered(x, i)
  <2> DEFINE k == i - n
  <2>1. i > n => /\ k \in 1 .. Len(r) /\ x[i] = r[k] /\ k + n = i
                /\ ExitIsLast(r, k) /\ AllAreDisabled(r, k) /\ ThenSleeps(r, k)
                /\ Recovers(r, k) /\ SwitchesOff(r, k) /\ Answered(r, k)
    <3>1. i > n => (i - n) + n = i
      BY <1>2
    <3> QED
      BY <1>4, <3>1 DEF Program
  <2> HIDE DEF k
  <2>k. i > n => k \in 1 .. Len(r) /\ k + n = i
    BY <2>1
  <2>2. ~ (i > n) => i \in 1 .. n /\ x[i] = ops[i] /\ x[i][1] \notin Stages
    <3>1. ~ (i > n) => i \in 1 .. n
      BY <1>2
    <3> QED
      BY <1>2, <1>5, <3>1
  <2>m. ~ (i > n) => i \in 1 .. n
    BY <2>2
  <2>3. ExitIsLast(x, i)
    <3> SUFFICES ASSUME x[i][1] = "exit"
                 PROVE  i = Len(x)
      BY DEF ExitIsLast
    <3>1. i > n
      BY <2>2 DEF Stages
    <3> QED
      BY <1>2, <2>1, <3>1 DEF ExitIsLast
  <2>4. AllAreDisabled(x, i)
    <3> SUFFICES ASSUME x[i][1] = "sleep"
                 PROVE  /\ Len(x) = i + N + 1 /\ x[Len(x)][1] = "exit"
                        /\ \A l \in 1 .. N : x[i + l] = Locked("disable", InOrder[l])
      BY DEF AllAreDisabled
    <3>1. i > n
      BY <2>2 DEF Stages
    <3>2. /\ Len(r) = k + N + 1 /\ r[Len(r)][1] = "exit"
          /\ \A l \in 1 .. N : r[k + l] = Locked("disable", InOrder[l])
      BY <2>1, <3>1 DEF AllAreDisabled
    <3>3. N \in Nat
      BY InOrderIs
    <3>l. Len(r) = k + N + 1
      BY <3>2
    <3>i. k \in Nat /\ i \in Nat /\ k + n = i
      BY <1>n, <2>k, <3>1
    <3>4. Len(x) = i + N + 1
      BY <1>n, <3>i, <3>l, <3>3
    <3>5. \A l \in 1 .. N : k + l \in 1 .. Len(r) /\ (k + l) + n = i + l
      BY <1>n, <3>i, <3>l, <3>3
    <3>6. Len(r) \in 1 .. Len(r) /\ Len(r) + n = Len(x)
      BY <1>2, <2>1, <3>1
    <3> QED
      BY <1>3, <3>2, <3>4, <3>5, <3>6
  <2>5. ThenSleeps(x, i)
    <3> SUFFICES ASSUME x[i][1] = "unlock_all"
                 PROVE  i < Len(x) /\ x[i + 1][1] = "sleep"
      BY DEF ThenSleeps
    <3>1. i > n
      BY <2>2 DEF Stages
    <3>2. k < Len(r) /\ r[k + 1][1] = "sleep"
      BY <2>1, <3>1 DEF ThenSleeps
    <3>l. k < Len(r)
      BY <3>2
    <3>3. i < Len(x) /\ k + 1 \in 1 .. Len(r) /\ (k + 1) + n = i + 1
      BY <1>n, <2>k, <3>1, <3>l
    <3> QED
      BY <1>3, <3>2, <3>3
  <2>6. Recovers(x, i)
    <3> SUFFICES ASSUME NEW u \in i + 1 .. Len(x), x[u][1] = "unlock_all"
                 PROVE  /\ ~ InitAccess(x[i])
                        /\ x[i][1] \in Blocks =>
                             \E j \in i + 1 .. Len(x) : x[j] = Call("restarted")
      BY DEF Recovers
    <3>1. u \in 1 .. Len(x)
      BY <1>2
    <3>2. u > n
      BY <1>5, <3>1 DEF Stages
    <3>3. u - n \in 1 .. Len(r) /\ r[u - n][1] = "unlock_all"
      BY <1>4, <3>1, <3>2
    <3>4. Restores(ops, r)
      BY <3>3 DEF Has
    <3>5. CASE i > n
      <4>1. u - n \in k + 1 .. Len(r)
        BY <1>n, <2>k, <3>3, <3>5
      <4>2. /\ ~ InitAccess(r[k])
            /\ r[k][1] \in Blocks => \E j \in k + 1 .. Len(r) : r[j] = Call("restarted")
        BY <2>1, <3>3, <3>5, <4>1 DEF Recovers
      <4>3. \A j \in k + 1 .. Len(r) : j \in 1 .. Len(r) /\ j + n \in i + 1 .. Len(x)
        BY <1>n, <2>k, <3>5
      <4> QED
        BY <1>3, <2>1, <3>5, <4>2, <4>3
    <3>6. CASE ~ (i > n)
      <4>1. /\ ~ InitAccess(ops[i])
            /\ ops[i][1] \in Blocks =>
                 \/ \E j \in i + 1 .. n : ops[j] = Call("restarted")
                 \/ \E j \in 1 .. Len(r) : r[j] = Call("restarted")
        BY <2>2, <3>4, <3>6 DEF Restores, n
      <4>2. \A j \in i + 1 .. n : j \in 1 .. n /\ j \in i + 1 .. Len(x)
        BY <1>n, <2>m, <3>6
      <4>3. \A j \in 1 .. Len(r) : j + n \in i + 1 .. Len(x)
        BY <1>n, <2>m, <3>6
      <4> QED
        BY <1>2, <1>3, <2>2, <3>6, <4>1, <4>2, <4>3
    <3> QED
      BY <3>5, <3>6
  <2>7. SwitchesOff(x, i)
    <3> SUFFICES ASSUME x[Len(x)][1] = "exit", ~ SleepAhead(x, i)
                 PROVE  /\ OffOp(x[i])
                        /\ x[i][1] = "access" => i = 1 \/ x[i - 1] = Select(x[i][3])
      BY DEF SwitchesOff
    <3>1. Len(x) \in 1 .. Len(x) /\ Len(x) > n
      <4>1. Len(x) \in 1 .. Len(x)
        BY <1>2
      <4> QED
        BY <1>5, <4>1 DEF Stages
    <3>2. Len(r) \in 1 .. Len(r) /\ Len(r) + n = Len(x) /\ 1 \in 1 .. Len(r)
      BY <1>n, <3>1
    <3>3. r[Len(r)][1] = "exit"
      BY <1>3, <3>2
    <3>4. CASE i > n
      <4>1. ~ SleepAhead(r, k)
        <5>1. \A j \in k .. Len(r) : j \in 1 .. Len(r) /\ j + n \in i .. Len(x)
          BY <1>n, <2>k, <3>4
        <5> QED
          BY <1>3, <5>1 DEF SleepAhead
      <4>2. /\ OffOp(r[k])
            /\ r[k][1] = "access" => k = 1 \/ r[k - 1] = Select(r[k][3])
        BY <2>1, <3>3, <3>4, <4>1 DEF SwitchesOff
      <4>3. CASE k = 1
        <5>1. CASE i = 1
          BY <2>1, <3>4, <4>2, <5>1
        <5>2. CASE i # 1
          <6>1. ~ Has(r, "sleep")
            <7>1. \A j \in 1 .. Len(r) : j \in k .. Len(r)
              BY <4>3
            <7> QED
              BY <4>1, <7>1 DEF Has, SleepAhead
          <6>2. Has(r, "exit") /\ r # <<>>
            BY <3>2, <3>3, EmptySeq DEF Has
          <6>3. r[1][1] # "access"
            BY <6>1, <6>2 DEF Disables
          <6> QED
            BY <2>1, <3>4, <4>2, <4>3, <6>3
        <5> QED
          BY <5>1, <5>2
      <4>4. CASE k # 1
        <5>1. k - 1 \in 1 .. Len(r) /\ (k - 1) + n = i - 1
          BY <1>n, <2>k, <3>4, <4>4
        <5>2. r[k - 1] = x[i - 1]
          BY <1>3, <5>1
        <5> QED
          BY <2>1, <3>4, <4>2, <4>4, <5>2
      <4> QED
        BY <4>3, <4>4
    <3>5. CASE ~ (i > n)
      <4>1. ~ Has(r, "sleep")
        <5>1. \A j \in 1 .. Len(r) : j + n \in i .. Len(x)
          BY <1>n, <2>m, <3>5
        <5> QED
          BY <1>3, <5>1 DEF SleepAhead, Has
      <4>2. Has(r, "exit")
        BY <3>2, <3>3 DEF Has
      <4>3. /\ OffOp(ops[i])
            /\ ops[i][1] = "access" => i = 1 \/ ops[i - 1] = Select(ops[i][3])
        BY <2>2, <3>5, <4>1, <4>2 DEF Disables, n
      <4>4. i # 1 => i - 1 \in 1 .. n
        BY <1>n, <2>m, <3>5
      <4> QED
        BY <1>2, <2>2, <3>5, <4>3, <4>4
    <3> QED
      BY <3>4, <3>5
  <2>8. Answered(x, i)
    <3> SUFFICES ASSUME Asks(x[i])
                 PROVE  Unlocks(x, i + 1)
      BY DEF Answered
    <3>1. CASE i > n
      <4>1. Unlocks(r, k + 1)
        BY <2>1, <3>1 DEF Answered
      <4>2. k + 1 \in 1 .. Len(r) + 1 /\ (k + 1) + n = i + 1
        BY <1>n, <2>k, <3>1
      <4> QED
        BY <1>2, <4>1, <4>2, SuffixUnlocks
    <3>2. CASE ~ (i > n)
      <4>1. Unlocks(ops, i + 1) \/ (NoBlock(ops, i + 1, Len(ops)) /\ Unlocks(r, 1))
        BY <2>2, <3>2 DEF Answers, n
      <4>2. i + 1 \in 1 .. Len(ops) + 1
        BY <1>2, <2>2, <3>2 DEF n
      <4> QED
        BY <1>1, <4>1, <4>2, ConcatUnlocks DEF x
    <3> QED
      BY <3>1, <3>2
  <2> QED
    BY <2>3, <2>4, <2>5, <2>6, <2>7, <2>8
<1>8. Program(x)
  BY <1>2, <1>7 DEF Program
<1> QED
  BY <1>6, <1>8 DEF x
-----------------------------------------------------------------------------
(* The functions are sequences of operations.                              *)
Close == Switch(<<Group(0, {}), Group(1, {}), Primary({})>>)

(* The writes that the functions make to the switches.                     *)
LEMMA WritesAre ==
  /\ \A p \in SUBSET Pins : Primary(p) \in Writes
  /\ \A g \in GROUPS : \A o \in SUBSET Offsets : Group(g, o) \in Writes
BY DEF Writes, Primary, Group

(* Where a converter is found, and that its selection is an operation.     *)
LEMMA SelectIs ==
  ASSUME NEW d \in Converters
  PROVE  /\ board_of(d) \in Boards /\ i2c_group(d) \in GROUPS /\ 1 - i2c_group(d) \in GROUPS
         /\ dc2dc_offset(d) \in Offsets
         /\ Select(d) \in SwitchOps /\ dc2dc_select_i2c(d) = <<Select(d)>>
<1>1. d \in 0 .. ASICS_COUNT - 1
  BY ExitAssumption
<1>2. board_of(d) \in Boards
  BY <1>1, ExitAssumption
<1>3. i2c_group(d) \in GROUPS /\ 1 - i2c_group(d) \in GROUPS
  BY DEF i2c_group, GROUPS
<1>4. dc2dc_offset(d) \in Offsets
  <2>1. d \in Nat /\ ASICS_PER_BOARD \in Nat \ {0}
    BY <1>1, ExitAssumption
  <2>2. d % ASICS_PER_BOARD \in Nat
    BY <2>1
  <2> DEFINE e == d % ASICS_PER_BOARD
  <2> HIDE DEF e
  <2>3. e % 8 \in 0 .. 7
    <3>1. e \in Nat
      BY <2>2 DEF e
    <3> QED
      BY <3>1
  <2> QED
    BY <2>3 DEF dc2dc_offset, Offsets, e
<1> DEFINE P == Primary(BoardPin(board_of(d)))
           G == Group(i2c_group(d), {dc2dc_offset(d)})
           H == Group(1 - i2c_group(d), {})
<1>5. P \in Writes /\ G \in Writes /\ H \in Writes
  <2>1. BoardPin(board_of(d)) \in SUBSET Pins
    BY <1>2 DEF Pins, BoardPin
  <2>2. {dc2dc_offset(d)} \in SUBSET Offsets /\ {} \in SUBSET Offsets
    BY <1>4
  <2> QED
    BY <1>3, <2>1, <2>2, WritesAre
<1>6. Select(d) = <<"switch", <<P, G, H>>>> /\ dc2dc_select_i2c(d) = <<Select(d)>>
  BY DEF Select, dc2dc_select_i2c, Switch
<1> HIDE DEF P, G, H
<1>7. <<P, G, H>> \in Seq(Writes)
  BY <1>5
<1>8. Select(d) \in SwitchOps
  <2> DEFINE W == Seq(Writes)
  <2>1. <<P, G, H>> \in W /\ SwitchOps = {"switch"} \X W
    BY <1>7 DEF SwitchOps
  <2> HIDE DEF W
  <2> QED
    BY <1>6, <2>1
<1> QED
  BY <1>2, <1>3, <1>4, <1>6, <1>8

TopReading(b) ==
  Switch(<<Primary(BoardPin(b)), Group(1, {THERMAL}), Group(1, {}), Primary({})>>)
Readings == {ReadPsu} \cup {Switch(<<Primary({})>>), Switch(<<Primary(PsuPin)>>), Close}
              \cup {Switch(<<Primary(SensorPin), Primary({})>>)}

(* The readings of supplies and sensors are operations.                    *)
LEMMA SwitchesAre ==
  /\ Readings \subseteq SwitchOps
  /\ \A b \in Boards : TopReading(b) \in SwitchOps
<1>1. \A p \in {{}, PsuPin, SensorPin} \cup {BoardPin(b) : b \in Boards} : Primary(p) \in Writes
  <2>1. \A p \in {{}, PsuPin, SensorPin} \cup {BoardPin(b) : b \in Boards} : p \in SUBSET Pins
    BY DEF Pins, BoardPin
  <2> QED
    BY <2>1, WritesAre
<1>2. Group(0, {}) \in Writes /\ Group(1, {}) \in Writes /\ Group(1, {THERMAL}) \in Writes
  BY WritesAre DEF GROUPS, Offsets, THERMAL
<1>3. \A ws \in Seq(Writes) : Switch(ws) \in SwitchOps
  BY DEF Switch, SwitchOps
<1>4. \A a, b \in Writes : <<a>> \in Seq(Writes) /\ <<a, b>> \in Seq(Writes)
  OBVIOUS
<1>5. \A a, b, c, e \in Writes : <<a, b, c>> \in Seq(Writes) /\ <<a, b, c, e>> \in Seq(Writes)
  OBVIOUS
<1>6. ReadPsu \in SwitchOps /\ Switch(<<Primary({})>>) \in SwitchOps
      /\ Switch(<<Primary(PsuPin)>>) \in SwitchOps
      /\ Switch(<<Primary(SensorPin), Primary({})>>) \in SwitchOps
  BY <1>1, <1>3, <1>4 DEF ReadPsu
<1>7. Close \in SwitchOps
  BY <1>1, <1>2, <1>3, <1>5 DEF Close
<1>8. ASSUME NEW b \in Boards
      PROVE  TopReading(b) \in SwitchOps
  <2>1. Primary(BoardPin(b)) \in Writes /\ Primary({}) \in Writes
    BY <1>1
  <2> QED
    BY <1>2, <1>3, <1>5, <2>1 DEF TopReading
<1> QED
  BY <1>6, <1>7, <1>8 DEF Readings

(* The operations that the functions are made of, with their names.        *)
LEMMA NamesAre ==
  /\ \A op \in SwitchOps : op[1] = "switch"
  /\ \A f \in ConverterAccess : \A d \in Converters :
       Access(f, d) \in Ops /\ Access(f, d)[1] = "access"
         /\ Access(f, d)[2] = f /\ Access(f, d)[3] = d
  /\ \A f \in Transactions : \A d \in Converters :
       Locked(f, d) \in Ops /\ Locked(f, d)[1] = "lock"
         /\ Locked(f, d)[2] = f /\ Locked(f, d)[3] = d
  /\ \A f \in {"psu", "none"} :
       Locked(f, 0) \in Ops /\ Locked(f, 0)[1] = "lock" /\ Locked(f, 0)[2] = f
  /\ Unlock \in Ops /\ Unlock[1] = "unlock"
  /\ \A f \in Transactions : Unlocked(f) \in Ops /\ Unlocked(f)[1] = "unlock"
  /\ \A f \in Calls : Call(f) \in Ops /\ Call(f)[1] = f
  /\ \A d \in Converters : \A f \in {"present", "absent", "enable"} :
       <<f, d>> \in Ops /\ <<f, d>>[1] = f /\ <<f, d>>[2] = d
<1>1. \A op \in SwitchOps : op[1] = "switch"
  <2> DEFINE W == Seq(Writes)
  <2>1. SwitchOps = {"switch"} \X W
    BY DEF SwitchOps
  <2> HIDE DEF W
  <2> QED
    BY <2>1
<1>2. \A f \in ConverterAccess : \A d \in Converters : Access(f, d) \in AccessOps
  BY DEF Access, AccessOps
<1>3. \A f \in Transactions : \A d \in Converters : Locked(f, d) \in LockOps
  BY DEF Locked, LockOps
<1>4. \A f \in {"psu", "none"} : Locked(f, 0) \in LockOps
  BY DEF LockOps
<1>5. Unlock \in UnlockOps /\ \A f \in Transactions : Unlocked(f) \in UnlockOps
  BY DEF Unlocked, UnlockOps
<1>6. \A d \in Converters : \A f \in {"present", "absent", "enable"} : <<f, d>> \in ConverterOps
  BY DEF ConverterOps
<1>7. \A f \in Calls : Call(f) \in CallOps
  BY DEF CallOps
<1> QED
  BY <1>1, <1>2, <1>3, <1>4, <1>5, <1>6, <1>7
     DEF Ops, Access, Locked, Unlock, Unlocked, Call

(* Operations that ask for nothing, and those that block nothing.          *)
CalmOps == {op \in Ops : op[1] \notin Stages /\ ~ Asks(op)}
QuietOps == {op \in Ops : op[1] \notin Stages \cup Blocks \cup {"stop_all_work"}}
EasyOps == CalmOps \cap QuietOps

(* Calm operations may come before everything that does not exit.          *)
LEMMA CalmIs ==
  ASSUME NEW ops \in Seq(CalmOps)
  PROVE  /\ ops \in Seq(Ops) /\ Plain(ops) /\ \A r : Answers(ops, r)
         /\ \A i \in 1 .. Len(ops) : ~ InitAccess(ops[i])
<1>1. \A i \in 1 .. Len(ops) : ops[i] \in CalmOps
  BY ElementOfSeq
<1>2. ops \in Seq(Ops)
  <2>1. CalmOps \subseteq Ops
    BY DEF CalmOps
  <2> QED
    BY <2>1, SeqMonotonic
<1> QED
  BY <1>1, <1>2 DEF CalmOps, Plain, Answers, Asks

(* Easy ones also before a place where the mutexes are freed.              *)
LEMMA EasyIs ==
  ASSUME NEW ops \in Seq(EasyOps)
  PROVE  ops \in Seq(CalmOps) /\ ops \in Seq(QuietOps) /\ \A r : Restores(ops, r)
<1>1. ops \in Seq(CalmOps) /\ ops \in Seq(QuietOps)
  <2>1. EasyOps \subseteq CalmOps /\ EasyOps \subseteq QuietOps
    BY DEF EasyOps
  <2> QED
    BY <2>1, SeqMonotonic
<1>2. \A i \in 1 .. Len(ops) : ops[i] \in CalmOps /\ ops[i] \in QuietOps
  BY <1>1, ElementOfSeq
<1>3. \A i \in 1 .. Len(ops) : ~ InitAccess(ops[i]) /\ ops[i][1] \notin Blocks
  BY <1>2 DEF CalmOps, QuietOps, Asks
<1> QED
  BY <1>1, <1>3 DEF Restores

(* Quiet operations and an unlocking unlock, from each of them on.         *)
LEMMA QuietUnlocks ==
  ASSUME NEW ops \in Seq(QuietOps), NEW u \in Ops, u[1] = "unlock", NEW i \in 1 .. Len(ops) + 1
  PROVE  ops \in Seq(Ops) /\ Unlocks(ops \o <<u>>, i)
<1>1. \A j \in 1 .. Len(ops) : ops[j] \in QuietOps
  BY ElementOfSeq
<1>2. ops \in Seq(Ops)
  <2>1. QuietOps \subseteq Ops
    BY DEF QuietOps
  <2> QED
    BY <2>1, SeqMonotonic
<1>3. Len(ops) \in Nat
  BY LenProperties
<1>4. NoBlock(ops, i, Len(ops))
  <2>1. \A j \in i .. Len(ops) : j \in 1 .. Len(ops)
    BY <1>3
  <2> QED
    BY <1>1, <2>1 DEF NoBlock, QuietOps
<1>5. <<u>> \in Seq(Ops) /\ Len(<<u>>) = 1 /\ <<u>>[1] = u
  OBVIOUS
<1>6. Unlocks(<<u>>, 1)
  BY <1>5 DEF Unlocks, NoBlock
<1> QED
  BY <1>2, <1>4, <1>5, <1>6, ConcatUnlocks

(* The operations by what they are.                                        *)
LEMMA EasyAre ==
  /\ SwitchOps \subseteq EasyOps
  /\ \A f \in ConverterAccess \ {"init"} : \A d \in Converters : Access(f, d) \in EasyOps
  /\ Unlock \in EasyOps /\ \A f \in Transactions : Unlocked(f) \in EasyOps
  /\ \A f \in Calls \ (Stages \cup Blocks \cup {"stop_all_work"}) : Call(f) \in EasyOps
  /\ \A f \in Transactions : \A d \in Converters : Locked(f, d) \in CalmOps
  /\ Locked("psu", 0) \in CalmOps
  /\ \A f \in Calls \ Stages : Call(f) \in CalmOps
  /\ \A f \in ConverterAccess : \A d \in Converters : Access(f, d) \in QuietOps
<1>1. SwitchOps \subseteq EasyOps
  <2> SUFFICES ASSUME NEW op \in SwitchOps
               PROVE  op \in EasyOps
    OBVIOUS
  <2>1. op \in Ops /\ op[1] = "switch"
    BY NamesAre DEF Ops
  <2> QED
    BY <2>1 DEF EasyOps, CalmOps, QuietOps, Stages, Blocks, Asks, InitAccess
<1>2. \A f \in ConverterAccess : \A d \in Converters :
        Access(f, d) \in QuietOps /\ (f # "init" => Access(f, d) \in EasyOps)
  BY NamesAre DEF EasyOps, CalmOps, QuietOps, Stages, Blocks, Asks, InitAccess
<1>3. Unlock \in EasyOps /\ \A f \in Transactions : Unlocked(f) \in EasyOps
  BY NamesAre DEF EasyOps, CalmOps, QuietOps, Stages, Blocks, Asks, InitAccess
<1>4. \A f \in Calls \ Stages : Call(f) \in CalmOps
  <2> SUFFICES ASSUME NEW f \in Calls \ Stages
               PROVE  Call(f) \in CalmOps
    OBVIOUS
  <2>1. Call(f) \in Ops /\ Call(f)[1] = f
    BY NamesAre
  <2>2. f # "present" /\ f # "access" /\ f # "lock"
    BY DEF Calls
  <2> QED
    BY <2>1, <2>2 DEF CalmOps, Asks, InitAccess
<1>5. \A f \in Calls \ (Stages \cup Blocks \cup {"stop_all_work"}) : Call(f) \in EasyOps
  BY <1>4, NamesAre DEF EasyOps, QuietOps
<1>6. \A f \in Transactions : \A d \in Converters : Locked(f, d) \in CalmOps
  BY NamesAre DEF CalmOps, Stages, Asks, InitAccess, Transactions
<1>7. Locked("psu", 0) \in CalmOps
  BY NamesAre DEF CalmOps, Stages, Asks, InitAccess
<1> QED
  BY <1>1, <1>2, <1>3, <1>4, <1>5, <1>6, <1>7

(* One more operation.                                                     *)
LEMMA ThenOne ==
  ASSUME NEW x \in Seq(Ops), NEW u \in Ops
  PROVE  /\ x \o <<u>> \in Seq(Ops) /\ Len(x \o <<u>>) = Len(x) + 1
         /\ \A i \in 1 .. Len(x) : (x \o <<u>>)[i] = x[i]
         /\ (x \o <<u>>)[Len(x) + 1] = u
<1>1. <<u>> \in Seq(Ops) /\ Len(<<u>>) = 1 /\ <<u>>[1] = u /\ 1 \in 1 .. Len(<<u>>)
  OBVIOUS
<1>2. Len(x) \in Nat /\ 1 + Len(x) = Len(x) + 1
  BY LenProperties
<1> QED
  BY <1>1, <1>2, ConcatIs DEF Suffix

(* A transaction unlocks what it locked.                                   *)
LEMMA TransactionIs ==
  ASSUME NEW f \in Transactions, NEW d \in Converters
  PROVE  /\ Transaction(f, d) \in Seq(EasyOps) /\ Unlocks(Transaction(f, d), 1)
<1> DEFINE S == <<Select(d)>>
           A == Accesses(f, d)
           C == <<Close>>
           X == (S \o A) \o C
<1>1. S \in Seq(EasyOps) /\ C \in Seq(EasyOps)
  BY SelectIs, SwitchesAre, EasyAre DEF Readings
<1>2. A \in Seq(EasyOps)
  <2>1. f \in ConverterAccess \ {"init"}
    BY DEF Transactions, ConverterAccess
  <2>2. Access(f, d) \in EasyOps
    BY <2>1, EasyAre
  <2>3. <<Access(f, d)>> \in Seq(EasyOps) /\ <<Access(f, d), Access(f, d)>> \in Seq(EasyOps)
    BY <2>2
  <2> QED
    BY <2>3 DEF Accesses
<1> HIDE DEF S, A, C
<1>3. X \in Seq(EasyOps)
  BY <1>1, <1>2, ConcatProperties
<1>4. Unlocked(f) \in EasyOps /\ Unlocked(f) \in Ops /\ Unlocked(f)[1] = "unlock"
  BY EasyAre, NamesAre
<1>5. Transaction(f, d) = X \o <<Unlocked(f)>>
  BY SelectIs DEF Transaction, dc2dc_i2c_close, Close, S, A, C
<1> HIDE DEF X
<1>6. X \o <<Unlocked(f)>> \in Seq(EasyOps)
  <2>1. <<Unlocked(f)>> \in Seq(EasyOps)
    BY <1>4
  <2> QED
    BY <1>3, <2>1, ConcatProperties
<1>7. Unlocks(X \o <<Unlocked(f)>>, 1)
  <2>1. X \in Seq(QuietOps) /\ 1 \in 1 .. Len(X) + 1
    BY <1>3, EasyIs, LenProperties
  <2> QED
    BY <1>4, <2>1, QuietUnlocks
<1> QED
  BY <1>5, <1>6, <1>7

(* A transaction that switches a converter off, one by one.                *)
LEMMA DisablingIs ==
  ASSUME NEW d \in Converters
  PROVE  LET T == Transaction("disable", d) IN
         /\ T \in Seq(Ops) /\ Len(T) = 4
         /\ T[1] = Select(d) /\ T[2] = Access("disable", d) /\ T[3] = Close
         /\ T[4] = Unlocked("disable")
<1> DEFINE a == Select(d)
           b == Access("disable", d)
           c == Close
           u == Unlocked("disable")
           x == <<a>> \o <<b>>
           y == x \o <<c>>
           z == y \o <<u>>
<1>1. a \in Ops /\ b \in Ops /\ c \in Ops /\ u \in Ops
  BY SelectIs, SwitchesAre, NamesAre DEF Ops, Readings, Transactions, ConverterAccess
<1>2. Transaction("disable", d) = z
  BY SelectIs DEF Transaction, Accesses, dc2dc_i2c_close, Close
<1> HIDE DEF a, b, c, u
<1>3. /\ <<a>> \in Seq(Ops) /\ <<b>> \in Seq(Ops) /\ <<c>> \in Seq(Ops) /\ <<u>> \in Seq(Ops)
      /\ Len(<<a>>) = 1 /\ Len(<<b>>) = 1 /\ Len(<<c>>) = 1 /\ Len(<<u>>) = 1
  BY <1>1
<1>4. x \in Seq(Ops) /\ Len(x) = 2 /\ x[1] = a /\ x[2] = b
  BY <1>1, <1>3, ThenOne
<1> HIDE DEF x
<1>5. y \in Seq(Ops) /\ Len(y) = 3 /\ y[1] = a /\ y[2] = b /\ y[3] = c
  <2>1. 1 \in 1 .. Len(x) /\ 2 \in 1 .. Len(x) /\ Len(x) + 1 = 3
    BY <1>4
  <2>2. /\ y \in Seq(Ops) /\ Len(y) = Len(x) + 1
        /\ \A i \in 1 .. Len(x) : y[i] = x[i] /\ y[Len(x) + 1] = c
    BY <1>1, <1>4, ThenOne
  <2> HIDE DEF y
  <2> QED
    BY <1>4, <2>1, <2>2
<1> HIDE DEF y
<1>6. z \in Seq(Ops) /\ Len(z) = 4 /\ z[1] = a /\ z[2] = b /\ z[3] = c /\ z[4] = u
  <2>1. 1 \in 1 .. Len(y) /\ 2 \in 1 .. Len(y) /\ 3 \in 1 .. Len(y) /\ Len(y) + 1 = 4
    BY <1>5
  <2>2. /\ z \in Seq(Ops) /\ Len(z) = Len(y) + 1
        /\ \A i \in 1 .. Len(y) : z[i] = y[i] /\ z[Len(y) + 1] = u
    BY <1>1, <1>5, ThenOne
  <2> HIDE DEF z
  <2> QED
    BY <1>5, <2>1, <2>2
<1> HIDE DEF z
<1> QED
  BY <1>2, <1>6 DEF a, b, c, u

(* Past the sleep it may take the place of its lock.                       *)
LEMMA DisablingDisables ==
  ASSUME NEW d \in Converters, NEW r, r # <<>> => r[1][1] # "access"
  PROVE  Disables(Transaction("disable", d), r)
<1> DEFINE T == Transaction("disable", d)
<1>1. /\ T \in Seq(Ops) /\ Len(T) = 4
      /\ T[1] = Select(d) /\ T[2] = Access("disable", d) /\ T[3] = Close
      /\ T[4] = Unlocked("disable")
  BY DisablingIs
<1> HIDE DEF T
<1>2. /\ T[1][1] = "switch" /\ T[3][1] = "switch" /\ T[4][1] = "unlock"
      /\ T[2][1] = "access" /\ T[2][2] = "disable" /\ T[2][3] = d
  BY <1>1, SelectIs, SwitchesAre, NamesAre DEF Readings, Transactions, ConverterAccess
<1>3. \A i \in 1 .. Len(T) : i = 1 \/ i = 2 \/ i = 3 \/ i = 4
  BY <1>1
<1>4. T[2 - 1] = Select(T[2][3])
  BY <1>1, <1>2
<1>5. ASSUME NEW i \in 1 .. Len(T)
      PROVE  OffOp(T[i]) /\ (T[i][1] = "access" => i = 1 \/ T[i - 1] = Select(T[i][3]))
  BY <1>2, <1>3, <1>4 DEF OffOp
<1> QED
  BY <1>5 DEF Disables, T

(* One converter stands for all of them in a restart.                      *)
LEMMA HeadOfAll ==
  Head(InOrder) \in Converters
<1>1. 1 \in 1 .. N /\ InOrder \in [1 .. N -> Converters]
  BY InOrderIs
<1>2. InOrder \in Seq(Converters) /\ InOrder # <<>>
  BY <1>1, InOrderIs
<1> QED
  BY <1>2, HeadTailProperties

(* A restart may come before everything: it says when it is done.          *)
LEMMA RestartIs ==
  /\ restart_asics_full \in Seq(CalmOps) /\ \A r : Restores(restart_asics_full, r)
<1> DEFINE d == Head(InOrder)
           e == <<Call("may_exit"), Call("restarted")>>
           X == <<Call("restart")>> \o dc2dc_get_all_stats(d) \o read_ac2dc_errors
                  \o <<Call("reset_power?")>> \o dc2dc_i2c_close \o test_fix_ac2dc_limits
                  \o dc2dc_set_vtrim(d)
<1>1. restart_asics_full = X \o e
  BY DEF restart_asics_full
<1>2. d \in Converters
  BY HeadOfAll
<1>3. /\ <<Call("restart")>> \in Seq(CalmOps) /\ <<Call("reset_power?")>> \in Seq(CalmOps)
      /\ e \in Seq(CalmOps) /\ e \in Seq(EasyOps)
  <2>1. \A f \in {"restart", "reset_power?", "may_exit", "restarted"} : f \in Calls \ Stages
    BY DEF Calls, Stages
  <2>2. \A f \in {"may_exit", "restarted"} :
          f \in Calls \ (Stages \cup Blocks \cup {"stop_all_work"})
    BY DEF Calls, Stages, Blocks
  <2>3. \A f \in {"restart", "reset_power?", "may_exit", "restarted"} : Call(f) \in CalmOps
    BY <2>1, EasyAre
  <2>4. \A f \in {"may_exit", "restarted"} : Call(f) \in EasyOps
    BY <2>2, EasyAre
  <2> QED
    BY <2>3, <2>4
<1>4. dc2dc_get_all_stats(d) \in Seq(CalmOps) /\ dc2dc_set_vtrim(d) \in Seq(CalmOps)
  <2>1. Locked("stats", d) \in CalmOps /\ Locked("vtrim", d) \in CalmOps
    BY <1>2, EasyAre DEF Transactions
  <2> QED
    BY <2>1 DEF dc2dc_get_all_stats, dc2dc_set_vtrim
<1>5. read_ac2dc_errors \in Seq(CalmOps) /\ dc2dc_i2c_close \in Seq(CalmOps)
      /\ test_fix_ac2dc_limits \in Seq(CalmOps)
  <2>1. ReadPsu \in CalmOps /\ Close \in CalmOps
    BY SwitchesAre, EasyAre DEF Readings, EasyOps
  <2>2. Call("overload?") \in CalmOps
    <3>1. "overload?" \in Calls \ Stages
      BY DEF Calls, Stages
    <3> QED
      BY <3>1, EasyAre
  <2> QED
    BY <2>1, <2>2 DEF read_ac2dc_errors, dc2dc_i2c_close, test_fix_ac2dc_limits, Close
<1> HIDE DEF d, e
<1>6. X \in Seq(CalmOps)
  BY <1>3, <1>4, <1>5, ConcatProperties
<1> HIDE DEF X
<1>7. X \o e \in Seq(CalmOps)
  BY <1>3, <1>6, ConcatProperties
<1>8. /\ X \in Seq(Ops) /\ e \in Seq(Ops) /\ Len(e) = 2 /\ e[1] = Call("may_exit")
      /\ e[2] = Call("restarted")
  BY <1>3, <1>6, CalmIs DEF e
<1>9. ASSUME NEW r, NEW i \in 1 .. Len(X \o e)
      PROVE  /\ ~ InitAccess((X \o e)[i])
             /\ (X \o e)[i][1] \in Blocks =>
                  \E j \in i + 1 .. Len(X \o e) : (X \o e)[j] = Call("restarted")
  <2> DEFINE z == X \o e
  <2>1. /\ Len(X) \in Nat /\ Len(z) = Len(X) + 2 /\ z[Len(X) + 2] = Call("restarted")
    <3>1. 2 \in 1 .. Len(e) /\ 2 + Len(X) = Len(X) + 2
      BY <1>8, LenProperties
    <3> QED
      BY <1>8, <3>1, ConcatIs DEF Suffix
  <2>2. ~ InitAccess(z[i])
    BY <1>7, CalmIs
  <2>3. z[i][1] \in Blocks => i # Len(X) + 2
    <3>1. Call("restarted")[1] \notin Blocks
      BY DEF Call, Blocks
    <3> QED
      BY <2>1, <3>1
  <2> HIDE DEF z
  <2>4. i # Len(X) + 2 => Len(X) + 2 \in i + 1 .. Len(z)
    <3>1. i \in 1 .. Len(z)
      BY DEF z
    <3> QED
      BY <2>1, <3>1
  <2> QED
    BY <2>1, <2>2, <2>3, <2>4 DEF z
<1>10. \A r : Restores(X \o e, r)
  BY <1>9 DEF Restores
<1> QED
  BY <1>1, <1>7, <1>10

(* Every converter is switched off.                                        *)
LEMMA DisableAllIs ==
  /\ DisableAll \in Seq(CalmOps) /\ Len(DisableAll) = N
  /\ \A k \in 1 .. N : DisableAll[k] = Locked("disable", InOrder[k])
<1>1. N \in Nat /\ InOrder \in [1 .. N -> Converters]
  BY InOrderIs
<1>2. DisableAll = [k \in 1 .. N |-> Locked("disable", InOrder[k])]
  BY <1>1 DEF DisableAll
<1>3. \A k \in 1 .. N : Locked("disable", InOrder[k]) \in CalmOps
  BY <1>1, EasyAre DEF Transactions
<1>4. DisableAll \in [1 .. N -> CalmOps]
      /\ \A k \in 1 .. N : DisableAll[k] = Locked("disable", InOrder[k])
  BY <1>2, <1>3
<1>5. DisableAll \in Seq(CalmOps)
  BY <1>1, <1>4
<1>6. Len(DisableAll) = N
  <2>1. DOMAIN DisableAll = 1 .. N
    BY <1>4
  <2>2. Len(DisableAll) \in Nat /\ DOMAIN DisableAll = 1 .. Len(DisableAll)
    BY <1>5, LenProperties
  <2> QED
    BY <1>1, <2>1, <2>2
<1> QED
  BY <1>4, <1>5, <1>6

\* exit_nicely, up to its loop over the converters
Leaving == <<Call("enter"), Close, Call("stop_all_work"), Call("exiting?"), Call("unlock_all"),
             Call("sleep")>>

(* exit_nicely, one by one.                                                *)
LEMMA ExitIs ==
  /\ exit_nicely \in Seq(Ops) /\ Len(exit_nicely) = N + 7
  /\ \A i \in 1 .. 6 : exit_nicely[i] = Leaving[i]
  /\ \A k \in 1 .. N : exit_nicely[6 + k] = Locked("disable", InOrder[k])
  /\ exit_nicely[N + 7] = Call("exit")
<1> DEFINE a == <<Call("enter")>>
           b == <<Close>>
           c == <<Call("stop_all_work"), Call("exiting?"), Call("unlock_all"), Call("sleep")>>
           x == a \o b
           y == x \o c
           z == y \o DisableAll
<1>1. exit_nicely = z \o <<Call("exit")>>
  BY DEF exit_nicely, dc2dc_i2c_close, Close
<1>2. /\ \A f \in {"enter", "stop_all_work", "exiting?", "unlock_all", "sleep", "exit"} :
          Call(f) \in Ops
      /\ Close \in Ops
  BY NamesAre, SwitchesAre DEF Calls, Readings, Ops
<1>3. /\ a \in Seq(Ops) /\ Len(a) = 1 /\ a[1] = Call("enter")
      /\ b \in Seq(Ops) /\ Len(b) = 1 /\ b[1] = Close
  BY <1>2
<1>4. /\ c \in Seq(Ops) /\ Len(c) = 4 /\ c[1] = Call("stop_all_work") /\ c[2] = Call("exiting?")
      /\ c[3] = Call("unlock_all") /\ c[4] = Call("sleep")
  BY <1>2
<1>5. DisableAll \in Seq(Ops) /\ Len(DisableAll) = N /\ N \in Nat
  BY DisableAllIs, CalmIs, InOrderIs
<1> HIDE DEF a, b, c
<1>6. x \in Seq(Ops) /\ Len(x) = 2 /\ x[1] = Call("enter") /\ x[2] = Close
  <2>1. 1 \in 1 .. Len(a) /\ 1 \in 1 .. Len(b) /\ 1 + Len(a) = 2
    BY <1>3
  <2>2. /\ x \in Seq(Ops) /\ Len(x) = Len(a) + Len(b) /\ \A i \in 1 .. Len(a) : x[i] = a[i]
        /\ \A i \in 1 .. Len(b) : b[i] = x[i + Len(a)]
    BY <1>3, ConcatIs DEF Suffix
  <2> HIDE DEF x
  <2> QED
    BY <1>3, <2>1, <2>2
<1> HIDE DEF x
<1>7. /\ y \in Seq(Ops) /\ Len(y) = 6 /\ y[1] = Call("enter") /\ y[2] = Close
      /\ y[3] = Call("stop_all_work") /\ y[4] = Call("exiting?")
      /\ y[5] = Call("unlock_all") /\ y[6] = Call("sleep")
  <2>1. /\ 1 \in 1 .. Len(x) /\ 2 \in 1 .. Len(x)
        /\ 1 \in 1 .. Len(c) /\ 2 \in 1 .. Len(c) /\ 3 \in 1 .. Len(c) /\ 4 \in 1 .. Len(c)
        /\ 1 + Len(x) = 3 /\ 2 + Len(x) = 4 /\ 3 + Len(x) = 5 /\ 4 + Len(x) = 6
        /\ Len(x) + Len(c) = 6
    BY <1>4, <1>6
  <2>2. /\ y \in Seq(Ops) /\ Len(y) = Len(x) + Len(c) /\ \A i \in 1 .. Len(x) : y[i] = x[i]
        /\ \A i \in 1 .. Len(c) : c[i] = y[i + Len(x)]
    BY <1>4, <1>6, ConcatIs DEF Suffix
  <2> HIDE DEF y
  <2>3. y[1] = x[1] /\ y[2] = x[2]
    BY <2>1, <2>2
  <2>4. y[3] = c[1] /\ y[4] = c[2] /\ y[5] = c[3] /\ y[6] = c[4]
    BY <2>1, <2>2
  <2> QED
    BY <1>4, <1>6, <2>1, <2>2, <2>3, <2>4
<1> HIDE DEF y
<1>8. /\ z \in Seq(Ops) /\ Len(z) = N + 6
      /\ \A i \in 1 .. 6 : z[i] = y[i]
      /\ \A k \in 1 .. N : z[6 + k] = Locked("disable", InOrder[k])
  <2>1. /\ z \in Seq(Ops) /\ Len(z) = Len(y) + Len(DisableAll)
        /\ \A i \in 1 .. Len(y) : z[i] = y[i]
        /\ \A i \in 1 .. Len(DisableAll) : DisableAll[i] = z[i + Len(y)]
    BY <1>5, <1>7, ConcatIs DEF Suffix
  <2>2. \A k \in 1 .. N : k + Len(y) = 6 + k
    BY <1>5, <1>7
  <2>3. Len(y) + Len(DisableAll) = N + 6
    BY <1>5, <1>7
  <2> HIDE DEF z
  <2> QED
    BY <1>5, <1>7, <2>1, <2>2, <2>3, DisableAllIs
<1> HIDE DEF z
<1>9. /\ z \o <<Call("exit")>> \in Seq(Ops) /\ Len(z \o <<Call("exit")>>) = Len(z) + 1
      /\ \A i \in 1 .. Len(z) : (z \o <<Call("exit")>>)[i] = z[i]
      /\ (z \o <<Call("exit")>>)[Len(z) + 1] = Call("exit")
  BY <1>2, <1>8, ThenOne
<1>10. Len(z) + 1 = N + 7 /\ (\A i \in 1 .. 6 : i \in 1 .. Len(z))
      /\ (\A k \in 1 .. N : 6 + k \in 1 .. Len(z))
  BY <1>5, <1>8
<1>11. \A i \in 1 .. 6 : y[i] = Leaving[i]
  <2>1. \A i \in 1 .. 6 : i = 1 \/ i = 2 \/ i = 3 \/ i = 4 \/ i = 5 \/ i = 6
    OBVIOUS
  <2> QED
    BY <1>7, <2>1 DEF Leaving
<1> QED
  BY <1>1, <1>8, <1>9, <1>10, <1>11

(* exit_nicely is a program with all its stages ahead.                     *)
LEMMA ExitIsProgram ==
  Program(exit_nicely) /\ \A c \in Stages : Has(exit_nicely, c)
<1> DEFINE s == exit_nicely
<1>1. /\ s \in Seq(Ops) /\ Len(s) = N + 7 /\ N \in Nat \ {0}
      /\ \A i \in 1 .. 6 : s[i] = Leaving[i]
      /\ \A k \in 1 .. N : s[6 + k] = Locked("disable", InOrder[k])
      /\ s[N + 7] = Call("exit")
  BY ExitIs, InOrderIs
<1> HIDE DEF s
<1>n. N \in Nat /\ Len(s) = N + 7
  BY <1>1
<1>2. /\ s[1][1] = "enter" /\ s[2][1] = "switch"
      /\ s[3][1] = "stop_all_work" /\ s[4][1] = "exiting?"
      /\ s[5][1] = "unlock_all" /\ s[6][1] = "sleep" /\ s[N + 7][1] = "exit"
  <2>1. Close[1] = "switch"
    BY NamesAre, SwitchesAre DEF Readings
  <2>2. /\ s[1] = Call("enter") /\ s[2] = Close /\ s[3] = Call("stop_all_work")
        /\ s[4] = Call("exiting?") /\ s[5] = Call("unlock_all") /\ s[6] = Call("sleep")
    BY <1>1 DEF Leaving
  <2> QED
    BY <1>1, <2>1, <2>2 DEF Call
<1>3. \A k \in 1 .. N : s[6 + k][1] = "lock" /\ s[6 + k][2] = "disable"
  <2> SUFFICES ASSUME NEW k \in 1 .. N
               PROVE  s[6 + k][1] = "lock" /\ s[6 + k][2] = "disable"
    OBVIOUS
  <2>1. s[6 + k] = Locked("disable", InOrder[k])
    BY <1>1
  <2> QED
    BY <2>1 DEF Locked
<1>4. ASSUME NEW i \in 1 .. Len(s)
      PROVE  \/ i \in 1 .. 6
             \/ i > 6 /\ s[i][1] = "lock" /\ s[i][2] = "disable"
             \/ i = Len(s) /\ i > 6 /\ s[i][1] = "exit"
  <2>1. i \in 1 .. 6 \/ (i > 6 /\ i = N + 7) \/ (i > 6 /\ i - 6 \in 1 .. N /\ 6 + (i - 6) = i)
    BY <1>n
  <2> QED
    BY <1>n, <1>2, <1>3, <2>1
<1>5. \A i \in 1 .. 6 : i = 1 \/ i = 2 \/ i = 3 \/ i = 4 \/ i = 5 \/ i = 6
  OBVIOUS
<1>6. ASSUME NEW i \in 1 .. Len(s)
      PROVE  /\ ExitIsLast(s, i) /\ AllAreDisabled(s, i) /\ ThenSleeps(s, i)
             /\ Recovers(s, i) /\ SwitchesOff(s, i) /\ Answered(s, i)
  <2>1. ExitIsLast(s, i)
    BY <1>2, <1>4, <1>5 DEF ExitIsLast
  <2>2. AllAreDisabled(s, i)
    <3> SUFFICES ASSUME s[i][1] = "sleep"
                 PROVE  /\ Len(s) = i + N + 1 /\ s[Len(s)][1] = "exit"
                        /\ \A k \in 1 .. N : s[i + k] = Locked("disable", InOrder[k])
      BY DEF AllAreDisabled
    <3>1. i = 6
      BY <1>2, <1>4, <1>5
    <3> QED
      BY <1>1, <1>n, <1>2, <3>1
  <2>3. ThenSleeps(s, i)
    <3> SUFFICES ASSUME s[i][1] = "unlock_all"
                 PROVE  i < Len(s) /\ s[i + 1][1] = "sleep"
      BY DEF ThenSleeps
    <3>1. i = 5
      BY <1>2, <1>4, <1>5
    <3> QED
      BY <1>n, <1>2, <3>1
  <2>4. Recovers(s, i)
    <3> SUFFICES ASSUME NEW u \in i + 1 .. Len(s), s[u][1] = "unlock_all"
                 PROVE  ~ InitAccess(s[i]) /\ s[i][1] \notin Blocks
      BY DEF Recovers
    <3>1. u = 5
      <4>1. u \in 1 .. Len(s)
        BY <1>n
      <4> QED
        BY <1>2, <1>4, <1>5, <4>1
    <3>2. i = 1 \/ i = 2 \/ i = 3 \/ i = 4
      BY <1>n, <3>1
    <3> QED
      BY <1>2, <3>2 DEF InitAccess, Blocks
  <2>5. SwitchesOff(s, i)
    <3> SUFFICES ASSUME ~ SleepAhead(s, i)
                 PROVE  OffOp(s[i]) /\ s[i][1] # "access"
      BY DEF SwitchesOff
    <3>1. i \notin 1 .. 6
      <4>1. i \in 1 .. 6 => 6 \in i .. Len(s)
        BY <1>n
      <4> QED
        BY <1>2, <4>1 DEF SleepAhead
    <3> QED
      BY <1>4, <3>1 DEF OffOp
  <2>6. Answered(s, i)
    BY <1>2, <1>4, <1>5 DEF Answered, Asks, InitAccess
  <2> QED
    BY <2>1, <2>2, <2>3, <2>4, <2>5, <2>6
<1>7. Program(s)
  BY <1>1, <1>6 DEF Program
<1>8. \A c \in Stages : Has(s, c)
  <2>1. 5 \in 1 .. Len(s) /\ 6 \in 1 .. Len(s) /\ N + 7 \in 1 .. Len(s)
    BY <1>n
  <2> QED
    BY <1>2, <2>1 DEF Has, Stages
<1> QED
  BY <1>7, <1>8 DEF s

(* What fails is given up: its mutex is unlocked.                          *)
LEMMA InitFailedIs ==
  ASSUME NEW d \in Converters
  PROVE  /\ InitFailed(d) \in Seq(Ops) /\ Plain(InitFailed(d))
         /\ Unlocks(InitFailed(d), 1) /\ \A r : Unlocks(r, 1) => Answers(InitFailed(d), r)
<1> DEFINE a == Close
           b == Unlock
           c == Locked("disable", d)
           e == <<"absent", d>>
           l == Locked("none", 0)
           x == <<a>> \o <<b>>
           y == x \o <<c>>
           z == y \o <<e, l>>
<1>1. /\ a \in Ops /\ b \in Ops /\ c \in Ops /\ e \in Ops /\ l \in Ops
      /\ a[1] = "switch" /\ b[1] = "unlock" /\ c[1] = "lock" /\ c[2] = "disable"
      /\ e[1] = "absent"
  <2>1. a \in Ops /\ a[1] = "switch"
    BY NamesAre, SwitchesAre DEF Ops, Readings
  <2>2. "disable" \in Transactions /\ "none" \in {"psu", "none"}
    BY DEF Transactions
  <2>3. b \in Ops /\ c \in Ops /\ l \in Ops
        /\ b[1] = "unlock" /\ c[1] = "lock" /\ c[2] = "disable"
    BY <2>2, NamesAre
  <2>4. e \in Ops
    BY NamesAre
  <2> QED
    BY <2>1, <2>3, <2>4
<1>2. InitFailed(d) = z
  BY DEF InitFailed, dc2dc_i2c_close, Close, dc2dc_disable_dc2dc, Lock
<1> HIDE DEF a, b, c, e, l
<1>3. x \in Seq(Ops) /\ Len(x) = 2 /\ x[1] = a /\ x[2] = b
  <2>1. <<a>> \in Seq(Ops) /\ Len(<<a>>) = 1 /\ <<a>>[1] = a
    BY <1>1
  <2> QED
    BY <1>1, <2>1, ThenOne
<1> HIDE DEF x
<1>4. y \in Seq(Ops) /\ Len(y) = 3 /\ y[1] = a /\ y[2] = b /\ y[3] = c
  <2>1. 1 \in 1 .. Len(x) /\ 2 \in 1 .. Len(x) /\ Len(x) + 1 = 3
    BY <1>3
  <2>2. /\ y \in Seq(Ops) /\ Len(y) = Len(x) + 1
        /\ \A i \in 1 .. Len(x) : y[i] = x[i] /\ y[Len(x) + 1] = c
    BY <1>1, <1>3, ThenOne
  <2> HIDE DEF y
  <2> QED
    BY <1>3, <2>1, <2>2
<1> HIDE DEF y
<1>5. /\ z \in Seq(Ops) /\ Len(z) = 5 /\ z[1] = a /\ z[2] = b /\ z[3] = c
      /\ z[4] = e /\ z[5] = l
  <2>1. <<e, l>> \in Seq(Ops) /\ Len(<<e, l>>) = 2 /\ <<e, l>>[1] = e /\ <<e, l>>[2] = l
    BY <1>1
  <2>2. /\ 1 \in 1 .. Len(y) /\ 2 \in 1 .. Len(y) /\ 3 \in 1 .. Len(y) /\ 1 + Len(y) = 4
        /\ 2 + Len(y) = 5 /\ Len(y) + Len(<<e, l>>) = 5
        /\ 1 \in 1 .. Len(<<e, l>>) /\ 2 \in 1 .. Len(<<e, l>>)
    BY <1>4, <2>1
  <2> DEFINE w == <<e, l>>
  <2> HIDE DEF w
  <2>3. /\ z \in Seq(Ops) /\ Len(z) = Len(y) + Len(w) /\ \A i \in 1 .. Len(y) : z[i] = y[i]
        /\ \A i \in 1 .. Len(w) : w[i] = z[i + Len(y)]
    BY <1>4, <2>1, ConcatIs DEF Suffix, w
  <2>4. w[1] = e /\ w[2] = l /\ 1 \in 1 .. Len(w) /\ 2 \in 1 .. Len(w) /\ Len(y) + Len(w) = 5
    BY <2>1, <2>2 DEF w
  <2> HIDE DEF z
  <2>5. z[1] = y[1] /\ z[2] = y[2] /\ z[3] = y[3]
    BY <2>2, <2>3
  <2>6. z[4] = w[1] /\ z[5] = w[2]
    BY <2>2, <2>3, <2>4
  <2> QED
    BY <1>4, <2>3, <2>4, <2>5, <2>6
<1> HIDE DEF z
<1>6. \A i \in 1 .. Len(z) : i = 1 \/ i = 2 \/ i = 3 \/ i = 4 \/ i = 5
  BY <1>5
<1>7. z[5][1] = "lock"
  BY <1>5, NamesAre DEF l
<1>8. Plain(z)
  BY <1>1, <1>5, <1>6, <1>7 DEF Plain, Stages
<1>9. Unlocks(z, 1)
  <2>1. 2 \in 1 .. Len(z) /\ \A j \in 1 .. 2 - 1 : j = 1
    BY <1>5
  <2>2. NoBlock(z, 1, 2 - 1)
    BY <1>1, <1>5, <2>1 DEF NoBlock, Blocks
  <2> QED
    BY <1>1, <1>5, <2>1, <2>2 DEF Unlocks
<1>10. ASSUME NEW r, Unlocks(r, 1)
       PROVE  Answers(z, r)
  <2> SUFFICES ASSUME NEW i \in 1 .. Len(z), Asks(z[i])
               PROVE  NoBlock(z, i + 1, Len(z))
    BY <1>10 DEF Answers
  <2>1. i = 5
    BY <1>1, <1>5, <1>6 DEF Asks, InitAccess
  <2>2. \A j \in i + 1 .. Len(z) : FALSE
    BY <1>5, <2>1
  <2> QED
    BY <2>2 DEF NoBlock
<1> QED
  BY <1>2, <1>5, <1>8, <1>9, <1>10

(* A reading that fails closes the switches and unlocks.                   *)
LEMMA GivenUpIs ==
  LET G == dc2dc_i2c_close \o <<Unlock>> IN
  G \in Seq(EasyOps) /\ Unlocks(G, 1)
<1>1. dc2dc_i2c_close \in Seq(EasyOps) /\ <<Unlock>> \in Seq(EasyOps)
  <2>1. Close \in EasyOps /\ Unlock \in EasyOps
    BY EasyAre, SwitchesAre DEF Readings
  <2> QED
    BY <2>1 DEF dc2dc_i2c_close, Close
<1>2. Unlock \in Ops /\ Unlock[1] = "unlock"
  BY NamesAre
<1>3. dc2dc_i2c_close \in Seq(QuietOps) /\ 1 \in 1 .. Len(dc2dc_i2c_close) + 1
  BY <1>1, EasyIs, LenProperties
<1>4. Unlocks(dc2dc_i2c_close \o <<Unlock>>, 1)
  BY <1>2, <1>3, QuietUnlocks
<1>5. dc2dc_i2c_close \o <<Unlock>> \in Seq(EasyOps)
  BY <1>1, ConcatProperties
<1> QED
  BY <1>4, <1>5

(* A measurement locks i2c_mutex for nothing else, and unlocks it.         *)
LEMMA PowerIs ==
  LET P == update_ac2dc_power_measurments IN
  /\ P \in Seq(Ops) /\ Plain(P) /\ \A r : Answers(P, r)
  /\ \A i \in 1 .. Len(P) : ~ InitAccess(P[i])
<1> DEFINE a == Locked("none", 0)
           b == ReadPsu
           c == Call("may_exit")
           u == Unlock
           x == <<a>> \o <<b, c>>
           z == x \o <<u>>
<1>1. /\ a \in Ops /\ b \in Ops /\ c \in Ops /\ u \in Ops
      /\ a[1] = "lock" /\ b[1] = "switch" /\ c[1] = "may_exit" /\ u[1] = "unlock"
  BY NamesAre, SwitchesAre DEF Ops, Readings, Calls
<1>2. update_ac2dc_power_measurments = z
  BY DEF update_ac2dc_power_measurments, update_single_psu, Lock
<1> HIDE DEF a, b, c, u
<1>3. x \in Seq(Ops) /\ Len(x) = 3 /\ x[1] = a /\ x[2] = b /\ x[3] = c
  <2>1. <<b, c>> \in Seq(Ops) /\ Len(<<b, c>>) = 2 /\ <<b, c>>[1] = b /\ <<b, c>>[2] = c
    BY <1>1
  <2>2. <<a>> \in Seq(Ops) /\ Len(<<a>>) = 1 /\ <<a>>[1] = a
    BY <1>1
  <2> DEFINE v == <<a>>
             w == <<b, c>>
  <2> HIDE DEF v, w
  <2>3. /\ x \in Seq(Ops) /\ Len(x) = Len(v) + Len(w) /\ \A i \in 1 .. Len(v) : x[i] = v[i]
        /\ \A i \in 1 .. Len(w) : w[i] = x[i + Len(v)]
    BY <2>1, <2>2, ConcatIs DEF Suffix, v, w
  <2>4. v[1] = a /\ w[1] = b /\ w[2] = c /\ Len(v) = 1 /\ Len(w) = 2
    BY <2>1, <2>2 DEF v, w
  <2>5. 1 \in 1 .. Len(v) /\ 1 \in 1 .. Len(w) /\ 2 \in 1 .. Len(w) /\ 1 + Len(v) = 2
        /\ 2 + Len(v) = 3 /\ Len(v) + Len(w) = 3
    BY <2>4
  <2> HIDE DEF x
  <2> QED
    BY <2>3, <2>4, <2>5
<1> HIDE DEF x
<1>4. z \in Seq(Ops) /\ Len(z) = 4 /\ z[1] = a /\ z[2] = b /\ z[3] = c /\ z[4] = u
  <2>1. 1 \in 1 .. Len(x) /\ 2 \in 1 .. Len(x) /\ 3 \in 1 .. Len(x) /\ Len(x) + 1 = 4
    BY <1>3
  <2>2. /\ z \in Seq(Ops) /\ Len(z) = Len(x) + 1
        /\ \A i \in 1 .. Len(x) : z[i] = x[i] /\ z[Len(x) + 1] = u
    BY <1>1, <1>3, ThenOne
  <2> HIDE DEF z
  <2> QED
    BY <1>3, <2>1, <2>2
<1> HIDE DEF z
<1>5. \A i \in 1 .. Len(z) : i = 1 \/ i = 2 \/ i = 3 \/ i = 4
  BY <1>4
<1>6. Plain(z) /\ \A i \in 1 .. Len(z) : ~ InitAccess(z[i])
  BY <1>1, <1>4, <1>5 DEF Plain, Stages, InitAccess
<1>7. Unlocks(z, 2)
  <2>1. 4 \in 2 .. Len(z) /\ \A j \in 2 .. 4 - 1 : j = 2 \/ j = 3
    BY <1>4
  <2>2. NoBlock(z, 2, 4 - 1)
    BY <1>1, <1>4, <2>1 DEF NoBlock, Blocks
  <2> QED
    BY <1>1, <1>4, <2>1, <2>2 DEF Unlocks
<1>8. \A r : Answers(z, r)
  <2> SUFFICES ASSUME NEW r, NEW i \in 1 .. Len(z), Asks(z[i])
               PROVE  Unlocks(z, i + 1)
    BY DEF Answers
  <2>1. i = 1
    BY <1>1, <1>4, <1>5 DEF Asks, InitAccess
  <2> QED
    BY <1>7, <2>1
<1> QED
  BY <1>2, <1>4, <1>6, <1>8

(* A program that exits nowhere.                                           *)
Answering(s) == \A i \in 1 .. Len(s) : Asks(s[i]) => Unlocks(s, i + 1)

(* Without any stage of an exit, a program only has to unlock.             *)
LEMMA PlainIsProgram ==
  ASSUME NEW s \in Seq(Ops), Plain(s), Answering(s)
  PROVE  Program(s) /\ \A c \in Stages : ~ Has(s, c)
<1>1. Len(s) \in Nat /\ \A i \in 1 .. Len(s) : s[i][1] \notin Stages
  BY LenProperties DEF Plain
<1>2. ASSUME NEW i \in 1 .. Len(s)
      PROVE  /\ ExitIsLast(s, i) /\ AllAreDisabled(s, i) /\ ThenSleeps(s, i)
             /\ Recovers(s, i) /\ SwitchesOff(s, i) /\ Answered(s, i)
  <2>1. ExitIsLast(s, i) /\ AllAreDisabled(s, i) /\ ThenSleeps(s, i)
    BY <1>1 DEF ExitIsLast, AllAreDisabled, ThenSleeps, Stages
  <2>2. Recovers(s, i)
    <3>1. \A u \in i + 1 .. Len(s) : u \in 1 .. Len(s)
      BY <1>1
    <3> QED
      BY <1>1, <3>1 DEF Recovers, Stages
  <2>3. SwitchesOff(s, i)
    <3>1. Len(s) \in 1 .. Len(s)
      BY <1>1
    <3> QED
      BY <1>1, <3>1 DEF SwitchesOff, Stages
  <2>4. Answered(s, i)
    BY DEF Answered, Answering
  <2> QED
    BY <2>1, <2>2, <2>3, <2>4
<1> QED
  BY <1>1, <1>2 DEF Program, Has

\* i2c_mutex is locked at both ends
Open(x) ==
  /\ x \in Seq(Ops) /\ Plain(x) /\ Unlocks(x, 1)
  /\ \A i \in 1 .. Len(x) : Asks(x[i]) => Unlocks(x, i + 1) \/ NoBlock(x, i + 1, Len(x))

(* Two such sequences are one.                                             *)
LEMMA PlainConcat ==
  ASSUME NEW x \in Seq(Ops), NEW y \in Seq(Ops), Plain(x), Plain(y)
  PROVE  Plain(x \o y)
<1> DEFINE z == x \o y
<1>1. /\ Len(x) \in Nat /\ Len(y) \in Nat /\ Len(z) = Len(x) + Len(y)
      /\ \A i \in 1 .. Len(x) : z[i] = x[i]
      /\ \A i \in 1 .. Len(y) : y[i] = z[i + Len(x)]
  BY ConcatIs DEF Suffix
<1> HIDE DEF z
<1>2. ASSUME NEW i \in 1 .. Len(z)
      PROVE  z[i][1] \notin Stages
  <2>1. i \in 1 .. Len(x) \/ (i - Len(x) \in 1 .. Len(y) /\ (i - Len(x)) + Len(x) = i)
    BY <1>1
  <2> QED
    BY <1>1, <2>1 DEF Plain
<1> QED
  BY <1>2 DEF Plain, z

(* One that answers, before another one.                                   *)
LEMMA AnsweringConcat ==
  ASSUME NEW x \in Seq(Ops), NEW y \in Seq(Ops), Answers(x, y), Answering(y)
  PROVE  Answering(x \o y)
<1> DEFINE z == x \o y
<1>1. /\ Len(x) \in Nat /\ Len(y) \in Nat /\ Len(z) = Len(x) + Len(y) /\ z \in Seq(Ops)
      /\ \A i \in 1 .. Len(x) : z[i] = x[i]
      /\ Suffix(y, z, Len(x))
  BY ConcatIs
<1> HIDE DEF z
<1>2. ASSUME NEW i \in 1 .. Len(z), Asks(z[i])
      PROVE  Unlocks(z, i + 1)
  <2>1. CASE i <= Len(x)
    <3>1. i \in 1 .. Len(x) /\ i + 1 \in 1 .. Len(x) + 1
      BY <1>1, <2>1
    <3>2. Unlocks(x, i + 1) \/ (NoBlock(x, i + 1, Len(x)) /\ Unlocks(y, 1))
      BY <1>1, <1>2, <3>1 DEF Answers
    <3> QED
      BY <3>1, <3>2, ConcatUnlocks DEF z
  <2>2. CASE ~ (i <= Len(x))
    <3> DEFINE k == i - Len(x)
    <3>1. k \in 1 .. Len(y) /\ k + Len(x) = i /\ k + 1 \in 1 .. Len(y) + 1
          /\ (k + 1) + Len(x) = i + 1
      BY <1>1, <2>2
    <3> HIDE DEF k
    <3>2. y[k] = z[i]
      BY <1>1, <3>1 DEF Suffix
    <3>3. Unlocks(y, k + 1)
      BY <1>2, <3>1, <3>2 DEF Answering
    <3> QED
      BY <1>1, <3>1, <3>3, SuffixUnlocks
  <2> QED
    BY <2>1, <2>2
<1> QED
  BY <1>2 DEF Answering, z

(* Two initialisations after one another hand i2c_mutex on.                *)
LEMMA OpenConcat ==
  ASSUME NEW x, NEW y, Open(x), Open(y)
  PROVE  Open(x \o y)
<1> DEFINE z == x \o y
<1>1. x \in Seq(Ops) /\ y \in Seq(Ops)
  BY DEF Open
<1>2. /\ Len(x) \in Nat /\ Len(y) \in Nat /\ Len(z) = Len(x) + Len(y) /\ z \in Seq(Ops)
      /\ \A i \in 1 .. Len(x) : z[i] = x[i]
      /\ Suffix(y, z, Len(x))
  BY <1>1, ConcatIs
<1>3. Plain(z)
  BY <1>1, PlainConcat DEF Open
<1>4. Unlocks(z, 1)
  <2>1. 1 \in 1 .. Len(x) + 1
    BY <1>2
  <2> QED
    BY <1>1, <2>1, ConcatUnlocks DEF Open
<1> HIDE DEF z
<1>5. ASSUME NEW i \in 1 .. Len(z), Asks(z[i])
      PROVE  Unlocks(z, i + 1) \/ NoBlock(z, i + 1, Len(z))
  <2>1. CASE i <= Len(x)
    <3>1. i \in 1 .. Len(x) /\ i + 1 \in 1 .. Len(x) + 1
      BY <1>2, <2>1
    <3>2. Unlocks(x, i + 1) \/ (NoBlock(x, i + 1, Len(x)) /\ Unlocks(y, 1))
      BY <1>2, <1>5, <3>1 DEF Open
    <3> QED
      BY <1>1, <3>1, <3>2, ConcatUnlocks DEF z
  <2>2. CASE ~ (i <= Len(x))
    <3> DEFINE k == i - Len(x)
    <3>1. k \in 1 .. Len(y) /\ k + Len(x) = i /\ k + 1 \in 1 .. Len(y) + 1
          /\ (k + 1) + Len(x) = i + 1
      BY <1>2, <2>2
    <3> HIDE DEF k
    <3>2. y[k] = z[i]
      BY <1>2, <3>1 DEF Suffix
    <3>3. CASE Unlocks(y, k + 1)
      BY <1>2, <3>1, <3>3, SuffixUnlocks
    <3>4. CASE NoBlock(y, k + 1, Len(y))
      <4>1. ASSUME NEW j \in i + 1 .. Len(z)
            PROVE  z[j][1] \notin Blocks \cup {"stop_all_work"}
        <5>1. j - Len(x) \in k + 1 .. Len(y) /\ j - Len(x) \in 1 .. Len(y)
              /\ (j - Len(x)) + Len(x) = j
          BY <1>2, <3>1
        <5>2. y[j - Len(x)] = z[j]
          BY <1>2, <5>1 DEF Suffix
        <5> QED
          BY <3>4, <5>1, <5>2 DEF NoBlock
      <4> QED
        BY <4>1 DEF NoBlock
    <3> QED
      BY <1>5, <3>1, <3>2, <3>3, <3>4 DEF Open
  <2> QED
    BY <2>1, <2>2
<1> QED
  BY <1>2, <1>3, <1>4, <1>5 DEF Open, z

(* The initialisation of a converter unlocks i2c_mutex, and locks it for   *)
(* the next one.                                                           *)
LEMMA InitIs ==
  ASSUME NEW d \in Converters
  PROVE  Open(dc2dc_init_rb(d))
<1> DEFINE x == dc2dc_select_i2c(d) \o InitChannel0(d) \o InitChannel1(d) \o dc2dc_i2c_close
           m == <<Unlock, <<"enable", d>>>>
           v == dc2dc_set_vtrim(d)
           e == <<Lock, <<"present", d>>>>
           y == (x \o m) \o v
<1>1. x \in Seq(QuietOps)
  <2>1. Select(d) \in QuietOps /\ Close \in QuietOps
    BY SelectIs, SwitchesAre, EasyAre DEF Readings, EasyOps
  <2>2. \A f \in {"init", "configure", "protect"} : Access(f, d) \in QuietOps
    BY EasyAre DEF ConverterAccess
  <2>3. InitChannel0(d) \in Seq(QuietOps) /\ InitChannel1(d) \in Seq(QuietOps)
    BY <2>2 DEF InitChannel0, InitChannel1
  <2>4. dc2dc_select_i2c(d) \in Seq(QuietOps) /\ dc2dc_i2c_close \in Seq(QuietOps)
    <3>1. dc2dc_select_i2c(d) = <<Select(d)>> /\ dc2dc_i2c_close = <<Close>>
      BY SelectIs DEF dc2dc_i2c_close, Close
    <3>2. <<Select(d)>> \in Seq(QuietOps) /\ <<Close>> \in Seq(QuietOps)
      BY <2>1
    <3> QED
      BY <3>1, <3>2
  <2> QED
    BY <2>3, <2>4, ConcatProperties
<1>2. dc2dc_init_rb(d) = y \o e
  BY DEF dc2dc_init_rb
<1>3. /\ Unlock \in Ops /\ Unlock[1] = "unlock"
      /\ <<"enable", d>> \in Ops /\ <<"enable", d>>[1] = "enable"
      /\ Locked("vtrim", d) \in CalmOps
      /\ Lock \in Ops /\ Lock[1] = "lock" /\ Lock[2] = "none"
      /\ <<"present", d>> \in Ops /\ <<"present", d>>[1] = "present"
  BY NamesAre, EasyAre DEF Transactions, Lock
<1>4. m \in Seq(Ops) /\ Len(m) = 2 /\ m[1] = Unlock /\ m[2] = <<"enable", d>>
  BY <1>3
<1>5. v \in Seq(CalmOps) /\ v \in Seq(Ops)
  <2>1. v \in Seq(CalmOps)
    BY <1>3 DEF dc2dc_set_vtrim
  <2> QED
    BY <2>1, CalmIs
<1>6. e \in Seq(Ops) /\ Len(e) = 2 /\ e[1] = Lock /\ e[2] = <<"present", d>>
  BY <1>3
<1>7. x \in Seq(Ops) /\ Len(x) \in Nat /\ \A i \in 1 .. Len(x) : x[i] \in QuietOps
  <2>1. QuietOps \subseteq Ops
    BY DEF QuietOps
  <2> HIDE DEF x
  <2> QED
    BY <1>1, <2>1, SeqMonotonic, ElementOfSeq, LenProperties
<1> HIDE DEF x, m, v, e
<1>8. \A i \in 1 .. Len(x) + 1 : Unlocks(x \o m, i)
  <2> SUFFICES ASSUME NEW i \in 1 .. Len(x) + 1
               PROVE  Unlocks(x \o m, i)
    OBVIOUS
  <2>1. NoBlock(x, i, Len(x))
    <3>1. \A j \in i .. Len(x) : j \in 1 .. Len(x)
      BY <1>7
    <3> QED
      BY <1>7, <3>1 DEF NoBlock, QuietOps
  <2>2. Unlocks(m, 1)
    <3>1. 1 \in 1 .. Len(m) /\ \A j \in 1 .. 1 - 1 : FALSE
      BY <1>4
    <3> QED
      BY <1>3, <1>4, <3>1 DEF Unlocks, NoBlock
  <2> QED
    BY <1>4, <1>7, <2>1, <2>2, ConcatUnlocks
<1>9. /\ x \o m \in Seq(Ops) /\ Len(x \o m) = Len(x) + 2
      /\ \A i \in 1 .. Len(x) : (x \o m)[i] = x[i]
      /\ (x \o m)[Len(x) + 1] = Unlock /\ (x \o m)[Len(x) + 2] = <<"enable", d>>
  <2> DEFINE q == x \o m
  <2>1. /\ q \in Seq(Ops) /\ Len(q) = Len(x) + Len(m) /\ \A i \in 1 .. Len(x) : q[i] = x[i]
        /\ \A i \in 1 .. Len(m) : m[i] = q[i + Len(x)]
    BY <1>4, <1>7, ConcatIs DEF Suffix
  <2>2. 1 \in 1 .. Len(m) /\ 2 \in 1 .. Len(m)
        /\ 1 + Len(x) = Len(x) + 1 /\ 2 + Len(x) = Len(x) + 2
    BY <1>4, <1>7
  <2> HIDE DEF q
  <2>3. q[Len(x) + 1] = m[1] /\ q[Len(x) + 2] = m[2]
    BY <2>1, <2>2
  <2>4. Len(q) = Len(x) + 2
    BY <1>4, <2>1
  <2> QED
    BY <1>4, <2>1, <2>3, <2>4 DEF q
<1>10. Plain(x \o m)
  <2>1. Plain(x)
    BY <1>7 DEF Plain, QuietOps
  <2>2. Plain(m)
    <3>1. \A i \in 1 .. Len(m) : i = 1 \/ i = 2
      BY <1>4
    <3> QED
      BY <1>3, <1>4, <3>1 DEF Plain, Stages
  <2> QED
    BY <1>4, <1>7, <2>1, <2>2, PlainConcat
<1>11. /\ y \in Seq(Ops) /\ Plain(y) /\ Answering(y) /\ Unlocks(y, 1)
  <2> DEFINE q == x \o m
  <2> HIDE DEF q
  <2>1. q \in Seq(Ops) /\ Plain(q) /\ Unlocks(q, 1)
    <3>1. 1 \in 1 .. Len(x) + 1
      BY <1>7
    <3> QED
      BY <1>8, <1>9, <1>10, <3>1 DEF q
  <2>2. Answers(q, v)
    <3> SUFFICES ASSUME NEW i \in 1 .. Len(q), Asks(q[i])
                 PROVE  Unlocks(q, i + 1)
      BY DEF Answers
    <3>1. i \in 1 .. Len(x) \/ i = Len(x) + 1 \/ i = Len(x) + 2
      BY <1>7, <1>9 DEF q
    <3>2. ~ Asks(q[Len(x) + 1]) /\ ~ Asks(q[Len(x) + 2])
      BY <1>3, <1>9 DEF q, Asks, InitAccess
    <3>3. i \in 1 .. Len(x) => i + 1 \in 1 .. Len(x) + 1
      BY <1>7
    <3> QED
      BY <1>8, <3>1, <3>2, <3>3 DEF q
  <2>3. Plain(v) /\ Answering(v)
    <3>1. \A i \in 1 .. Len(v) : v[i] \in CalmOps
      BY <1>5, ElementOfSeq
    <3> QED
      BY <3>1 DEF Plain, Answering, CalmOps
  <2>4. Unlocks(q \o v, 1)
    <3>1. 1 \in 1 .. Len(q) + 1
      BY <2>1, LenProperties
    <3> QED
      BY <1>5, <2>1, <3>1, ConcatUnlocks
  <2>5. q \o v \in Seq(Ops) /\ Plain(q \o v) /\ Answering(q \o v)
    BY <1>5, <2>1, <2>2, <2>3, ConcatIs, PlainConcat, AnsweringConcat
  <2> QED
    BY <2>4, <2>5 DEF q
<1> HIDE DEF y
<1>12. Plain(e)
  <2>1. \A i \in 1 .. Len(e) : i = 1 \/ i = 2
    BY <1>6
  <2> QED
    BY <1>3, <1>6, <2>1 DEF Plain, Stages
<1>13. Plain(y \o e) /\ Unlocks(y \o e, 1)
  <2>1. 1 \in 1 .. Len(y) + 1
    BY <1>11, LenProperties
  <2> QED
    BY <1>6, <1>11, <1>12, <2>1, PlainConcat, ConcatUnlocks
<1> DEFINE z == y \o e
<1>14. /\ Len(y) \in Nat /\ Len(z) = Len(y) + 2 /\ z \in Seq(Ops)
       /\ \A i \in 1 .. Len(y) : z[i] = y[i]
       /\ z[Len(y) + 2] = <<"present", d>>
  <2>1. /\ Len(y) \in Nat /\ z \in Seq(Ops) /\ Len(z) = Len(y) + Len(e)
        /\ \A i \in 1 .. Len(y) : z[i] = y[i]
        /\ \A i \in 1 .. Len(e) : e[i] = z[i + Len(y)]
    BY <1>6, <1>11, ConcatIs DEF Suffix
  <2>2. 2 \in 1 .. Len(e) /\ 2 + Len(y) = Len(y) + 2
    BY <1>6, <2>1
  <2> HIDE DEF z
  <2>3. Len(z) = Len(y) + 2 /\ z[Len(y) + 2] = e[2]
    BY <1>6, <2>1, <2>2
  <2> QED
    BY <1>6, <2>1, <2>3
<1>15. ASSUME NEW i \in 1 .. Len(z), Asks(z[i])
       PROVE  Unlocks(z, i + 1) \/ NoBlock(z, i + 1, Len(z))
  <2>1. CASE i <= Len(y)
    <3>1. i \in 1 .. Len(y) /\ i + 1 \in 1 .. Len(y) + 1
      BY <1>14, <2>1
    <3>2. Unlocks(y, i + 1)
      BY <1>11, <1>14, <1>15, <3>1 DEF Answering
    <3> QED
      BY <1>6, <1>11, <3>1, <3>2, ConcatUnlocks
  <2>2. CASE ~ (i <= Len(y))
    <3>1. \A j \in i + 1 .. Len(z) : j = Len(y) + 2
      <4> HIDE DEF z
      <4> QED
        BY <1>14, <2>2
    <3>2. <<"present", d>>[1] \notin Blocks \cup {"stop_all_work"}
      BY DEF Blocks
    <3> HIDE DEF z
    <3> QED
      BY <1>14, <3>1, <3>2 DEF NoBlock
  <2> QED
    BY <2>1, <2>2
<1> QED
  BY <1>2, <1>13, <1>14, <1>15 DEF Open

(* One converter after the other.                                          *)
LEMMA ForAllIs ==
  \E h : /\ ForAll(InOrder, dc2dc_init_rb) = h[N]
         /\ \A i \in 1 .. N : h[i] = IF i = 1 THEN dc2dc_init_rb(InOrder[i])
                                     ELSE h[i - 1] \o dc2dc_init_rb(InOrder[i])
<1> DEFINE q == [i \in 1 .. Len(InOrder) |-> dc2dc_init_rb(InOrder[i])]
           Made(h) == h = [i \in 1 .. Len(q) |-> IF i = 1 THEN q[i] ELSE h[i - 1] \o q[i]]
           h == CHOOSE flatten : Made(flatten)
<1>1. /\ N \in Nat \ {0} /\ Len(q) = N /\ \A i \in 1 .. N : q[i] = dc2dc_init_rb(InOrder[i])
  <2>1. N \in Nat \ {0} /\ InOrder \in [1 .. N -> Converters]
    BY InOrderIs
  <2>2. Len(InOrder) = N
    BY <2>1
  <2>3. q = [i \in 1 .. N |-> dc2dc_init_rb(InOrder[i])]
    BY <2>2
  <2>4. Len(q) = N
    BY <2>1, <2>3
  <2> QED
    BY <2>1, <2>3, <2>4
<1>2. ForAll(InOrder, dc2dc_init_rb) = FlattenSeq(q)
  BY DEF ForAll
<1> HIDE DEF q
<1>3. FlattenSeq(q) = h[Len(q)]
  BY <1>1 DEF FlattenSeq
<1> DEFINE Does(f, n) == \A k \in 1 .. n : f[k] = IF k = 1 THEN q[1] ELSE f[k - 1] \o q[k]
           T == {n \in Nat : n <= N => \E f : f = [k \in 1 .. n |-> f[k]] /\ Does(f, n)}
<1>4. 0 \in T
  <2> DEFINE f == [k \in 1 .. 0 |-> q]
  <2>1. f = [k \in 1 .. 0 |-> f[k]] /\ Does(f, 0)
    OBVIOUS
  <2> HIDE DEF f
  <2> QED
    BY <2>1
<1>5. ASSUME NEW n \in T
      PROVE  n + 1 \in T
  <2> SUFFICES ASSUME n + 1 <= N
               PROVE  \E f : f = [k \in 1 .. n + 1 |-> f[k]] /\ Does(f, n + 1)
    <3>1. n + 1 \in Nat
      OBVIOUS
    <3> HIDE DEF Does
    <3> QED
      BY <3>1
  <2>1. n \in Nat /\ n <= N
    BY <1>1
  <2>2. PICK f : f = [k \in 1 .. n |-> f[k]] /\ Does(f, n)
    BY <2>1
  <2> DEFINE new == IF n + 1 = 1 THEN q[1] ELSE f[n] \o q[n + 1]
             g == [k \in 1 .. n + 1 |-> IF k = n + 1 THEN new ELSE f[k]]
  <2> HIDE DEF new
  <2>3. g = [k \in 1 .. n + 1 |-> g[k]]
    OBVIOUS
  <2>4. g[n + 1] = new /\ \A k \in 1 .. n : g[k] = f[k]
    BY <2>1
  <2>5. ASSUME NEW k \in 1 .. n + 1
        PROVE  g[k] = IF k = 1 THEN q[1] ELSE g[k - 1] \o q[k]
    <3>1. CASE k = n + 1
      <4>1. n + 1 = 1 \/ (n \in 1 .. n /\ k - 1 = n)
        BY <2>1, <3>1
      <4> HIDE DEF g
      <4> QED
        BY <2>4, <3>1, <4>1 DEF new
    <3>2. CASE k # n + 1
      <4>1. k \in 1 .. n /\ (k = 1 \/ k - 1 \in 1 .. n)
        BY <2>1, <3>2
      <4> HIDE DEF g
      <4> QED
        BY <2>2, <2>4, <4>1
    <3> QED
      BY <3>1, <3>2
  <2> HIDE DEF g
  <2> QED
    BY <2>3, <2>5
<1>6. N \in T
  <2> HIDE DEF T
  <2>1. T \in SUBSET Nat
    BY DEF T
  <2> QED
    BY <1>1, <1>4, <1>5, <2>1, Counting
<1>7. PICK f : f = [k \in 1 .. N |-> f[k]] /\ Does(f, N)
  BY <1>1, <1>6
<1>8. Made(f)
  BY <1>1, <1>7
<1>9. Made(h)
  <2> HIDE DEF Made
  <2> QED
    BY <1>8
<1>10. \A i \in 1 .. N : h[i] = IF i = 1 THEN q[i] ELSE h[i - 1] \o q[i]
  <2> HIDE DEF h
  <2> QED
    BY <1>1, <1>9
<1> HIDE DEF h, Made, Does, T
<1> QED
  BY <1>1, <1>2, <1>3, <1>10

(* So all of them are initialised in order.                               *)
LEMMA AllInitIs ==
  Open(ForAll(InOrder, dc2dc_init_rb))
<1>1. N \in Nat \ {0} /\ InOrder \in [1 .. N -> Converters]
  BY InOrderIs
<1>2. PICK h : /\ ForAll(InOrder, dc2dc_init_rb) = h[N]
               /\ \A i \in 1 .. N : h[i] = IF i = 1 THEN dc2dc_init_rb(InOrder[i])
                                           ELSE h[i - 1] \o dc2dc_init_rb(InOrder[i])
  BY ForAllIs
<1>3. \A i \in 1 .. N : Open(dc2dc_init_rb(InOrder[i]))
  BY <1>1, InitIs
<1>4. Open(h[N])
  <2> DEFINE E == {n \in Nat : n + 1 <= N => Open(h[n + 1])}
  <2>1. 0 \in E
    BY <1>1, <1>2, <1>3
  <2>2. ASSUME NEW n \in E
        PROVE  n + 1 \in E
    <3> SUFFICES ASSUME (n + 1) + 1 <= N
                 PROVE  Open(h[(n + 1) + 1])
      OBVIOUS
    <3>1. (n + 1) + 1 \in 1 .. N /\ (n + 1) + 1 # 1 /\ ((n + 1) + 1) - 1 = n + 1 /\ n + 1 <= N
      BY <1>1
    <3>2. Open(h[n + 1]) /\ Open(dc2dc_init_rb(InOrder[(n + 1) + 1]))
      BY <1>1, <1>3, <3>1
    <3>3. h[(n + 1) + 1] = h[n + 1] \o dc2dc_init_rb(InOrder[(n + 1) + 1])
      BY <1>2, <3>1
    <3> QED
      BY <3>2, <3>3, OpenConcat
  <2>3. E \in SUBSET Nat
    OBVIOUS
  <2> HIDE DEF E
  <2>4. E = Nat
    BY <2>1, <2>2, <2>3, Counting
  <2>5. N - 1 \in Nat /\ (N - 1) + 1 = N
    BY <1>1
  <2> QED
    BY <2>4, <2>5 DEF E
<1> QED
  BY <1>2, <1>4

(* The main thread initialises the converters and starts.                  *)
LEMMA InitIsProgram ==
  LET s == dc2dc_init \o <<Call("start")>> IN
  Program(s) /\ \A c \in Stages : ~ Has(s, c)
<1> DEFINE a == DisableAll
           b == <<Lock>>
           F == ForAll(InOrder, dc2dc_init_rb)
           u == <<Unlock>>
           e == <<Call("start")>>
           x == (a \o b) \o F
           y == x \o u
<1>1. dc2dc_init = y
  BY DEF dc2dc_init
<1>2. /\ Lock \in Ops /\ Lock[1] = "lock" /\ Unlock \in Ops /\ Unlock[1] = "unlock"
      /\ Call("start") \in CalmOps
  <2>1. "start" \in Calls \ Stages
    BY DEF Calls, Stages
  <2> QED
    BY <2>1, NamesAre, EasyAre DEF Lock
<1>3. /\ a \in Seq(Ops) /\ Plain(a) /\ Answers(a, b)
  BY DisableAllIs, CalmIs
<1>4. /\ b \in Seq(Ops) /\ Len(b) = 1 /\ b[1] = Lock
      /\ u \in Seq(Ops) /\ Len(u) = 1 /\ u[1] = Unlock
  BY <1>2
<1>5. Open(F)
  BY AllInitIs
<1>6. /\ e \in Seq(CalmOps)
  BY <1>2
<1>7. e \in Seq(Ops) /\ Plain(e) /\ Answering(e)
  <2>1. \A i \in 1 .. Len(e) : e[i] \in CalmOps
    BY <1>6, ElementOfSeq
  <2> HIDE DEF e
  <2> QED
    BY <1>6, <2>1, CalmIs DEF Answering, CalmOps
<1> HIDE DEF a, b, F, u, e
<1>8. Plain(b) /\ Plain(u) /\ Answering(u) /\ Unlocks(u, 1)
  <2>1. (\A i \in 1 .. Len(b) : i = 1) /\ (\A i \in 1 .. Len(u) : i = 1) /\ 1 \in 1 .. Len(u)
        /\ \A j \in 1 .. 1 - 1 : FALSE
    BY <1>4
  <2> QED
    BY <1>2, <1>4, <2>1 DEF Plain, Stages, Answering, Asks, InitAccess, Unlocks, NoBlock
<1>9. F \in Seq(Ops) /\ Plain(F) /\ Answers(F, u) /\ Unlocks(F, 1)
  BY <1>5, <1>8 DEF Open, Answers
<1>10. F \o u \in Seq(Ops) /\ Plain(F \o u) /\ Answering(F \o u) /\ Unlocks(F \o u, 1)
  <2>1. 1 \in 1 .. Len(F) + 1
    BY <1>9, LenProperties
  <2> QED
    BY <1>4, <1>8, <1>9, <2>1, ConcatIs, PlainConcat, AnsweringConcat, ConcatUnlocks
<1> DEFINE v == F \o u
<1> HIDE DEF v
<1>11. b \o v \in Seq(Ops) /\ Plain(b \o v) /\ Answering(b \o v)
  <2>1. Answers(b, v)
    <3>1. \A i \in 1 .. Len(b) : \A j \in i + 1 .. Len(b) : FALSE
      BY <1>4
    <3>2. \A i \in 1 .. Len(b) : NoBlock(b, i + 1, Len(b))
      BY <3>1 DEF NoBlock
    <3> QED
      BY <1>10, <3>2 DEF Answers, v
  <2> QED
    BY <1>4, <1>8, <1>10, <2>1, ConcatIs, PlainConcat, AnsweringConcat DEF v
<1> DEFINE w == b \o v
<1> HIDE DEF w
<1>12. a \o w \in Seq(Ops) /\ Plain(a \o w) /\ Answering(a \o w)
  <2>1. Answers(a, w)
    BY DisableAllIs, CalmIs DEF a
  <2> QED
    BY <1>3, <1>11, <2>1, ConcatIs, PlainConcat, AnsweringConcat DEF w
<1>13. y = a \o w
  <2>1. y = (a \o b) \o (F \o u)
    <3> DEFINE ab == a \o b
    <3>1. ab \in Seq(Ops) /\ F \in Seq(Ops) /\ u \in Seq(Ops)
      BY <1>3, <1>4, <1>9, ConcatIs
    <3>2. y = (ab \o F) \o u
      OBVIOUS
    <3> HIDE DEF y, x, ab
    <3>3. (ab \o F) \o u = ab \o (F \o u)
      BY <3>1, ConcatAssociative
    <3> QED
      BY <3>2, <3>3 DEF ab
  <2>2. (a \o b) \o v = a \o (b \o v)
    <3>1. a \in Seq(Ops) /\ b \in Seq(Ops) /\ v \in Seq(Ops)
      BY <1>3, <1>4, <1>10 DEF v
    <3> HIDE DEF y, x
    <3> QED
      BY <3>1, ConcatAssociative
  <2> QED
    BY <2>1, <2>2 DEF v, w
<1> HIDE DEF y
<1>14. Answers(y, e)
  BY <1>12, <1>13 DEF Answers, Answering
<1>15. y \o e \in Seq(Ops) /\ Plain(y \o e) /\ Answering(y \o e)
  BY <1>7, <1>12, <1>13, <1>14, ConcatIs, PlainConcat, AnsweringConcat
<1>16. Program(y \o e) /\ \A c \in Stages : ~ Has(y \o e, c)
  BY <1>15, PlainIsProgram
<1> QED
  BY <1>1, <1>16 DEF e
-----------------------------------------------------------------------------
(* The inductive invariant.                                                *)
VM == [in_asic_reset : 0 .. 2, exiting : 0 .. 1, recursive : Nat, kill_app : 0 .. 1,
       signalled : BOOLEAN, started : BOOLEAN]

Types ==
  /\ todo \in [Threads -> Seq(Ops)] /\ called \in [Threads -> SUBSET Mutexes]
  /\ {i2cm, i2c_mutex} \subseteq Threads \cup {Free}
  /\ switch \in Switches /\ on \in SUBSET Converters /\ present \in SUBSET Converters
  /\ vm \in VM /\ faults \in 0 .. MaxFaults /\ disturbed \in BOOLEAN
  /\ ended \in {"no", "full", "cut", "recursive", "killed"}

HoldsI2cm(t) == i2cm = t => Has(todo[t], "exit") /\ "i2cm" \in called[t]
HoldsMutex(t) ==
  i2c_mutex = t => \/ Unlocks(todo[t], 1)
                   \/ Has(todo[t], "unlock_all") /\ "i2c_mutex" \in called[t]

\* past its sleep
OffStage(s) == Has(s, "exit") /\ ~ Has(s, "sleep")
Pending(s, c) == \E i \in 1 .. Len(s) : s[i] \in {Locked("disable", c), Access("disable", c)}
TurnsOff(t) ==
  OffStage(todo[t]) /\ ~ disturbed =>
    /\ \A c \in on : Pending(todo[t], c)
    /\ todo[t][1][1] = "access" => todo[t][1][3] \in Reached

ThreadOK(t) == Program(todo[t]) /\ HoldsI2cm(t) /\ HoldsMutex(t) /\ TurnsOff(t)
Inv == Types /\ (\A t \in Threads : ThreadOK(t)) /\ ConvertersOff

(* The model's test for a call, in the terms of the proofs.                *)
LEMMA HasIs ==
  ASSUME NEW s \in Seq(Ops), NEW c \in Calls
  PROVE  Call(c) \in ToSet(s) <=> Has(s, c)
<1>1. Len(s) \in Nat /\ DOMAIN s = 1 .. Len(s) /\ \A i \in 1 .. Len(s) : s[i] \in Ops
  BY LenProperties, ElementOfSeq
<1>2. \A i \in 1 .. Len(s) : s[i] = Call(c) <=> s[i][1] = c
  <2>1. Call(c)[1] = c
    BY DEF Call
  <2>2. \A i \in 1 .. Len(s) : s[i][1] = c => s[i] = Call(s[i][1])
    BY <1>1, OpsAre
  <2> QED
    BY <2>1, <2>2
<1> QED
  BY <1>1, <1>2 DEF ToSet, Has

(* So is its test for an exit that is past its sleep.                      *)
LEMMA SwitchingOffIs ==
  ASSUME NEW t, todo[t] \in Seq(Ops)
  PROVE  /\ SwitchingOff(t) <=> OffStage(todo[t])
         /\ InExit(t) <=> Has(todo[t], "exit")
<1>1. "exit" \in Calls /\ "sleep" \in Calls
  BY DEF Calls
<1> QED
  BY <1>1, HasIs DEF SwitchingOff, InExit, OffStage

(* Nobody is called as the free mutex is.                                  *)
LEMMA FreeIs ==
  Free \notin Threads /\ "main" \in Threads /\ "rt" \in Threads
BY ExitAssumption DEF Free, Threads

(* A step of a thread that does not end the process.                       *)
Advances(t) ==
  /\ todo' = [todo EXCEPT ![t] = todo'[t]]
  /\ called' = [called EXCEPT ![t] = called'[t]] /\ called'[t] \in SUBSET Mutexes
  /\ i2cm' \in {i2cm, t, Free} /\ i2c_mutex' \in {i2c_mutex, t, Free}
  /\ disturbed' \in BOOLEAN /\ (disturbed => disturbed')
  /\ \/ switch' = switch /\ on' = on
     \/ \A u \in Threads \ {t} : SwitchingOff(u) => disturbed'
  /\ switch' \in Switches /\ on' \in SUBSET Converters /\ present' \in SUBSET Converters
  /\ vm' \in VM /\ faults' \in 0 .. MaxFaults /\ ended' = "no"
  /\ ThreadOK(t)'

(* A step of one thread keeps the others as they should be: they lose no   *)
(* mutex they count on, and those that switch off are disturbed if it uses *)
(* the bus.                                                                *)
LEMMA AdvancesKeeps ==
  ASSUME Inv, NEW t \in Threads, Advances(t)
  PROVE  Inv'
<1>1. todo'[t] \in Seq(Ops)
  BY DEF Advances, ThreadOK, Program
<1>2. todo' \in [Threads -> Seq(Ops)] /\ \A u \in Threads \ {t} : todo'[u] = todo[u]
  BY <1>1 DEF Advances, Inv, Types
<1>3. called' \in [Threads -> SUBSET Mutexes] /\ \A u \in Threads \ {t} : called'[u] = called[u]
  BY DEF Advances, Inv, Types
<1>4. Types'
  BY <1>2, <1>3 DEF Advances, Inv, Types
<1>5. ASSUME NEW u \in Threads \ {t}
      PROVE  ThreadOK(u)'
  <2>1. todo'[u] = todo[u] /\ called'[u] = called[u] /\ ThreadOK(u) /\ todo[u] \in Seq(Ops)
    BY <1>2, <1>3 DEF Inv, Types
  <2>2. Program(todo[u])'
    BY <2>1 DEF ThreadOK
  <2>3. HoldsI2cm(u)'
    <3>1. i2cm' = u => i2cm = u
      BY FreeIs DEF Advances
    <3> QED
      BY <2>1, <3>1 DEF ThreadOK, HoldsI2cm
  <2>4. HoldsMutex(u)'
    <3>1. i2c_mutex' = u => i2c_mutex = u
      BY FreeIs DEF Advances
    <3> QED
      BY <2>1, <3>1 DEF ThreadOK, HoldsMutex
  <2>5. TurnsOff(u)'
    <3>1. CASE switch' = switch /\ on' = on
      <4>1. Reached' = Reached
        BY <3>1 DEF Reached
      <4>2. disturbed => disturbed'
        BY DEF Advances
      <4> QED
        BY <2>1, <3>1, <4>1, <4>2 DEF ThreadOK, TurnsOff
    <3>2. CASE \A v \in Threads \ {t} : SwitchingOff(v) => disturbed'
      <4>1. OffStage(todo[u]) => disturbed'
        BY <2>1, <3>2, SwitchingOffIs
      <4> QED
        BY <2>1, <4>1 DEF TurnsOff
    <3> QED
      BY <3>1, <3>2 DEF Advances
  <2> QED
    BY <2>2, <2>3, <2>4, <2>5 DEF ThreadOK
<1>6. ThreadOK(t)' /\ ended' = "no"
  BY DEF Advances
<1>7. \A u \in Threads : ThreadOK(u)'
  BY <1>5, <1>6
<1>8. ConvertersOff'
  BY <1>6 DEF ConvertersOff
<1> QED
  BY <1>4, <1>7, <1>8 DEF Inv

(* A thread with something to do.                                          *)
LEMMA AtIs ==
  ASSUME Inv, NEW t \in Threads, todo[t] # <<>>
  PROVE  /\ todo[t] \in Seq(Ops) /\ Program(todo[t]) /\ ThreadOK(t)
         /\ Len(todo[t]) \in Nat \ {0} /\ Head(todo[t]) = todo[t][1] /\ todo[t][1] \in Ops
         /\ Suffix(Tail(todo[t]), todo[t], 1) /\ Tail(todo[t]) \in Seq(Ops)
<1>1. todo[t] \in Seq(Ops) /\ ThreadOK(t)
  BY DEF Inv, Types
<1> QED
  BY <1>1, TailIs DEF ThreadOK, Suffix

(* Going on to the next operation.                                         *)
LEMMA GoingOn ==
  ASSUME NEW s, Program(s), s # <<>>
  PROVE  /\ Program(Tail(s))
         /\ s[1][1] \notin Stages => Same(s, Tail(s))
         /\ s[1][1] # "unlock" /\ Unlocks(s, 1) => Unlocks(Tail(s), 1)
         /\ Asks(s[1]) => Unlocks(Tail(s), 1)
         /\ OffStage(s) => /\ OffOp(s[1])
                           /\ Tail(s) # <<>> => \/ Tail(s)[1][1] # "access"
                                               \/ s[1] = Select(Tail(s)[1][3])
         /\ \A c : Pending(s, c) => \/ s[1] \in {Locked("disable", c), Access("disable", c)}
                                    \/ Pending(Tail(s), c)
<1> DEFINE r == Tail(s)
<1>1. s \in Seq(Ops)
  BY DEF Program
<1>2. /\ Len(s) \in Nat \ {0} /\ Suffix(r, s, 1) /\ r \in Seq(Ops) /\ Len(r) = Len(s) - 1
      /\ Len(r) \in Nat /\ \A i \in 1 .. Len(r) : r[i] = s[i + 1]
  BY <1>1, TailIs, LenProperties DEF Suffix
<1> HIDE DEF r
<1>3. Program(r)
  BY <1>2, SuffixIsProgram
<1>4. s[1][1] \notin Stages => Same(s, r)
  BY <1>2, SuffixIsSame
<1>5. Unlocks(r, 1) <=> Unlocks(s, 2)
  <2>1. 1 \in 1 .. Len(r) + 1 /\ 1 + 1 = 2
    BY <1>2
  <2> QED
    BY <1>1, <1>2, <2>1, SuffixUnlocks
<1>6. s[1][1] # "unlock" /\ Unlocks(s, 1) => Unlocks(s, 2)
  <2> SUFFICES ASSUME s[1][1] # "unlock", Unlocks(s, 1)
               PROVE  Unlocks(s, 2)
    OBVIOUS
  <2>1. PICK k \in 1 .. Len(s) : s[k][1] = "unlock" /\ NoBlock(s, 1, k - 1)
    BY DEF Unlocks
  <2>2. k \in 2 .. Len(s) /\ \A j \in 2 .. k - 1 : j \in 1 .. k - 1
    <3>1. k # 1
      BY <2>1
    <3> QED
      BY <1>2, <3>1
  <2>3. NoBlock(s, 2, k - 1)
    BY <2>1, <2>2 DEF NoBlock
  <2> QED
    BY <2>1, <2>2, <2>3 DEF Unlocks
<1>7. Asks(s[1]) => Unlocks(s, 2)
  <2>1. 1 \in 1 .. Len(s) /\ 1 + 1 = 2
    BY <1>2
  <2> QED
    BY <2>1 DEF Program, Answered
<1>8. ASSUME OffStage(s)
      PROVE  /\ OffOp(s[1])
             /\ r # <<>> => r[1][1] # "access" \/ s[1] = Select(r[1][3])
  <2>1. PICK l \in 1 .. Len(s) : s[l][1] = "exit"
    BY <1>8 DEF OffStage, Has
  <2>2. s[Len(s)][1] = "exit"
    BY <2>1 DEF Program, ExitIsLast
  <2>3. ASSUME NEW i \in 1 .. Len(s)
        PROVE  OffOp(s[i]) /\ (s[i][1] = "access" => i = 1 \/ s[i - 1] = Select(s[i][3]))
    <3>1. ~ SleepAhead(s, i)
      <4>1. \A j \in i .. Len(s) : j \in 1 .. Len(s)
        BY <1>2
      <4> QED
        BY <1>8, <4>1 DEF OffStage, Has, SleepAhead
    <3> QED
      BY <2>2, <3>1 DEF Program, SwitchesOff
  <2>4. OffOp(s[1])
    BY <1>2, <2>3
  <2>5. ASSUME r # <<>>, r[1][1] = "access"
        PROVE  s[1] = Select(r[1][3])
    <3>1. Len(r) \in Nat \ {0}
      BY <1>2, <2>5, EmptySeq
    <3>2. r[1] = s[2] /\ 2 \in 1 .. Len(s) /\ 2 # 1 /\ 2 - 1 = 1
      <4>1. 1 \in 1 .. Len(r) /\ 1 + 1 = 2 /\ 2 \in 1 .. Len(s)
        BY <1>2, <3>1
      <4> QED
        BY <1>2, <4>1
    <3> QED
      BY <2>3, <2>5, <3>2
  <2> QED
    BY <2>4, <2>5
<1>9. ASSUME NEW c, Pending(s, c), s[1] \notin {Locked("disable", c), Access("disable", c)}
      PROVE  Pending(r, c)
  <2>1. PICK i \in 1 .. Len(s) : s[i] \in {Locked("disable", c), Access("disable", c)}
    BY <1>9 DEF Pending
  <2>2. i # 1
    BY <1>9, <2>1
  <2>3. i - 1 \in 1 .. Len(r) /\ (i - 1) + 1 = i
    BY <1>2, <2>2
  <2>4. r[i - 1] = s[i]
    BY <1>2, <2>3
  <2> QED
    BY <2>1, <2>3, <2>4 DEF Pending
<1> QED
  BY <1>3, <1>4, <1>5, <1>6, <1>7, <1>8, <1>9 DEF r

(* Before its stages, and where none of them is passed, a thread is as it  *)
(* should be if its next operations are.                                   *)
LEMMA GoesOn ==
  ASSUME NEW t \in Threads, ThreadOK(t), Program(todo'[t]), called'[t] = called[t],
         Same(todo[t], todo'[t]), ~ OffStage(todo[t]),
         i2cm' = t => i2cm = t,
         i2c_mutex' = t => \/ Unlocks(todo'[t], 1)
                           \/ i2c_mutex = t /\ (Unlocks(todo[t], 1) => Unlocks(todo'[t], 1))
  PROVE  ThreadOK(t)'
<1>1. \A c \in Stages : Has(todo'[t], c) <=> Has(todo[t], c)
  BY DEF Same
<1>2. HoldsI2cm(t)'
  BY <1>1 DEF ThreadOK, HoldsI2cm, Stages
<1>3. HoldsMutex(t)'
  BY <1>1 DEF ThreadOK, HoldsMutex, Stages
<1>4. TurnsOff(t)'
  <2>1. ~ OffStage(todo'[t])
    BY <1>1 DEF OffStage, Stages
  <2> QED
    BY <2>1 DEF TurnsOff
<1> QED
  BY <1>2, <1>3, <1>4 DEF ThreadOK

(* A call of exit_nicely.                                                  *)
LEMMA CallsExit ==
  ASSUME NEW t \in Threads, ThreadOK(t), todo'[t] = exit_nicely,
         i2cm' = t => "i2cm" \in called'[t],
         i2c_mutex' = t => "i2c_mutex" \in called'[t]
  PROVE  ThreadOK(t)'
<1>1. Program(exit_nicely) /\ \A c \in Stages : Has(exit_nicely, c)
  BY ExitIsProgram
<1> QED
  BY <1>1 DEF ThreadOK, HoldsI2cm, HoldsMutex, TurnsOff, OffStage, Stages

(* A step of a thread that touches neither the bus nor what the others     *)
(* look at.                                                                *)
LEMMA StillKeeps ==
  ASSUME Inv, NEW t \in Threads, ended = "no", NEW x, todo' = [todo EXCEPT ![t] = x],
         UNCHANGED <<bus, faults, called, disturbed, ended>>,
         i2cm' \in {i2cm, t, Free}, i2c_mutex' \in {i2c_mutex, t, Free},
         present' \in SUBSET Converters, vm' \in VM,
         ThreadOK(t)'
  PROVE  Inv'
<1>1. todo' = [todo EXCEPT ![t] = todo'[t]]
  BY DEF Inv, Types
<1>2. called' = [called EXCEPT ![t] = called'[t]] /\ called'[t] \in SUBSET Mutexes
  BY DEF Inv, Types
<1>3. Advances(t)
  BY <1>1, <1>2 DEF Advances, Inv, Types, bus
<1> QED
  BY <1>3, AdvancesKeeps

(* What the steps set in vm is of its type.                                *)
LEMMA VMIs ==
  ASSUME NEW v \in VM
  PROVE  /\ [v EXCEPT !.in_asic_reset = 0, !.started = TRUE] \in VM
         /\ [v EXCEPT !.in_asic_reset = 0] \in VM /\ [v EXCEPT !.in_asic_reset = 1] \in VM
         /\ [v EXCEPT !.recursive = @ + 1] \in VM /\ [v EXCEPT !.signalled = TRUE] \in VM
         /\ [v EXCEPT !.exiting = 1, !.kill_app = 1] \in VM
         /\ Fresh \in VM
<1>1. v.recursive + 1 \in Nat
  BY DEF VM
<1>2. 0 \in 0 .. 2 /\ 1 \in 0 .. 2 /\ 2 \in 0 .. 2 /\ 0 \in 0 .. 1 /\ 1 \in 0 .. 1 /\ 0 \in Nat
  OBVIOUS
<1>3. [v EXCEPT !.in_asic_reset = 0, !.started = TRUE] \in VM
  BY <1>2 DEF VM
<1>4. [v EXCEPT !.in_asic_reset = 0] \in VM /\ [v EXCEPT !.in_asic_reset = 1] \in VM
  BY <1>2 DEF VM
<1>5. [v EXCEPT !.recursive = @ + 1] \in VM
  BY <1>1 DEF VM
<1>6. [v EXCEPT !.signalled = TRUE] \in VM
  BY DEF VM
<1>7. [v EXCEPT !.exiting = 1, !.kill_app = 1] \in VM
  BY <1>2 DEF VM
<1>8. Fresh \in VM
  BY <1>2 DEF VM, Fresh
<1> QED
  BY <1>3, <1>4, <1>5, <1>6, <1>7, <1>8

(* A thread passes over an operation that is no part of a transaction.     *)
LEMMA PassedOver ==
  ASSUME Inv, NEW t \in Threads, todo[t] # <<>>, todo'[t] = Tail(todo[t]), called'[t] = called[t],
         UNCHANGED mutexes,
         todo[t][1][1] \notin
           {"unlock", "exit", "switch", "lock", "access", "sleep", "unlock_all"}
  PROVE  ThreadOK(t)'
<1>1. Program(todo[t]) /\ ThreadOK(t)
  BY AtIs
<1>2. ~ OffOp(todo[t][1]) /\ todo[t][1][1] \notin Stages /\ todo[t][1][1] # "unlock"
  BY DEF OffOp, Stages
<1>3. /\ Program(todo'[t]) /\ Same(todo[t], todo'[t]) /\ ~ OffStage(todo[t])
      /\ Unlocks(todo[t], 1) => Unlocks(todo'[t], 1)
  BY <1>1, <1>2, GoingOn
<1>4. i2cm' = i2cm /\ i2c_mutex' = i2c_mutex
  BY DEF mutexes
<1> QED
  BY <1>1, <1>3, <1>4, GoesOn

(* Another sequence takes the place of an operation.                       *)
LEMMA Replaced ==
  ASSUME Inv, NEW t \in Threads, todo[t] # <<>>, called'[t] = called[t], UNCHANGED mutexes,
         NEW ops \in Seq(Ops), todo'[t] = ops \o Tail(todo[t]),
         Plain(ops), \A r : Answers(ops, r), \A i \in 1 .. Len(ops) : ~ InitAccess(ops[i]),
         \/ todo[t][1][1] \in {"enable", "overload?", "reset_power?"}
         \/ todo[t][1][1] = "stop_all_work" /\ \A r : Restores(ops, r)
  PROVE  ThreadOK(t)'
<1> DEFINE s == todo[t]
           r == Tail(s)
<1>1. Program(s) /\ ThreadOK(t) /\ Suffix(r, s, 1) /\ Len(s) \in Nat \ {0}
  BY AtIs
<1>2. ~ OffOp(s[1]) /\ s[1][1] \notin Stages
  BY DEF OffOp, Stages
<1>3. Program(r) /\ Same(s, r) /\ ~ OffStage(s)
  BY <1>1, <1>2, GoingOn
<1>4. Len(r) \in Nat /\ Len(s) = Len(r) + 1 /\ \A i \in 1 .. Len(r) : r[i] = s[i + 1]
  BY <1>1 DEF Suffix
<1>5. Has(r, "unlock_all") => Restores(ops, r)
  <2> SUFFICES ASSUME Has(r, "unlock_all"), s[1][1] \in {"enable", "overload?", "reset_power?"}
               PROVE  Restores(ops, r)
    OBVIOUS
  <2> HIDE DEF r, s
  <2>1. PICK u \in 1 .. Len(r) : r[u][1] = "unlock_all"
    BY DEF Has
  <2>2. u + 1 \in 1 + 1 .. Len(s) /\ s[u + 1][1] = "unlock_all" /\ 1 \in 1 .. Len(s)
    BY <1>4, <2>1
  <2>3. Recovers(s, 1) /\ s[1][1] \in Blocks
    BY <1>1, <2>2 DEF Program, Blocks
  <2>4. PICK j \in 1 + 1 .. Len(s) : s[j] = Call("restarted")
    BY <2>2, <2>3 DEF Recovers
  <2>5. j - 1 \in 1 .. Len(r) /\ (j - 1) + 1 = j
    BY <1>4
  <2>6. r[j - 1] = Call("restarted")
    BY <1>4, <2>4, <2>5
  <2> QED
    BY <2>5, <2>6 DEF Restores
<1>6. ~ (Has(r, "exit") /\ ~ Has(r, "sleep"))
  BY <1>3 DEF Same, Stages, OffStage
<1>7. Program(todo'[t]) /\ Same(r, todo'[t])
  <2> HIDE DEF r, s
  <2>1. todo'[t] = ops \o r
    BY DEF r, s
  <2> QED
    BY <1>3, <1>5, <1>6, <2>1, PrependIsProgram
<1>8. Same(s, todo'[t])
  BY <1>3, <1>7 DEF Same
<1>9. ~ Unlocks(s, 1)
  <2> SUFFICES ASSUME NEW k \in 1 .. Len(s), s[k][1] = "unlock", NoBlock(s, 1, k - 1)
               PROVE  FALSE
    BY DEF Unlocks
  <2>1. k # 1
    BY DEF s
  <2>2. 1 \in 1 .. k - 1
    BY <1>1, <2>1
  <2> QED
    BY <2>2 DEF NoBlock, Blocks
<1>10. i2cm' = i2cm /\ i2c_mutex' = i2c_mutex
  BY DEF mutexes
<1> QED
  BY <1>1, <1>3, <1>7, <1>8, <1>9, <1>10, GoesOn
-----------------------------------------------------------------------------
(* Each action keeps the invariant.  A converter is found, or not.         *)
LEMMA PresentKeeps ==
  ASSUME Inv, NEW t \in Threads, Present(t)
  PROVE  Inv'
<1>1. ended = "no" /\ todo[t] # <<>> /\ todo[t][1][1] \in {"present", "absent"}
  BY AtIs DEF Present, At
<1>2. todo' = [todo EXCEPT ![t] = Tail(todo[t])] /\ called' = called
      /\ UNCHANGED <<mutexes, bus, vm, faults, called, disturbed, ended>>
  BY DEF Present, Go
<1>3. todo'[t] = Tail(todo[t])
  BY <1>2 DEF Inv, Types
<1>4. ThreadOK(t)'
  BY <1>1, <1>2, <1>3, PassedOver
<1>5. present' \in SUBSET Converters
  <2>1. todo[t][1][2] \in Converters /\ Head(todo[t]) = todo[t][1]
    BY <1>1, AtIs, OpsAre
  <2> QED
    BY <2>1 DEF Present, Inv, Types
<1> QED
  BY <1>1, <1>2, <1>4, <1>5, StillKeeps DEF mutexes, Inv, Types

(* A converter is enabled if it was present.                               *)
LEMMA EnableKeeps ==
  ASSUME Inv, NEW t \in Threads, Enable(t)
  PROVE  Inv'
<1>1. ended = "no" /\ todo[t] # <<>> /\ todo[t][1][1] = "enable" /\ Head(todo[t]) = todo[t][1]
  BY AtIs DEF Enable, At
<1> DEFINE d == todo[t][1][2]
           ops == IF d \in present THEN dc2dc_enable_dc2dc(d) ELSE <<>>
<1>2. todo' = [todo EXCEPT ![t] = ops \o Tail(todo[t])]
      /\ UNCHANGED <<mutexes, bus, present, vm, faults, called, disturbed, ended>>
  BY <1>1 DEF Enable, Replace
<1>3. d \in Converters
  BY <1>1, AtIs, OpsAre
<1>4. ops \in Seq(CalmOps)
  <2>1. Locked("enable", d) \in CalmOps
    BY <1>3, EasyAre DEF Transactions
  <2> QED
    BY <2>1 DEF dc2dc_enable_dc2dc
<1> HIDE DEF ops
<1>5. todo'[t] = ops \o Tail(todo[t]) /\ called'[t] = called[t] /\ UNCHANGED mutexes
  BY <1>2 DEF Inv, Types
<1>6. ThreadOK(t)'
  BY <1>1, <1>4, <1>5, CalmIs, Replaced
<1> QED
  BY <1>1, <1>2, <1>6, StillKeeps DEF mutexes, Inv, Types

(* The threads are started.                                                *)
LEMMA StartKeeps ==
  ASSUME Inv, NEW t \in Threads, Start(t)
  PROVE  Inv'
<1>1. ended = "no" /\ todo[t] # <<>> /\ todo[t][1][1] = "start"
  BY AtIs DEF Start, At
<1>2. todo' = [todo EXCEPT ![t] = Tail(todo[t])]
      /\ UNCHANGED <<mutexes, bus, present, faults, called, disturbed, ended>>
  BY DEF Start, Go
<1>3. todo'[t] = Tail(todo[t]) /\ called'[t] = called[t]
  BY <1>2 DEF Inv, Types
<1>4. ThreadOK(t)'
  BY <1>1, <1>2, <1>3, PassedOver
<1>5. vm' \in VM
  <2>1. vm \in VM
    BY DEF Inv, Types
  <2> QED
    BY <2>1, VMIs DEF Start
<1> QED
  BY <1>1, <1>2, <1>4, <1>5, StillKeeps DEF mutexes, Inv, Types

(* A restart is over.                                                      *)
LEMMA RestartedKeeps ==
  ASSUME Inv, NEW t \in Threads, Restarted(t)
  PROVE  Inv'
<1>1. ended = "no" /\ todo[t] # <<>> /\ todo[t][1][1] = "restarted"
  BY AtIs DEF Restarted, At
<1>2. todo' = [todo EXCEPT ![t] = Tail(todo[t])]
      /\ UNCHANGED <<mutexes, bus, present, faults, called, disturbed, ended>>
  BY DEF Restarted, Go
<1>3. todo'[t] = Tail(todo[t]) /\ called'[t] = called[t]
  BY <1>2 DEF Inv, Types
<1>4. ThreadOK(t)'
  BY <1>1, <1>2, <1>3, PassedOver
<1>5. vm' \in VM
  <2>1. vm \in VM
    BY DEF Inv, Types
  <2> QED
    BY <2>1, VMIs DEF Restarted
<1> QED
  BY <1>1, <1>2, <1>4, <1>5, StillKeeps DEF mutexes, Inv, Types

(* All work is stopped.                                                    *)
LEMMA StoppedKeeps ==
  ASSUME Inv, NEW t \in Threads, Stopped(t)
  PROVE  Inv'
<1>1. ended = "no" /\ todo[t] # <<>> /\ todo[t][1][1] = "stopped"
  BY AtIs DEF Stopped, At
<1>2. todo' = [todo EXCEPT ![t] = Tail(todo[t])]
      /\ UNCHANGED <<mutexes, bus, present, faults, called, disturbed, ended>>
  BY DEF Stopped, Go
<1>3. todo'[t] = Tail(todo[t]) /\ called'[t] = called[t]
  BY <1>2 DEF Inv, Types
<1>4. ThreadOK(t)'
  BY <1>1, <1>2, <1>3, PassedOver
<1>5. vm' \in VM
  <2>1. vm \in VM
    BY DEF Inv, Types
  <2> QED
    BY <2>1, VMIs DEF Stopped
<1> QED
  BY <1>1, <1>2, <1>4, <1>5, StillKeeps DEF mutexes, Inv, Types

(* An overload, or a measurement in a restart, takes the place of a check. *)
LEMMA ChooseKeeps ==
  ASSUME Inv, NEW t \in Threads, Choose(t)
  PROVE  Inv'
<1>1. ended = "no" /\ todo[t] # <<>> /\ todo[t][1][1] \in {"overload?", "reset_power?"}
  BY AtIs DEF Choose, At
<1>2. UNCHANGED <<mutexes, bus, present, vm, faults, called, disturbed, ended>>
  BY DEF Choose
<1>3. Overload \in Seq(CalmOps)
  <2>1. /\ Locked("psu", 0) \in CalmOps /\ Call("exit_now") \in CalmOps
        /\ Switch(<<Primary({})>>) \in CalmOps
    <3>1. "exit_now" \in Calls \ Stages
      BY DEF Calls, Stages
    <3> QED
      BY <3>1, EasyAre, SwitchesAre DEF Readings, EasyOps
  <2> HIDE DEF CalmOps
  <2> QED
    BY <2>1 DEF Overload, PSU12vONOFF
<1>4. PICK ops \in {Overload, update_ac2dc_power_measurments} :
        todo' = [todo EXCEPT ![t] = Tail(todo[t])]
        \/ todo' = [todo EXCEPT ![t] = ops \o Tail(todo[t])]
  BY DEF Choose, Go, Replace
<1>5. /\ ops \in Seq(Ops) /\ Plain(ops) /\ \A r : Answers(ops, r)
      /\ \A i \in 1 .. Len(ops) : ~ InitAccess(ops[i])
  BY <1>3, <1>4, CalmIs, PowerIs
<1>6. todo'[t] = Tail(todo[t]) \/ todo'[t] = ops \o Tail(todo[t])
  BY <1>4 DEF Inv, Types
<1>7. ThreadOK(t)'
  BY <1>1, <1>2, <1>5, <1>6, PassedOver, Replaced
<1>8. \E x : todo' = [todo EXCEPT ![t] = x]
  BY <1>4
<1> QED
  BY <1>1, <1>2, <1>7, <1>8, StillKeeps DEF mutexes, Inv, Types

(* From its sleep on an exit has every converter ahead of it.              *)
LEMMA SleepKeeps ==
  ASSUME Inv, NEW t \in Threads, Sleep(t)
  PROVE  Inv'
<1> DEFINE s == todo[t]
           r == Tail(s)
<1>1. ended = "no" /\ s # <<>> /\ s[1][1] = "sleep"
  BY AtIs DEF Sleep, At
<1>2. todo' = [todo EXCEPT ![t] = r]
      /\ UNCHANGED <<mutexes, bus, present, vm, faults, called, disturbed, ended>>
  BY DEF Sleep, Go
<1>3. todo'[t] = r /\ called'[t] = called[t]
  BY <1>2 DEF Inv, Types
<1>4. Program(s) /\ ThreadOK(t) /\ Suffix(r, s, 1) /\ Len(s) \in Nat \ {0}
  BY <1>1, AtIs
<1>5. N \in Nat \ {0} /\ Len(s) = 1 + N + 1 /\ s[Len(s)][1] = "exit"
      /\ \A k \in 1 .. N : s[1 + k] = Locked("disable", InOrder[k])
  <2>1. 1 \in 1 .. Len(s)
    BY <1>4
  <2> QED
    BY <1>1, <1>4, <2>1, InOrderIs DEF Program, AllAreDisabled
<1> HIDE DEF s, r
<1>6. Program(r)
  BY <1>4, SuffixIsProgram
<1>7. Len(r) = N + 1 /\ \A i \in 1 .. Len(r) : r[i] = s[i + 1]
  BY <1>4, <1>5 DEF Suffix
<1>8. \A k \in 1 .. N : r[k] = Locked("disable", InOrder[k])
  <2> SUFFICES ASSUME NEW k \in 1 .. N
               PROVE  r[k] = Locked("disable", InOrder[k])
    OBVIOUS
  <2>1. k \in 1 .. Len(r) /\ k + 1 = 1 + k
    BY <1>5, <1>7
  <2> QED
    BY <1>5, <1>7, <2>1
<1>9. r[N + 1][1] = "exit"
  <2>1. N + 1 \in 1 .. Len(r) /\ (N + 1) + 1 = Len(s)
    BY <1>5, <1>7
  <2> QED
    BY <1>5, <1>7, <2>1
<1>10. Has(s, "exit") /\ ~ Has(s, "unlock_all") /\ Has(r, "exit")
  <2>1. N + 1 \in 1 .. Len(r) /\ Len(s) \in 1 .. Len(s)
    BY <1>4, <1>5, <1>7
  <2>2. ASSUME NEW i \in 1 .. Len(s), s[i][1] = "unlock_all"
        PROVE  FALSE
    <3>1. i < Len(s) /\ s[i + 1][1] = "sleep"
      BY <1>4, <2>2 DEF Program, ThenSleeps
    <3>2. i + 1 \in 1 .. Len(s)
      BY <1>4, <3>1
    <3>3. Len(s) = (i + 1) + N + 1
      BY <1>4, <3>1, <3>2 DEF Program, AllAreDisabled
    <3> QED
      BY <1>5, <3>3
  <2> QED
    BY <1>5, <1>9, <2>1, <2>2 DEF Has
<1>11. \A c \in Converters : Pending(r, c)
  <2> SUFFICES ASSUME NEW c \in Converters
               PROVE  Pending(r, c)
    OBVIOUS
  <2>1. PICK k \in 1 .. N : InOrder[k] = c
    BY InOrderIs
  <2>2. k \in 1 .. Len(r)
    BY <1>5, <1>7
  <2> QED
    BY <1>8, <2>1, <2>2 DEF Pending
<1>12. r[1][1] = "lock"
  <2>1. 1 \in 1 .. N
    BY <1>5
  <2> QED
    BY <1>8, <2>1 DEF Locked
<1>13. ThreadOK(t)'
  <2>1. i2cm' = i2cm /\ i2c_mutex' = i2c_mutex /\ on' \in SUBSET Converters
    BY <1>2 DEF mutexes, bus, Inv, Types
  <2>2. HoldsI2cm(t)'
    BY <1>3, <1>4, <1>10, <2>1 DEF ThreadOK, HoldsI2cm
  <2>3. HoldsMutex(t)'
    <3>1. Unlocks(s, 1) => Unlocks(r, 1)
      BY <1>1, <1>4, GoingOn DEF s, r
    <3> QED
      BY <1>3, <1>4, <1>10, <2>1, <3>1 DEF ThreadOK, HoldsMutex, s
  <2>4. TurnsOff(t)'
    BY <1>3, <1>11, <1>12, <2>1 DEF TurnsOff
  <2> QED
    BY <1>3, <1>6, <2>2, <2>3, <2>4 DEF ThreadOK
<1> QED
  BY <1>1, <1>2, <1>13, StillKeeps DEF mutexes, Inv, Types

(* A call of exit_nicely with what is held.                                *)
LEMMA CallExitKeeps ==
  ASSUME Inv, NEW t \in Threads, ended = "no", CallExit(t),
         UNCHANGED <<mutexes, bus, present, vm, faults, disturbed, ended>>
  PROVE  Inv'
<1>1. /\ todo' = [todo EXCEPT ![t] = todo'[t]] /\ todo'[t] = exit_nicely
      /\ called' = [called EXCEPT ![t] = called'[t]] /\ called'[t] = HeldBy(t)
  BY DEF CallExit, Inv, Types
<1>2. HeldBy(t) \in SUBSET Mutexes
  BY DEF HeldBy, Mutexes
<1>3. i2cm = t => "i2cm" \in HeldBy(t)
  BY DEF HeldBy
<1>4. i2c_mutex = t => "i2c_mutex" \in HeldBy(t)
  BY DEF HeldBy
<1>5. i2cm' = i2cm /\ i2c_mutex' = i2c_mutex /\ ThreadOK(t)
  BY DEF mutexes, Inv
<1>6. ThreadOK(t)'
  BY <1>1, <1>3, <1>4, <1>5, CallsExit
<1>7. Advances(t)
  BY <1>1, <1>2, <1>5, <1>6 DEF Advances, Inv, Types, bus
<1> QED
  BY <1>7, AdvancesKeeps

(* The process ends.                                                       *)
LEMMA EndKeeps ==
  ASSUME Inv, NEW how \in {"full", "cut", "recursive", "killed"}, End(how),
         switch' \in Switches, on' \in SUBSET Converters, present' \in SUBSET Converters,
         faults' \in 0 .. MaxFaults, disturbed' \in BOOLEAN,
         how = "full" /\ ~ disturbed' => on' = {}
  PROVE  Inv'
<1>1. todo' = [t \in Threads |-> <<>>] /\ called' = [t \in Threads |-> {}] /\ ended' = how
      /\ i2cm' = Free /\ i2c_mutex' = Free /\ vm' = Fresh
  BY DEF End
<1>2. vm' \in VM
  BY <1>1, VMIs DEF Inv, Types
<1>3. <<>> \in Seq(Ops) /\ Len(<<>>) = 0
  OBVIOUS
<1>4. Types'
  BY <1>1, <1>2, <1>3 DEF Types
<1>5. ASSUME NEW t \in Threads
      PROVE  ThreadOK(t)'
  <2>1. todo'[t] = <<>> /\ i2cm' # t /\ i2c_mutex' # t
    BY <1>1, FreeIs
  <2>2. Program(<<>>) /\ \A c : ~ Has(<<>>, c)
    BY <1>3 DEF Program, Has
  <2> QED
    BY <2>1, <2>2 DEF ThreadOK, HoldsI2cm, HoldsMutex, TurnsOff, OffStage
<1>6. ConvertersOff'
  BY <1>1 DEF ConvertersOff
<1> QED
  BY <1>4, <1>5, <1>6 DEF Inv

(* A check exits, or does not.                                             *)
LEMMA MayExitKeeps ==
  ASSUME Inv, NEW t \in Threads, MayExit(t)
  PROVE  Inv'
<1>1. ended = "no" /\ todo[t] # <<>> /\ todo[t][1][1] \in {"may_exit", "exit_now"}
  BY AtIs DEF MayExit, At
<1>2. UNCHANGED <<mutexes, bus, present, vm, faults, disturbed, ended>>
  BY DEF MayExit
<1>3. CASE CallExit(t)
  BY <1>1, <1>2, <1>3, CallExitKeeps
<1>4. CASE Go(t) /\ UNCHANGED called
  <2>1. todo' = [todo EXCEPT ![t] = Tail(todo[t])]
    BY <1>4 DEF Go
  <2>2. todo'[t] = Tail(todo[t]) /\ called'[t] = called[t]
    BY <1>4, <2>1 DEF Inv, Types
  <2>3. ThreadOK(t)'
    BY <1>1, <1>2, <2>2, PassedOver
  <2> QED
    BY <1>1, <1>2, <1>4, <2>1, <2>3, StillKeeps DEF mutexes, Inv, Types
<1> QED
  BY <1>3, <1>4 DEF MayExit

(* A restart begins, or fails its passert.                                 *)
LEMMA RestartKeeps ==
  ASSUME Inv, NEW t \in Threads, Restart(t)
  PROVE  Inv'
<1>1. ended = "no" /\ todo[t] # <<>> /\ todo[t][1][1] = "restart"
  BY AtIs DEF Restart, At
<1>2. UNCHANGED <<mutexes, bus, present, faults, disturbed, ended>>
  BY DEF Restart
<1>3. CASE CallExit(t) /\ UNCHANGED vm
  BY <1>1, <1>2, <1>3, CallExitKeeps
<1>4. CASE Go(t) /\ vm' = [vm EXCEPT !.in_asic_reset = 1] /\ UNCHANGED called
  <2>1. todo' = [todo EXCEPT ![t] = Tail(todo[t])]
    BY <1>4 DEF Go
  <2>2. todo'[t] = Tail(todo[t]) /\ called'[t] = called[t]
    BY <1>4, <2>1 DEF Inv, Types
  <2>3. ThreadOK(t)'
    BY <1>1, <1>2, <2>2, PassedOver
  <2>4. vm' \in VM
    <3>1. vm \in VM
      BY DEF Inv, Types
    <3> QED
      BY <1>4, <3>1, VMIs
  <2> QED
    BY <1>1, <1>2, <1>4, <2>1, <2>3, <2>4, StillKeeps DEF mutexes, Inv, Types
<1> QED
  BY <1>3, <1>4 DEF Restart

(* Closed switches are switches.                                           *)
LEMMA ClosedIsType ==
  Closed \in Switches
BY DEF Closed, Switches, Pins, Offsets

(* An exit resets the switches, or gives up.                               *)
LEMMA EnterKeeps ==
  ASSUME Inv, NEW t \in Threads, Enter(t)
  PROVE  Inv'
<1>1. ended = "no" /\ todo[t] # <<>> /\ todo[t][1][1] = "enter"
  BY AtIs DEF Enter, At
<1>2. /\ switch' \in Switches /\ on' = on /\ present' = present /\ faults' = faults
      /\ disturbed' = (disturbed \/ \E u \in Threads \ {t} : SwitchingOff(u))
  BY ClosedIsType DEF Enter
<1>3. disturbed' \in BOOLEAN /\ (disturbed => disturbed')
      /\ \A u \in Threads \ {t} : SwitchingOff(u) => disturbed'
  BY <1>2 DEF Inv, Types
<1>4. CASE End("recursive")
  <2>1. on' \in SUBSET Converters /\ present' \in SUBSET Converters /\ faults' \in 0 .. MaxFaults
    BY <1>2 DEF Inv, Types
  <2> QED
    BY <1>2, <1>3, <1>4, <2>1, EndKeeps
<1>5. CASE Go(t) /\ UNCHANGED <<mutexes, vm, called, ended>>
  <2>1. todo' = [todo EXCEPT ![t] = Tail(todo[t])]
    BY <1>5 DEF Go
  <2>2. todo'[t] = Tail(todo[t]) /\ called'[t] = called[t] /\ UNCHANGED mutexes
    BY <1>5, <2>1 DEF Inv, Types
  <2>3. ThreadOK(t)'
    BY <1>1, <2>2, PassedOver
  <2>4. Advances(t)
    <3>1. called' = [called EXCEPT ![t] = called'[t]] /\ called'[t] \in SUBSET Mutexes
      BY <1>5 DEF Inv, Types
    <3>2. i2cm' = i2cm /\ i2c_mutex' = i2c_mutex /\ vm' = vm /\ ended' = "no"
      BY <1>1, <1>5 DEF mutexes
    <3>3. todo' = [todo EXCEPT ![t] = todo'[t]]
      BY <2>1, <2>2
    <3> QED
      BY <1>2, <1>3, <2>3, <3>1, <3>2, <3>3 DEF Advances, Inv, Types
  <2> QED
    BY <2>4, AdvancesKeeps
<1> QED
  BY <1>4, <1>5 DEF Enter

(* An exit stops all work, with a restart or without one.                  *)
LEMMA StopAllWorkKeeps ==
  ASSUME Inv, NEW t \in Threads, StopAllWork(t)
  PROVE  Inv'
<1>1. ended = "no" /\ todo[t] # <<>> /\ todo[t][1][1] = "stop_all_work"
  BY AtIs DEF StopAllWork, At
<1>2. UNCHANGED <<mutexes, bus, present, faults, called, disturbed, ended>>
  BY DEF StopAllWork
<1> DEFINE a == <<Call("stopped")>>
           b == restart_asics_full \o a
<1>3. a \in Seq(EasyOps)
  <2>1. "stopped" \in Calls \ (Stages \cup Blocks \cup {"stop_all_work"})
    BY DEF Calls, Stages, Blocks
  <2> QED
    BY <2>1, EasyAre
<1>4. a \in Seq(CalmOps) /\ \A r : Restores(a, r)
  BY <1>3, EasyIs
<1> HIDE DEF a
<1>5. b \in Seq(CalmOps)
  BY <1>4, RestartIs, ConcatProperties
<1>6. \A r : Restores(b, r)
  <2> SUFFICES ASSUME NEW r
               PROVE  Restores(b, r)
    OBVIOUS
  <2> DEFINE x == restart_asics_full
  <2>1. x \in Seq(Ops) /\ a \in Seq(Ops) /\ Restores(x, <<>>) /\ Restores(a, <<>>)
        /\ Len(<<>>) = 0
    BY <1>4, RestartIs, CalmIs
  <2> HIDE DEF x
  <2>2. /\ Len(x) \in Nat /\ Len(a) \in Nat /\ Len(x \o a) = Len(x) + Len(a)
        /\ \A i \in 1 .. Len(x) : (x \o a)[i] = x[i]
        /\ \A i \in 1 .. Len(a) : a[i] = (x \o a)[i + Len(x)]
    BY <2>1, ConcatIs DEF Suffix
  <2> DEFINE y == x \o a
  <2> HIDE DEF y
  <2>3. ASSUME NEW i \in 1 .. Len(y)
        PROVE  /\ ~ InitAccess(y[i])
               /\ y[i][1] \in Blocks => \E j \in i + 1 .. Len(y) : y[j] = Call("restarted")
    <3>1. CASE i <= Len(x)
      <4>1. i \in 1 .. Len(x) /\ y[i] = x[i]
        BY <2>2, <3>1 DEF y
      <4>2. \A j \in 1 .. Len(<<>>) : FALSE
        BY <2>1
      <4>3. /\ ~ InitAccess(x[i])
            /\ x[i][1] \in Blocks => \E j \in i + 1 .. Len(x) : x[j] = Call("restarted")
        BY <2>1, <4>1, <4>2 DEF Restores
      <4>4. \A j \in i + 1 .. Len(x) : j \in i + 1 .. Len(y) /\ j \in 1 .. Len(x)
        BY <2>2, <4>1 DEF y
      <4> QED
        BY <2>2, <4>1, <4>3, <4>4 DEF y
    <3>2. CASE ~ (i <= Len(x))
      <4>1. i - Len(x) \in 1 .. Len(a) /\ (i - Len(x)) + Len(x) = i
        BY <2>2, <3>2 DEF y
      <4>2. y[i] = a[i - Len(x)]
        BY <2>2, <4>1 DEF y
      <4>3. \A j \in 1 .. Len(<<>>) : FALSE
        BY <2>1
      <4>4. /\ ~ InitAccess(a[i - Len(x)])
            /\ a[i - Len(x)][1] \in Blocks =>
                 \E j \in (i - Len(x)) + 1 .. Len(a) : a[j] = Call("restarted")
        BY <2>1, <4>1, <4>3 DEF Restores
      <4>5. \A j \in (i - Len(x)) + 1 .. Len(a) :
              j + Len(x) \in i + 1 .. Len(y) /\ j \in 1 .. Len(a)
        BY <2>2, <4>1 DEF y
      <4> QED
        BY <2>2, <4>2, <4>4, <4>5 DEF y
    <3> QED
      BY <3>1, <3>2
  <2>4. Restores(y, r)
    BY <2>3 DEF Restores
  <2> QED
    BY <2>4 DEF y, x
<1> HIDE DEF b
<1>7. \E x \in {Tail(todo[t]), a \o Tail(todo[t]), b \o Tail(todo[t])} :
        todo' = [todo EXCEPT ![t] = x]
  BY DEF StopAllWork, Go, Replace, a, b
<1>8. todo'[t] \in {Tail(todo[t]), a \o Tail(todo[t]), b \o Tail(todo[t])}
      /\ called'[t] = called[t]
  BY <1>2, <1>7 DEF Inv, Types
<1>9. ThreadOK(t)'
  <2>1. CASE todo'[t] = Tail(todo[t])
    BY <1>1, <1>2, <1>8, <2>1, PassedOver
  <2>2. CASE todo'[t] = a \o Tail(todo[t])
    BY <1>1, <1>2, <1>4, <1>8, <2>2, CalmIs, Replaced
  <2>3. CASE todo'[t] = b \o Tail(todo[t])
    BY <1>1, <1>2, <1>5, <1>6, <1>8, <2>3, CalmIs, Replaced
  <2> QED
    BY <1>8, <2>1, <2>2, <2>3
<1>10. vm' \in VM
  <2>1. vm \in VM
    BY DEF Inv, Types
  <2> QED
    BY <2>1, VMIs DEF StopAllWork
<1> QED
  BY <1>1, <1>2, <1>7, <1>9, <1>10, StillKeeps DEF mutexes, Inv, Types

(* An exit finds another one at work, or not.                              *)
LEMMA ExitingKeeps ==
  ASSUME Inv, NEW t \in Threads, Exiting(t)
  PROVE  Inv'
<1>1. ended = "no" /\ todo[t] # <<>> /\ todo[t][1][1] = "exiting?"
  BY AtIs DEF Exiting, At
<1>2. UNCHANGED <<bus, present, faults, disturbed>>
  BY DEF Exiting
<1>3. CASE End("cut")
  <2>1. switch' \in Switches /\ on' \in SUBSET Converters /\ present' \in SUBSET Converters
        /\ faults' \in 0 .. MaxFaults /\ disturbed' \in BOOLEAN
    BY <1>2 DEF Inv, Types, bus
  <2> QED
    BY <1>3, <2>1, EndKeeps
<1>4. CASE Go(t) /\ UNCHANGED <<mutexes, vm, called, ended>>
  <2>1. todo' = [todo EXCEPT ![t] = Tail(todo[t])]
    BY <1>4 DEF Go
  <2>2. todo'[t] = Tail(todo[t]) /\ called'[t] = called[t] /\ UNCHANGED mutexes
    BY <1>4, <2>1 DEF Inv, Types
  <2>3. ThreadOK(t)'
    BY <1>1, <2>2, PassedOver
  <2> QED
    BY <1>1, <1>2, <1>4, <2>1, <2>3, StillKeeps DEF mutexes, Inv, Types
<1> QED
  BY <1>3, <1>4 DEF Exiting

(* An exit frees both mutexes, and sleeps next.                            *)
LEMMA UnlockAllKeeps ==
  ASSUME Inv, NEW t \in Threads, UnlockAll(t)
  PROVE  Inv'
<1> DEFINE s == todo[t]
           r == Tail(s)
<1>1. ended = "no" /\ s # <<>> /\ s[1][1] = "unlock_all"
  BY AtIs DEF UnlockAll, At
<1>2. todo' = [todo EXCEPT ![t] = r] /\ i2cm' = Free /\ i2c_mutex' = Free
      /\ UNCHANGED <<bus, present, faults, called, disturbed, ended>>
  BY DEF UnlockAll, Go, UnlockBoth
<1>3. todo'[t] = r
  BY <1>2 DEF Inv, Types
<1>4. Program(s) /\ Suffix(r, s, 1) /\ Len(s) \in Nat \ {0}
  BY <1>1, AtIs
<1> HIDE DEF s, r
<1>5. Program(r)
  BY <1>4, SuffixIsProgram
<1>6. Has(r, "sleep")
  <2>1. 1 \in 1 .. Len(s)
    BY <1>4
  <2>2. 1 < Len(s) /\ s[1 + 1][1] = "sleep"
    BY <1>1, <1>4, <2>1 DEF Program, ThenSleeps
  <2>3. 1 \in 1 .. Len(r) /\ 1 + 1 = 1 + 1
    BY <1>4, <2>2 DEF Suffix
  <2> QED
    BY <1>4, <2>2, <2>3 DEF Has, Suffix
<1>7. ThreadOK(t)'
  BY <1>2, <1>3, <1>5, <1>6, FreeIs DEF ThreadOK, HoldsI2cm, HoldsMutex, TurnsOff, OffStage
<1>8. vm' \in VM
  <2>1. vm \in VM
    BY DEF Inv, Types
  <2> QED
    BY <2>1, VMIs DEF UnlockAll
<1> QED
  BY <1>1, <1>2, <1>7, <1>8, StillKeeps DEF Inv, Types

(* What exits has switched the converters off.                             *)
LEMMA ExitKeeps ==
  ASSUME Inv, NEW t \in Threads, Exit(t)
  PROVE  Inv'
<1> DEFINE s == todo[t]
<1>1. s # <<>> /\ s[1][1] = "exit"
  BY AtIs DEF Exit, At
<1>2. End("full") /\ UNCHANGED <<bus, present, faults, disturbed>>
  BY DEF Exit
<1>3. Program(s) /\ TurnsOff(t) /\ Len(s) \in Nat \ {0}
  BY <1>1, AtIs DEF ThreadOK
<1>4. 1 \in 1 .. Len(s)
  BY <1>3
<1>5. Len(s) = 1
  BY <1>1, <1>3, <1>4 DEF Program, ExitIsLast
<1>6. \A i \in 1 .. Len(s) : i = 1
  BY <1>5
<1>7. OffStage(s)
  BY <1>1, <1>4, <1>6 DEF OffStage, Has
<1>8. \A c : ~ Pending(s, c)
  BY <1>1, <1>6 DEF Pending, Locked, Access
<1>9. ~ disturbed => on = {}
  BY <1>3, <1>7, <1>8 DEF TurnsOff, Inv, Types
<1>10. switch' \in Switches /\ on' \in SUBSET Converters /\ present' \in SUBSET Converters
       /\ faults' \in 0 .. MaxFaults /\ disturbed' \in BOOLEAN /\ (~ disturbed' => on' = {})
  BY <1>2, <1>9 DEF Inv, Types, bus
<1> QED
  BY <1>2, <1>10, EndKeeps

(* i2c_mutex is unlocked, whoever holds it.                                *)
LEMMA UnlockKeeps ==
  ASSUME Inv, NEW t \in Threads, UnlockI2cMutex(t)
  PROVE  Inv'
<1> DEFINE s == todo[t]
           r == Tail(s)
<1>1. ended = "no" /\ s # <<>> /\ s[1][1] = "unlock"
  BY AtIs DEF UnlockI2cMutex, At
<1>2. todo' = [todo EXCEPT ![t] = r] /\ i2c_mutex' = Free
      /\ UNCHANGED <<i2cm, bus, present, vm, faults, called, disturbed, ended>>
  BY DEF UnlockI2cMutex, Go
<1>3. todo'[t] = r /\ called'[t] = called[t]
  BY <1>2 DEF Inv, Types
<1>4. Program(s) /\ ThreadOK(t)
  BY <1>1, AtIs
<1>5. Same(s, r)
  BY <1>1, <1>4, GoingOn DEF Stages
<1>6. TurnsOff(t)'
  <2> SUFFICES ASSUME OffStage(r), ~ disturbed
               PROVE  /\ \A c \in on : Pending(r, c)
                      /\ r[1][1] = "access" => r[1][3] \in Reached
    BY <1>2, <1>3 DEF TurnsOff, bus, Reached
  <2>1. OffStage(s)
    BY <1>5 DEF Same, Stages, OffStage
  <2>2. \A c : s[1] \notin {Locked("disable", c), Access("disable", c)}
    BY <1>1 DEF Locked, Access
  <2>3. \A c \in on : Pending(s, c)
    BY <1>4, <2>1 DEF ThreadOK, TurnsOff
  <2>4. \A c \in on : Pending(r, c)
    BY <1>1, <1>4, <2>2, <2>3, GoingOn
  <2>5. r # <<>>
    <3>1. Len(<<>>) = 0
      OBVIOUS
    <3>2. ~ Has(<<>>, "exit")
      BY <3>1 DEF Has
    <3> QED
      BY <3>2 DEF OffStage
  <2>6. r[1][1] # "access"
    <3>1. \A d : s[1] # Select(d)
      BY <1>1 DEF Select, Switch
    <3> QED
      BY <1>1, <1>4, <2>1, <2>5, <3>1, GoingOn
  <2> QED
    BY <2>4, <2>6
<1>7. Program(r)
  BY <1>1, <1>4, GoingOn
<1>8. HoldsI2cm(t)'
  <2>1. Has(s, "exit") <=> Has(r, "exit")
    BY <1>5 DEF Same, Stages
  <2> QED
    BY <1>2, <1>3, <1>4, <2>1 DEF ThreadOK, HoldsI2cm
<1>9. ThreadOK(t)'
  BY <1>2, <1>3, <1>6, <1>7, <1>8, FreeIs DEF ThreadOK, HoldsMutex
<1> QED
  BY <1>1, <1>2, <1>9, StillKeeps DEF Inv, Types

(* What is still to be switched off stays so when more is put in front.    *)
LEMMA SuffixPending ==
  ASSUME NEW r, NEW x, NEW m, Suffix(r, x, m), Len(x) \in Nat, NEW c, Pending(r, c)
  PROVE  Pending(x, c)
<1>1. PICK i \in 1 .. Len(r) : r[i] \in {Locked("disable", c), Access("disable", c)}
  BY DEF Pending
<1>2. i + m \in 1 .. Len(x) /\ r[i] = x[i + m]
  BY DEF Suffix
<1> QED
  BY <1>1, <1>2 DEF Pending

(* i2c_mutex is locked, and the transaction takes the place of the lock:   *)
(* past the sleep it is one that switches off the converter that the lock  *)
(* was for.                                                                *)
LEMMA LockKeeps ==
  ASSUME Inv, NEW t \in Threads, LockI2cMutex(t)
  PROVE  Inv'
<1> DEFINE s == todo[t]
           r == Tail(s)
           op == s[1]
           ops == Body(op[2], op[3])
           x == ops \o r
<1>1. ended = "no" /\ s # <<>> /\ op[1] = "lock" /\ Head(s) = op
  BY AtIs DEF LockI2cMutex, At
<1>2. todo' = [todo EXCEPT ![t] = x] /\ i2c_mutex' = t
      /\ UNCHANGED <<i2cm, bus, present, vm, faults, called, disturbed, ended>>
  BY <1>1 DEF LockI2cMutex, Replace
<1>3. todo'[t] = x /\ called'[t] = called[t]
  BY <1>2 DEF Inv, Types
<1>4. Program(s) /\ ThreadOK(t) /\ Suffix(r, s, 1) /\ Len(s) \in Nat \ {0} /\ op \in Ops
  BY <1>1, AtIs
<1>5. Program(r) /\ Same(s, r) /\ (Asks(op) => Unlocks(r, 1))
      /\ (OffStage(s) => OffOp(op) /\ (r # <<>> => r[1][1] # "access"))
  <2>1. \A d : op # Select(d)
    BY <1>1 DEF Select, Switch
  <2> QED
    BY <1>1, <1>4, <2>1, GoingOn DEF Stages
<1>6. \/ op = Locked("psu", 0) \/ op = Locked("none", 0)
      \/ op[2] \in Transactions /\ op[3] \in Converters
  BY <1>1, <1>4, OpsAre
<1>7. ops \in Seq(EasyOps)
  <2>1. CASE op = Locked("psu", 0)
    <3>1. Switch(<<Primary(PsuPin)>>) \in EasyOps /\ Unlock \in EasyOps
      BY EasyAre, SwitchesAre DEF Readings
    <3>2. ops = <<Switch(<<Primary(PsuPin)>>), Unlock>>
      BY <2>1 DEF Body, Locked
    <3> HIDE DEF ops
    <3> QED
      BY <3>1, <3>2
  <2>2. CASE op = Locked("none", 0)
    <3>1. ops = <<>>
      BY <2>2 DEF Body, Locked
    <3> HIDE DEF ops
    <3> QED
      BY <3>1
  <2>3. CASE op[2] \in Transactions /\ op[3] \in Converters
    <3>1. ops = Transaction(op[2], op[3])
      BY <2>3 DEF Body, Transactions
    <3> HIDE DEF ops, op
    <3> QED
      BY <2>3, <3>1, TransactionIs
  <2> QED
    BY <1>6, <2>1, <2>2, <2>3
<1>8. Unlocks(ops, 1) \/ (NoBlock(ops, 1, Len(ops)) /\ Unlocks(r, 1))
  <2>1. CASE op = Locked("psu", 0)
    <3>1. ops = <<Switch(<<Primary(PsuPin)>>)>> \o <<Unlock>>
      BY <2>1 DEF Body, Locked
    <3>2. <<Switch(<<Primary(PsuPin)>>)>> \in Seq(QuietOps)
      BY EasyAre, SwitchesAre DEF Readings, EasyOps
    <3>3. 1 \in 1 .. Len(<<Switch(<<Primary(PsuPin)>>)>>) + 1
      OBVIOUS
    <3> HIDE DEF ops
    <3> QED
      BY <3>1, <3>2, <3>3, NamesAre, QuietUnlocks
  <2>2. CASE op = Locked("none", 0)
    <3>1. ops = <<>>
      BY <2>2 DEF Body, Locked
    <3>2. Len(ops) = 0
      BY <3>1
    <3>3. \A j \in 1 .. 0 : FALSE
      OBVIOUS
    <3>4. NoBlock(ops, 1, Len(ops))
      BY <3>2, <3>3 DEF NoBlock
    <3>5. Asks(op)
      BY <2>2 DEF Asks, Locked
    <3> QED
      BY <1>5, <3>4, <3>5
  <2>3. CASE op[2] \in Transactions /\ op[3] \in Converters
    <3>1. ops = Transaction(op[2], op[3])
      BY <2>3 DEF Body, Transactions
    <3> HIDE DEF ops, op
    <3> QED
      BY <2>3, <3>1, TransactionIs
  <2> QED
    BY <1>6, <2>1, <2>2, <2>3
<1>9. OffStage(s) => op[2] = "disable" /\ op[3] \in Converters
  BY <1>1, <1>5, <1>6 DEF OffOp, Locked
<1>10. ASSUME op[2] = "disable", op[3] \in Converters
       PROVE  /\ ops = Transaction("disable", op[3])
              /\ ops[1] = Select(op[3]) /\ ops[2] = Access("disable", op[3]) /\ Len(ops) = 4
  <2>1. ops = Transaction("disable", op[3])
    BY <1>10 DEF Body
  <2> HIDE DEF ops, op
  <2> QED
    BY <1>10, <2>1, DisablingIs
<1> HIDE DEF s, r, op, ops, x
<1>11. /\ ops \in Seq(Ops) /\ Plain(ops) /\ Answers(ops, r) /\ Restores(ops, r)
  BY <1>7, EasyIs, CalmIs
<1>12. Has(r, "exit") /\ ~ Has(r, "sleep") => Disables(ops, r)
  <2> SUFFICES ASSUME Has(r, "exit"), ~ Has(r, "sleep")
               PROVE  Disables(ops, r)
    OBVIOUS
  <2>1. OffStage(s)
    BY <1>5 DEF Same, Stages, OffStage
  <2> QED
    BY <1>5, <1>9, <1>10, <2>1, DisablingDisables
<1>13. Program(x) /\ Same(r, x)
  BY <1>5, <1>11, <1>12, PrependIsProgram DEF x
<1>14. r \in Seq(Ops)
  BY <1>5 DEF Program
<1>15. Unlocks(x, 1)
  <2>1. 1 \in 1 .. Len(ops) + 1
    BY <1>11, LenProperties
  <2> QED
    BY <1>8, <1>11, <1>14, <2>1, ConcatUnlocks DEF x
<1>16. Same(s, x)
  BY <1>5, <1>13 DEF Same
<1>17. TurnsOff(t)'
  <2> SUFFICES ASSUME OffStage(x), ~ disturbed
               PROVE  /\ \A c \in on : Pending(x, c)
                      /\ x[1][1] = "access" => x[1][3] \in Reached
    BY <1>2, <1>3 DEF TurnsOff, bus, Reached
  <2>1. OffStage(s)
    BY <1>16 DEF Same, Stages, OffStage
  <2>2. \A c \in on : Pending(s, c)
    BY <1>4, <2>1 DEF ThreadOK, TurnsOff, s
  <2>3. /\ x \in Seq(Ops) /\ Len(x) \in Nat
        /\ \A i \in 1 .. Len(ops) : x[i] = ops[i] /\ i \in 1 .. Len(x)
        /\ Suffix(r, x, Len(ops))
    BY <1>11, <1>14, ConcatIs, LenProperties DEF x
  <2>4. ops[1] = Select(op[3]) /\ ops[2] = Access("disable", op[3]) /\ Len(ops) = 4
    BY <1>9, <1>10, <2>1
  <2>5. 1 \in 1 .. Len(ops) /\ 2 \in 1 .. Len(ops)
    BY <2>4
  <2>6. x[1] = Select(op[3]) /\ x[2] = Access("disable", op[3]) /\ 2 \in 1 .. Len(x)
    BY <2>3, <2>4, <2>5
  <2>7. ASSUME NEW c \in on
        PROVE  Pending(x, c)
    <3>1. CASE op \in {Locked("disable", c), Access("disable", c)}
      <4>1. op[3] = c
        BY <3>1 DEF Locked, Access
      <4> QED
        BY <2>6, <4>1 DEF Pending
    <3>2. CASE op \notin {Locked("disable", c), Access("disable", c)}
      <4>1. Pending(r, c)
        BY <1>1, <1>4, <2>2, <3>2, GoingOn DEF r, op
      <4> QED
        BY <2>3, <4>1, SuffixPending
    <3> QED
      BY <3>1, <3>2
  <2>8. x[1][1] # "access"
    BY <2>6 DEF Select, Switch
  <2> QED
    BY <2>7, <2>8
<1>18. HoldsI2cm(t)'
  <2>1. Has(s, "exit") <=> Has(x, "exit")
    BY <1>16 DEF Same, Stages
  <2> QED
    BY <1>2, <1>3, <1>4, <2>1 DEF ThreadOK, HoldsI2cm, s
<1>19. ThreadOK(t)'
  BY <1>3, <1>13, <1>15, <1>17, <1>18 DEF ThreadOK, HoldsMutex
<1> QED
  BY <1>1, <1>2, <1>19, StillKeeps DEF Inv, Types
-----------------------------------------------------------------------------
(* A thread begins something that does not exit.                           *)
LEMMA Begins ==
  ASSUME Inv, NEW t \in Threads, ended = "no", todo[t] = <<>>,
         NEW x \in Seq(Ops), Plain(x), Answering(x), todo' = [todo EXCEPT ![t] = x],
         UNCHANGED <<mutexes, bus, present, vm, faults, called, disturbed, ended>>
  PROVE  Inv'
<1>1. todo'[t] = x
  BY DEF Inv, Types
<1>2. Program(x) /\ \A c \in Stages : ~ Has(x, c)
  BY PlainIsProgram
<1>3. ~ Unlocks(<<>>, 1) /\ \A c : ~ Has(<<>>, c)
  <2>1. Len(<<>>) = 0
    OBVIOUS
  <2>2. \A k \in 1 .. 0 : FALSE
    OBVIOUS
  <2> QED
    BY <2>1, <2>2 DEF Unlocks, Has
<1>4. i2cm # t /\ i2c_mutex # t
  BY <1>3 DEF Inv, ThreadOK, HoldsI2cm, HoldsMutex
<1>5. ThreadOK(t)'
  BY <1>1, <1>2, <1>4
     DEF ThreadOK, HoldsI2cm, HoldsMutex, TurnsOff, OffStage, Stages, mutexes
<1> QED
  BY <1>5, StillKeeps DEF mutexes, Inv, Types

(* The RT thread begins a task.                                            *)
LEMMA RtTaskKeeps ==
  ASSUME Inv, RtTask
  PROVE  Inv'
<1> DEFINE F == {update_ac2dc_power_measurments, get_mng_board_temp, restart_asics_full}
                  \cup {get_board_temp(b) : b \in Boards}
                  \cup {update_dc2dc_stats_restart_if_error(d) : d \in present}
                  \cup {dc2dc_set_vtrim(d) : d \in present}
<1>1. PICK f \in F : todo' = [todo EXCEPT !["rt"] = f]
  BY DEF RtTask
<1>2. ended = "no" /\ todo["rt"] = <<>>
      /\ UNCHANGED <<mutexes, bus, present, vm, faults, called, disturbed, ended>>
  BY DEF RtTask
<1>3. ASSUME NEW x \in Seq(CalmOps)
      PROVE  x \in Seq(Ops) /\ Plain(x) /\ Answering(x)
  <2>1. \A i \in 1 .. Len(x) : x[i] \in CalmOps
    BY ElementOfSeq
  <2> QED
    BY <2>1, CalmIs DEF Answering, CalmOps
<1>4. f \in Seq(Ops) /\ Plain(f) /\ Answering(f)
  <2>1. CASE f = update_ac2dc_power_measurments
    <3>1. f \in Seq(Ops) /\ Plain(f) /\ Answers(f, <<>>)
      BY <2>1, PowerIs
    <3>2. ~ Unlocks(<<>>, 1)
      <4>1. Len(<<>>) = 0
        OBVIOUS
      <4>2. \A k \in 1 .. 0 : FALSE
        OBVIOUS
      <4> QED
        BY <4>1, <4>2 DEF Unlocks
    <3> QED
      BY <3>1, <3>2 DEF Answering, Answers
  <2>2. CASE f = get_mng_board_temp
    <3>1. Switch(<<Primary(SensorPin), Primary({})>>) \in CalmOps
      BY SwitchesAre, EasyAre DEF Readings, EasyOps
    <3>2. f \in Seq(CalmOps)
      BY <2>2, <3>1 DEF get_mng_board_temp
    <3> QED
      BY <1>3, <3>2
  <2>3. CASE f = restart_asics_full
    BY <1>3, <2>3, RestartIs
  <2>4. CASE \E b \in Boards : f = get_board_temp(b)
    <3>1. PICK b \in Boards : f = get_board_temp(b)
      BY <2>4
    <3> DEFINE op == TopReading(b)
    <3>2. op \in CalmOps /\ f = <<op>>
      BY <3>1, SwitchesAre, EasyAre DEF EasyOps, get_board_temp, TopReading
    <3> HIDE DEF op
    <3>3. f \in Seq(CalmOps)
      BY <3>2
    <3> QED
      BY <1>3, <3>3
  <2>5. CASE \E d \in present : f \in {update_dc2dc_stats_restart_if_error(d), dc2dc_set_vtrim(d)}
    <3>1. PICK d \in present : f \in {update_dc2dc_stats_restart_if_error(d), dc2dc_set_vtrim(d)}
      BY <2>5
    <3>2. d \in Converters /\ "stats_or_restart" \in Transactions /\ "vtrim" \in Transactions
      BY DEF Inv, Types, Transactions
    <3>3. Locked("stats_or_restart", d) \in CalmOps /\ Locked("vtrim", d) \in CalmOps
      BY <3>2, EasyAre
    <3>4. PICK op \in CalmOps : f = <<op>>
      <4> HIDE DEF CalmOps
      <4> QED
        BY <3>1, <3>3 DEF update_dc2dc_stats_restart_if_error, dc2dc_set_vtrim
    <3>5. f \in Seq(CalmOps)
      BY <3>4
    <3> QED
      BY <1>3, <3>5
  <2> QED
    BY <2>1, <2>2, <2>3, <2>4, <2>5
<1> QED
  BY <1>1, <1>2, <1>4, FreeIs, Begins

(* The RT thread leaves.                                                   *)
LEMMA RtOutKeeps ==
  ASSUME Inv, RtOut
  PROVE  Inv'
<1> DEFINE x == <<Call("out")>>
<1>1. Call("out") \in CalmOps
  <2>1. "out" \in Calls \ Stages
    BY DEF Calls, Stages
  <2> QED
    BY <2>1, EasyAre
<1>2. x \in Seq(CalmOps)
  BY <1>1
<1>3. ended = "no" /\ todo["rt"] = <<>> /\ todo' = [todo EXCEPT !["rt"] = x]
      /\ UNCHANGED <<mutexes, bus, present, vm, faults, called, disturbed, ended>>
  BY DEF RtOut
<1> HIDE DEF x
<1>4. Answering(x)
  <2>1. \A i \in 1 .. Len(x) : x[i] \in CalmOps
    BY <1>2, ElementOfSeq
  <2> QED
    BY <2>1 DEF Answering, CalmOps
<1> QED
  BY <1>2, <1>3, <1>4, CalmIs, FreeIs, Begins

(* A signal: the main thread exits, with what it holds.                    *)
LEMMA SignalKeeps ==
  ASSUME Inv, Signal
  PROVE  Inv'
<1>1. /\ todo' = [todo EXCEPT !["main"] = todo'["main"]] /\ todo'["main"] = exit_nicely
      /\ called' = [called EXCEPT !["main"] = called'["main"]]
      /\ called'["main"] = HeldBy("main") \cup (IF i2cm' = "main" THEN {"i2cm"} ELSE {})
  BY FreeIs DEF Signal, Inv, Types
<1>2. HeldBy("main") \in SUBSET Mutexes /\ {"i2cm"} \in SUBSET Mutexes
  BY DEF HeldBy, Mutexes
<1>3. called'["main"] \in SUBSET Mutexes
  BY <1>1, <1>2
<1>4. i2c_mutex = "main" => "i2c_mutex" \in HeldBy("main")
  BY DEF HeldBy
<1>5. i2c_mutex' = i2c_mutex /\ i2cm' \in {i2cm, "main"} /\ ended' = "no" /\ ended = "no"
      /\ UNCHANGED <<bus, present, faults, disturbed>>
  BY DEF Signal
<1>6. ThreadOK("main")
  BY FreeIs DEF Inv
<1>7. ThreadOK("main")'
  BY <1>1, <1>4, <1>5, <1>6, FreeIs, CallsExit
<1>8. vm' \in VM
  <2>1. vm \in VM
    BY DEF Inv, Types
  <2> QED
    BY <2>1, VMIs DEF Signal
<1>9. Advances("main")
  BY <1>1, <1>3, <1>5, <1>7, <1>8 DEF Advances, Inv, Types, bus
<1> QED
  BY <1>9, FreeIs, AdvancesKeeps

(* A second signal ends the process.                                       *)
LEMMA SecondSignalKeeps ==
  ASSUME Inv, SecondSignal
  PROVE  Inv'
<1>1. End("killed") /\ UNCHANGED <<bus, present, faults, disturbed>>
  BY DEF SecondSignal
<1>2. switch' \in Switches /\ on' \in SUBSET Converters /\ present' \in SUBSET Converters
      /\ faults' \in 0 .. MaxFaults /\ disturbed' \in BOOLEAN
  BY <1>1 DEF Inv, Types, bus
<1> QED
  BY <1>1, <1>2, EndKeeps

(* A thread exits on its own account.                                      *)
LEMMA ExitCalledKeeps ==
  ASSUME Inv, NEW t \in Threads, ExitCalled(t)
  PROVE  Inv'
BY CallExitKeeps DEF ExitCalled

(* The transfers.                                                          *)
LEMMA WrittenAllType ==
  ASSUME NEW ws \in Seq(Writes), NEW sw \in Switches
  PROVE  WrittenAll(ws, sw) \in Switches
<1>1. PICK f \in [0 .. Len(ws) -> Switches] : WrittenAll(ws, sw) = f[Len(ws)]
  BY WrittenAllIs
<1>2. Len(ws) \in 0 .. Len(ws)
  BY LenProperties
<1> QED
  BY <1>1, <1>2

(* A selection whose writes all come through reaches the converter.        *)
LEMMA SelectReaches ==
  ASSUME NEW d \in Converters, NEW sw \in Switches
  PROVE  LET new == WrittenAll(Select(d)[2], sw) IN
         /\ <<"board", board_of(d)>> \in new.primary
         /\ dc2dc_offset(d) \in new.group[board_of(d)][i2c_group(d)]
<1> DEFINE b == board_of(d)
           g == i2c_group(d)
           o == dc2dc_offset(d)
           w1 == Primary(BoardPin(b))
           w2 == Group(g, {o})
           w3 == Group(1 - g, {})
           ws == <<w1, w2, w3>>
           new == WrittenAll(ws, sw)
<1>1. Select(d)[2] = ws
  BY DEF Select, Switch
<1>2. b \in Boards /\ g \in GROUPS /\ 1 - g \in GROUPS /\ o \in Offsets /\ g # 1 - g
  BY SelectIs DEF GROUPS
<1> HIDE DEF b, g, o
<1>3. w1 \in Writes /\ w2 \in Writes /\ w3 \in Writes
  <2>1. BoardPin(b) \in SUBSET Pins /\ {o} \in SUBSET Offsets /\ {} \in SUBSET Offsets
    BY <1>2 DEF BoardPin, Pins
  <2> QED
    BY <1>2, <2>1, WritesAre
<1>4. /\ w1[1] = "primary" /\ w1[2] = {<<"board", b>>}
      /\ w2[1] = "group" /\ w2[2] = g /\ w2[3] = {o}
      /\ w3[1] = "group" /\ w3[2] = 1 - g /\ w3[3] = {}
  BY DEF Primary, Group, BoardPin
<1> HIDE DEF w1, w2, w3
<1>5. ws \in Seq(Writes) /\ Len(ws) = 3 /\ ws[1] = w1 /\ ws[2] = w2 /\ ws[3] = w3
  BY <1>3
<1> HIDE DEF ws
<1>6. PICK f \in [0 .. Len(ws) -> Switches] :
        /\ f[0] = sw /\ new = f[Len(ws)]
        /\ \A n \in 1 .. Len(ws) : f[n] = Written(ws[n], f[n - 1])
  BY <1>5, WrittenAllIs
<1>7. /\ f[0] \in Switches /\ f[1] \in Switches /\ f[2] \in Switches
      /\ f[1] = Written(w1, f[0]) /\ f[2] = Written(w2, f[1]) /\ new = Written(w3, f[2])
  <2>1. 0 \in 0 .. Len(ws) /\ 1 \in 0 .. Len(ws) /\ 2 \in 0 .. Len(ws)
        /\ 1 \in 1 .. Len(ws) /\ 2 \in 1 .. Len(ws) /\ 3 \in 1 .. Len(ws)
        /\ 1 - 1 = 0 /\ 2 - 1 = 1 /\ 3 - 1 = 2
    BY <1>5
  <2> HIDE DEF new
  <2> QED
    BY <1>5, <1>6, <2>1
<1> HIDE DEF new
<1>8. f[1].primary = {<<"board", b>>}
  BY <1>4, <1>7 DEF Written, Switches
<1>9. f[2].primary = f[1].primary /\ o \in f[2].group[b][g]
  <2>1. f[2] = [f[1] EXCEPT !.group = [c \in Boards |->
          IF <<"board", c>> \in f[1].primary THEN [f[1].group[c] EXCEPT ![g] = {o}]
          ELSE f[1].group[c]]]
    BY <1>4, <1>7 DEF Written
  <2>2. f[2].primary = f[1].primary /\ f[2].group = [c \in Boards |->
          IF <<"board", c>> \in f[1].primary THEN [f[1].group[c] EXCEPT ![g] = {o}]
          ELSE f[1].group[c]]
    BY <1>7, <2>1 DEF Switches
  <2>3. f[2].group[b] = [f[1].group[b] EXCEPT ![g] = {o}]
    BY <1>2, <1>8, <2>2
  <2>4. f[1].group[b] \in [GROUPS -> SUBSET Offsets]
    BY <1>2, <1>7 DEF Switches
  <2> QED
    BY <1>2, <2>2, <2>3, <2>4
<1>10. new.primary = f[2].primary /\ o \in new.group[b][g]
  <2>1. new = [f[2] EXCEPT !.group = [c \in Boards |->
          IF <<"board", c>> \in f[2].primary THEN [f[2].group[c] EXCEPT ![1 - g] = {}]
          ELSE f[2].group[c]]]
    BY <1>4, <1>7 DEF Written
  <2>2. new.primary = f[2].primary /\ new.group = [c \in Boards |->
          IF <<"board", c>> \in f[2].primary THEN [f[2].group[c] EXCEPT ![1 - g] = {}]
          ELSE f[2].group[c]]
    BY <1>7, <2>1 DEF Switches
  <2>3. new.group[b] = [f[2].group[b] EXCEPT ![1 - g] = {}]
    BY <1>2, <1>8, <1>9, <2>2
  <2>4. f[2].group[b] \in [GROUPS -> SUBSET Offsets]
    BY <1>2, <1>7 DEF Switches
  <2> QED
    BY <1>2, <1>9, <2>2, <2>3, <2>4
<1> QED
  BY <1>1, <1>8, <1>9, <1>10 DEF b, g, o, new

(* A transfer leaves switches and converters of their types.               *)
LEMMA AcknowledgedType ==
  ASSUME Inv, NEW op, Acknowledged(op), op[1] = "switch" => op[2] \in Seq(Writes)
  PROVE  switch' \in Switches /\ on' \in SUBSET Converters
<1>1. CASE op[1] = "switch"
  BY <1>1, WrittenAllType DEF Acknowledged, Inv, Types
<1>2. CASE op[1] # "switch"
  <2>1. Reached \in SUBSET Converters
    BY DEF Reached
  <2> QED
    BY <1>2, <2>1 DEF Acknowledged, Inv, Types
<1> QED
  BY <1>1, <1>2

(* What is given up ahead is what an initialisation or a transaction does. *)
LEMMA AheadIs ==
  ASSUME NEW r, Program(r), NEW op, op[1] \in {"present", "unlock"}
  PROVE  /\ Program(After(r, op)) /\ Same(r, After(r, op))
         /\ op[1] = "present" /\ Unlocks(r, 1) => Unlocks(After(r, op), 1)
<1>1. r \in Seq(Ops)
  BY DEF Program
<1>2. PICK m \in 0 .. Len(r) : Suffix(After(r, op), r, m) /\ (m = 0 \/ r[m] = op)
  BY <1>1, AfterIs
<1> DEFINE a == After(r, op)
<1> HIDE DEF a
<1>3. Program(a)
  BY <1>2, SuffixIsProgram DEF a
<1>4. Same(r, a)
  <2>1. m # 0 => r[m][1] \notin Stages /\ (m # 1 => r[m][1] # "lock")
    BY <1>2 DEF Stages
  <2> QED
    BY <1>2, <2>1, SuffixIsSame DEF a
<1>5. ASSUME op[1] = "present", Unlocks(r, 1)
      PROVE  Unlocks(a, 1)
  <2>1. Len(a) \in Nat
    BY <1>3, LenProperties DEF Program
  <2>2. 1 \in 1 .. Len(a) + 1
    BY <2>1
  <2>3. Unlocks(a, 1) <=> Unlocks(r, 1 + m)
    BY <1>1, <1>2, <2>2, SuffixUnlocks DEF a
  <2>4. CASE m = 0
    <3>1. 1 + m = 1
      BY <2>4
    <3> QED
      BY <1>5, <2>3, <3>1
  <2>5. CASE m # 0
    <3>1. m \in 1 .. Len(r) /\ 1 + m = m + 1
      BY <2>5
    <3>2. Asks(r[m])
      BY <1>2, <1>5, <2>5 DEF Asks
    <3>3. Unlocks(r, m + 1)
      BY <3>1, <3>2 DEF Program, Answered
    <3> QED
      BY <2>3, <3>1, <3>3
  <2> QED
    BY <2>4, <2>5
<1> QED
  BY <1>3, <1>4, <1>5 DEF a

(* An initialisation that fails goes on with the next converter.           *)
LEMMA FailsInit ==
  ASSUME NEW d \in Converters, NEW r, Program(r), Unlocks(r, 1),
         ~ Has(r, "unlock_all"), ~ OffStage(r)
  PROVE  LET x == InitFailed(d) \o After(r, <<"present", d>>) IN
         Program(x) /\ Same(r, x) /\ Unlocks(x, 1)
<1> DEFINE p == <<"present", d>>
           a == After(r, p)
           y == InitFailed(d)
<1>1. p[1] = "present"
  OBVIOUS
<1> HIDE DEF p
<1>2. Program(a) /\ Same(r, a) /\ Unlocks(a, 1)
  BY <1>1, AheadIs
<1>3. y \in Seq(Ops) /\ Plain(y) /\ Unlocks(y, 1) /\ Answers(y, a)
  BY <1>2, InitFailedIs
<1> HIDE DEF a, y
<1>4. ~ Has(a, "unlock_all") /\ ~ (Has(a, "exit") /\ ~ Has(a, "sleep"))
  BY <1>2 DEF Same, Stages, OffStage
<1>5. Program(y \o a) /\ Same(a, y \o a)
  BY <1>2, <1>3, <1>4, PrependIsProgram
<1>6. Unlocks(y \o a, 1)
  <2>1. 1 \in 1 .. Len(y) + 1 /\ a \in Seq(Ops)
    BY <1>2, <1>3, LenProperties DEF Program
  <2> QED
    BY <1>3, <2>1, ConcatUnlocks
<1>7. Same(r, y \o a)
  BY <1>2, <1>5 DEF Same
<1> QED
  BY <1>5, <1>6, <1>7 DEF a, y, p

(* An access that is not acknowledged.                                     *)
LEMMA UnacknowledgedIs ==
  ASSUME NEW s, Program(s), s # <<>>, s[1][1] = "access"
  PROVE  LET x == Unacknowledged(s[1], Tail(s)) IN
         Program(x) /\ Same(s, x) /\ (Unlocks(s, 1) => Unlocks(x, 1))
<1> DEFINE op == s[1]
           r == Tail(s)
           x == Unacknowledged(op, r)
<1>1. s \in Seq(Ops)
  BY DEF Program
<1>2. Len(s) \in Nat \ {0} /\ op \in Ops /\ Suffix(r, s, 1)
  BY <1>1, TailIs
<1>3. op[2] \in ConverterAccess /\ op[3] \in Converters
  BY <1>2, OpsAre
<1>4. /\ Program(r) /\ Same(s, r) /\ (Unlocks(s, 1) => Unlocks(r, 1))
      /\ (Asks(op) => Unlocks(r, 1)) /\ (OffStage(s) => OffOp(op))
  BY GoingOn DEF Stages
<1> HIDE DEF op, r
<1>5. OffStage(r) => op[2] = "disable"
  BY <1>4 DEF OffOp, OffStage, Same, Stages, op
<1>6. CASE op[2] = "init"
  <2>1. x = InitFailed(op[3]) \o After(r, <<"present", op[3]>>)
    BY <1>6 DEF Unacknowledged, op
  <2>2. Unlocks(r, 1)
    BY <1>4, <1>6 DEF Asks, InitAccess, op
  <2>3. ~ OffStage(r)
    BY <1>5, <1>6
  <2>4. ~ Has(r, "unlock_all")
    <3> SUFFICES ASSUME NEW u \in 1 .. Len(r), r[u][1] = "unlock_all"
                 PROVE  FALSE
      BY DEF Has
    <3>1. u + 1 \in 1 + 1 .. Len(s) /\ s[u + 1] = r[u] /\ 1 \in 1 .. Len(s)
      BY <1>2 DEF Suffix
    <3>2. Recovers(s, 1)
      BY <3>1 DEF Program
    <3> QED
      BY <1>6, <3>1, <3>2 DEF Recovers, InitAccess, op
  <2> HIDE DEF x
  <2>5. Program(x) /\ Same(r, x) /\ Unlocks(x, 1)
    BY <1>3, <1>4, <2>1, <2>2, <2>3, <2>4, FailsInit
  <2>6. Same(s, x)
    BY <1>4, <2>5 DEF Same
  <2> QED
    BY <2>5, <2>6 DEF x, op, r
<1>7. ASSUME NEW f \in {"stats", "stats_or_restart"}, op[2] = f
      PROVE  Program(x) /\ Same(s, x) /\ (Unlocks(s, 1) => Unlocks(x, 1))
  <2> DEFINE G == dc2dc_i2c_close \o <<Unlock>>
             a == After(r, Unlocked(f))
             b == IF f = "stats" THEN a ELSE restart_asics_full \o a
  <2>1. Unlocked(f)[1] = "unlock"
    BY DEF Unlocked
  <2>2. Program(a) /\ Same(r, a)
    BY <1>4, <2>1, AheadIs
  <2>3. ~ (Has(a, "exit") /\ ~ Has(a, "sleep"))
    BY <1>5, <1>7, <2>2 DEF Same, Stages, OffStage
  <2>4. G \in Seq(EasyOps) /\ Unlocks(G, 1)
    BY GivenUpIs
  <2>5. G \in Seq(Ops) /\ Plain(G) /\ \A q : Answers(G, q) /\ Restores(G, q)
    BY <2>4, EasyIs, CalmIs
  <2>6. x = G \o b
    <3>1. CASE f = "stats"
      BY <1>7, <3>1 DEF Unacknowledged, op
    <3>2. CASE f = "stats_or_restart"
      <4>1. x = (G \o restart_asics_full) \o a
        BY <1>7, <3>2 DEF Unacknowledged, op
      <4>2. restart_asics_full \in Seq(Ops) /\ a \in Seq(Ops)
        BY <2>2, RestartIs, CalmIs DEF Program
      <4> HIDE DEF G, a, x
      <4> QED
        BY <2>5, <3>2, <4>1, <4>2, ConcatAssociative
    <3> QED
      BY <3>1, <3>2
  <2> HIDE DEF G, a, x
  <2>7. Program(b) /\ Same(a, b)
    <3>1. CASE f = "stats"
      BY <2>2, <3>1 DEF Same
    <3>2. CASE f # "stats"
      <4>1. /\ restart_asics_full \in Seq(Ops) /\ Plain(restart_asics_full)
            /\ Answers(restart_asics_full, a) /\ Restores(restart_asics_full, a)
        BY RestartIs, CalmIs
      <4> QED
        BY <2>2, <2>3, <3>2, <4>1, PrependIsProgram
    <3> QED
      BY <3>1, <3>2
  <2> HIDE DEF b
  <2>8. ~ (Has(b, "exit") /\ ~ Has(b, "sleep"))
    BY <2>3, <2>7 DEF Same, Stages
  <2>9. Program(x) /\ Same(b, x)
    BY <2>5, <2>6, <2>7, <2>8, PrependIsProgram
  <2>10. Unlocks(x, 1)
    <3>1. 1 \in 1 .. Len(G) + 1 /\ b \in Seq(Ops)
      BY <2>5, <2>7, LenProperties DEF Program
    <3> QED
      BY <2>4, <2>5, <2>6, <3>1, ConcatUnlocks
  <2> QED
    BY <1>4, <2>2, <2>7, <2>9, <2>10 DEF Same
<1>8. CASE op[2] \notin {"init", "stats", "stats_or_restart"}
  <2>1. x = r
    BY <1>8 DEF Unacknowledged
  <2> HIDE DEF x
  <2> QED
    BY <1>4, <2>1 DEF x, op, r
<1> HIDE DEF x
<1>9. op[2] \in {"stats", "stats_or_restart"} =>
        Program(x) /\ Same(s, x) /\ (Unlocks(s, 1) => Unlocks(x, 1))
  BY <1>7
<1> QED
  BY <1>6, <1>8, <1>9 DEF x, op, r

(* The loss of a write to the switches.                                    *)
LEMMA LostIs ==
  ASSUME NEW r, Program(r), NEW i
  PROVE  LET x == Lost(i, r) IN
         Program(x) /\ Same(r, x) /\ (Unlocks(r, 1) => Unlocks(x, 1))
<1> DEFINE x == Lost(i, r)
<1>1. CASE i = 2 /\ r # <<>> /\ r[1] \in {Access("init", d) : d \in Converters}
  <2>1. PICK d \in Converters : r[1] = Access("init", d)
    BY <1>1
  <2>2. r[1][1] = "access" /\ r[1][2] = "init" /\ r[1][3] = d
    BY <2>1 DEF Access
  <2>3. x = InitFailed(d) \o After(r, <<"present", d>>)
    BY <1>1, <2>2 DEF Lost
  <2>4. r \in Seq(Ops)
    BY DEF Program
  <2>5. Len(r) \in Nat \ {0}
    BY <1>1, <2>4, TailIs
  <2>6. 1 \in 1 .. Len(r) /\ 1 + 1 = 2
    BY <2>5
  <2>7. Unlocks(r, 2)
    <3>1. Asks(r[1])
      BY <2>2 DEF Asks, InitAccess
    <3> QED
      BY <2>6, <3>1 DEF Program, Answered
  <2>8. Unlocks(r, 1)
    <3>1. PICK k \in 2 .. Len(r) : r[k][1] = "unlock" /\ NoBlock(r, 2, k - 1)
      BY <2>7 DEF Unlocks
    <3>2. k \in 1 .. Len(r) /\ \A j \in 1 .. k - 1 : j = 1 \/ j \in 2 .. k - 1
      BY <2>5
    <3>3. NoBlock(r, 1, k - 1)
      BY <2>2, <3>1, <3>2 DEF NoBlock, Blocks
    <3> QED
      BY <3>1, <3>2, <3>3 DEF Unlocks
  <2>9. ~ OffStage(r)
    <3>1. ~ OffOp(r[1])
      BY <2>2 DEF OffOp
    <3> QED
      BY <1>1, <3>1, GoingOn
  <2>10. ~ Has(r, "unlock_all")
    <3> SUFFICES ASSUME NEW u \in 1 .. Len(r), r[u][1] = "unlock_all"
                 PROVE  FALSE
      BY DEF Has
    <3>1. u # 1
      BY <2>2
    <3>2. u \in 1 + 1 .. Len(r)
      BY <2>5, <3>1
    <3>3. Recovers(r, 1)
      BY <2>6 DEF Program
    <3> QED
      BY <2>2, <3>2, <3>3 DEF Recovers, InitAccess
  <2> HIDE DEF x
  <2> QED
    BY <2>3, <2>8, <2>9, <2>10, FailsInit DEF x
<1>2. CASE ~ (i = 2 /\ r # <<>> /\ r[1] \in {Access("init", d) : d \in Converters})
  <2>1. x = r
    BY <1>2 DEF Lost
  <2> QED
    BY <2>1 DEF Same
<1> QED
  BY <1>1, <1>2

(* A write that is lost leaves the others.                                 *)
LEMMA RemoveAtIs ==
  ASSUME NEW W, NEW ws \in Seq(W), NEW i \in DOMAIN ws
  PROVE  RemoveAt(ws, i) \in Seq(W)
<1>1. ws \in Seq(W) /\ i \in 1 .. Len(ws) /\ Len(ws) \in Nat
  BY LenProperties
<1>2. SubSeq(ws, 1, i - 1) \in Seq(W) /\ SubSeq(ws, i + 1, Len(ws)) \in Seq(W)
  <2>1. \A j \in 1 .. Len(ws) : ws[j] \in W
    BY <1>1, ElementOfSeq
  <2>2. \A j \in 1 .. i - 1 : j \in 1 .. Len(ws)
    BY <1>1
  <2>3. \A j \in i + 1 .. Len(ws) : j \in 1 .. Len(ws)
    BY <1>1
  <2> QED
    BY <1>1, <2>1, <2>2, <2>3, SubSeqProperties
<1>3. SubSeq(ws, 1, i - 1) \o SubSeq(ws, i + 1, Len(ws)) \in Seq(W)
  BY <1>2, ConcatProperties
<1> QED
  BY <1>3 DEF RemoveAt

(* After a transfer that comes through: in an exit it selects the next     *)
(* converter to switch off, or does so.                                    *)
LEMMA GoesOnOff ==
  ASSUME Inv, NEW t \in Threads, todo[t] # <<>>, IsTransfer(todo[t][1]), Acknowledged(todo[t][1]),
         OffStage(Tail(todo[t])), ~ disturbed
  PROVE  LET r == Tail(todo[t]) IN
         /\ \A c \in on' : Pending(r, c)
         /\ r[1][1] = "access" => r[1][3] \in Reached'
<1> DEFINE s == todo[t]
           r == Tail(s)
           op == s[1]
<1>1. Program(s) /\ ThreadOK(t) /\ op \in Ops /\ Suffix(r, s, 1) /\ r \in Seq(Ops)
  BY AtIs
<1>2. op[1] \in {"switch", "access"}
  BY DEF IsTransfer
<1>3. Same(s, r)
  BY <1>1, <1>2, GoingOn DEF Stages
<1>4. OffStage(s)
  BY <1>3 DEF Same, Stages, OffStage
<1>5. OffOp(op) /\ (r # <<>> => r[1][1] # "access" \/ op = Select(r[1][3]))
  BY <1>1, <1>4, GoingOn
<1>6. /\ \A c \in on : Pending(s, c)
      /\ op[1] = "access" => op[3] \in Reached
  BY <1>1, <1>4 DEF ThreadOK, TurnsOff
<1>7. \A c : op[1] # "lock" => op # Locked("disable", c)
  BY DEF Locked
<1>8. \A c \in on : op = Access("disable", c) \/ Pending(r, c)
  BY <1>1, <1>2, <1>6, <1>7, GoingOn
<1>9. r # <<>>
  <2>1. Len(<<>>) = 0
    OBVIOUS
  <2>2. ~ Has(<<>>, "exit")
    BY <2>1 DEF Has
  <2> QED
    BY <2>2 DEF OffStage
<1>10. CASE op[1] = "switch"
  <2>1. on' = on /\ switch' = WrittenAll(op[2], switch)
    BY <1>10 DEF Acknowledged
  <2>2. \A c : op # Access("disable", c)
    BY <1>10 DEF Access
  <2>3. ASSUME r[1][1] = "access"
        PROVE  r[1][3] \in Reached'
    <3> DEFINE d == r[1][3]
    <3>1. d \in Converters
      <4>1. r[1] \in Ops
        BY <1>1, <1>9, TailIs
      <4> QED
        BY <2>3, <4>1, OpsAre
    <3>2. op = Select(d)
      BY <1>5, <1>9, <2>3
    <3>3. switch \in Switches
      BY DEF Inv, Types
    <3> HIDE DEF d
    <3>4. /\ <<"board", board_of(d)>> \in switch'.primary
          /\ dc2dc_offset(d) \in switch'.group[board_of(d)][i2c_group(d)]
      BY <2>1, <3>1, <3>2, <3>3, SelectReaches
    <3>5. d \in Reached'
      BY <3>1, <3>4 DEF Reached
    <3> QED
      BY <3>5 DEF d
  <2> QED
    BY <1>8, <2>1, <2>2, <2>3
<1>11. CASE op[1] = "access"
  <2>1. op[2] = "disable"
    BY <1>5, <1>11 DEF OffOp
  <2>2. on' = on \ Reached
    BY <1>11, <2>1 DEF Acknowledged
  <2>3. \A c : op = Access("disable", c) => c \in Reached
    BY <1>6, <1>11 DEF Access
  <2>4. r[1][1] # "access"
    <3>1. \A d : op # Select(d)
      BY <1>11 DEF Select, Switch
    <3> QED
      BY <1>5, <1>9, <3>1
  <2> QED
    BY <1>8, <2>2, <2>3, <2>4
<1> QED
  BY <1>2, <1>10, <1>11

(* A transfer comes through, fails, or aborts.                             *)
LEMMA TransferKeeps ==
  ASSUME Inv, NEW t \in Threads, I2cTransfer(t)
  PROVE  Inv'
<1> DEFINE s == todo[t]
           r == Tail(s)
           op == s[1]
           Comes == /\ Acknowledged(op) /\ UNCHANGED <<i2cm, faults, called>>
                    /\ todo' = [todo EXCEPT ![t] = r]
                    /\ disturbed' = (disturbed \/ \E u \in Threads \ {t} : SwitchingOff(u))
           Fails == /\ faults < MaxFaults /\ faults' = faults + 1 /\ UNCHANGED <<i2cm, called>>
                    /\ \/ op[1] = "access" /\ UNCHANGED bus
                         /\ todo' = [todo EXCEPT ![t] = Unacknowledged(op, r)]
                       \/ /\ op[1] = "switch"
                          /\ \E i \in DOMAIN op[2] :
                               /\ Acknowledged(Switch(RemoveAt(op[2], i)))
                               /\ todo' = [todo EXCEPT ![t] = Lost(i, r)]
                    /\ disturbed' = (disturbed \/ \E u \in Threads : SwitchingOff(u))
           Aborts == /\ faults < MaxFaults /\ faults' = faults + 1
                     /\ i2cm' = t /\ todo' = [todo EXCEPT ![t] = exit_nicely]
                     /\ called' = [called EXCEPT ![t] = HeldBy(t) \cup {"i2cm"}]
                     /\ UNCHANGED <<bus, disturbed>>
<1>1. /\ ended = "no" /\ s # <<>> /\ IsTransfer(op) /\ i2cm = Free /\ Head(s) = op
      /\ UNCHANGED <<i2c_mutex, present, vm, ended>>
  BY AtIs DEF I2cTransfer
<1>2. Comes \/ Fails \/ Aborts
  BY <1>1 DEF I2cTransfer
<1>3. Program(s) /\ ThreadOK(t) /\ op \in Ops /\ s \in Seq(Ops)
  BY <1>1, AtIs
<1>4. op[1] \in {"switch", "access"} /\ (op[1] = "switch" => op[2] \in Seq(Writes))
  BY <1>1, <1>3, OpsAre DEF IsTransfer
<1>5. Program(r) /\ Same(s, r) /\ (Unlocks(s, 1) => Unlocks(r, 1))
  BY <1>1, <1>3, <1>4, GoingOn DEF Stages
<1>6. faults < MaxFaults => faults + 1 \in 0 .. MaxFaults
  BY ExitAssumption DEF Inv, Types
<1>7. CASE Comes
  <2>1. todo'[t] = r /\ called'[t] = called[t]
    BY <1>7 DEF Inv, Types
  <2>2. switch' \in Switches /\ on' \in SUBSET Converters
    BY <1>4, <1>7, AcknowledgedType
  <2>3. disturbed' \in BOOLEAN /\ (disturbed => disturbed')
        /\ \A u \in Threads \ {t} : SwitchingOff(u) => disturbed'
    BY <1>7 DEF Inv, Types
  <2>4. TurnsOff(t)'
    <3> SUFFICES ASSUME OffStage(r), ~ disturbed'
                 PROVE  /\ \A c \in on' : Pending(r, c)
                        /\ r[1][1] = "access" => r[1][3] \in Reached'
      BY <2>1 DEF TurnsOff
    <3> QED
      BY <1>1, <1>7, <2>3, GoesOnOff
  <2>5. i2cm' # t
    BY <1>1, <1>7, FreeIs
  <2>6. HoldsMutex(t)'
    <3>1. Has(s, "unlock_all") <=> Has(r, "unlock_all")
      BY <1>5 DEF Same, Stages
    <3> QED
      BY <1>1, <1>3, <1>5, <2>1, <3>1 DEF ThreadOK, HoldsMutex
  <2>7. ThreadOK(t)'
    BY <1>5, <2>1, <2>4, <2>5, <2>6 DEF ThreadOK, HoldsI2cm
  <2>8. Advances(t)
    <3>1. todo' = [todo EXCEPT ![t] = todo'[t]]
      BY <1>7, <2>1
    <3>2. called' = [called EXCEPT ![t] = called'[t]] /\ called'[t] \in SUBSET Mutexes
          /\ faults' \in 0 .. MaxFaults /\ i2cm' = i2cm
      BY <1>7 DEF Inv, Types
    <3>3. i2c_mutex' = i2c_mutex /\ present' \in SUBSET Converters /\ vm' \in VM /\ ended' = "no"
      BY <1>1 DEF Inv, Types
    <3> QED
      BY <2>2, <2>3, <2>7, <3>1, <3>2, <3>3 DEF Advances
  <2> QED
    BY <2>8, AdvancesKeeps
<1>8. CASE Fails
  <2>1. PICK x : todo' = [todo EXCEPT ![t] = x] /\ Program(x) /\ Same(s, x)
                 /\ (Unlocks(s, 1) => Unlocks(x, 1))
    <3>1. CASE op[1] = "access"
      <4>1. todo' = [todo EXCEPT ![t] = Unacknowledged(op, r)]
        BY <1>8, <3>1
      <4> QED
        BY <1>1, <1>3, <3>1, <4>1, UnacknowledgedIs
    <3>2. CASE op[1] = "switch"
      <4>1. PICK i : todo' = [todo EXCEPT ![t] = Lost(i, r)]
        BY <1>8, <3>2
      <4> DEFINE x == Lost(i, r)
      <4>2. Program(x) /\ Same(r, x) /\ (Unlocks(r, 1) => Unlocks(x, 1))
        BY <1>5, LostIs
      <4> HIDE DEF x
      <4>3. Same(s, x) /\ (Unlocks(s, 1) => Unlocks(x, 1))
        BY <1>5, <4>2 DEF Same
      <4>4. todo' = [todo EXCEPT ![t] = x]
        BY <4>1 DEF x
      <4> QED
        BY <4>2, <4>3, <4>4
    <3> QED
      BY <1>4, <3>1, <3>2
  <2>2. todo'[t] = x /\ called'[t] = called[t]
    BY <1>8, <2>1 DEF Inv, Types
  <2>3. switch' \in Switches /\ on' \in SUBSET Converters
    <3>1. CASE op[1] = "access"
      BY <1>8, <3>1 DEF bus, Inv, Types
    <3>2. CASE op[1] = "switch"
      <4>1. PICK i \in DOMAIN op[2] : Acknowledged(Switch(RemoveAt(op[2], i)))
        BY <1>8, <3>2
      <4>2. Switch(RemoveAt(op[2], i))[2] \in Seq(Writes)
        BY <1>4, <3>2, <4>1, RemoveAtIs DEF Switch
      <4> QED
        BY <4>1, <4>2, AcknowledgedType
    <3> QED
      BY <1>4, <3>1, <3>2
  <2>4. disturbed' \in BOOLEAN /\ (disturbed => disturbed')
        /\ \A u \in Threads : SwitchingOff(u) => disturbed'
    BY <1>8 DEF Inv, Types
  <2>5. TurnsOff(t)'
    <3> SUFFICES ASSUME OffStage(x)
                 PROVE  disturbed'
      BY <2>2 DEF TurnsOff
    <3>1. OffStage(s)
      BY <2>1 DEF Same, Stages, OffStage
    <3> QED
      BY <1>3, <2>4, <3>1, SwitchingOffIs
  <2>6. i2cm' # t
    BY <1>1, <1>8, FreeIs
  <2>7. HoldsMutex(t)'
    <3>1. Has(s, "unlock_all") <=> Has(x, "unlock_all")
      BY <2>1 DEF Same, Stages
    <3> QED
      BY <1>1, <1>3, <2>1, <2>2, <3>1 DEF ThreadOK, HoldsMutex
  <2>8. ThreadOK(t)'
    BY <2>1, <2>2, <2>5, <2>6, <2>7 DEF ThreadOK, HoldsI2cm
  <2>9. Advances(t)
    <3>1. todo' = [todo EXCEPT ![t] = todo'[t]]
      BY <2>1, <2>2
    <3>2. called' = [called EXCEPT ![t] = called'[t]] /\ called'[t] \in SUBSET Mutexes
          /\ faults' \in 0 .. MaxFaults /\ i2cm' = i2cm
      BY <1>6, <1>8 DEF Inv, Types
    <3>3. i2c_mutex' = i2c_mutex /\ present' \in SUBSET Converters /\ vm' \in VM /\ ended' = "no"
      BY <1>1 DEF Inv, Types
    <3> QED
      BY <2>3, <2>4, <2>8, <3>1, <3>2, <3>3 DEF Advances
  <2> QED
    BY <2>9, AdvancesKeeps
<1>9. CASE Aborts
  <2>1. todo'[t] = exit_nicely /\ called'[t] = HeldBy(t) \cup {"i2cm"}
        /\ todo' = [todo EXCEPT ![t] = todo'[t]] /\ called' = [called EXCEPT ![t] = called'[t]]
    BY <1>9 DEF Inv, Types
  <2>2. called'[t] \in SUBSET Mutexes
    BY <2>1 DEF HeldBy, Mutexes
  <2>3. i2c_mutex' = t => "i2c_mutex" \in called'[t]
    BY <1>1, <2>1 DEF HeldBy
  <2>4. ThreadOK(t)'
    BY <1>3, <2>1, <2>3, CallsExit
  <2>5. Advances(t)
    <3>1. i2cm' = t /\ switch' = switch /\ on' = on /\ disturbed' = disturbed
          /\ faults' \in 0 .. MaxFaults
      BY <1>6, <1>9 DEF bus
    <3> QED
      BY <1>1, <2>1, <2>2, <2>4, <3>1 DEF Advances, Inv, Types
  <2> QED
    BY <2>5, AdvancesKeeps
<1> QED
  BY <1>2, <1>7, <1>8, <1>9
-----------------------------------------------------------------------------
(* The invariant holds in the beginning.                                   *)
LEMMA InitKeeps ==
  ASSUME Init
  PROVE  Inv
<1> DEFINE s == dc2dc_init \o <<Call("start")>>
<1>1. Program(s) /\ \A c \in Stages : ~ Has(s, c)
  BY InitIsProgram
<1>2. todo = [t \in Threads |-> IF t = "main" THEN s ELSE <<>>]
  BY DEF Init
<1> HIDE DEF s
<1>3. Program(<<>>) /\ \A c : ~ Has(<<>>, c)
  <2>1. <<>> \in Seq(Ops) /\ Len(<<>>) = 0
    OBVIOUS
  <2> QED
    BY <2>1 DEF Program, Has
<1>4. Types
  <2>1. todo \in [Threads -> Seq(Ops)]
    BY <1>1, <1>2, <1>3 DEF Program
  <2>2. faults \in 0 .. MaxFaults
    BY ExitAssumption DEF Init
  <2>3. vm \in VM
    <3>1. 2 \in 0 .. 2 /\ 0 \in 0 .. 1 /\ 0 \in Nat
      OBVIOUS
    <3> QED
      BY <3>1 DEF Init, Fresh, VM
  <2> QED
    BY <2>1, <2>2, <2>3, ClosedIsType DEF Init, Types
<1>5. ASSUME NEW t \in Threads
      PROVE  ThreadOK(t)
  <2>1. todo[t] = s \/ todo[t] = <<>>
    BY <1>2
  <2>2. i2cm # t /\ i2c_mutex # t
    BY FreeIs DEF Init
  <2>3. Program(todo[t]) /\ ~ Has(todo[t], "exit")
    BY <1>1, <1>3, <2>1 DEF Stages
  <2> QED
    BY <2>2, <2>3 DEF ThreadOK, HoldsI2cm, HoldsMutex, TurnsOff, OffStage
<1>6. ConvertersOff
  BY DEF Init, ConvertersOff
<1> QED
  BY <1>4, <1>5, <1>6 DEF Inv

(* Every step of a thread keeps it.                                        *)
LEMMA StepKeeps ==
  ASSUME Inv, NEW t \in Threads, Step(t)
  PROVE  Inv'
BY LockKeeps, UnlockKeeps, TransferKeeps, PresentKeeps, EnableKeeps, SleepKeeps, StartKeeps,
   MayExitKeeps, ChooseKeeps, RestartKeeps, RestartedKeeps, EnterKeeps, StopAllWorkKeeps,
   StoppedKeeps, ExitingKeeps, UnlockAllKeeps, ExitKeeps
   DEF Step

(* Every step keeps it.                                                    *)
LEMMA NextKeeps ==
  ASSUME Inv, [Next]_vars
  PROVE  Inv'
<1>1. CASE UNCHANGED vars
  BY <1>1 DEF vars, mutexes, bus, Inv, Types, ThreadOK, HoldsI2cm, HoldsMutex, TurnsOff, Reached,
              ConvertersOff
<1>2. CASE RtTask
  BY <1>2, RtTaskKeeps
<1>3. CASE RtOut
  BY <1>3, RtOutKeeps
<1>4. CASE Signal
  BY <1>4, SignalKeeps
<1>5. CASE SecondSignal
  BY <1>5, SecondSignalKeeps
<1>6. ASSUME NEW t \in Threads, Step(t) \/ ExitCalled(t)
      PROVE  Inv'
  BY <1>6, StepKeeps, ExitCalledKeeps
<1> QED
  BY <1>1, <1>2, <1>3, <1>4, <1>5, <1>6 DEF Next

(* So it always holds.                                                     *)
LEMMA SpecInv ==
  Spec => []Inv
<1>1. Init => Inv
  BY InitKeeps
<1>2. Inv /\ [Next]_vars => Inv'
  BY NextKeeps
<1> QED
  BY <1>1, <1>2, PTL DEF Spec

(* Every state is of its type, for any converters, connections and number  *)
(* of faults: the threads have operations before them, the switches are    *)
(* set to pins and offsets that there are.                                 *)
THEOREM TypeCorrect ==
  Spec => []TypeOK
<1>1. Inv => TypeOK
  <2> SUFFICES ASSUME Inv
               PROVE  TypeOK
    OBVIOUS
  <2>1. ASSUME NEW t \in Threads, NEW i \in DOMAIN todo[t]
        PROVE  todo[t][i] # <<>>
    <3>1. todo[t] \in Seq(Ops)
      BY DEF Inv, Types
    <3>2. i \in 1 .. Len(todo[t])
      BY <3>1, LenProperties
    <3>3. todo[t][i] \in Ops
      BY <3>1, <3>2, ElementOfSeq
    <3> QED
      BY <3>3, OpsAreNotEmpty
  <2>2. DOMAIN todo = Threads
    BY DEF Inv, Types
  <2>3. switch.primary \subseteq {<<"board", b>> : b \in Boards} \cup PsuPin \cup SensorPin
        /\ switch.group \in [Boards -> [GROUPS -> SUBSET (0 .. 7)]]
    BY DEF Inv, Types, Switches, Pins, Offsets
  <2>4. vm.in_asic_reset \in 0 .. 2 /\ vm.exiting \in 0 .. 1 /\ vm.kill_app \in 0 .. 1
        /\ vm.recursive \in Nat /\ vm.signalled \in BOOLEAN /\ vm.started \in BOOLEAN
    BY DEF Inv, Types, VM
  <2> QED
    BY <2>1, <2>2, <2>3, <2>4 DEF TypeOK, Inv, Types
<1> QED
  BY <1>1, SpecInv, PTL

(* An exit of exit_nicely that comes to its end has switched every         *)
(* converter off, whatever the others did before its sleep, with any       *)
(* number of threads and failed transfers, if none of them got in its way  *)
(* while it did.                                                           *)
THEOREM OffAtTheEnd ==
  Spec => []ConvertersOff
<1>1. Inv => ConvertersOff
  BY DEF Inv
<1> QED
  BY <1>1, SpecInv, PTL

(* A thread waits for a mutex of its own only in an exit it called with    *)
(* that mutex held (miner_gate.c:187 frees them too late).                 *)
THEOREM BlocksInExitOnly ==
  Spec => []SelfBlockOnlyInExit
<1>1. Inv => SelfBlockOnlyInExit
  <2> SUFFICES ASSUME Inv, NEW t \in Threads, WaitsForItself(t)
               PROVE  CalledLocked(t)
    BY DEF SelfBlockOnlyInExit
  <2> DEFINE s == todo[t]
  <2>1. s # <<>>
    BY DEF WaitsForItself
  <2>2. s \in Seq(Ops) /\ Program(s) /\ ThreadOK(t) /\ Head(s) = s[1] /\ Len(s) \in Nat \ {0}
    BY <2>1, AtIs
  <2>3. InExit(t) <=> Has(s, "exit")
    BY <2>2, SwitchingOffIs
  <2>4. CASE IsTransfer(Head(s)) /\ i2cm = t
    BY <2>2, <2>3, <2>4 DEF ThreadOK, HoldsI2cm, CalledLocked
  <2>5. CASE At(t, "lock") /\ i2c_mutex = t
    <3>1. s[1][1] = "lock"
      BY <2>2, <2>5 DEF At
    <3>2. ~ Unlocks(s, 1)
      <4> SUFFICES ASSUME NEW k \in 1 .. Len(s), s[k][1] = "unlock", NoBlock(s, 1, k - 1)
                   PROVE  FALSE
        BY DEF Unlocks
      <4>1. k # 1
        BY <3>1
      <4>2. 1 \in 1 .. k - 1
        BY <2>2, <4>1
      <4> QED
        BY <3>1, <4>2 DEF NoBlock, Blocks
    <3>3. Has(s, "unlock_all") /\ "i2c_mutex" \in called[t]
      BY <2>2, <2>5, <3>2 DEF ThreadOK, HoldsMutex
    <3>4. PICK u \in 1 .. Len(s) : s[u][1] = "unlock_all"
      BY <3>3 DEF Has
    <3>5. u < Len(s) /\ s[u + 1][1] = "sleep" /\ u + 1 \in 1 .. Len(s)
      <4>1. u < Len(s) /\ s[u + 1][1] = "sleep"
        BY <2>2, <3>4 DEF Program, ThenSleeps
      <4> QED
        BY <2>2, <4>1
    <3>6. s[Len(s)][1] = "exit"
      BY <2>2, <3>5 DEF Program, AllAreDisabled
    <3>7. Has(s, "exit")
      <4>1. Len(s) \in 1 .. Len(s)
        BY <2>2
      <4> QED
        BY <3>6, <4>1 DEF Has
    <3>8. u \in 1 + 1 .. Len(s) /\ 1 \in 1 .. Len(s)
      <4>1. u # 1
        BY <3>1, <3>4
      <4> QED
        BY <2>2, <4>1
    <3>9. PICK j \in 1 + 1 .. Len(s) : s[j] = Call("restarted")
      <4>1. Recovers(s, 1)
        BY <2>2, <3>8 DEF Program
      <4> QED
        BY <3>1, <3>4, <3>8, <4>1 DEF Recovers, Blocks
    <3>10. Call("restarted") \in ToSet(s)
      <4>1. j \in DOMAIN s
        BY <2>2, LenProperties
      <4> QED
        BY <3>9, <4>1 DEF ToSet
    <3> QED
      BY <2>3, <2>5, <3>3, <3>7, <3>10 DEF CalledLocked
  <2> QED
    BY <2>4, <2>5 DEF WaitsForItself
<1> QED
  BY <1>1, SpecInv, PTL
-----------------------------------------------------------------------------
(* The order of the operations on the bus.  Before the start only the main *)
(* thread does anything, after it only the RT thread, until something      *)
(* exits; and what that thread has before it is in order.                  *)
Selections == {Select(d) : d \in Converters}
KnownSwitches == Readings \cup {TopReading(b) : b \in Boards} \cup Selections
ExitCalls == {"enter", "stop_all_work", "stopped", "exiting?", "unlock_all", "sleep", "exit"}
\* what threads do that do not exit
BusOps == {op \in Ops : op[1] \notin ExitCalls /\ (op[1] = "switch" => op \in KnownSwitches)}

IsAccess(op) == op[1] = "access"
\* nothing has to follow it
IsDone(op) == ~ IsAccess(op) /\ op \notin Selections

(* An access is to the converter that was selected right before, or        *)
(* accessed; after a selection something is accessed, after an access the  *)
(* switches are closed.                                                    *)
Pair(p, q) ==
  /\ IsAccess(q) => p = Select(q[3]) \/ (IsAccess(p) /\ p[3] = q[3])
  /\ p \in Selections => IsAccess(q)
  /\ IsAccess(p) => IsAccess(q) \/ q = Close

\* where it goes on when an access fails
Wants(p, q) ==
  \/ p[2] = "init" /\ q = <<"present", p[3]>>
  \/ p[2] \in {"stats", "stats_or_restart"} /\ q = Unlocked(p[2])
Wanting(p) == IsAccess(p) /\ p[2] \in {"init", "stats", "stats_or_restart"}
Finds(s, i) == Wanting(s[i]) => \E j \in i + 1 .. Len(s) : Wants(s[i], s[j])

Chained(s) == \A i \in 1 .. Len(s) - 1 : Pair(s[i], s[i + 1])
Ordered(s) ==
  /\ s \in Seq(BusOps) /\ Chained(s)
  /\ s # <<>> => IsDone(s[Len(s)])
  /\ \A i \in 1 .. Len(s) : Finds(s, i) /\ (s[i][1] = "start" => i = Len(s))
\* it does not begin within a transaction
Begun(s) == s # <<>> => ~ IsAccess(s[1])

(* What the switches are set to: nothing behind them is reached, or        *)
(* nothing but a converter is.                                             *)
Clean(sw) ==
  \A b \in Boards : <<"board", b>> \notin sw.primary /\ \A g \in GROUPS : sw.group[b][g] = {}
Within(sw, d) ==
  \A b \in Boards :
    /\ <<"board", b>> \in sw.primary => b = board_of(d)
    /\ \A g \in GROUPS : sw.group[b][g] # {} =>
         /\ b = board_of(d) /\ <<"board", b>> \in sw.primary
         /\ g = i2c_group(d) /\ sw.group[b][g] = {dc2dc_offset(d)}

OnBus(s) ==
  /\ s # <<>> /\ IsAccess(s[1]) => Reached \subseteq {s[1][3]}
  /\ faults = 0 =>
       \/ s # <<>> /\ IsAccess(s[1]) /\ Within(switch, s[1][3])
       \/ s # <<>> /\ s[1] = Close /\ \E d \in Converters : Within(switch, d)
       \/ Begun(s) /\ Clean(switch)

\* the only thread that does anything, as long as nothing exits
Actor == IF vm.started THEN "rt" ELSE "main"
Sound ==
  /\ \A t \in Threads : t # Actor => todo[t] = <<>>
  /\ Ordered(todo[Actor]) /\ OnBus(todo[Actor])
NoExit == \A t \in Threads : ~ Has(todo[t], "exit")
BusInv == ended = "no" /\ faults <= 1 /\ NoExit => Sound

(* What is left of a sequence in order is in order.                        *)
LEMMA SuffixIsOrdered ==
  ASSUME NEW s, Ordered(s), NEW r, NEW m, Suffix(r, s, m)
  PROVE  /\ Ordered(r)
         /\ m # 0 /\ IsDone(s[m]) => Begun(r)
<1>1. s \in Seq(BusOps) /\ r \in Seq(Ops)
  BY DEF Ordered, Suffix
<1>2. Len(s) \in Nat /\ m \in Nat /\ Len(r) \in Nat /\ Len(s) = Len(r) + m
  BY <1>1, LenProperties DEF Suffix
<1>3. \A i \in 1 .. Len(r) : r[i] = s[i + m] /\ i + m \in 1 .. Len(s)
  BY <1>2 DEF Suffix
<1>4. r \in Seq(BusOps)
  <2>1. \A i \in 1 .. Len(r) : r[i] \in BusOps
    BY <1>1, <1>3, ElementOfSeq
  <2> QED
    BY <1>1, <2>1, SeqDef, LenProperties
<1>5. Chained(r)
  <2> SUFFICES ASSUME NEW i \in 1 .. Len(r) - 1
               PROVE  Pair(r[i], r[i + 1])
    BY DEF Chained
  <2>1. i \in 1 .. Len(r) /\ i + 1 \in 1 .. Len(r) /\ (i + 1) + m = (i + m) + 1
        /\ i + m \in 1 .. Len(s) - 1
    BY <1>2
  <2>2. Pair(s[i + m], s[(i + m) + 1])
    BY <2>1 DEF Ordered, Chained
  <2> QED
    BY <1>3, <2>1, <2>2
<1>6. r # <<>> => IsDone(r[Len(r)])
  <2> SUFFICES ASSUME r # <<>>
               PROVE  IsDone(r[Len(r)])
    OBVIOUS
  <2>1. Len(r) # 0
    BY <1>1, EmptySeq
  <2>2. Len(r) \in 1 .. Len(r) /\ Len(r) + m = Len(s) /\ Len(s) # 0
    BY <1>2, <2>1
  <2>3. s # <<>>
    BY <2>2, EmptySeq
  <2> QED
    BY <1>3, <2>2, <2>3 DEF Ordered
<1>7. ASSUME NEW i \in 1 .. Len(r)
      PROVE  Finds(r, i) /\ (r[i][1] = "start" => i = Len(r))
  <2>1. Finds(s, i + m) /\ (s[i + m][1] = "start" => i + m = Len(s)) /\ r[i] = s[i + m]
    BY <1>3 DEF Ordered
  <2>2. ASSUME NEW j \in (i + m) + 1 .. Len(s)
        PROVE  j - m \in i + 1 .. Len(r) /\ r[j - m] = s[j]
    <3>1. j - m \in i + 1 .. Len(r) /\ j - m \in 1 .. Len(r) /\ (j - m) + m = j
      BY <1>2
    <3> QED
      BY <1>3, <3>1
  <2>3. Finds(r, i)
    BY <2>1, <2>2 DEF Finds
  <2>4. i + m = Len(s) => i = Len(r)
    BY <1>2
  <2> QED
    BY <2>1, <2>3, <2>4
<1>8. ASSUME m # 0, IsDone(s[m]), r # <<>>
      PROVE  ~ IsAccess(r[1])
  <2>1. Len(r) # 0
    BY <1>1, <1>8, EmptySeq
  <2>2. 1 \in 1 .. Len(r) /\ 1 + m = m + 1 /\ m \in 1 .. Len(s) - 1
    BY <1>2, <1>8, <2>1
  <2>3. Pair(s[m], s[m + 1]) /\ r[1] = s[m + 1]
    BY <1>3, <2>2 DEF Ordered, Chained
  <2> SUFFICES ASSUME IsAccess(s[m + 1])
               PROVE  FALSE
    BY <2>3
  <2>4. s[m + 1] \in Ops
    <3>1. m + 1 \in 1 .. Len(s)
      BY <1>2, <2>2
    <3>2. s[m + 1] \in BusOps
      BY <1>1, <3>1, ElementOfSeq
    <3> QED
      BY <3>2 DEF BusOps
  <2>5. s[m + 1][3] \in Converters
    BY <2>4, OpsAre DEF IsAccess
  <2> QED
    BY <1>8, <2>3, <2>5 DEF Pair, IsDone, Selections
<1> QED
  BY <1>4, <1>5, <1>6, <1>7, <1>8 DEF Ordered, Begun

(* What follows the first operation.                                       *)
LEMMA OrderedTail ==
  ASSUME NEW s, Ordered(s), s # <<>>
  PROVE  /\ Ordered(Tail(s)) /\ Suffix(Tail(s), s, 1) /\ s \in Seq(Ops) /\ s[1] \in BusOps
         /\ IsDone(s[1]) => Begun(Tail(s))
         /\ Tail(s) # <<>> => Pair(s[1], Tail(s)[1])
         /\ Tail(s) = <<>> => IsDone(s[1])
         /\ s[1][1] = "start" => Tail(s) = <<>>
         /\ Wanting(s[1]) => \E i \in 1 .. Len(Tail(s)) : Wants(s[1], Tail(s)[i])
<1> DEFINE r == Tail(s)
<1>1. s \in Seq(BusOps) /\ s \in Seq(Ops)
  <2>1. s \in Seq(BusOps) /\ BusOps \subseteq Ops
    BY DEF Ordered, BusOps
  <2> QED
    BY <2>1, SeqMonotonic
<1>2. Len(s) \in Nat \ {0} /\ Suffix(r, s, 1)
  BY <1>1, TailIs
<1>3. s[1] \in BusOps
  BY <1>1, <1>2, ElementOfSeq
<1> HIDE DEF r
<1>4. r \in Seq(Ops) /\ Len(r) \in Nat /\ Len(s) = Len(r) + 1
      /\ \A i \in 1 .. Len(r) : r[i] = s[i + 1]
  BY <1>2, LenProperties DEF Suffix
<1>5. Ordered(r) /\ (IsDone(s[1]) => Begun(r))
  <2>1. 1 # 0
    OBVIOUS
  <2> QED
    BY <1>2, <2>1, SuffixIsOrdered
<1>6. r = <<>> <=> Len(r) = 0
  BY <1>4, EmptySeq
<1>7. r # <<>> => Pair(s[1], r[1])
  <2> SUFFICES ASSUME r # <<>>
               PROVE  Pair(s[1], r[1])
    OBVIOUS
  <2>1. 1 \in 1 .. Len(r) /\ 1 \in 1 .. Len(s) - 1
    BY <1>4, <1>6
  <2> QED
    BY <1>4, <2>1 DEF Ordered, Chained
<1>8. r = <<>> => IsDone(s[1])
  <2>1. r = <<>> => Len(s) = 1
    BY <1>4, <1>6
  <2> QED
    BY <2>1 DEF Ordered
<1>9. s[1][1] = "start" => r = <<>>
  <2>1. 1 \in 1 .. Len(s)
    BY <1>2
  <2>2. s[1][1] = "start" => 1 = Len(s)
    BY <2>1 DEF Ordered
  <2> QED
    BY <1>4, <1>6, <2>2
<1>10. ASSUME Wanting(s[1])
       PROVE  \E i \in 1 .. Len(r) : Wants(s[1], r[i])
  <2>1. 1 \in 1 .. Len(s)
    BY <1>2
  <2>2. PICK j \in 1 + 1 .. Len(s) : Wants(s[1], s[j])
    BY <1>10, <2>1 DEF Ordered, Finds
  <2>3. j - 1 \in 1 .. Len(r) /\ (j - 1) + 1 = j
    BY <1>4
  <2>4. r[j - 1] = s[j]
    BY <1>4, <2>3
  <2> QED
    BY <2>2, <2>3, <2>4
<1> QED
  BY <1>1, <1>2, <1>3, <1>5, <1>7, <1>8, <1>9, <1>10 DEF r

(* What goes on where an operation is found.                               *)
LEMMA OrderedAfter ==
  ASSUME NEW s, Ordered(s), NEW op, IsDone(op), \E i \in 1 .. Len(s) : s[i] = op
  PROVE  Ordered(After(s, op)) /\ Begun(After(s, op))
<1>1. s \in Seq(Ops)
  <2>1. s \in Seq(BusOps) /\ BusOps \subseteq Ops
    BY DEF Ordered, BusOps
  <2> QED
    BY <2>1, SeqMonotonic
<1> DEFINE a == After(s, op)
           F == \E i \in 1 .. Len(s) : s[i] = op
<1>2. PICK m \in 0 .. Len(s) : Suffix(a, s, m) /\ (m = 0 \/ s[m] = op) /\ (F => m # 0)
  BY <1>1, AfterIs
<1>3. F
  OBVIOUS
<1> HIDE DEF a, F
<1>4. m # 0 /\ s[m] = op
  BY <1>2, <1>3
<1>5. Ordered(a) /\ Begun(a)
  BY <1>2, <1>4, SuffixIsOrdered
<1> QED
  BY <1>5 DEF a

(* What may be put before what does not begin within a transaction.        *)
Leads(x, y) ==
  /\ x \in Seq(BusOps) /\ Chained(x) /\ Begun(x)
  /\ x # <<>> => IsDone(x[Len(x)])
  /\ \A i \in 1 .. Len(x) :
       /\ x[i][1] # "start"
       /\ Wanting(x[i]) => \/ \E j \in i + 1 .. Len(x) : Wants(x[i], x[j])
                           \/ \E j \in 1 .. Len(y) : Wants(x[i], y[j])

(* It may be put before it: the two are in order together.                 *)
LEMMA LeadsOn ==
  ASSUME NEW x, NEW y, Leads(x, y), Ordered(y), Begun(y)
  PROVE  Ordered(x \o y) /\ Begun(x \o y)
<1> DEFINE z == x \o y
<1>1. x \in Seq(BusOps) /\ y \in Seq(BusOps) /\ x \in Seq(Ops) /\ y \in Seq(Ops)
  <2>1. x \in Seq(BusOps) /\ y \in Seq(BusOps) /\ BusOps \subseteq Ops
    BY DEF Ordered, Leads, BusOps
  <2> QED
    BY <2>1, SeqMonotonic
<1>2. z \in Seq(BusOps)
  BY <1>1, ConcatProperties
<1>3. /\ Len(x) \in Nat /\ Len(y) \in Nat /\ Len(z) = Len(x) + Len(y)
      /\ \A i \in 1 .. Len(x) : z[i] = x[i]
      /\ \A i \in 1 .. Len(y) : y[i] = z[i + Len(x)]
      /\ z \in Seq(Ops)
  BY <1>1, ConcatIs DEF Suffix
<1> HIDE DEF z
<1>4. ASSUME NEW i \in 1 .. Len(z), i > Len(x)
      PROVE  i - Len(x) \in 1 .. Len(y) /\ z[i] = y[i - Len(x)]
  <2>1. i - Len(x) \in 1 .. Len(y) /\ (i - Len(x)) + Len(x) = i
    BY <1>3, <1>4
  <2> QED
    BY <1>3, <2>1
<1>5. (x = <<>> <=> Len(x) = 0) /\ (y = <<>> <=> Len(y) = 0) /\ (z = <<>> <=> Len(z) = 0)
  BY <1>1, <1>3, EmptySeq
<1>6. Chained(z)
  <2> SUFFICES ASSUME NEW i \in 1 .. Len(z) - 1
               PROVE  Pair(z[i], z[i + 1])
    BY DEF Chained
  <2>1. i \in 1 .. Len(z) /\ i + 1 \in 1 .. Len(z) /\ i \in Nat
    BY <1>3
  <2>2. CASE i < Len(x)
    <3>1. i \in 1 .. Len(x) - 1 /\ i \in 1 .. Len(x) /\ i + 1 \in 1 .. Len(x)
      BY <1>3, <2>2
    <3> QED
      BY <1>3, <3>1 DEF Leads, Chained
  <2>3. CASE i = Len(x)
    <3>1. x # <<>> /\ i \in 1 .. Len(x) /\ i + 1 > Len(x) /\ (i + 1) - Len(x) = 1
      BY <1>3, <1>5, <2>3
    <3>2. z[i] = x[i] /\ IsDone(x[i]) /\ z[i + 1] = y[1] /\ 1 \in 1 .. Len(y)
      BY <1>3, <1>4, <2>1, <2>3, <3>1 DEF Leads
    <3>3. y # <<>>
      BY <1>3, <1>5, <3>2
    <3> QED
      BY <3>2, <3>3 DEF Pair, IsDone, Begun
  <2>4. CASE i > Len(x)
    <3> DEFINE k == i - Len(x)
    <3>1. z[i] = y[k] /\ z[i + 1] = y[(i + 1) - Len(x)] /\ (i + 1) - Len(x) = k + 1
          /\ k \in 1 .. Len(y) - 1
      BY <1>3, <1>4, <2>1, <2>4
    <3> HIDE DEF k
    <3> QED
      BY <3>1 DEF Ordered, Chained
  <2> QED
    BY <1>3, <2>1, <2>2, <2>3, <2>4
<1>7. z # <<>> => IsDone(z[Len(z)])
  <2> SUFFICES ASSUME z # <<>>
               PROVE  IsDone(z[Len(z)])
    OBVIOUS
  <2>1. CASE y = <<>>
    <3>1. Len(z) = Len(x) /\ Len(x) \in 1 .. Len(x) /\ x # <<>>
      BY <1>3, <1>5, <2>1
    <3> QED
      BY <1>3, <3>1 DEF Leads
  <2>2. CASE y # <<>>
    <3>1. Len(z) \in 1 .. Len(z) /\ Len(z) > Len(x) /\ Len(z) - Len(x) = Len(y)
      BY <1>3, <1>5, <2>2
    <3> QED
      BY <1>4, <2>2, <3>1 DEF Ordered
  <2> QED
    BY <2>1, <2>2
<1>8. ASSUME NEW i \in 1 .. Len(z)
      PROVE  Finds(z, i) /\ (z[i][1] = "start" => i = Len(z))
  <2>1. CASE i <= Len(x)
    <3>1. i \in 1 .. Len(x) /\ z[i] = x[i]
      BY <1>3, <2>1
    <3>2. ASSUME Wanting(x[i])
          PROVE  \E j \in i + 1 .. Len(z) : Wants(x[i], z[j])
      <4>1. CASE \E j \in i + 1 .. Len(x) : Wants(x[i], x[j])
        <5>1. \A j \in i + 1 .. Len(x) : j \in i + 1 .. Len(z) /\ z[j] = x[j]
          BY <1>3, <3>1
        <5> QED
          BY <4>1, <5>1
      <4>2. CASE \E j \in 1 .. Len(y) : Wants(x[i], y[j])
        <5>1. \A j \in 1 .. Len(y) : j + Len(x) \in i + 1 .. Len(z) /\ z[j + Len(x)] = y[j]
          BY <1>3, <3>1
        <5> QED
          BY <4>2, <5>1
      <4> QED
        BY <3>1, <3>2, <4>1, <4>2 DEF Leads
    <3> QED
      BY <3>1, <3>2 DEF Finds, Leads
  <2>2. CASE ~ (i <= Len(x))
    <3> DEFINE k == i - Len(x)
    <3>1. k \in 1 .. Len(y) /\ z[i] = y[k]
      BY <1>3, <1>4, <2>2
    <3>2. ASSUME NEW j \in k + 1 .. Len(y)
          PROVE  j + Len(x) \in i + 1 .. Len(z) /\ z[j + Len(x)] = y[j]
      <4>1. j + Len(x) \in i + 1 .. Len(z) /\ j \in 1 .. Len(y)
        BY <1>3, <2>2
      <4> QED
        BY <1>3, <4>1
    <3>3. k = Len(y) => i = Len(z)
      BY <1>3
    <3> HIDE DEF k
    <3>4. Finds(y, k) /\ (y[k][1] = "start" => k = Len(y))
      BY <3>1 DEF Ordered
    <3>5. Finds(z, i)
      BY <3>1, <3>2, <3>4 DEF Finds
    <3> QED
      BY <3>1, <3>3, <3>4, <3>5
  <2> QED
    BY <2>1, <2>2
<1>9. Begun(z)
  <2> SUFFICES ASSUME z # <<>>
               PROVE  ~ IsAccess(z[1])
    BY DEF Begun
  <2>1. CASE x # <<>>
    <3>1. 1 \in 1 .. Len(x)
      BY <1>3, <1>5, <2>1
    <3> QED
      BY <1>3, <2>1, <3>1 DEF Leads, Begun
  <2>2. CASE x = <<>>
    <3>1. Len(x) = 0 /\ Len(y) # 0
      BY <1>3, <1>5, <2>2
    <3>2. 1 \in 1 .. Len(z) /\ 1 > Len(x) /\ 1 - Len(x) = 1 /\ y # <<>>
      BY <1>3, <1>5, <3>1
    <3> QED
      BY <1>4, <3>2 DEF Begun
  <2> QED
    BY <2>1, <2>2
<1> QED
  BY <1>2, <1>6, <1>7, <1>8, <1>9 DEF Ordered, z

(* Operations that neither select nor access anything are in order.        *)
DoneOps == {op \in BusOps : IsDone(op) /\ op[1] # "start"}
(* They are in order, and may be put before anything.                      *)
LEMMA DoneIsOrdered ==
  ASSUME NEW x \in Seq(DoneOps)
  PROVE  /\ Ordered(x) /\ Begun(x) /\ \A y : Leads(x, y)
<1>1. Len(x) \in Nat /\ \A i \in 1 .. Len(x) : x[i] \in DoneOps
  BY LenProperties, ElementOfSeq
<1>2. x \in Seq(BusOps)
  <2>1. DoneOps \subseteq BusOps
    BY DEF DoneOps
  <2> QED
    BY <2>1, SeqMonotonic
<1>3. \A i \in 1 .. Len(x) : IsDone(x[i]) /\ ~ IsAccess(x[i]) /\ x[i][1] # "start"
                            /\ ~ Wanting(x[i])
  BY <1>1 DEF DoneOps, IsDone, Wanting
<1>4. Chained(x)
  <2>1. \A i \in 1 .. Len(x) - 1 : i \in 1 .. Len(x) /\ i + 1 \in 1 .. Len(x)
    BY <1>1
  <2> QED
    BY <1>3, <2>1 DEF Chained, Pair, IsDone
<1>5. x # <<>> => 1 \in 1 .. Len(x) /\ Len(x) \in 1 .. Len(x)
  <2>1. x # <<>> => Len(x) # 0
    BY EmptySeq
  <2> QED
    BY <1>1, <2>1
<1>6. Begun(x) /\ (x # <<>> => IsDone(x[Len(x)]))
  BY <1>3, <1>5 DEF Begun
<1> QED
  BY <1>2, <1>3, <1>4, <1>6 DEF Ordered, Leads, Finds

(* Two sequences that are chained to one another.                          *)
LEMMA ChainConcat ==
  ASSUME NEW S, NEW x \in Seq(S), NEW y \in Seq(S), Len(x) # 0, Len(y) # 0,
         Chained(x), Chained(y), Pair(x[Len(x)], y[1])
  PROVE  /\ x \o y \in Seq(S) /\ Chained(x \o y) /\ Len(x \o y) # 0
         /\ (x \o y)[1] = x[1] /\ (x \o y)[Len(x \o y)] = y[Len(y)]
<1> DEFINE z == x \o y
<1>1. Len(x) \in Nat /\ Len(y) \in Nat
  BY LenProperties
<1>2. z \in Seq(S) /\ Len(z) = Len(x) + Len(y)
      /\ \A i \in 1 .. Len(z) : z[i] = IF i <= Len(x) THEN x[i] ELSE y[i - Len(x)]
  BY ConcatProperties
<1> HIDE DEF z
<1>3. ASSUME NEW i \in 1 .. Len(z) - 1
      PROVE  Pair(z[i], z[i + 1])
  <2>1. i \in 1 .. Len(z) /\ i + 1 \in 1 .. Len(z)
    BY <1>1, <1>2
  <2>2. CASE i < Len(x)
    <3>1. i <= Len(x) /\ i + 1 <= Len(x) /\ i \in 1 .. Len(x) - 1
      BY <1>1, <2>1, <2>2
    <3> QED
      BY <1>2, <2>1, <3>1 DEF Chained
  <2>3. CASE i = Len(x)
    <3>1. i <= Len(x) /\ ~ (i + 1 <= Len(x)) /\ (i + 1) - Len(x) = 1
      BY <1>1, <2>1, <2>3
    <3> QED
      BY <1>2, <2>1, <2>3, <3>1
  <2>4. CASE i > Len(x)
    <3>1. ~ (i <= Len(x)) /\ ~ (i + 1 <= Len(x)) /\ (i + 1) - Len(x) = (i - Len(x)) + 1
          /\ i - Len(x) \in 1 .. Len(y) - 1
      BY <1>1, <1>2, <2>1, <2>4
    <3>2. z[i] = y[i - Len(x)] /\ z[i + 1] = y[(i - Len(x)) + 1]
      BY <1>2, <2>1, <3>1
    <3> QED
      BY <3>1, <3>2 DEF Chained
  <2> QED
    BY <1>1, <2>1, <2>2, <2>3, <2>4
<1>4. /\ 1 \in 1 .. Len(z) /\ Len(z) \in 1 .. Len(z) /\ 1 <= Len(x) /\ ~ (Len(z) <= Len(x))
      /\ Len(z) - Len(x) = Len(y) /\ Len(z) # 0
  BY <1>1, <1>2
<1>5. z[1] = x[1] /\ z[Len(z)] = y[Len(y)]
  BY <1>2, <1>4
<1> QED
  BY <1>2, <1>3, <1>4, <1>5 DEF Chained, z
-----------------------------------------------------------------------------
(* A selection is told from everything else by its writes.                 *)
LEMMA SelectionsAre ==
  /\ \A op \in Readings \cup {TopReading(b) : b \in Boards} : op \notin Selections
  /\ \A d, e \in Converters : Select(d) = Select(e) => d = e
  /\ Close \in Readings
<1> DEFINE w1(d) == Primary(BoardPin(board_of(d)))
           w2(d) == Group(i2c_group(d), {dc2dc_offset(d)})
           w3(d) == Group(1 - i2c_group(d), {})
<1>1. \A d : Select(d) = <<"switch", <<w1(d), w2(d), w3(d)>>>>
  BY DEF Select, Switch
<1>2. \A d : w1(d) = <<"primary", {<<"board", board_of(d)>>}>>
             /\ w2(d) = <<"group", i2c_group(d), {dc2dc_offset(d)}>>
  BY DEF Primary, BoardPin, Group
<1>3. \A d : \A x, y, z : Select(d) # Switch(<<x>>) /\ Select(d) # Switch(<<x, y>>)
        /\ \A u : Select(d) # Switch(<<x, y, z, u>>)
  <2> HIDE DEF w1, w2, w3
  <2> QED
    BY <1>1 DEF Switch
<1>4. \A d : Select(d) # Close
  <2>1. \A d : Select(d) = Switch(<<w1(d), w2(d), w3(d)>>)
    BY <1>1 DEF Switch
  <2>2. \A d : w1(d) # Group(0, {})
    BY <1>2 DEF Group
  <2> HIDE DEF w1, w2, w3
  <2> QED
    BY <2>1, <2>2 DEF Close, Switch
<1>5. \A op \in Readings \cup {TopReading(b) : b \in Boards} : op \notin Selections
  BY <1>3, <1>4 DEF Readings, TopReading, ReadPsu, Selections
<1>6. ASSUME NEW d \in Converters, NEW e \in Converters, Select(d) = Select(e)
      PROVE  d = e
  <2> HIDE DEF w1, w2, w3
  <2>1. w1(d) = w1(e) /\ w2(d) = w2(e)
    BY <1>1, <1>6
  <2>2. board_of(d) = board_of(e) /\ i2c_group(d) = i2c_group(e)
        /\ dc2dc_offset(d) = dc2dc_offset(e)
    <3>1. {<<"board", board_of(d)>>} = {<<"board", board_of(e)>>}
      BY <1>2, <2>1
    <3>2. <<"board", board_of(d)>> = <<"board", board_of(e)>>
      BY <3>1
    <3>3. i2c_group(d) = i2c_group(e) /\ {dc2dc_offset(d)} = {dc2dc_offset(e)}
      BY <1>2, <2>1
    <3> QED
      BY <3>2, <3>3
  <2> QED
    BY <2>2, ExitAssumption
<1> QED
  BY <1>5, <1>6 DEF Readings

(* Which operations are in order by themselves.                            *)
LEMMA DoneAre ==
  /\ Readings \subseteq DoneOps /\ \A b \in Boards : TopReading(b) \in DoneOps
  /\ Unlock \in DoneOps /\ \A f \in Transactions : Unlocked(f) \in DoneOps
  /\ \A f \in Transactions : \A d \in Converters : Locked(f, d) \in DoneOps
  /\ Locked("psu", 0) \in DoneOps /\ Lock \in DoneOps
  /\ \A d \in Converters : \A f \in {"present", "absent", "enable"} : <<f, d>> \in DoneOps
  /\ \A f \in Calls \ (ExitCalls \cup {"start"}) : Call(f) \in DoneOps
  /\ Call("start") \in BusOps /\ IsDone(Call("start"))
  /\ \A d \in Converters : Select(d) \in BusOps /\ ~ IsAccess(Select(d))
                             /\ Select(d)[1] = "switch"
  /\ \A f \in ConverterAccess : \A d \in Converters : Access(f, d) \in BusOps
<1>1. \A op \in Selections : op[1] = "switch"
  <2>1. \A d \in Converters : Select(d)[1] = "switch"
    BY SelectIs, NamesAre
  <2> QED
    BY <2>1 DEF Selections
<1>2. ASSUME NEW op \in Ops, op[1] \notin ExitCalls \cup {"switch", "access", "start"}
      PROVE  op \in DoneOps
  BY <1>1, <1>2 DEF DoneOps, BusOps, IsDone, IsAccess
<1>3. ASSUME NEW op \in SwitchOps
      PROVE  op \in Ops /\ op[1] = "switch" /\ op[1] \notin ExitCalls
  BY NamesAre DEF Ops, ExitCalls
<1>4. ASSUME NEW op \in Readings \cup {TopReading(b) : b \in Boards}
      PROVE  op \in DoneOps
  <2>1. op \in SwitchOps /\ op \notin Selections
    BY SwitchesAre, SelectionsAre
  <2>2. op \in KnownSwitches
    BY DEF KnownSwitches
  <2> QED
    BY <1>3, <2>1, <2>2 DEF DoneOps, BusOps, IsDone, IsAccess
<1>5. Unlock \in DoneOps /\ \A f \in Transactions : Unlocked(f) \in DoneOps
  BY <1>2, NamesAre DEF ExitCalls
<1>6. /\ \A f \in Transactions : \A d \in Converters : Locked(f, d) \in DoneOps
      /\ Locked("psu", 0) \in DoneOps /\ Lock \in DoneOps
  BY <1>2, NamesAre DEF ExitCalls, Lock
<1>7. \A d \in Converters : \A f \in {"present", "absent", "enable"} : <<f, d>> \in DoneOps
  BY <1>2, NamesAre DEF ExitCalls
<1>8. ASSUME NEW f \in Calls \ (ExitCalls \cup {"start"})
      PROVE  Call(f) \in DoneOps
  <2>1. Call(f) \in Ops /\ Call(f)[1] = f /\ f \notin {"switch", "access"}
    BY NamesAre DEF Calls
  <2> QED
    BY <1>2, <2>1
<1>9. Call("start") \in BusOps /\ IsDone(Call("start"))
  <2>1. Call("start") \in Ops /\ Call("start")[1] = "start"
    BY NamesAre DEF Calls
  <2> QED
    BY <1>1, <2>1 DEF BusOps, IsDone, IsAccess, ExitCalls
<1>10. ASSUME NEW d \in Converters
       PROVE  Select(d) \in BusOps /\ ~ IsAccess(Select(d)) /\ Select(d)[1] = "switch"
  <2>1. Select(d) \in SwitchOps /\ Select(d) \in KnownSwitches
    BY SelectIs DEF KnownSwitches, Selections
  <2> QED
    BY <1>3, <2>1 DEF BusOps, IsAccess
<1>11. ASSUME NEW f \in ConverterAccess, NEW d \in Converters
       PROVE  Access(f, d) \in BusOps
  BY NamesAre DEF BusOps, ExitCalls
<1> QED
  BY <1>4, <1>5, <1>6, <1>7, <1>8, <1>9, <1>10, <1>11

(* The operations of a transaction follow one another in order.            *)
LEMMA PairsAre ==
  ASSUME NEW d \in Converters
  PROVE  /\ \A f \in ConverterAccess :
              /\ Pair(Select(d), Access(f, d)) /\ Pair(Access(f, d), Close)
              /\ \A h \in ConverterAccess : Pair(Access(f, d), Access(h, d))
<1>1. \A f \in ConverterAccess : IsAccess(Access(f, d)) /\ Access(f, d)[3] = d
                                 /\ Access(f, d)[1] # "switch"
  BY NamesAre DEF IsAccess
<1>2. \A op \in Selections : op[1] = "switch" /\ ~ IsAccess(op)
  <2>1. \A c \in Converters : Select(c)[1] = "switch"
    BY SelectIs, NamesAre
  <2> QED
    BY <2>1 DEF Selections, IsAccess
<1>3. Select(d) \in Selections /\ ~ IsAccess(Close) /\ Close[1] = "switch"
  BY DEF Selections, Close, Switch, IsAccess
<1> QED
  BY <1>1, <1>2, <1>3 DEF Pair

(* The shortest sequences that are chained.                                *)
LEMMA ChainOfOne ==
  ASSUME NEW S, NEW a \in S
  PROVE  <<a>> \in Seq(S) /\ Len(<<a>>) # 0 /\ Len(<<a>>) = 1 /\ Chained(<<a>>) /\ <<a>>[1] = a
         /\ <<a>>[Len(<<a>>)] = a
<1>1. <<a>> \in Seq(S) /\ Len(<<a>>) = 1 /\ <<a>>[1] = a
  OBVIOUS
<1> DEFINE x == <<a>>
<1> HIDE DEF x
<1>2. Len(x) = 1 => Chained(x)
  <2>1. \A i \in 1 .. 1 - 1 : FALSE
    OBVIOUS
  <2> QED
    BY <2>1 DEF Chained
<1> QED
  BY <1>1, <1>2 DEF x

(* Two operations that may follow one another.                             *)
LEMMA ChainOfTwo ==
  ASSUME NEW S, NEW a \in S, NEW b \in S, Pair(a, b)
  PROVE  <<a, b>> \in Seq(S) /\ Len(<<a, b>>) # 0 /\ Len(<<a, b>>) = 2 /\ Chained(<<a, b>>)
         /\ <<a, b>>[1] = a /\ <<a, b>>[Len(<<a, b>>)] = b
<1>1. <<a, b>> \in Seq(S) /\ Len(<<a, b>>) = 2 /\ <<a, b>>[1] = a /\ <<a, b>>[2] = b
  OBVIOUS
<1> DEFINE x == <<a, b>>
<1> HIDE DEF x
<1>2. Len(x) = 2 /\ x[1] = a /\ x[2] = b => Chained(x)
  <2>1. \A i \in 1 .. 2 - 1 : i = 1 /\ i + 1 = 2
    OBVIOUS
  <2> QED
    BY <2>1 DEF Chained
<1> QED
  BY <1>1, <1>2 DEF x

(* The part of a transaction on the bus: it selects a converter, accesses  *)
(* it, and closes the switches.                                            *)
LEMMA Transacting ==
  ASSUME NEW d \in Converters, NEW F \in SUBSET ConverterAccess,
         NEW A \in Seq({Access(f, d) : f \in F}), Len(A) # 0, Chained(A),
         NEW y, \A p \in {Access(f, d) : f \in F} : Wanting(p) =>
                   \E j \in 1 .. Len(y) : Wants(p, y[j])
  PROVE  LET x == dc2dc_select_i2c(d) \o A \o dc2dc_i2c_close IN
         Leads(x, y) /\ x \in Seq(Ops)
<1> DEFINE D == {Select(d)} \cup {Access(f, d) : f \in F} \cup {Close}
           s == <<Select(d)>>
           c == <<Close>>
           x == (s \o A) \o c
<1>1. D \subseteq BusOps
  <2>1. Close \in BusOps
    BY DoneAre, SelectionsAre DEF DoneOps
  <2> QED
    BY <2>1, DoneAre
<1>2. dc2dc_select_i2c(d) \o A \o dc2dc_i2c_close = x
  BY SelectIs DEF dc2dc_i2c_close, Close
<1>3. /\ s \in Seq(D) /\ Len(s) # 0 /\ Chained(s) /\ s[1] = Select(d) /\ s[Len(s)] = Select(d)
      /\ c \in Seq(D) /\ Len(c) # 0 /\ Chained(c) /\ c[1] = Close /\ c[Len(c)] = Close
  <2>1. Select(d) \in D /\ Close \in D
    OBVIOUS
  <2> HIDE DEF D
  <2> QED
    BY <2>1, ChainOfOne
<1>4. A \in Seq(D)
  <2>1. {Access(f, d) : f \in F} \subseteq D
    OBVIOUS
  <2> HIDE DEF D
  <2> QED
    BY <2>1, SeqMonotonic
<1>5. \E f \in F : A[1] = Access(f, d)
  BY LenProperties, ElementOfSeq
<1>6. \E f \in F : A[Len(A)] = Access(f, d)
  BY LenProperties, ElementOfSeq
<1>7. Pair(Select(d), A[1]) /\ Pair(A[Len(A)], Close)
  BY <1>5, <1>6, PairsAre
<1> HIDE DEF D, s, c
<1>8. /\ s \o A \in Seq(D) /\ Chained(s \o A) /\ Len(s \o A) # 0 /\ (s \o A)[1] = Select(d)
      /\ (s \o A)[Len(s \o A)] = A[Len(A)]
  BY <1>3, <1>4, <1>7, ChainConcat
<1>9. x \in Seq(D) /\ Chained(x) /\ x[1] = Select(d) /\ x[Len(x)] = Close
  <2> DEFINE z == s \o A
  <2> HIDE DEF z
  <2>1. z \in Seq(D) /\ Chained(z) /\ Len(z) # 0 /\ z[1] = Select(d) /\ z[Len(z)] = A[Len(A)]
    BY <1>8 DEF z
  <2>2. z \o c \in Seq(D) /\ Chained(z \o c) /\ (z \o c)[1] = z[1]
        /\ (z \o c)[Len(z \o c)] = c[Len(c)]
    BY <1>3, <1>7, <2>1, ChainConcat
  <2> QED
    BY <1>3, <2>1, <2>2 DEF z
<1> HIDE DEF x
<1>10. x \in Seq(BusOps) /\ x \in Seq(Ops) /\ \A i \in 1 .. Len(x) : x[i] \in D
  <2>1. D \subseteq BusOps /\ BusOps \subseteq Ops
    BY <1>1 DEF BusOps
  <2> QED
    BY <1>9, <2>1, SeqMonotonic, ElementOfSeq
<1>11. Begun(x) /\ IsDone(Close) /\ ~ Wanting(Close) /\ ~ Wanting(Select(d))
  <2>1. Close \in DoneOps /\ ~ IsAccess(Select(d))
    BY DoneAre, SelectionsAre
  <2> QED
    BY <1>9, <2>1 DEF DoneOps, IsDone, Begun, Wanting
<1>12. \A p \in D : p[1] # "start"
  <2>1. Close[1] = "switch" /\ Select(d)[1] = "switch"
        /\ \A f \in F : Access(f, d)[1] = "access"
    BY DoneAre, NamesAre DEF Close, Switch
  <2> QED
    BY <2>1 DEF D
<1>13. \A p \in D : Wanting(p) => \E j \in 1 .. Len(y) : Wants(p, y[j])
  BY <1>11 DEF D
<1> QED
  BY <1>2, <1>9, <1>10, <1>11, <1>12, <1>13 DEF Leads

(* A program in order, that does not end in the start.                     *)
Ready(x) == Ordered(x) /\ Begun(x) /\ \A i \in 1 .. Len(x) : x[i][1] # "start"

(* It needs nothing of what comes after it.                                *)
LEMMA ReadyLeads ==
  ASSUME NEW x, Ready(x), NEW y
  PROVE  Leads(x, y)
BY DEF Ready, Ordered, Leads, Finds

(* What is ready may be put before anything in order.                      *)
LEMMA ReadyThen ==
  ASSUME NEW x, Ready(x), NEW y, Ordered(y), Begun(y)
  PROVE  Ordered(x \o y) /\ Begun(x \o y)
BY ReadyLeads, LeadsOn

(* Without the start, two sequences are without it together.               *)
LEMMA NoStartOn ==
  ASSUME NEW x \in Seq(BusOps), NEW y \in Seq(BusOps),
         \A i \in 1 .. Len(x) : x[i][1] # "start", \A i \in 1 .. Len(y) : y[i][1] # "start"
  PROVE  \A i \in 1 .. Len(x \o y) : (x \o y)[i][1] # "start"
<1>1. Len(x) \in Nat /\ Len(y) \in Nat
  BY LenProperties
<1>2. Len(x \o y) = Len(x) + Len(y)
      /\ \A i \in 1 .. Len(x) + Len(y) :
           (x \o y)[i] = IF i <= Len(x) THEN x[i] ELSE y[i - Len(x)]
  BY ConcatProperties
<1> SUFFICES ASSUME NEW i \in 1 .. Len(x) + Len(y)
             PROVE  (x \o y)[i][1] # "start"
  BY <1>2
<1>3. IF i <= Len(x) THEN i \in 1 .. Len(x) ELSE i - Len(x) \in 1 .. Len(y)
  BY <1>1
<1> QED
  BY <1>2, <1>3

(* Two programs that are ready are so together.                            *)
LEMMA ReadyConcat ==
  ASSUME NEW x, Ready(x), NEW y, Ready(y)
  PROVE  Ready(x \o y)
<1>1. Ordered(x \o y) /\ Begun(x \o y)
  BY ReadyThen DEF Ready
<1>2. \A i \in 1 .. Len(x \o y) : (x \o y)[i][1] # "start"
  BY NoStartOn DEF Ready, Ordered
<1> QED
  BY <1>1, <1>2 DEF Ready

(* Operations without a selection or an access are ready.                  *)
LEMMA DoneIsReady ==
  ASSUME NEW x \in Seq(DoneOps)
  PROVE  Ready(x)
<1>1. \A i \in 1 .. Len(x) : x[i] \in DoneOps
  BY ElementOfSeq
<1>2. Ordered(x) /\ Begun(x)
  BY DoneIsOrdered
<1> QED
  BY <1>1, <1>2 DEF Ready, DoneOps

(* A whole transaction.                                                    *)
LEMMA TransactionIsReady ==
  ASSUME NEW f \in Transactions, NEW d \in Converters
  PROVE  Ready(Transaction(f, d))
<1> DEFINE A == Accesses(f, d)
           x == dc2dc_select_i2c(d) \o A \o dc2dc_i2c_close
           y == <<Unlocked(f)>>
           F == {f}
           D == {Access(g, d) : g \in F}
           a == Access(f, d)
<1>1. f \in ConverterAccess /\ F \in SUBSET ConverterAccess /\ D = {a}
  BY DEF Transactions, ConverterAccess
<1>2. y \in Seq(DoneOps) /\ Ready(y) /\ Len(y) = 1 /\ y[1] = Unlocked(f)
  <2>1. Unlocked(f) \in DoneOps
    BY DoneAre
  <2>2. y \in Seq(DoneOps) /\ Len(y) = 1 /\ y[1] = Unlocked(f)
    BY <2>1
  <2> HIDE DEF y
  <2> QED
    BY <2>2, DoneIsReady
<1>3. A \in Seq({a}) /\ Len(A) # 0 /\ Chained(A)
  <2>1. A = <<a>> \/ A = <<a, a>>
    BY DEF Accesses
  <2>2. Pair(a, a)
    BY <1>1, PairsAre
  <2> HIDE DEF a, A
  <2>3. a \in {a}
    OBVIOUS
  <2>4. <<a>> \in Seq({a}) /\ Len(<<a>>) # 0 /\ Chained(<<a>>)
    BY <2>3, ChainOfOne
  <2>5. <<a, a>> \in Seq({a}) /\ Len(<<a, a>>) # 0 /\ Chained(<<a, a>>)
    BY <2>2, <2>3, ChainOfTwo
  <2> QED
    BY <2>1, <2>4, <2>5
<1>4. a[2] = f /\ a[1] = "access" /\ a[3] = d
  BY <1>1, NamesAre
<1>5. Transaction(f, d) = x \o y
  BY DEF Transaction
<1> HIDE DEF a, A, y
<1>6. \A p \in D : Wanting(p) => \E j \in 1 .. Len(y) : Wants(p, y[j])
  <2>1. f # "init"
    BY DEF Transactions
  <2> QED
    BY <1>1, <1>2, <1>4, <2>1 DEF Wanting, Wants
<1> HIDE DEF D, F
<1>7. A \in Seq(D)
  BY <1>1, <1>3
<1>8. Leads(x, y) /\ x \in Seq(Ops)
  BY <1>1, <1>3, <1>6, <1>7, Transacting DEF D
<1> HIDE DEF x
<1>9. Ordered(x \o y) /\ Begun(x \o y)
  BY <1>2, <1>8, LeadsOn DEF Ready
<1>10. \A i \in 1 .. Len(x \o y) : (x \o y)[i][1] # "start"
  BY <1>2, <1>8, NoStartOn DEF Ready, Ordered, Leads
<1> QED
  BY <1>5, <1>9, <1>10 DEF Ready

(* What is done once i2c_mutex is locked.                                  *)
LEMMA BodyIsReady ==
  ASSUME NEW op \in Ops, op[1] = "lock"
  PROVE  Ready(Body(op[2], op[3]))
<1>1. CASE op = Locked("psu", 0)
  <2>1. op[2] = "psu"
    BY <1>1, NamesAre
  <2> DEFINE s == Switch(<<Primary(PsuPin)>>)
  <2>2. Body(op[2], op[3]) = <<s, Unlock>>
    BY <2>1 DEF Body
  <2>3. s \in DoneOps /\ Unlock \in DoneOps
    BY DoneAre DEF Readings
  <2> HIDE DEF s
  <2>4. <<s, Unlock>> \in Seq(DoneOps)
    BY <2>3
  <2> QED
    BY <2>2, <2>4, DoneIsReady
<1>2. CASE op = Locked("none", 0)
  <2>1. op[2] = "none"
    BY <1>2, NamesAre
  <2>2. Body(op[2], op[3]) = <<>>
    BY <2>1 DEF Body
  <2>3. <<>> \in Seq(DoneOps)
    OBVIOUS
  <2> QED
    BY <2>2, <2>3, DoneIsReady
<1>3. CASE op[2] \in Transactions /\ op[3] \in Converters
  <2>1. Body(op[2], op[3]) = Transaction(op[2], op[3])
    BY <1>3 DEF Body, Transactions
  <2> QED
    BY <1>3, <2>1, TransactionIsReady
<1> QED
  BY <1>1, <1>2, <1>3, OpsAre

(* The functions that a thread calls, or that take the place of an         *)
(* operation.                                                              *)
LEMMA RestartIsReady ==
  Ready(restart_asics_full)
<1> DEFINE d == Head(InOrder)
<1>1. d \in Converters
  BY HeadOfAll
<1>2. \A f \in {"restart", "reset_power?", "may_exit", "restarted", "overload?"} :
        Call(f) \in DoneOps
  BY DoneAre DEF Calls, ExitCalls
<1>3. Locked("stats", d) \in DoneOps /\ Locked("vtrim", d) \in DoneOps
  BY <1>1, DoneAre DEF Transactions
<1>4. ReadPsu \in DoneOps /\ Close \in DoneOps
  BY DoneAre DEF Readings
<1>5. /\ dc2dc_get_all_stats(d) \in Seq(DoneOps) /\ dc2dc_set_vtrim(d) \in Seq(DoneOps)
      /\ read_ac2dc_errors \in Seq(DoneOps) /\ dc2dc_i2c_close \in Seq(DoneOps)
      /\ test_fix_ac2dc_limits \in Seq(DoneOps)
  BY <1>2, <1>3, <1>4 DEF dc2dc_get_all_stats, dc2dc_set_vtrim, read_ac2dc_errors,
     dc2dc_i2c_close, test_fix_ac2dc_limits, Close
<1>6. /\ <<Call("restart")>> \in Seq(DoneOps) /\ <<Call("reset_power?")>> \in Seq(DoneOps)
      /\ <<Call("may_exit"), Call("restarted")>> \in Seq(DoneOps)
  BY <1>2
<1>7. restart_asics_full \in Seq(DoneOps)
  <2> HIDE DEF d
  <2> QED
    BY <1>5, <1>6, ConcatProperties DEF restart_asics_full, d
<1> QED
  BY <1>7, DoneIsReady

(* The functions without a selection or an access.                         *)
LEMMA FunctionsAreReady ==
  /\ Ready(<<>>) /\ Ready(update_ac2dc_power_measurments) /\ Ready(Overload)
  /\ Ready(get_mng_board_temp) /\ \A b \in Boards : Ready(get_board_temp(b))
  /\ \A d \in Converters : /\ Ready(dc2dc_set_vtrim(d)) /\ Ready(dc2dc_enable_dc2dc(d))
                           /\ Ready(update_dc2dc_stats_restart_if_error(d))
  /\ Ready(<<Call("out")>>) /\ Ready(<<Lock>>) /\ Ready(<<Unlock>>) /\ Ready(DisableAll)
  /\ Ready(dc2dc_i2c_close \o <<Unlock>>)
<1>1. \A f \in {"exit_now", "may_exit", "out"} : Call(f) \in DoneOps
  BY DoneAre DEF Calls, ExitCalls
<1>2. /\ Locked("psu", 0) \in DoneOps /\ Lock \in DoneOps /\ Unlock \in DoneOps
      /\ ReadPsu \in DoneOps /\ Close \in DoneOps
      /\ Switch(<<Primary({})>>) \in DoneOps
      /\ Switch(<<Primary(SensorPin), Primary({})>>) \in DoneOps
      /\ \A b \in Boards : TopReading(b) \in DoneOps
  BY DoneAre DEF Readings
<1>3. \A a, b \in DoneOps : <<a>> \in Seq(DoneOps) /\ <<a, b>> \in Seq(DoneOps)
  OBVIOUS
<1>4. Ready(<<>>)
  <2>1. <<>> \in Seq(DoneOps)
    OBVIOUS
  <2> QED
    BY <2>1, DoneIsReady
<1>5. Ready(update_ac2dc_power_measurments)
  <2>1. /\ <<Lock>> \in Seq(DoneOps) /\ update_single_psu \in Seq(DoneOps)
        /\ <<Unlock>> \in Seq(DoneOps)
    BY <1>1, <1>2, <1>3 DEF update_single_psu
  <2>2. update_ac2dc_power_measurments \in Seq(DoneOps)
    BY <2>1, ConcatProperties DEF update_ac2dc_power_measurments
  <2> QED
    BY <2>2, DoneIsReady
<1>6. Ready(Overload)
  <2> DEFINE e == <<Switch(<<Primary({})>>), Call("exit_now")>>
  <2>1. PSU12vONOFF \in Seq(DoneOps) /\ e \in Seq(DoneOps)
    BY <1>1, <1>2, <1>3 DEF PSU12vONOFF
  <2>2. Overload = (PSU12vONOFF \o PSU12vONOFF) \o e
    BY DEF Overload
  <2> HIDE DEF e
  <2>3. Overload \in Seq(DoneOps)
    BY <2>1, <2>2, ConcatProperties
  <2> QED
    BY <2>3, DoneIsReady
<1>7. Ready(get_mng_board_temp)
  BY <1>2, <1>3, DoneIsReady DEF get_mng_board_temp
<1>8. \A b \in Boards : Ready(get_board_temp(b))
  BY <1>2, <1>3, DoneIsReady DEF get_board_temp, TopReading
<1>9. ASSUME NEW d \in Converters
      PROVE  /\ Ready(dc2dc_set_vtrim(d)) /\ Ready(dc2dc_enable_dc2dc(d))
             /\ Ready(update_dc2dc_stats_restart_if_error(d))
  <2>1. \A f \in Transactions : Locked(f, d) \in DoneOps
    BY DoneAre
  <2>2. \A f \in Transactions : Ready(<<Locked(f, d)>>)
    BY <1>3, <2>1, DoneIsReady
  <2> QED
    BY <2>2 DEF dc2dc_set_vtrim, dc2dc_enable_dc2dc, update_dc2dc_stats_restart_if_error,
       Transactions
<1>10. Ready(<<Call("out")>>) /\ Ready(<<Lock>>) /\ Ready(<<Unlock>>)
  BY <1>1, <1>2, <1>3, DoneIsReady
<1>11. Ready(DisableAll)
  <2>1. DisableAll \in Seq(CalmOps) /\ Len(DisableAll) = N
        /\ \A k \in 1 .. N : DisableAll[k] = Locked("disable", InOrder[k])
    BY DisableAllIs
  <2>2. \A k \in 1 .. N : DisableAll[k] \in DoneOps
    BY <2>1, InOrderIs, DoneAre DEF Transactions
  <2>3. DisableAll \in Seq(DoneOps)
    BY <2>1, <2>2, SeqDef, LenProperties
  <2> QED
    BY <2>3, DoneIsReady
<1>12. Ready(dc2dc_i2c_close \o <<Unlock>>)
  <2>1. dc2dc_i2c_close \in Seq(DoneOps) /\ <<Unlock>> \in Seq(DoneOps)
    BY <1>2, <1>3 DEF dc2dc_i2c_close, Close
  <2>2. dc2dc_i2c_close \o <<Unlock>> \in Seq(DoneOps)
    BY <2>1, ConcatProperties
  <2> QED
    BY <2>2, DoneIsReady
<1> QED
  BY <1>4, <1>5, <1>6, <1>7, <1>8, <1>9, <1>10, <1>11, <1>12

(* What a failed initialisation does.                                      *)
LEMMA InitFailedIsReady ==
  ASSUME NEW d \in Converters
  PROVE  Ready(InitFailed(d))
<1> DEFINE e == <<<<"absent", d>>, Lock>>
<1>1. Ready(dc2dc_i2c_close \o <<Unlock>>)
  BY FunctionsAreReady
<1>2. Locked("disable", d) \in DoneOps /\ <<"absent", d>> \in DoneOps /\ Lock \in DoneOps
  BY DoneAre DEF Transactions
<1>3. dc2dc_disable_dc2dc(d) \in Seq(DoneOps) /\ e \in Seq(DoneOps)
  BY <1>2 DEF dc2dc_disable_dc2dc
<1>4. Ready(dc2dc_disable_dc2dc(d)) /\ Ready(e)
  <2> HIDE DEF e
  <2> QED
    BY <1>3, DoneIsReady
<1>5. InitFailed(d) = ((dc2dc_i2c_close \o <<Unlock>>) \o dc2dc_disable_dc2dc(d)) \o e
  BY DEF InitFailed
<1> HIDE DEF e
<1> QED
  BY <1>1, <1>4, <1>5, ReadyConcat

(* The initialisation of a converter accesses it while it is selected.     *)
LEMMA InitIsReady ==
  ASSUME NEW d \in Converters
  PROVE  Ready(dc2dc_init_rb(d))
<1> DEFINE S == dc2dc_select_i2c(d)
           i == Access("init", d)
           c == Access("configure", d)
           p == Access("protect", d)
           A == <<i, c>>
           B == <<i, p>>
           C == dc2dc_i2c_close
           u == <<Unlock, <<"enable", d>>>>
           v == dc2dc_set_vtrim(d)
           w == <<Lock, <<"present", d>>>>
           F == {"init", "configure", "protect"}
           D == {Access(f, d) : f \in F}
           x == S \o (A \o B) \o C
           y == u \o v \o w
<1>1. F \in SUBSET ConverterAccess /\ i \in D /\ c \in D /\ p \in D
  BY DEF ConverterAccess
<1>2. \A a, b \in D : Pair(a, b)
  BY <1>1, PairsAre
<1>3. /\ A \in Seq(D) /\ Len(A) # 0 /\ Chained(A) /\ A[Len(A)] = c
      /\ B \in Seq(D) /\ Len(B) # 0 /\ Chained(B) /\ B[1] = i
  <2> HIDE DEF i, c, p, D
  <2> QED
    BY <1>1, <1>2, ChainOfTwo
<1>4. A \o B \in Seq(D) /\ Len(A \o B) # 0 /\ Chained(A \o B)
  <2>1. Pair(A[Len(A)], B[1])
    BY <1>1, <1>2, <1>3
  <2> HIDE DEF A, B, D
  <2> QED
    BY <1>3, <2>1, ChainConcat
<1>5. /\ Unlock \in DoneOps /\ Lock \in DoneOps /\ <<"enable", d>> \in DoneOps
      /\ <<"present", d>> \in DoneOps /\ Locked("vtrim", d) \in DoneOps
  BY DoneAre DEF Transactions
<1>6. u \in Seq(DoneOps) /\ v \in Seq(DoneOps) /\ w \in Seq(DoneOps) /\ Len(w) = 2
      /\ w[2] = <<"present", d>>
  BY <1>5 DEF dc2dc_set_vtrim
<1> HIDE DEF u, v, w
<1>7. y \in Seq(DoneOps) /\ Ready(y) /\ \E j \in 1 .. Len(y) : y[j] = <<"present", d>>
  <2> DEFINE q == u \o v
  <2>1. q \in Seq(DoneOps)
    BY <1>6, ConcatProperties
  <2> HIDE DEF q
  <2>2. /\ q \o w \in Seq(DoneOps) /\ Len(q \o w) = Len(q) + Len(w) /\ Len(q) \in Nat
        /\ \A k \in 1 .. Len(q) + Len(w) :
             (q \o w)[k] = IF k <= Len(q) THEN q[k] ELSE w[k - Len(q)]
    BY <1>6, <2>1, ConcatProperties, LenProperties
  <2>3. Len(q) + 2 \in 1 .. Len(q) + Len(w) /\ ~ (Len(q) + 2 <= Len(q))
        /\ (Len(q) + 2) - Len(q) = 2
    BY <1>6, <2>2
  <2>4. (q \o w)[Len(q) + 2] = <<"present", d>>
    BY <1>6, <2>2, <2>3
  <2>5. Ready(q \o w)
    BY <2>2, DoneIsReady
  <2>6. \E j \in 1 .. Len(q \o w) : (q \o w)[j] = <<"present", d>>
    BY <2>2, <2>3, <2>4
  <2> QED
    BY <2>2, <2>5, <2>6 DEF q
<1> HIDE DEF y
<1>8. \A a \in D : Wanting(a) => \E j \in 1 .. Len(y) : Wants(a, y[j])
  <2>1. \A a \in D : a[3] = d /\ (Wanting(a) => a[2] = "init")
    BY <1>1, NamesAre DEF Wanting
  <2> HIDE DEF D
  <2> QED
    BY <1>7, <2>1 DEF Wants
<1> HIDE DEF A, B
<1> DEFINE E == A \o B
<1>9. E \in Seq(D) /\ Len(E) # 0 /\ Chained(E)
  BY <1>4
<1> HIDE DEF E
<1>10. Leads(x, y)
  <2>1. x = S \o E \o C
    BY DEF E
  <2> HIDE DEF x, S, C
  <2>2. Leads(S \o E \o C, y)
    <3> HIDE DEF F
    <3> USE DEF S, C
    <3> QED
      BY <1>1, <1>8, <1>9, Transacting
  <2> QED
    BY <2>1, <2>2
<1>11. Ordered(x \o y) /\ Begun(x \o y) /\ \A k \in 1 .. Len(x \o y) : (x \o y)[k][1] # "start"
  <2> HIDE DEF x
  <2>1. Ordered(x \o y) /\ Begun(x \o y)
    BY <1>7, <1>10, LeadsOn DEF Ready
  <2> QED
    BY <1>7, <1>10, <2>1, NoStartOn DEF Ready, Ordered, Leads
<1>12. Ready(x \o y)
  BY <1>11 DEF Ready
<1>13. dc2dc_init_rb(d) = ((((((S \o A) \o B) \o C) \o u) \o v) \o w)
  BY DEF dc2dc_init_rb, InitChannel0, InitChannel1, A, B, u, v, w
<1>14. ((((((S \o A) \o B) \o C) \o u) \o v) \o w) = x \o y
  <2>1. S \in Seq(BusOps) /\ C \in Seq(BusOps)
    <3>1. Select(d) \in BusOps /\ Close \in BusOps
      BY DoneAre DEF Readings, DoneOps
    <3>2. S = <<Select(d)>> /\ C = <<Close>>
      BY SelectIs DEF dc2dc_i2c_close, Close
    <3>3. \A op \in BusOps : <<op>> \in Seq(BusOps)
      OBVIOUS
    <3> QED
      BY <3>1, <3>2, <3>3
  <2>2. A \in Seq(BusOps) /\ B \in Seq(BusOps)
    <3>1. D \subseteq BusOps
      BY <1>1, DoneAre
    <3> HIDE DEF D
    <3> QED
      BY <1>3, <3>1, SeqMonotonic
  <2>3. u \in Seq(BusOps) /\ v \in Seq(BusOps) /\ w \in Seq(BusOps)
    <3>1. DoneOps \subseteq BusOps
      BY DEF DoneOps
    <3> QED
      BY <1>6, <3>1, SeqMonotonic
  <2> DEFINE X == S \o (A \o B) \o C
  <2> HIDE DEF S, C
  <2>4. (S \o A) \o B = S \o (A \o B)
    BY <2>1, <2>2, ConcatAssociative
  <2>5. X \in Seq(BusOps)
    BY <2>1, <2>2, ConcatProperties
  <2>6. ((S \o A) \o B) \o C = X
    BY <2>4
  <2> HIDE DEF X
  <2>7. (X \o u) \o v = X \o (u \o v)
    BY <2>3, <2>5, ConcatAssociative
  <2>8. (X \o (u \o v)) \o w = X \o ((u \o v) \o w)
    <3>1. u \o v \in Seq(BusOps)
      BY <2>3, ConcatProperties
    <3> QED
      BY <2>3, <2>5, <3>1, ConcatAssociative
  <2> QED
    BY <2>6, <2>7, <2>8 DEF y, X, S, C
<1> HIDE DEF x, S, C
<1> QED
  BY <1>12, <1>13, <1>14

(* All of them are initialised, then the program starts.                   *)
LEMMA AllInitIsReady ==
  Ready(ForAll(InOrder, dc2dc_init_rb))
<1>1. N \in Nat \ {0} /\ InOrder \in [1 .. N -> Converters]
  BY InOrderIs
<1>2. PICK h : /\ ForAll(InOrder, dc2dc_init_rb) = h[N]
               /\ \A i \in 1 .. N : h[i] = IF i = 1 THEN dc2dc_init_rb(InOrder[i])
                                           ELSE h[i - 1] \o dc2dc_init_rb(InOrder[i])
  BY ForAllIs
<1>3. \A i \in 1 .. N : Ready(dc2dc_init_rb(InOrder[i]))
  BY <1>1, InitIsReady
<1>4. Ready(h[N])
  <2> DEFINE E == {n \in Nat : n + 1 <= N => Ready(h[n + 1])}
  <2>1. 0 \in E
    BY <1>1, <1>2, <1>3
  <2>2. ASSUME NEW n \in E
        PROVE  n + 1 \in E
    <3> SUFFICES ASSUME (n + 1) + 1 <= N
                 PROVE  Ready(h[(n + 1) + 1])
      OBVIOUS
    <3>1. (n + 1) + 1 \in 1 .. N /\ (n + 1) + 1 # 1 /\ ((n + 1) + 1) - 1 = n + 1 /\ n + 1 <= N
      BY <1>1
    <3>2. Ready(h[n + 1]) /\ Ready(dc2dc_init_rb(InOrder[(n + 1) + 1]))
      BY <1>1, <1>3, <3>1
    <3>3. h[(n + 1) + 1] = h[n + 1] \o dc2dc_init_rb(InOrder[(n + 1) + 1])
      BY <1>2, <3>1
    <3> QED
      BY <3>2, <3>3, ReadyConcat
  <2>3. E \in SUBSET Nat
    OBVIOUS
  <2> HIDE DEF E
  <2>4. E = Nat
    BY <2>1, <2>2, <2>3, Counting
  <2>5. N - 1 \in Nat /\ (N - 1) + 1 = N
    BY <1>1
  <2> QED
    BY <2>4, <2>5 DEF E
<1> QED
  BY <1>2, <1>4

(* What the main thread begins with is in order.                           *)
LEMMA ProgramIsOrdered ==
  LET s == dc2dc_init \o <<Call("start")>> IN
  Ordered(s) /\ Begun(s)
<1> DEFINE e == <<Call("start")>>
           F == ForAll(InOrder, dc2dc_init_rb)
<1>1. Ready(DisableAll) /\ Ready(<<Lock>>) /\ Ready(F) /\ Ready(<<Unlock>>)
  BY FunctionsAreReady, AllInitIsReady
<1>2. dc2dc_init = ((DisableAll \o <<Lock>>) \o F) \o <<Unlock>>
  BY DEF dc2dc_init
<1>3. Ready(dc2dc_init)
  <2> HIDE DEF F
  <2> QED
    BY <1>1, <1>2, ReadyConcat
<1>4. e \in Seq(BusOps) /\ Len(e) = 1 /\ e[1] = Call("start") /\ IsDone(e[1])
  <2>1. Call("start") \in BusOps /\ IsDone(Call("start"))
    BY DoneAre
  <2>2. \A op \in BusOps : <<op>> \in Seq(BusOps) /\ Len(<<op>>) = 1 /\ <<op>>[1] = op
    OBVIOUS
  <2> QED
    BY <2>1, <2>2
<1> HIDE DEF e
<1>5. ~ Wanting(e[1]) /\ ~ IsAccess(e[1])
  BY <1>4 DEF IsDone, Wanting
<1>6. \A i \in 1 .. Len(e) : i = 1
  BY <1>4
<1>7. Chained(e)
  <2>1. \A i \in 1 .. Len(e) - 1 : FALSE
    BY <1>4
  <2> QED
    BY <2>1 DEF Chained
<1>8. Ordered(e) /\ Begun(e)
  BY <1>4, <1>5, <1>6, <1>7 DEF Ordered, Begun, Finds
<1> QED
  BY <1>3, <1>8, ReadyThen DEF e
-----------------------------------------------------------------------------
(* What a write sets: the pins of the primary switch, or one group of the  *)
(* boards that are selected.                                               *)
LEMMA PrimaryIs ==
  ASSUME NEW p \in SUBSET Pins, NEW sw \in Switches
  PROVE  LET new == Written(Primary(p), sw) IN
         new \in Switches /\ new.primary = p /\ new.group = sw.group
<1>1. Primary(p) = <<"primary", p>>
  BY DEF Primary
<1>2. Written(Primary(p), sw) = [sw EXCEPT !.primary = p]
  BY <1>1 DEF Written
<1> QED
  BY <1>2 DEF Switches

(* A group of the selected boards, and nothing else.                       *)
LEMMA GroupIs ==
  ASSUME NEW g \in GROUPS, NEW o \in SUBSET Offsets, NEW sw \in Switches
  PROVE  LET new == Written(Group(g, o), sw) IN
         /\ new \in Switches /\ new.primary = sw.primary
         /\ \A b \in Boards : \A h \in GROUPS :
              new.group[b][h] = IF <<"board", b>> \in sw.primary /\ h = g THEN o
                                ELSE sw.group[b][h]
<1> DEFINE w == Group(g, o)
           new == Written(w, sw)
           G == [b \in Boards |-> IF <<"board", b>> \in sw.primary
                                  THEN [sw.group[b] EXCEPT ![g] = o] ELSE sw.group[b]]
<1>1. w[1] = "group" /\ w[2] = g /\ w[3] = o
  BY DEF Group
<1>2. new \in Switches
  BY WritesAre, WrittenType
<1>3. sw.group \in [Boards -> [GROUPS -> SUBSET Offsets]]
  BY DEF Switches
<1>4. new = [sw EXCEPT !.group = G]
  BY <1>1, <1>3 DEF Written
<1> HIDE DEF new, G
<1>5. new.primary = sw.primary /\ new.group = G
  BY <1>4 DEF Switches
<1>6. \A b \in Boards : \A h \in GROUPS :
        G[b][h] = IF <<"board", b>> \in sw.primary /\ h = g THEN o ELSE sw.group[b][h]
  BY <1>3 DEF G
<1> QED
  BY <1>2, <1>5, <1>6 DEF new

(* What each write keeps, all of them keep.                                *)
LEMMA WrittenAllKeeps ==
  ASSUME NEW S \in SUBSET Switches, NEW W \in SUBSET Writes, NEW ws \in Seq(W), NEW sw \in S,
         \A w \in W : \A s \in S : Written(w, s) \in S
  PROVE  WrittenAll(ws, sw) \in S
<1>1. ws \in Seq(Writes) /\ Len(ws) \in Nat /\ \A n \in 1 .. Len(ws) : ws[n] \in W
  BY SeqMonotonic, LenProperties, ElementOfSeq
<1>2. PICK f \in [0 .. Len(ws) -> Switches] :
        /\ f[0] = sw /\ WrittenAll(ws, sw) = f[Len(ws)]
        /\ \A n \in 1 .. Len(ws) : f[n] = Written(ws[n], f[n - 1])
  BY <1>1, WrittenAllIs
<1> DEFINE T == {n \in Nat : n <= Len(ws) => f[n] \in S}
<1>3. 0 \in T
  BY <1>2
<1>4. ASSUME NEW n \in T
      PROVE  n + 1 \in T
  <2> SUFFICES ASSUME n + 1 <= Len(ws)
               PROVE  f[n + 1] \in S
    OBVIOUS
  <2>1. n <= Len(ws) /\ n + 1 \in 1 .. Len(ws) /\ (n + 1) - 1 = n
    BY <1>1
  <2> QED
    BY <1>1, <1>2, <2>1
<1>5. T \in SUBSET Nat
  OBVIOUS
<1> HIDE DEF T
<1>6. T = Nat
  BY <1>3, <1>4, <1>5, Counting
<1> QED
  BY <1>1, <1>2, <1>6 DEF T

(* The sequences of writes of the functions, one by one.                   *)
LEMMA WrittenThree ==
  ASSUME NEW u \in Writes, NEW v \in Writes, NEW w \in Writes, NEW sw \in Switches
  PROVE  WrittenAll(<<u, v, w>>, sw) = Written(w, Written(v, Written(u, sw)))
<1> DEFINE ws == <<u, v, w>>
<1>1. ws \in Seq(Writes) /\ Len(ws) = 3 /\ ws[1] = u /\ ws[2] = v /\ ws[3] = w
  OBVIOUS
<1> HIDE DEF ws
<1>2. PICK f \in [0 .. Len(ws) -> Switches] :
        /\ f[0] = sw /\ WrittenAll(ws, sw) = f[Len(ws)]
        /\ \A n \in 1 .. Len(ws) : f[n] = Written(ws[n], f[n - 1])
  BY <1>1, WrittenAllIs
<1>3. 1 \in 1 .. Len(ws) /\ 2 \in 1 .. Len(ws) /\ 3 \in 1 .. Len(ws)
      /\ 1 - 1 = 0 /\ 2 - 1 = 1 /\ 3 - 1 = 2
  BY <1>1
<1>4. f[1] = Written(u, f[0]) /\ f[2] = Written(v, f[1]) /\ f[3] = Written(w, f[2])
  BY <1>1, <1>2, <1>3
<1> QED
  BY <1>1, <1>2, <1>4 DEF ws

(* The same of four writes.                                                *)
LEMMA WrittenFour ==
  ASSUME NEW u \in Writes, NEW v \in Writes, NEW w \in Writes, NEW x \in Writes,
         NEW sw \in Switches
  PROVE  WrittenAll(<<u, v, w, x>>, sw) = Written(x, Written(w, Written(v, Written(u, sw))))
<1> DEFINE ws == <<u, v, w, x>>
<1>1. ws \in Seq(Writes) /\ Len(ws) = 4 /\ ws[1] = u /\ ws[2] = v /\ ws[3] = w /\ ws[4] = x
  OBVIOUS
<1> HIDE DEF ws
<1>2. PICK f \in [0 .. Len(ws) -> Switches] :
        /\ f[0] = sw /\ WrittenAll(ws, sw) = f[Len(ws)]
        /\ \A n \in 1 .. Len(ws) : f[n] = Written(ws[n], f[n - 1])
  BY <1>1, WrittenAllIs
<1>3. 1 \in 1 .. Len(ws) /\ 2 \in 1 .. Len(ws) /\ 3 \in 1 .. Len(ws) /\ 4 \in 1 .. Len(ws)
      /\ 1 - 1 = 0 /\ 2 - 1 = 1 /\ 3 - 1 = 2 /\ 4 - 1 = 3
  BY <1>1
<1>4. f[1] = Written(u, f[0]) /\ f[2] = Written(v, f[1]) /\ f[3] = Written(w, f[2])
      /\ f[4] = Written(x, f[3])
  BY <1>1, <1>2, <1>3
<1> QED
  BY <1>1, <1>2, <1>4 DEF ws

(* The converters that switches set like this reach.                       *)
ReachedBy(sw) ==
  {d \in Converters : /\ <<"board", board_of(d)>> \in sw.primary
                      /\ dc2dc_offset(d) \in sw.group[board_of(d)][i2c_group(d)]}

(* No two converters are in one place.                                     *)
LEMMA PlacesDiffer ==
  ASSUME NEW c \in Converters, NEW d \in Converters, board_of(c) = board_of(d),
         i2c_group(c) = i2c_group(d), dc2dc_offset(c) = dc2dc_offset(d)
  PROVE  c = d
<1>1. c \in 0 .. ASICS_COUNT - 1 /\ d \in 0 .. ASICS_COUNT - 1
  BY ExitAssumption
<1> QED
  BY <1>1, ExitAssumption

(* Closed switches lead nowhere, so nowhere else.                          *)
LEMMA CleanIsWithin ==
  ASSUME NEW sw, Clean(sw), NEW d
  PROVE  Within(sw, d)
BY DEF Clean, Within

(* What leads nowhere but to a converter reaches no other.                 *)
LEMMA WithinReaches ==
  ASSUME NEW sw, NEW d \in Converters, Within(sw, d)
  PROVE  ReachedBy(sw) \subseteq {d}
<1> SUFFICES ASSUME NEW c \in ReachedBy(sw)
             PROVE  c = d
  OBVIOUS
<1>1. c \in Converters /\ board_of(c) \in Boards /\ i2c_group(c) \in GROUPS
      /\ dc2dc_offset(c) \in sw.group[board_of(c)][i2c_group(c)]
  BY SelectIs DEF ReachedBy
<1>2. sw.group[board_of(c)][i2c_group(c)] # {}
  BY <1>1
<1>3. /\ board_of(c) = board_of(d) /\ i2c_group(c) = i2c_group(d)
      /\ sw.group[board_of(c)][i2c_group(c)] = {dc2dc_offset(d)}
  BY <1>1, <1>2 DEF Within
<1>4. dc2dc_offset(c) = dc2dc_offset(d)
  BY <1>1, <1>3
<1> QED
  BY <1>1, <1>3, <1>4, PlacesDiffer

(* Each write of a selection leads nowhere but to its converter.           *)
SelectWrites(d) ==
  {Primary(BoardPin(board_of(d))), Group(i2c_group(d), {dc2dc_offset(d)}),
   Group(1 - i2c_group(d), {})}
(* A selection is made of these writes.                                    *)
LEMMA SelectIsWritten ==
  ASSUME NEW d \in Converters
  PROVE  /\ Select(d)[1] = "switch"
         /\ Select(d)[2] = <<Primary(BoardPin(board_of(d))), Group(i2c_group(d), {dc2dc_offset(d)}),
                             Group(1 - i2c_group(d), {})>>
         /\ SelectWrites(d) \in SUBSET Writes /\ Select(d)[2] \in Seq(SelectWrites(d))
         /\ BoardPin(board_of(d)) \in SUBSET Pins /\ {dc2dc_offset(d)} \in SUBSET Offsets
         /\ {} \in SUBSET Offsets /\ i2c_group(d) # 1 - i2c_group(d)
         /\ \A h \in GROUPS : h = i2c_group(d) \/ h = 1 - i2c_group(d)
<1> DEFINE u == Primary(BoardPin(board_of(d)))
           v == Group(i2c_group(d), {dc2dc_offset(d)})
           w == Group(1 - i2c_group(d), {})
<1>1. BoardPin(board_of(d)) \in SUBSET Pins /\ {dc2dc_offset(d)} \in SUBSET Offsets
      /\ {} \in SUBSET Offsets
  BY SelectIs DEF BoardPin, Pins
<1>2. u \in Writes /\ v \in Writes /\ w \in Writes
  BY <1>1, SelectIs, WritesAre
<1>3. i2c_group(d) # 1 - i2c_group(d) /\ \A h \in GROUPS : h = i2c_group(d) \/ h = 1 - i2c_group(d)
  <2>1. i2c_group(d) \in {0, 1} /\ GROUPS = {0, 1}
    BY SelectIs DEF GROUPS
  <2> QED
    BY <2>1
<1>4. Select(d) = <<"switch", <<u, v, w>>>> /\ SelectWrites(d) = {u, v, w}
  BY DEF Select, Switch, SelectWrites
<1> HIDE DEF u, v, w
<1>5. <<u, v, w>> \in Seq({u, v, w})
  OBVIOUS
<1>6. <<"switch", <<u, v, w>>>>[1] = "switch" /\ <<"switch", <<u, v, w>>>>[2] = <<u, v, w>>
  OBVIOUS
<1> QED
  BY <1>1, <1>2, <1>3, <1>4, <1>5, <1>6 DEF u, v, w

(* Any of them, in any number, lead nowhere else.                          *)
LEMMA SelectKeepsWithin ==
  ASSUME NEW d \in Converters, NEW ws \in Seq(SelectWrites(d)), NEW sw \in Switches,
         Within(sw, d)
  PROVE  Within(WrittenAll(ws, sw), d)
<1> DEFINE S == {s \in Switches : Within(s, d)}
           b == board_of(d)
           g == i2c_group(d)
           o == dc2dc_offset(d)
<1>1. /\ b \in Boards /\ g \in GROUPS /\ 1 - g \in GROUPS /\ g # 1 - g
      /\ BoardPin(b) \in SUBSET Pins /\ {o} \in SUBSET Offsets /\ {} \in SUBSET Offsets
      /\ SelectWrites(d) \in SUBSET Writes
  BY SelectIs, SelectIsWritten
<1>2. ASSUME NEW s \in S
      PROVE  Written(Primary(BoardPin(b)), s) \in S
  <2> DEFINE n == Written(Primary(BoardPin(b)), s)
  <2>1. n \in Switches /\ n.primary = BoardPin(b) /\ n.group = s.group
    BY <1>1, PrimaryIs
  <2> HIDE DEF n
  <2>2. \A c : <<"board", c>> \in BoardPin(b) <=> c = b
    BY DEF BoardPin
  <2>3. ASSUME NEW c \in Boards, NEW h \in GROUPS, n.group[c][h] # {}
        PROVE  c = board_of(d) /\ h = i2c_group(d) /\ n.group[c][h] = {dc2dc_offset(d)}
    <3>1. s.group[c][h] # {} /\ n.group[c][h] = s.group[c][h]
      BY <2>1, <2>3
    <3>2. Within(s, d)
      OBVIOUS
    <3> QED
      BY <3>1, <3>2 DEF Within
  <2>4. \A c \in Boards : <<"board", c>> \in n.primary <=> c = board_of(d)
    BY <2>1, <2>2
  <2>5. Within(n, d)
    BY <2>3, <2>4 DEF Within
  <2> QED
    BY <2>1, <2>5 DEF n
<1>3. ASSUME NEW s \in S
      PROVE  Written(Group(g, {o}), s) \in S
  <2> DEFINE n == Written(Group(g, {o}), s)
  <2>1. /\ n \in Switches /\ n.primary = s.primary
        /\ \A c \in Boards : \A h \in GROUPS :
             n.group[c][h] = IF <<"board", c>> \in s.primary /\ h = g THEN {o} ELSE s.group[c][h]
    BY <1>1, GroupIs
  <2> HIDE DEF n
  <2>2. Within(n, d)
    BY <2>1 DEF Within
  <2> QED
    BY <2>1, <2>2 DEF n
<1>4. ASSUME NEW s \in S
      PROVE  Written(Group(1 - g, {}), s) \in S
  <2> DEFINE n == Written(Group(1 - g, {}), s)
  <2>1. /\ n \in Switches /\ n.primary = s.primary
        /\ \A c \in Boards : \A h \in GROUPS :
             n.group[c][h] = IF <<"board", c>> \in s.primary /\ h = 1 - g THEN {}
                             ELSE s.group[c][h]
    BY <1>1, GroupIs
  <2> HIDE DEF n
  <2>2. ASSUME NEW c \in Boards, NEW h \in GROUPS, n.group[c][h] # {}
        PROVE  n.group[c][h] = s.group[c][h]
    BY <2>1, <2>2
  <2>3. ASSUME NEW c \in Boards, NEW h \in GROUPS, n.group[c][h] # {}
        PROVE  /\ c = board_of(d) /\ <<"board", c>> \in n.primary
               /\ h = i2c_group(d) /\ n.group[c][h] = {dc2dc_offset(d)}
    BY <2>1, <2>2, <2>3 DEF Within
  <2>4. \A c \in Boards : <<"board", c>> \in n.primary => c = board_of(d)
    BY <2>1 DEF Within
  <2>5. Within(n, d)
    BY <2>3, <2>4 DEF Within
  <2> QED
    BY <2>1, <2>5 DEF n
<1>5. \A w \in SelectWrites(d) : \A s \in S : Written(w, s) \in S
  BY <1>2, <1>3, <1>4 DEF SelectWrites
<1>6. S \in SUBSET Switches /\ sw \in S
  OBVIOUS
<1> HIDE DEF S
<1>7. WrittenAll(ws, sw) \in S
  BY <1>1, <1>5, <1>6, WrittenAllKeeps
<1> QED
  BY <1>7 DEF S

(* A selection whose writes all come through reaches nothing else,         *)
(* whatever the switches were set to.                                      *)
LEMMA SelectReachesOne ==
  ASSUME NEW d \in Converters, NEW sw \in Switches
  PROVE  ReachedBy(WrittenAll(Select(d)[2], sw)) \subseteq {d}
<1> DEFINE b == board_of(d)
           g == i2c_group(d)
           o == dc2dc_offset(d)
           u == Primary(BoardPin(b))
           v == Group(g, {o})
           w == Group(1 - g, {})
           s1 == Written(u, sw)
           s2 == Written(v, s1)
           s3 == Written(w, s2)
<1>1. /\ b \in Boards /\ g \in GROUPS /\ 1 - g \in GROUPS /\ g # 1 - g
      /\ BoardPin(b) \in SUBSET Pins /\ {o} \in SUBSET Offsets /\ {} \in SUBSET Offsets
      /\ \A h \in GROUPS : h = g \/ h = 1 - g
      /\ Select(d)[2] = <<u, v, w>>
  BY SelectIs, SelectIsWritten
<1>2. u \in Writes /\ v \in Writes /\ w \in Writes
  BY <1>1, WritesAre
<1>3. s1 \in Switches /\ s1.primary = BoardPin(b)
  BY <1>1, PrimaryIs
<1> HIDE DEF s1
<1>4. /\ s2 \in Switches /\ s2.primary = s1.primary
      /\ \A c \in Boards : \A h \in GROUPS :
           s2.group[c][h] = IF <<"board", c>> \in s1.primary /\ h = g THEN {o} ELSE s1.group[c][h]
  BY <1>1, <1>3, GroupIs
<1> HIDE DEF s2
<1>5. /\ s3 \in Switches /\ s3.primary = s2.primary
      /\ \A c \in Boards : \A h \in GROUPS :
           s3.group[c][h] = IF <<"board", c>> \in s2.primary /\ h = 1 - g THEN {}
                            ELSE s2.group[c][h]
  BY <1>1, <1>4, GroupIs
<1>6. WrittenAll(Select(d)[2], sw) = s3
  <2> HIDE DEF u, v, w
  <2> QED
    BY <1>1, <1>2, WrittenThree DEF s1, s2
<1> HIDE DEF s3
<1>7. \A c : <<"board", c>> \in BoardPin(b) <=> c = b
  BY DEF BoardPin
<1>8. s3.group[b][g] = {o} /\ s3.group[b][1 - g] = {}
  BY <1>1, <1>3, <1>4, <1>5, <1>7
<1>9. ASSUME NEW c \in ReachedBy(s3)
      PROVE  c = d
  <2>1. /\ c \in Converters /\ i2c_group(c) \in GROUPS /\ <<"board", board_of(c)>> \in s3.primary
        /\ dc2dc_offset(c) \in s3.group[board_of(c)][i2c_group(c)]
    BY SelectIs DEF ReachedBy
  <2>2. board_of(c) = b
    BY <1>3, <1>4, <1>5, <1>7, <2>1
  <2>3. i2c_group(c) = g /\ dc2dc_offset(c) = o
    BY <1>1, <1>8, <2>1, <2>2
  <2> QED
    BY <2>1, <2>2, <2>3, PlacesDiffer
<1> QED
  BY <1>6, <1>9

(* Closing the switches leaves them closed, after an access.               *)
LEMMA CloseCleans ==
  ASSUME NEW sw \in Switches, NEW d, Within(sw, d)
  PROVE  Clean(WrittenAll(Close[2], sw))
<1> DEFINE u == Group(0, {})
           v == Group(1, {})
           w == Primary({})
           s1 == Written(u, sw)
           s2 == Written(v, s1)
           s3 == Written(w, s2)
<1>1. 0 \in GROUPS /\ 1 \in GROUPS /\ {} \in SUBSET Offsets /\ {} \in SUBSET Pins
      /\ \A h \in GROUPS : h = 0 \/ h = 1
  BY DEF GROUPS
<1>2. u \in Writes /\ v \in Writes /\ w \in Writes
  BY <1>1, WritesAre
<1>3. Close[2] = <<u, v, w>>
  BY DEF Close, Switch
<1>4. /\ s1 \in Switches /\ s1.primary = sw.primary
      /\ \A c \in Boards : \A h \in GROUPS :
           s1.group[c][h] = IF <<"board", c>> \in sw.primary /\ h = 0 THEN {} ELSE sw.group[c][h]
  BY <1>1, GroupIs
<1> HIDE DEF s1
<1>5. /\ s2 \in Switches /\ s2.primary = s1.primary
      /\ \A c \in Boards : \A h \in GROUPS :
           s2.group[c][h] = IF <<"board", c>> \in s1.primary /\ h = 1 THEN {} ELSE s1.group[c][h]
  BY <1>1, <1>4, GroupIs
<1> HIDE DEF s2
<1>6. s3.primary = {} /\ s3.group = s2.group
  BY <1>1, <1>5, PrimaryIs
<1>7. WrittenAll(Close[2], sw) = s3
  <2> HIDE DEF u, v, w
  <2> QED
    BY <1>2, <1>3, WrittenThree DEF s1, s2
<1> HIDE DEF s3
<1>8. ASSUME NEW c \in Boards, NEW h \in GROUPS
      PROVE  s2.group[c][h] = {}
  <2>1. sw.group[c][h] # {} => <<"board", c>> \in sw.primary
    BY DEF Within
  <2> QED
    BY <1>1, <1>4, <1>5, <2>1
<1> QED
  BY <1>6, <1>7, <1>8 DEF Clean

(* Switches that are closed stay so in a reading that comes through.       *)
LEMMA ReadingKeepsClean ==
  ASSUME NEW op \in Readings, NEW sw \in Switches, Clean(sw)
  PROVE  Clean(WrittenAll(op[2], sw))
<1> DEFINE S == {s \in Switches : Clean(s)}
           W == {Primary({}), Primary(PsuPin), Primary(SensorPin)}
<1>1. CASE op = Close
  <2>1. PICK d \in Converters : TRUE
    BY ExitAssumption
  <2> QED
    BY <1>1, CleanIsWithin, CloseCleans
<1>2. CASE op # Close
  <2>1. op[2] \in Seq(W)
    <3>1. Primary({}) \in W /\ Primary(PsuPin) \in W /\ Primary(SensorPin) \in W
      OBVIOUS
    <3>2. \E a, b \in W : op = <<"switch", <<a>>>> \/ op = <<"switch", <<a, b>>>>
      BY <1>2, <3>1 DEF Readings, ReadPsu, Switch
    <3> HIDE DEF W
    <3>3. PICK a \in W, b \in W : op = <<"switch", <<a>>>> \/ op = <<"switch", <<a, b>>>>
      BY <3>2
    <3>4. <<a>> \in Seq(W) /\ <<a, b>> \in Seq(W)
      OBVIOUS
    <3>5. op[2] = <<a>> \/ op[2] = <<a, b>>
      BY <3>3
    <3> QED
      BY <3>4, <3>5
  <2>2. \A p \in {{}, PsuPin, SensorPin} : p \in SUBSET Pins /\ \A b : <<"board", b>> \notin p
    BY DEF Pins, PsuPin, SensorPin
  <2>3. W \in SUBSET Writes
    BY <2>2, WritesAre
  <2>4. ASSUME NEW p \in {{}, PsuPin, SensorPin}, NEW s \in S
        PROVE  Written(Primary(p), s) \in S
    <3> DEFINE n == Written(Primary(p), s)
    <3>1. n \in Switches /\ n.primary = p /\ n.group = s.group
      BY <2>2, PrimaryIs
    <3> HIDE DEF n
    <3>2. Clean(n)
      BY <2>2, <3>1 DEF Clean
    <3> QED
      BY <3>1, <3>2 DEF n
  <2>5. \A w \in W : \A s \in S : Written(w, s) \in S
    BY <2>4
  <2>6. S \in SUBSET Switches /\ sw \in S
    OBVIOUS
  <2> HIDE DEF S, W
  <2>7. WrittenAll(op[2], sw) \in S
    BY <2>1, <2>3, <2>5, <2>6, WrittenAllKeeps
  <2> QED
    BY <2>7 DEF S
<1> QED
  BY <1>1, <1>2

(* The reading of a board closes what it opens.                            *)
LEMMA TopReadingKeepsClean ==
  ASSUME NEW b \in Boards, NEW sw \in Switches, Clean(sw)
  PROVE  Clean(WrittenAll(TopReading(b)[2], sw))
<1> DEFINE t == Primary(BoardPin(b))
           u == Group(1, {THERMAL})
           v == Group(1, {})
           w == Primary({})
           s1 == Written(t, sw)
           s2 == Written(u, s1)
           s3 == Written(v, s2)
           s4 == Written(w, s3)
<1>1. /\ 1 \in GROUPS /\ {} \in SUBSET Offsets /\ {THERMAL} \in SUBSET Offsets
      /\ {} \in SUBSET Pins /\ BoardPin(b) \in SUBSET Pins
  BY DEF GROUPS, Offsets, THERMAL, BoardPin, Pins
<1>2. t \in Writes /\ u \in Writes /\ v \in Writes /\ w \in Writes
  BY <1>1, WritesAre
<1>3. TopReading(b)[2] = <<t, u, v, w>>
  BY DEF TopReading, Switch
<1>4. s1 \in Switches /\ s1.primary = BoardPin(b) /\ s1.group = sw.group
  BY <1>1, PrimaryIs
<1> HIDE DEF s1
<1>5. /\ s2 \in Switches /\ s2.primary = s1.primary
      /\ \A c \in Boards : \A h \in GROUPS :
           s2.group[c][h] = IF <<"board", c>> \in s1.primary /\ h = 1 THEN {THERMAL}
                            ELSE s1.group[c][h]
  BY <1>1, <1>4, GroupIs
<1> HIDE DEF s2
<1>6. /\ s3 \in Switches /\ s3.primary = s2.primary
      /\ \A c \in Boards : \A h \in GROUPS :
           s3.group[c][h] = IF <<"board", c>> \in s2.primary /\ h = 1 THEN {} ELSE s2.group[c][h]
  BY <1>1, <1>5, GroupIs
<1> HIDE DEF s3
<1>7. s4.primary = {} /\ s4.group = s3.group
  BY <1>1, <1>6, PrimaryIs
<1>8. WrittenAll(TopReading(b)[2], sw) = s4
  <2> HIDE DEF t, u, v, w
  <2> QED
    BY <1>2, <1>3, WrittenFour DEF s1, s2, s3
<1> HIDE DEF s4
<1>9. ASSUME NEW c \in Boards, NEW h \in GROUPS
      PROVE  s3.group[c][h] = {}
  <2>1. s1.group[c][h] = {}
    BY <1>4 DEF Clean
  <2>2. h # 1 => s2.group[c][h] = {}
    BY <1>5, <2>1
  <2>3. h = 1 /\ <<"board", c>> \notin s1.primary => s2.group[c][h] = {}
    BY <1>5, <2>1
  <2> QED
    BY <1>5, <1>6, <2>2, <2>3
<1> QED
  BY <1>7, <1>8, <1>9 DEF Clean
-----------------------------------------------------------------------------
(* What follows an access that fails is in order, and begins outside of a  *)
(* transaction unless the access is passed over.                           *)
LEMMA UnacknowledgedIsOrdered ==
  ASSUME NEW s, Ordered(s), s # <<>>, IsAccess(s[1])
  PROVE  LET x == Unacknowledged(s[1], Tail(s)) IN
         Ordered(x) /\ (x = Tail(s) \/ Begun(x))
<1> DEFINE op == s[1]
           r == Tail(s)
           x == Unacknowledged(op, r)
           G == dc2dc_i2c_close \o <<Unlock>>
<1>1. Ordered(r) /\ op \in BusOps /\ (Wanting(op) => \E i \in 1 .. Len(r) : Wants(op, r[i]))
  BY OrderedTail
<1>2. op \in Ops /\ op[1] = "access" /\ op[2] \in ConverterAccess /\ op[3] \in Converters
  BY <1>1, OpsAre DEF IsAccess, BusOps
<1>3. \A f \in Transactions : IsDone(Unlocked(f))
  BY DoneAre DEF DoneOps
<1>4. IsDone(<<"present", op[3]>>)
  BY <1>2, DoneAre DEF DoneOps
<1> HIDE DEF op, r
<1>5. CASE op[2] = "init"
  <2> DEFINE e == <<"present", op[3]>>
             a == After(r, e)
  <2>1. \E i \in 1 .. Len(r) : r[i] = e
    <3>1. PICK i \in 1 .. Len(r) : Wants(op, r[i])
      BY <1>1, <1>2, <1>5 DEF Wanting, IsAccess
    <3>2. r[i] = e
      BY <1>5, <3>1 DEF Wants
    <3> QED
      BY <3>2
  <2>2. IsDone(e)
    BY <1>4
  <2> HIDE DEF e
  <2>3. Ordered(a) /\ Begun(a)
    BY <1>1, <2>1, <2>2, OrderedAfter
  <2>4. x = InitFailed(op[3]) \o a
    BY <1>2, <1>5 DEF Unacknowledged, e
  <2>5. Ready(InitFailed(op[3]))
    BY <1>2, InitFailedIsReady
  <2> HIDE DEF a, x
  <2> QED
    BY <2>3, <2>4, <2>5, ReadyThen DEF x, op, r
<1>6. CASE op[2] = "stats"
  <2> DEFINE e == Unlocked("stats")
             a == After(r, e)
  <2>1. \E i \in 1 .. Len(r) : r[i] = e
    <3>1. PICK i \in 1 .. Len(r) : Wants(op, r[i])
      BY <1>1, <1>2, <1>6 DEF Wanting, IsAccess
    <3>2. r[i] = e
      BY <1>6, <3>1 DEF Wants
    <3> QED
      BY <3>2
  <2>2. IsDone(e)
    BY <1>3 DEF Transactions
  <2> HIDE DEF e
  <2>3. Ordered(a) /\ Begun(a)
    BY <1>1, <2>1, <2>2, OrderedAfter
  <2>4. x = G \o a
    BY <1>2, <1>6 DEF Unacknowledged, e
  <2>5. Ready(G)
    BY FunctionsAreReady
  <2> HIDE DEF a, x, G
  <2> QED
    BY <2>3, <2>4, <2>5, ReadyThen DEF x, op, r
<1>7. CASE op[2] = "stats_or_restart"
  <2> DEFINE e == Unlocked("stats_or_restart")
             a == After(r, e)
  <2>1. \E i \in 1 .. Len(r) : r[i] = e
    <3>1. PICK i \in 1 .. Len(r) : Wants(op, r[i])
      BY <1>1, <1>2, <1>7 DEF Wanting, IsAccess
    <3>2. r[i] = e
      BY <1>7, <3>1 DEF Wants
    <3> QED
      BY <3>2
  <2>2. IsDone(e)
    BY <1>3 DEF Transactions
  <2> HIDE DEF e
  <2>3. Ordered(a) /\ Begun(a)
    BY <1>1, <2>1, <2>2, OrderedAfter
  <2>4. x = (G \o restart_asics_full) \o a
    BY <1>2, <1>7 DEF Unacknowledged, e
  <2>5. Ready(G) /\ Ready(restart_asics_full)
    BY FunctionsAreReady, RestartIsReady
  <2> HIDE DEF a, x, G
  <2>6. Ready(G \o restart_asics_full)
    BY <2>5, ReadyConcat
  <2> QED
    BY <2>3, <2>4, <2>6, ReadyThen DEF x, op, r
<1>8. CASE op[2] \notin {"init", "stats", "stats_or_restart"}
  <2>1. x = r
    BY <1>8 DEF Unacknowledged
  <2> HIDE DEF x
  <2> QED
    BY <1>1, <2>1 DEF x, op, r
<1> QED
  BY <1>5, <1>6, <1>7, <1>8

(* The same of a selection of which a write is lost.                       *)
LEMMA LostIsOrdered ==
  ASSUME NEW r, Ordered(r), NEW i
  PROVE  LET x == Lost(i, r) IN
         Ordered(x) /\ (x = r \/ Begun(x))
<1> DEFINE x == Lost(i, r)
<1>1. CASE i = 2 /\ r # <<>> /\ r[1] \in {Access("init", d) : d \in Converters}
  <2>1. PICK d \in Converters : r[1] = Access("init", d)
    BY <1>1
  <2>2. r[1][1] = "access" /\ r[1][2] = "init" /\ r[1][3] = d
    BY <2>1, NamesAre DEF ConverterAccess
  <2> DEFINE e == <<"present", d>>
             a == After(r, e)
  <2>3. \E j \in 1 .. Len(r) : r[j] = e
    <3>1. Len(r) \in Nat \ {0}
      BY <1>1, OrderedTail, TailIs
    <3>2. 1 \in 1 .. Len(r) /\ \A j \in 1 + 1 .. Len(r) : j \in 1 .. Len(r)
      BY <3>1
    <3>3. Wanting(r[1])
      BY <2>2 DEF Wanting, IsAccess
    <3>4. \E j \in 1 + 1 .. Len(r) : Wants(r[1], r[j])
      BY <3>2, <3>3 DEF Ordered, Finds
    <3> QED
      BY <2>2, <3>2, <3>4 DEF Wants
  <2>4. IsDone(e)
    BY DoneAre DEF DoneOps
  <2> HIDE DEF e
  <2>5. Ordered(a) /\ Begun(a)
    BY <2>3, <2>4, OrderedAfter
  <2>6. x = InitFailed(d) \o a
    BY <1>1, <2>2 DEF Lost, e
  <2>7. Ready(InitFailed(d))
    BY InitFailedIsReady
  <2> HIDE DEF a, x
  <2> QED
    BY <2>5, <2>6, <2>7, ReadyThen DEF x
<1>2. CASE ~ (i = 2 /\ r # <<>> /\ r[1] \in {Access("init", d) : d \in Converters})
  <2>1. x = r
    BY <1>2 DEF Lost
  <2> HIDE DEF x
  <2> QED
    BY <2>1 DEF x
<1> QED
  BY <1>1, <1>2
-----------------------------------------------------------------------------
(* An exit that a thread has before it stays there until the process ends. *)
LEMMA ExitStaysBefore ==
  ASSUME NEW s, Program(s), s # <<>>, s[1][1] # "exit", Has(s, "exit"), NEW ops \in Seq(Ops)
  PROVE  Has(Tail(s), "exit") /\ Has(ops \o Tail(s), "exit")
<1> DEFINE r == Tail(s)
<1>1. s \in Seq(Ops) /\ Suffix(r, s, 1) /\ Len(s) \in Nat \ {0}
  BY TailIs DEF Program
<1> HIDE DEF r
<1>2. r \in Seq(Ops) /\ Len(r) = Len(s) - 1 /\ \A i \in 1 .. Len(r) : r[i] = s[i + 1]
  BY <1>1 DEF Suffix
<1>3. PICK i \in 1 .. Len(s) : s[i][1] = "exit"
  BY DEF Has
<1>4. i - 1 \in 1 .. Len(r) /\ (i - 1) + 1 = i
  BY <1>1, <1>2, <1>3
<1>5. r[i - 1][1] = "exit"
  BY <1>2, <1>3, <1>4
<1>6. Has(r, "exit")
  BY <1>4, <1>5 DEF Has
<1> DEFINE z == ops \o r
<1>7. Len(ops) \in Nat /\ Len(z) = Len(ops) + Len(r) /\ Len(r) \in Nat
      /\ \A j \in 1 .. Len(r) : r[j] = z[j + Len(ops)]
  BY <1>2, ConcatIs DEF Suffix
<1> HIDE DEF z
<1>8. (i - 1) + Len(ops) \in 1 .. Len(z) /\ z[(i - 1) + Len(ops)] = r[i - 1]
  BY <1>4, <1>7
<1>9. Has(z, "exit")
  BY <1>5, <1>8 DEF Has
<1> QED
  BY <1>6, <1>9 DEF r, z

Stays(t) ==
  \E x : todo' = [todo EXCEPT ![t] = x] /\ (Has(todo[t], "exit") => Has(x, "exit"))

(* Whatever takes the place of another operation, it stays.                *)
LEMMA GoStays ==
  ASSUME Inv, NEW t \in Threads, todo[t] # <<>>, todo[t][1][1] # "exit",
         \/ Go(t)
         \/ \E ops \in Seq(Ops) : Replace(t, ops)
         \/ CallExit(t)
  PROVE  Stays(t)
<1>1. Program(todo[t])
  BY AtIs
<1>2. ASSUME NEW ops \in Seq(Ops)
      PROVE  Has(todo[t], "exit") => Has(Tail(todo[t]), "exit") /\ Has(ops \o Tail(todo[t]), "exit")
  BY <1>1, ExitStaysBefore
<1>3. Has(exit_nicely, "exit")
  BY ExitIsProgram DEF Stages
<1>4. CASE Go(t)
  <2>1. todo' = [todo EXCEPT ![t] = Tail(todo[t])]
    BY <1>4 DEF Go
  <2>2. <<>> \in Seq(Ops)
    OBVIOUS
  <2> QED
    BY <1>2, <2>1, <2>2 DEF Stays
<1>5. CASE \E ops \in Seq(Ops) : Replace(t, ops)
  <2>1. PICK ops \in Seq(Ops) : Replace(t, ops)
    BY <1>5
  <2>2. todo' = [todo EXCEPT ![t] = ops \o Tail(todo[t])]
    BY <2>1 DEF Replace
  <2> QED
    BY <1>2, <2>2 DEF Stays
<1>6. CASE CallExit(t)
  BY <1>3, <1>6 DEF CallExit, Stays
<1> QED
  BY <1>4, <1>5, <1>6

(* What takes the place of an operation is a sequence of operations.       *)
LEMMA ReadyIsOps ==
  ASSUME NEW x, Ready(x)
  PROVE  x \in Seq(Ops)
<1>1. x \in Seq(BusOps) /\ BusOps \subseteq Ops
  BY DEF Ready, Ordered, BusOps
<1> QED
  BY <1>1, SeqMonotonic

(* Neither a transfer nor what follows a failed one loses it.              *)
LEMMA TransferStays ==
  ASSUME Inv, NEW t \in Threads, I2cTransfer(t)
  PROVE  Stays(t)
<1> DEFINE s == todo[t]
           r == Tail(s)
           op == s[1]
<1>1. s # <<>> /\ IsTransfer(op) /\ Head(s) = op
  BY AtIs DEF I2cTransfer
<1>2. Program(s)
  BY <1>1, AtIs
<1>3. Program(r) /\ Same(s, r)
  BY <1>1, <1>2, GoingOn DEF Stages, IsTransfer
<1>4. CASE todo' = [todo EXCEPT ![t] = r]
  BY <1>3, <1>4 DEF Same, Stages, Stays
<1>5. CASE op[1] = "access" /\ todo' = [todo EXCEPT ![t] = Unacknowledged(op, r)]
  <2> DEFINE x == Unacknowledged(op, r)
  <2>1. Same(s, x)
    BY <1>1, <1>2, <1>5, UnacknowledgedIs
  <2>2. todo' = [todo EXCEPT ![t] = x]
    BY <1>5
  <2> HIDE DEF x
  <2> QED
    BY <2>1, <2>2 DEF Same, Stages, Stays
<1>6. ASSUME NEW i, todo' = [todo EXCEPT ![t] = Lost(i, r)]
      PROVE  Stays(t)
  <2> DEFINE x == Lost(i, r)
  <2>1. Same(r, x)
    BY <1>3, LostIs
  <2>2. todo' = [todo EXCEPT ![t] = x]
    BY <1>6
  <2> HIDE DEF x
  <2> QED
    BY <1>3, <2>1, <2>2 DEF Same, Stages, Stays
<1>7. CASE todo' = [todo EXCEPT ![t] = exit_nicely]
  <2>1. Has(exit_nicely, "exit")
    BY ExitIsProgram DEF Stages
  <2> QED
    BY <1>7, <2>1 DEF Stays
<1>8. \/ todo' = [todo EXCEPT ![t] = r]
      \/ op[1] = "access" /\ todo' = [todo EXCEPT ![t] = Unacknowledged(op, r)]
      \/ \E i : todo' = [todo EXCEPT ![t] = Lost(i, r)]
      \/ todo' = [todo EXCEPT ![t] = exit_nicely]
  <2> HIDE DEF s
  <2> QED
    BY <1>1 DEF I2cTransfer, s
<1> QED
  BY <1>4, <1>5, <1>6, <1>7, <1>8

(* No step of a thread loses it.                                           *)
LEMMA StepStays ==
  ASSUME Inv, NEW t \in Threads, Step(t), ended' = "no"
  PROVE  Stays(t)
<1>1. todo[t] # <<>> /\ Head(todo[t]) = todo[t][1] /\ todo[t][1] \in Ops
  <2>1. todo[t] # <<>>
    BY DEF Step, LockI2cMutex, UnlockI2cMutex, I2cTransfer, Present, Enable, Sleep, Start,
       MayExit, Choose, Restart, Restarted, Enter, StopAllWork, Stopped, Exiting, UnlockAll,
       Exit, At
  <2> QED
    BY <2>1, AtIs
<1>2. ~ Exit(t)
  BY DEF Exit, End
<1>3. CASE I2cTransfer(t)
  BY <1>3, TransferStays
<1>4. CASE LockI2cMutex(t)
  <2>1. todo[t][1][1] = "lock" /\ Replace(t, Body(todo[t][1][2], todo[t][1][3]))
    BY <1>1, <1>4 DEF LockI2cMutex, At
  <2>2. Body(todo[t][1][2], todo[t][1][3]) \in Seq(Ops)
    BY <1>1, <2>1, BodyIsReady, ReadyIsOps
  <2> QED
    BY <1>1, <2>1, <2>2, GoStays
<1>5. CASE Enable(t)
  <2>1. /\ todo[t][1][1] = "enable"
        /\ \E ops \in {dc2dc_enable_dc2dc(todo[t][1][2]), <<>>} : Replace(t, ops)
    BY <1>1, <1>5 DEF Enable, At
  <2>2. todo[t][1][2] \in Converters
    BY <1>1, <2>1, OpsAre
  <2>3. dc2dc_enable_dc2dc(todo[t][1][2]) \in Seq(Ops) /\ <<>> \in Seq(Ops)
    BY <2>2, FunctionsAreReady, ReadyIsOps
  <2> QED
    BY <1>1, <2>1, <2>3, GoStays
<1>6. CASE Choose(t)
  <2>1. todo[t][1][1] # "exit" /\
        \/ Go(t) \/ Replace(t, Overload) \/ Replace(t, update_ac2dc_power_measurments)
    BY <1>1, <1>6 DEF Choose, At
  <2>2. Overload \in Seq(Ops) /\ update_ac2dc_power_measurments \in Seq(Ops)
    BY FunctionsAreReady, ReadyIsOps
  <2> QED
    BY <1>1, <2>1, <2>2, GoStays
<1>7. CASE StopAllWork(t)
  <2> DEFINE a == <<Call("stopped")>>
             b == restart_asics_full \o a
  <2>1. a \in Seq(Ops)
    <3>1. Call("stopped") \in Ops
      BY NamesAre DEF Calls
    <3> QED
      BY <3>1
  <2>2. b \in Seq(Ops)
    <3>1. restart_asics_full \in Seq(Ops)
      BY RestartIsReady, ReadyIsOps
    <3> QED
      BY <2>1, <3>1, ConcatProperties
  <2>3. todo[t][1][1] # "exit" /\ (Go(t) \/ Replace(t, a) \/ Replace(t, b))
    BY <1>1, <1>7 DEF StopAllWork, At
  <2> HIDE DEF a, b
  <2> QED
    BY <1>1, <2>1, <2>2, <2>3, GoStays
<1>8. CASE UnlockI2cMutex(t) \/ Present(t) \/ Sleep(t) \/ Start(t) \/ Restarted(t) \/ Stopped(t)
           \/ UnlockAll(t)
  <2>1. todo[t][1][1] # "exit" /\ Go(t)
    BY <1>1, <1>8 DEF UnlockI2cMutex, Present, Sleep, Start, Restarted, Stopped, UnlockAll, At
  <2> QED
    BY <1>1, <2>1, GoStays
<1>9. CASE MayExit(t) \/ Restart(t)
  <2>1. todo[t][1][1] # "exit" /\ (Go(t) \/ CallExit(t))
    BY <1>1, <1>9 DEF MayExit, Restart, At
  <2> QED
    BY <1>1, <2>1, GoStays
<1>10. CASE Enter(t) \/ Exiting(t)
  <2>1. todo[t][1][1] # "exit" /\ Go(t)
    BY <1>1, <1>10 DEF Enter, Exiting, At, End
  <2> QED
    BY <1>1, <2>1, GoStays
<1> QED
  BY <1>2, <1>3, <1>4, <1>5, <1>6, <1>7, <1>8, <1>9, <1>10 DEF Step

(* So what exits nowhere did not exit before.                              *)
LEMMA NoExitBefore ==
  ASSUME Inv, [Next]_vars, ended' = "no", NoExit'
  PROVE  NoExit
<1>1. todo = [t \in Threads |-> todo[t]]
  BY DEF Inv, Types
<1>2. ASSUME NEW t \in Threads, Stays(t)
      PROVE  NoExit
  BY <1>1, <1>2 DEF Stays, NoExit
<1>3. ASSUME NEW t \in Threads, NEW x, todo' = [todo EXCEPT ![t] = x],
             todo[t] = <<>> \/ Has(x, "exit")
      PROVE  NoExit
  <2>1. todo[t] = <<>> => ~ Has(todo[t], "exit")
    BY DEF Has
  <2> QED
    BY <1>2, <1>3, <2>1 DEF Stays
<1>4. Has(exit_nicely, "exit") /\ "main" \in Threads /\ "rt" \in Threads
  BY ExitIsProgram, FreeIs DEF Stages
<1>5. CASE RtTask
  BY <1>3, <1>4, <1>5 DEF RtTask
<1>6. CASE RtOut
  BY <1>3, <1>4, <1>6 DEF RtOut
<1>7. CASE Signal
  BY <1>3, <1>4, <1>7 DEF Signal
<1>8. CASE SecondSignal
  BY <1>8 DEF SecondSignal, End
<1>9. ASSUME NEW t \in Threads, Step(t)
      PROVE  NoExit
  BY <1>2, <1>9, StepStays
<1>10. ASSUME NEW t \in Threads, ExitCalled(t)
       PROVE  NoExit
  BY <1>3, <1>4, <1>10 DEF ExitCalled, CallExit
<1>11. CASE UNCHANGED vars
  BY <1>11 DEF vars, NoExit, Has
<1> QED
  BY <1>5, <1>6, <1>7, <1>8, <1>9, <1>10, <1>11 DEF Next
-----------------------------------------------------------------------------
(* The steps of the only thread that does anything.                        *)
LEMMA ReachedIs ==
  Reached = ReachedBy(switch) /\ Reached' = ReachedBy(switch')
BY DEF Reached, ReachedBy

(* A step without the bus: what it puts in the place of an operation is    *)
(* in order.                                                               *)
LEMMA QuietIsSound ==
  ASSUME Inv, Sound, NEW t \in Threads, t = Actor, todo[t] # <<>>, ~ IsTransfer(todo[t][1]),
         NEW x, todo' = [todo EXCEPT ![t] = x],
         x = Tail(todo[t]) \/ \E ops : Ready(ops) /\ x = ops \o Tail(todo[t]),
         switch' = switch, faults' = faults, vm'.started = vm.started
  PROVE  Sound'
<1> DEFINE s == todo[t]
           r == Tail(s)
<1>1. Ordered(s) /\ OnBus(s)
  BY DEF Sound
<1>2. Ordered(r) /\ (IsDone(s[1]) => Begun(r)) /\ s[1] \in BusOps
  BY <1>1, OrderedTail
<1>3. ~ IsAccess(s[1]) /\ s[1] \notin Selections /\ s[1] # Close
  <2>1. s[1][1] \notin {"switch", "access"}
    BY DEF IsTransfer
  <2>2. \A d \in Converters : Select(d)[1] = "switch"
    BY DoneAre
  <2>3. Close[1] = "switch"
    BY DEF Close, Switch
  <2> HIDE DEF s
  <2> QED
    BY <2>1, <2>2, <2>3 DEF IsAccess, Selections
<1>4. Ordered(r) /\ Begun(r)
  BY <1>2, <1>3 DEF IsDone
<1>5. Ordered(x) /\ Begun(x)
  <2> HIDE DEF s, r
  <2>1. x = r \/ \E ops : Ready(ops) /\ x = ops \o r
    BY DEF r, s
  <2> QED
    BY <1>4, <2>1, ReadyThen
<1>6. faults = 0 => Clean(switch)
  BY <1>1, <1>3 DEF OnBus
<1>7. Actor' = Actor /\ todo'[t] = x /\ \A u \in Threads \ {t} : todo'[u] = todo[u]
  BY DEF Actor, Inv, Types
<1>8. OnBus(x)'
  BY <1>5, <1>6 DEF OnBus, Begun
<1>9. \A u \in Threads : u # Actor' => todo'[u] = <<>>
  BY <1>7 DEF Sound
<1>10. Ordered(todo'[Actor']) /\ todo'[Actor'] = x
  BY <1>5, <1>7
<1> QED
  BY <1>8, <1>9, <1>10 DEF Sound

(* What comes after an operation that is passed over.                      *)
LEMMA NextAccess ==
  ASSUME NEW s, Ordered(s), s # <<>>, Tail(s) # <<>>, IsAccess(Tail(s)[1])
  PROVE  LET d == Tail(s)[1][3] IN
         /\ d \in Converters
         /\ s[1] = Select(d) \/ (IsAccess(s[1]) /\ s[1][3] = d)
         /\ ~ IsAccess(s[1]) => s[1] = Select(d) /\ s[1] # Close
<1> DEFINE r == Tail(s)
<1>1. Ordered(r) /\ Pair(s[1], r[1]) /\ r # <<>>
  BY OrderedTail
<1>2. r[1] \in BusOps
  BY <1>1, OrderedTail
<1>3. r[1][3] \in Converters
  BY <1>2, OpsAre DEF BusOps, IsAccess
<1>4. Close # Select(r[1][3])
  BY <1>3, SelectionsAre DEF Selections
<1> QED
  BY <1>1, <1>3, <1>4 DEF Pair

(* A transfer that comes through.                                          *)
LEMMA ComesIsSound ==
  ASSUME Inv, NEW s, Ordered(s), OnBus(s), s # <<>>, IsTransfer(s[1]), Acknowledged(s[1]),
         faults' = faults
  PROVE  Ordered(Tail(s)) /\ OnBus(Tail(s))'
<1> DEFINE r == Tail(s)
           op == s[1]
<1>1. /\ Ordered(r) /\ op \in BusOps /\ (IsDone(op) => Begun(r))
      /\ (r # <<>> => Pair(op, r[1])) /\ (r = <<>> => IsDone(op))
  BY OrderedTail
<1>2. op \in Ops /\ op[1] \in {"switch", "access"} /\ switch \in Switches
  BY <1>1 DEF BusOps, IsTransfer, Inv, Types
<1>3. r # <<>> /\ IsAccess(r[1]) =>
        /\ r[1][3] \in Converters
        /\ op = Select(r[1][3]) \/ (IsAccess(op) /\ op[3] = r[1][3])
        /\ ~ IsAccess(op) => op = Select(r[1][3])
  BY NextAccess
<1> HIDE DEF r, op
<1>4. CASE op[1] = "access"
  <2>1. switch' = switch /\ IsAccess(op)
    BY <1>4 DEF Acknowledged, IsAccess, op
  <2>2. Reached \subseteq {op[3]} /\ (faults = 0 => Within(switch, op[3]))
    <3>1. op # Close
      BY <1>4 DEF Close, Switch
    <3> QED
      BY <2>1, <3>1 DEF OnBus, Begun, op
  <2>3. r # <<>> /\ (IsAccess(r[1]) \/ r[1] = Close)
    BY <1>1, <2>1 DEF Pair, IsDone
  <2>4. IsAccess(r[1]) => r[1][3] = op[3]
    <3>1. op \notin Selections
      BY <1>4, DoneAre DEF Selections
    <3> QED
      BY <1>3, <2>3, <3>1 DEF Selections
  <2>5. Reached' = Reached
    BY <2>1, ReachedIs
  <2>6. op[3] \in Converters
    BY <1>2, <1>4, OpsAre
  <2>7. r # <<>> /\ IsAccess(r[1]) => Reached' \subseteq {r[1][3]}
    BY <2>2, <2>4, <2>5
  <2>8. faults' = 0 => \/ r # <<>> /\ IsAccess(r[1]) /\ Within(switch', r[1][3])
                       \/ r # <<>> /\ r[1] = Close /\ \E d \in Converters : Within(switch', d)
    BY <2>1, <2>2, <2>3, <2>4, <2>6
  <2>9. OnBus(r)'
    BY <2>7, <2>8 DEF OnBus
  <2> QED
    BY <1>1, <2>9 DEF r
<1>5. CASE op[1] = "switch"
  <2>1. switch' = WrittenAll(op[2], switch) /\ ~ IsAccess(op) /\ op \in KnownSwitches
    BY <1>1, <1>5 DEF Acknowledged, IsAccess, BusOps, op
  <2>2. faults = 0 => \/ op = Close /\ \E d \in Converters : Within(switch, d)
                      \/ Clean(switch)
    BY <2>1 DEF OnBus, op
  <2>3. CASE op \in Selections
    <3>1. r # <<>> /\ IsAccess(r[1])
      BY <1>1, <2>3 DEF IsDone, Pair
    <3> DEFINE d == r[1][3]
    <3>2. d \in Converters /\ op = Select(d)
      BY <1>3, <2>1, <3>1
    <3> HIDE DEF d
    <3>3. Reached' \subseteq {d}
      BY <1>2, <2>1, <3>2, SelectReachesOne, ReachedIs
    <3>4. ASSUME faults = 0
          PROVE  Within(switch', d)
      <4>1. op # Close
        BY <2>3, SelectionsAre
      <4>2. Within(switch, d)
        BY <2>2, <3>4, <4>1, CleanIsWithin
      <4>3. op[2] \in Seq(SelectWrites(d))
        BY <3>2, SelectIsWritten
      <4> QED
        BY <1>2, <2>1, <3>2, <4>2, <4>3, SelectKeepsWithin
    <3>5. OnBus(r)'
      BY <3>1, <3>3, <3>4 DEF OnBus, d
    <3> QED
      BY <1>1, <3>5 DEF r
  <2>4. CASE op \notin Selections
    <3>1. Begun(r)
      BY <1>1, <2>1, <2>4 DEF IsDone
    <3>2. ASSUME faults = 0
          PROVE  Clean(switch')
      <4>1. CASE op = Close
        <5>1. \E d : Within(switch, d)
          BY <2>2, <3>2, CleanIsWithin
        <5> QED
          BY <1>2, <2>1, <4>1, <5>1, CloseCleans
      <4>2. CASE op \in Readings /\ op # Close
        BY <1>2, <2>1, <2>2, <3>2, <4>2, ReadingKeepsClean
      <4>3. CASE op \in {TopReading(b) : b \in Boards} /\ op # Close
        BY <1>2, <2>1, <2>2, <3>2, <4>3, TopReadingKeepsClean
      <4> QED
        BY <2>1, <2>4, <4>1, <4>2, <4>3 DEF KnownSwitches
    <3>3. OnBus(r)'
      BY <3>1, <3>2 DEF OnBus, Begun
    <3> QED
      BY <1>1, <3>3 DEF r
  <2> QED
    BY <2>3, <2>4
<1> QED
  BY <1>2, <1>4, <1>5

(* A transfer that fails, the first one that does: an access leaves the    *)
(* switches alone, and a lost write leads nowhere else.                    *)
LEMMA FailsIsSound ==
  ASSUME Inv, NEW s, Ordered(s), OnBus(s), s # <<>>, faults = 0, faults' # 0, NEW x,
         \/ /\ s[1][1] = "access" /\ switch' = switch /\ x = Unacknowledged(s[1], Tail(s))
         \/ /\ s[1][1] = "switch"
            /\ \E i \in DOMAIN s[1][2] :
                 /\ switch' = WrittenAll(RemoveAt(s[1][2], i), switch) /\ x = Lost(i, Tail(s))
  PROVE  Ordered(x) /\ OnBus(x)'
<1> DEFINE r == Tail(s)
           op == s[1]
<1>1. Ordered(r) /\ op \in BusOps /\ switch \in Switches
  BY OrderedTail DEF Inv, Types
<1>2. r # <<>> /\ IsAccess(r[1]) =>
        /\ r[1][3] \in Converters
        /\ op = Select(r[1][3]) \/ (IsAccess(op) /\ op[3] = r[1][3])
        /\ ~ IsAccess(op) => op = Select(r[1][3]) /\ op # Close
  BY NextAccess
<1>3. CASE op[1] = "access" /\ switch' = switch /\ x = Unacknowledged(op, r)
  <2>1. Ordered(x) /\ (x = r \/ Begun(x)) /\ IsAccess(op)
    BY <1>3, UnacknowledgedIsOrdered DEF IsAccess
  <2> HIDE DEF r, op
  <2>2. Reached' \subseteq {op[3]}
    <3>1. Reached' = Reached
      BY <1>3, ReachedIs
    <3> QED
      BY <2>1, <3>1 DEF OnBus, op
  <2>3. r # <<>> /\ IsAccess(r[1]) => r[1][3] = op[3]
    <3>1. op \notin Selections
      BY <1>3, DoneAre DEF Selections
    <3> QED
      BY <1>2, <3>1 DEF Selections
  <2>4. x # <<>> /\ IsAccess(x[1]) => Reached' \subseteq {x[1][3]}
    BY <2>1, <2>2, <2>3 DEF Begun
  <2> QED
    BY <2>1, <2>4 DEF OnBus
<1>4. CASE op[1] = "switch" /\ \E i \in DOMAIN op[2] :
             switch' = WrittenAll(RemoveAt(op[2], i), switch) /\ x = Lost(i, r)
  <2>1. PICK i \in DOMAIN op[2] : switch' = WrittenAll(RemoveAt(op[2], i), switch) /\ x = Lost(i, r)
    BY <1>4
  <2>2. Ordered(x) /\ (x = r \/ Begun(x))
    BY <1>1, <2>1, LostIsOrdered
  <2> HIDE DEF r, op
  <2>3. ASSUME r # <<>>, IsAccess(r[1])
        PROVE  Reached' \subseteq {r[1][3]}
    <3> DEFINE d == r[1][3]
    <3>1. d \in Converters /\ op = Select(d) /\ op # Close /\ ~ IsAccess(op)
      BY <1>2, <1>4, <2>3 DEF IsAccess
    <3> HIDE DEF d
    <3>2. Within(switch, d)
      <4>1. Clean(switch)
        BY <3>1 DEF OnBus, op
      <4> QED
        BY <4>1, CleanIsWithin
    <3>3. RemoveAt(op[2], i) \in Seq(SelectWrites(d))
      <4>1. op[2] \in Seq(SelectWrites(d))
        BY <3>1, SelectIsWritten
      <4> QED
        BY <2>1, <4>1, RemoveAtIs
    <3>4. Within(switch', d)
      BY <1>1, <2>1, <3>1, <3>2, <3>3, SelectKeepsWithin
    <3> QED
      BY <3>1, <3>4, WithinReaches, ReachedIs DEF d
  <2>4. x # <<>> /\ IsAccess(x[1]) => Reached' \subseteq {x[1][3]}
    BY <2>2, <2>3 DEF Begun
  <2> QED
    BY <2>2, <2>4 DEF OnBus
<1> QED
  BY <1>3, <1>4

(* A transfer keeps the bus in order: one that aborts exits.               *)
LEMMA TransferIsSound ==
  ASSUME Inv, Sound, NEW t \in Threads, t = Actor, I2cTransfer(t), faults' <= 1, NoExit'
  PROVE  Sound'
<1>1. PICK s : s = todo[t]
  OBVIOUS
<1>2. /\ s # <<>> /\ IsTransfer(s[1]) /\ Head(s) = s[1] /\ s[1] \in Ops
      /\ UNCHANGED vm
  BY <1>1, AtIs DEF I2cTransfer
<1>3. Ordered(s) /\ OnBus(s)
  BY <1>1 DEF Sound
<1>4. Has(exit_nicely, "exit")
  BY ExitIsProgram DEF Stages
<1>5. faults \in Nat
  BY ExitAssumption DEF Inv, Types
<1>6. ASSUME NEW x, todo' = [todo EXCEPT ![t] = x], Ordered(x), OnBus(x)'
      PROVE  Sound'
  <2>1. Actor' = Actor /\ todo'[t] = x /\ \A u \in Threads \ {t} : todo'[u] = todo[u]
    BY <1>2, <1>6 DEF Actor, Inv, Types
  <2>2. \A u \in Threads : u # Actor' => todo'[u] = <<>>
    BY <2>1 DEF Sound
  <2>3. Ordered(todo'[Actor']) /\ todo'[Actor'] = x
    BY <1>6, <2>1
  <2> QED
    BY <1>6, <2>2, <2>3 DEF Sound
<1>7. CASE Acknowledged(s[1]) /\ faults' = faults /\ todo' = [todo EXCEPT ![t] = Tail(s)]
  <2>1. PICK x : x = Tail(s)
    OBVIOUS
  <2>2. Ordered(x) /\ OnBus(x)'
    BY <1>2, <1>3, <1>7, <2>1, ComesIsSound
  <2> QED
    BY <1>6, <1>7, <2>1, <2>2
<1>8. ASSUME faults' = faults + 1, NEW x, todo' = [todo EXCEPT ![t] = x],
         \/ /\ s[1][1] = "access" /\ switch' = switch /\ x = Unacknowledged(s[1], Tail(s))
         \/ /\ s[1][1] = "switch"
            /\ \E i \in DOMAIN s[1][2] :
                 /\ switch' = WrittenAll(RemoveAt(s[1][2], i), switch) /\ x = Lost(i, Tail(s))
      PROVE  Sound'
  <2>1. faults = 0 /\ faults' # 0
    BY <1>5, <1>8
  <2>2. Ordered(x) /\ OnBus(x)'
    BY <1>2, <1>3, <1>8, <2>1, FailsIsSound
  <2> QED
    BY <1>6, <1>8, <2>2
<1>9. CASE faults' = faults + 1 /\ s[1][1] = "access" /\ UNCHANGED bus
           /\ todo' = [todo EXCEPT ![t] = Unacknowledged(s[1], Tail(s))]
  <2>1. PICK x : x = Unacknowledged(s[1], Tail(s))
    OBVIOUS
  <2> QED
    BY <1>8, <1>9, <2>1 DEF bus
<1>10. ASSUME faults' = faults + 1, s[1][1] = "switch", NEW i \in DOMAIN s[1][2],
              Acknowledged(Switch(RemoveAt(s[1][2], i))),
              todo' = [todo EXCEPT ![t] = Lost(i, Tail(s))]
       PROVE  Sound'
  <2>1. PICK x : x = Lost(i, Tail(s))
    OBVIOUS
  <2>2. switch' = WrittenAll(RemoveAt(s[1][2], i), switch)
    BY <1>10 DEF Acknowledged, Switch
  <2> QED
    BY <1>8, <1>10, <2>1, <2>2
<1>11. CASE todo' = [todo EXCEPT ![t] = exit_nicely]
  <2>1. todo'[t] = exit_nicely
    BY <1>11 DEF Inv, Types
  <2> QED
    BY <1>4, <2>1 DEF NoExit
<1>12. \/ Acknowledged(s[1]) /\ faults' = faults /\ todo' = [todo EXCEPT ![t] = Tail(s)]
       \/ /\ faults' = faults + 1 /\ s[1][1] = "access" /\ UNCHANGED bus
          /\ todo' = [todo EXCEPT ![t] = Unacknowledged(s[1], Tail(s))]
       \/ /\ faults' = faults + 1 /\ s[1][1] = "switch"
          /\ \E i \in DOMAIN s[1][2] :
               /\ Acknowledged(Switch(RemoveAt(s[1][2], i)))
               /\ todo' = [todo EXCEPT ![t] = Lost(i, Tail(s))]
       \/ todo' = [todo EXCEPT ![t] = exit_nicely]
  BY <1>1, <1>2 DEF I2cTransfer
<1> QED
  BY <1>7, <1>9, <1>10, <1>11, <1>12

(* The main thread starts the others, and is done.                         *)
LEMMA StartIsSound ==
  ASSUME Inv, Sound, NEW t \in Threads, t = Actor, Start(t)
  PROVE  Sound'
<1>1. todo[t] # <<>> /\ todo[t][1][1] = "start" /\ todo' = [todo EXCEPT ![t] = Tail(todo[t])]
      /\ vm' = [vm EXCEPT !.in_asic_reset = 0, !.started = TRUE]
      /\ switch' = switch /\ faults' = faults
  <2>1. todo[t] # <<>>
    BY DEF Start, At
  <2> QED
    BY <2>1, AtIs DEF Start, At, Go, bus
<1>2. Ordered(todo[t]) /\ OnBus(todo[t])
  BY DEF Sound
<1>3. Tail(todo[t]) = <<>>
  BY <1>1, <1>2, OrderedTail
<1>4. faults = 0 => Clean(switch)
  <2>1. ~ IsAccess(todo[t][1]) /\ todo[t][1] # Close
    BY <1>1 DEF IsAccess, Close, Switch
  <2> QED
    BY <1>2, <2>1 DEF OnBus
<1>5. vm'.started = TRUE
  <2>1. vm \in VM
    BY DEF Inv, Types
  <2> QED
    BY <1>1, <2>1 DEF VM
<1>6. Actor' = "rt" /\ (Actor = "rt" \/ Actor = "main")
  BY <1>5 DEF Actor
<1>7. todo'[t] = <<>> /\ \A u \in Threads \ {t} : todo'[u] = todo[u]
  BY <1>1, <1>3 DEF Inv, Types
<1>8. \A u \in Threads : todo'[u] = <<>>
  BY <1>7 DEF Sound
<1>9. PICK e : e = <<>>
  OBVIOUS
<1>10. Ordered(e) /\ Begun(e)
  BY <1>9, FunctionsAreReady DEF Ready
<1>11. OnBus(e)'
  BY <1>1, <1>4, <1>9, <1>10 DEF OnBus
<1>12. todo'[Actor'] = e
  BY <1>6, <1>8, <1>9, FreeIs
<1> QED
  BY <1>8, <1>10, <1>11, <1>12 DEF Sound

(* Every step of the thread keeps it in order.                             *)
LEMMA StepIsSound ==
  ASSUME Inv, Sound, NEW t \in Threads, Step(t), faults' <= 1, NoExit'
  PROVE  Sound'
<1>1. todo[t] # <<>> /\ Head(todo[t]) = todo[t][1]
  <2>1. todo[t] # <<>>
    BY DEF Step, LockI2cMutex, UnlockI2cMutex, I2cTransfer, Present, Enable, Sleep, Start,
       MayExit, Choose, Restart, Restarted, Enter, StopAllWork, Stopped, Exiting, UnlockAll,
       Exit, At
  <2> QED
    BY <2>1, AtIs
<1>2. t = Actor
  BY <1>1 DEF Sound
<1>3. todo[t][1] \in BusOps
  BY <1>1, <1>2, OrderedTail DEF Sound
<1>4. todo[t][1] \in Ops /\ todo[t][1][1] \notin ExitCalls
  BY <1>3 DEF BusOps
<1>5. ~ CallExit(t)
  <2> SUFFICES ASSUME CallExit(t)
               PROVE  FALSE
    OBVIOUS
  <2>1. todo'[t] = exit_nicely
    BY DEF CallExit, Inv, Types
  <2>2. Has(exit_nicely, "exit")
    BY ExitIsProgram DEF Stages
  <2> QED
    BY <2>1, <2>2 DEF NoExit
<1>6. ASSUME ~ IsTransfer(todo[t][1]), UNCHANGED bus, UNCHANGED faults, vm'.started = vm.started,
             Go(t) \/ \E ops : Ready(ops) /\ Replace(t, ops)
      PROVE  Sound'
  <2>1. switch' = switch /\ faults' = faults
    BY <1>6 DEF bus
  <2>2. PICK x : /\ todo' = [todo EXCEPT ![t] = x]
                 /\ x = Tail(todo[t]) \/ \E ops : Ready(ops) /\ x = ops \o Tail(todo[t])
    <3>1. CASE Go(t)
      BY <3>1 DEF Go
    <3>2. CASE \E ops : Ready(ops) /\ Replace(t, ops)
      <4>1. PICK ops : Ready(ops) /\ Replace(t, ops)
        BY <3>2
      <4>2. todo' = [todo EXCEPT ![t] = ops \o Tail(todo[t])]
        BY <4>1 DEF Replace
      <4> QED
        BY <4>1, <4>2
    <3> QED
      BY <1>6, <3>1, <3>2
  <2> QED
    BY <1>1, <1>2, <1>6, <2>1, <2>2, QuietIsSound
<1>7. \A f : [vm EXCEPT !.in_asic_reset = f].started = vm.started
  <2>1. vm \in VM
    BY DEF Inv, Types
  <2> QED
    BY <2>1 DEF VM
<1>8. CASE I2cTransfer(t)
  BY <1>2, <1>8, TransferIsSound
<1>9. CASE Start(t)
  BY <1>2, <1>9, StartIsSound
<1>10. CASE LockI2cMutex(t)
  <2>1. /\ todo[t][1][1] = "lock" /\ Replace(t, Body(todo[t][1][2], todo[t][1][3]))
        /\ UNCHANGED bus /\ UNCHANGED faults /\ vm' = vm
    BY <1>1, <1>10 DEF LockI2cMutex, At
  <2>2. Ready(Body(todo[t][1][2], todo[t][1][3])) /\ ~ IsTransfer(todo[t][1])
    BY <1>4, <2>1, BodyIsReady DEF IsTransfer
  <2> QED
    BY <1>6, <2>1, <2>2
<1>11. CASE Enable(t)
  <2>1. /\ todo[t][1][1] = "enable" /\ ~ IsTransfer(todo[t][1])
        /\ \E ops \in {dc2dc_enable_dc2dc(todo[t][1][2]), <<>>} : Replace(t, ops)
        /\ UNCHANGED bus /\ UNCHANGED faults /\ vm' = vm
    BY <1>1, <1>11 DEF Enable, At, IsTransfer
  <2>2. todo[t][1][2] \in Converters
    BY <1>4, <2>1, OpsAre
  <2>3. Ready(dc2dc_enable_dc2dc(todo[t][1][2])) /\ Ready(<<>>)
    BY <2>2, FunctionsAreReady
  <2> QED
    BY <1>6, <2>1, <2>3
<1>12. CASE Choose(t)
  <2>1. /\ ~ IsTransfer(todo[t][1]) /\ UNCHANGED bus /\ UNCHANGED faults /\ vm' = vm
        /\ Go(t) \/ Replace(t, Overload) \/ Replace(t, update_ac2dc_power_measurments)
    BY <1>1, <1>12 DEF Choose, At, IsTransfer
  <2> QED
    BY <1>6, <2>1, FunctionsAreReady
<1>13. CASE UnlockI2cMutex(t) \/ Present(t)
  <2>1. ~ IsTransfer(todo[t][1]) /\ UNCHANGED bus /\ UNCHANGED faults /\ vm' = vm /\ Go(t)
    BY <1>1, <1>13 DEF UnlockI2cMutex, Present, At, IsTransfer
  <2> QED
    BY <1>6, <2>1
<1>14. CASE MayExit(t)
  <2>1. ~ IsTransfer(todo[t][1]) /\ UNCHANGED bus /\ UNCHANGED faults /\ vm' = vm /\ Go(t)
    BY <1>1, <1>5, <1>14 DEF MayExit, At, IsTransfer
  <2> QED
    BY <1>6, <2>1
<1>15. CASE Restart(t) \/ Restarted(t)
  <2>1. /\ ~ IsTransfer(todo[t][1]) /\ UNCHANGED bus /\ UNCHANGED faults /\ Go(t)
        /\ \E f : vm' = [vm EXCEPT !.in_asic_reset = f]
    BY <1>1, <1>5, <1>15 DEF Restart, Restarted, At, IsTransfer
  <2>2. vm'.started = vm.started
    BY <1>7, <2>1
  <2> QED
    BY <1>6, <2>1, <2>2
<1>16. ~ (Sleep(t) \/ Enter(t) \/ StopAllWork(t) \/ Stopped(t) \/ Exiting(t) \/ UnlockAll(t)
            \/ Exit(t))
  BY <1>1, <1>4 DEF Sleep, Enter, StopAllWork, Stopped, Exiting, UnlockAll, Exit, At, ExitCalls
<1> QED
  BY <1>8, <1>9, <1>10, <1>11, <1>12, <1>13, <1>14, <1>15, <1>16 DEF Step

(* What the RT thread starts, with nothing before it.                      *)
LEMMA BeginsSound ==
  ASSUME Inv, Sound, vm.started, todo["rt"] = <<>>, NEW x, Ready(x),
         todo' = [todo EXCEPT !["rt"] = x], UNCHANGED <<bus, vm, faults>>
  PROVE  Sound'
<1>1. Actor = "rt" /\ Actor' = "rt" /\ "rt" \in Threads
  BY FreeIs DEF Actor
<1>2. todo'["rt"] = x /\ \A u \in Threads \ {"rt"} : todo'[u] = todo[u]
  BY <1>1 DEF Inv, Types
<1>3. faults = 0 => Clean(switch)
  BY <1>1 DEF Sound, OnBus
<1>4. Ordered(x) /\ Begun(x) /\ switch' = switch /\ faults' = faults
  BY DEF Ready, bus
<1>5. OnBus(x)'
  BY <1>3, <1>4 DEF OnBus, Begun
<1>6. Ordered(todo'[Actor']) /\ todo'[Actor'] = x
  BY <1>1, <1>2, <1>4
<1>7. \A u \in Threads : u # Actor' => todo'[u] = <<>>
  BY <1>1, <1>2 DEF Sound
<1> QED
  BY <1>5, <1>6, <1>7 DEF Sound

(* Failed transfers are counted.                                           *)
LEMMA FaultsGrow ==
  ASSUME Inv, [Next]_vars
  PROVE  faults \in Nat /\ (faults' = faults \/ faults' = faults + 1)
<1>1. faults \in Nat
  BY ExitAssumption DEF Inv, Types
<1>2. ASSUME NEW t \in Threads, Step(t)
      PROVE  faults' = faults \/ faults' = faults + 1
  <2>1. I2cTransfer(t) => faults' = faults \/ faults' = faults + 1
    BY DEF I2cTransfer
  <2> QED
    BY <1>2, <2>1 DEF Step, LockI2cMutex, UnlockI2cMutex, Present, Enable, Sleep, Start,
       MayExit, Choose, Restart, Restarted, Enter, StopAllWork, Stopped, Exiting, UnlockAll,
       Exit
<1>3. CASE RtTask \/ RtOut \/ Signal \/ SecondSignal \/ \E t \in Threads : ExitCalled(t)
  BY <1>1, <1>3 DEF RtTask, RtOut, Signal, SecondSignal, ExitCalled
<1>4. CASE UNCHANGED vars
  BY <1>1, <1>4 DEF vars
<1> QED
  BY <1>1, <1>2, <1>3, <1>4 DEF Next

(* A process that has ended does not come back.                            *)
LEMMA EndedStays ==
  ASSUME [Next]_vars, ended' = "no"
  PROVE  ended = "no"
<1>1. ASSUME NEW t \in Threads, Step(t)
      PROVE  ended = "no"
  BY <1>1 DEF Step, LockI2cMutex, UnlockI2cMutex, I2cTransfer, Present, Enable, Sleep, Start,
     MayExit, Choose, Restart, Restarted, Enter, StopAllWork, Stopped, Exiting, UnlockAll,
     Exit, At
<1>2. CASE RtTask \/ RtOut \/ Signal \/ SecondSignal \/ \E t \in Threads : ExitCalled(t)
  BY <1>2 DEF RtTask, RtOut, Signal, SecondSignal, ExitCalled
<1>3. CASE UNCHANGED vars
  BY <1>3 DEF vars
<1> QED
  BY <1>1, <1>2, <1>3 DEF Next

(* So every step does, as long as nothing exits.                           *)
LEMMA NextIsSound ==
  ASSUME Inv, BusInv, [Next]_vars
  PROVE  BusInv'
<1> SUFFICES ASSUME ended' = "no", faults' <= 1, NoExit'
             PROVE  Sound'
  BY DEF BusInv
<1>1. ended = "no" /\ NoExit
  BY EndedStays, NoExitBefore
<1>2. faults \in Nat /\ faults <= 1
  BY FaultsGrow
<1>3. Sound
  BY <1>1, <1>2 DEF BusInv
<1>4. Has(exit_nicely, "exit") /\ "main" \in Threads /\ "rt" \in Threads
  BY ExitIsProgram, FreeIs DEF Stages
<1>5. ASSUME NEW t \in Threads, todo' = [todo EXCEPT ![t] = exit_nicely]
      PROVE  Sound'
  <2>1. todo'[t] = exit_nicely
    BY <1>5 DEF Inv, Types
  <2> QED
    BY <1>4, <2>1 DEF NoExit
<1>6. CASE RtTask
  <2>1. vm.started /\ todo["rt"] = <<>> /\ UNCHANGED <<bus, vm, faults>>
    BY <1>6 DEF RtTask
  <2>2. present \subseteq Converters
    BY DEF Inv, Types
  <2>3. PICK x : /\ todo' = [todo EXCEPT !["rt"] = x]
                 /\ x \in {update_ac2dc_power_measurments, get_mng_board_temp, restart_asics_full}
                            \cup {get_board_temp(b) : b \in Boards}
                            \cup {update_dc2dc_stats_restart_if_error(d) : d \in present}
                            \cup {dc2dc_set_vtrim(d) : d \in present}
    BY <1>6 DEF RtTask
  <2>4. Ready(x)
    BY <2>2, <2>3, FunctionsAreReady, RestartIsReady
  <2> QED
    BY <1>3, <2>1, <2>3, <2>4, BeginsSound
<1>7. CASE RtOut
  <2>1. vm.started /\ todo["rt"] = <<>> /\ UNCHANGED <<bus, vm, faults>>
        /\ todo' = [todo EXCEPT !["rt"] = <<Call("out")>>]
    BY <1>7 DEF RtOut
  <2> QED
    BY <1>3, <2>1, FunctionsAreReady, BeginsSound
<1>8. CASE Signal
  BY <1>4, <1>5, <1>8 DEF Signal
<1>9. CASE SecondSignal
  BY <1>9 DEF SecondSignal, End
<1>10. ASSUME NEW t \in Threads, Step(t)
       PROVE  Sound'
  BY <1>3, <1>10, StepIsSound
<1>11. ASSUME NEW t \in Threads, ExitCalled(t)
       PROVE  Sound'
  BY <1>5, <1>11 DEF ExitCalled, CallExit
<1>12. CASE UNCHANGED vars
  <2>1. todo' = todo /\ switch' = switch /\ faults' = faults /\ vm' = vm
    BY <1>12 DEF vars, bus
  <2>2. Actor' = Actor
    BY <2>1 DEF Actor
  <2>3. PICK x : x = todo[Actor]
    OBVIOUS
  <2>4. OnBus(x)'
    BY <1>3, <2>1, <2>3, ReachedIs DEF Sound, OnBus
  <2>5. todo'[Actor'] = x
    BY <2>1, <2>2, <2>3
  <2>6. Ordered(todo'[Actor']) /\ \A u \in Threads : u # Actor' => todo'[u] = <<>>
    BY <1>3, <2>1, <2>2 DEF Sound
  <2> QED
    BY <2>4, <2>5, <2>6 DEF Sound
<1> QED
  BY <1>6, <1>7, <1>8, <1>9, <1>10, <1>11, <1>12 DEF Next

(* The main thread begins with the switches closed.                        *)
LEMMA InitIsSound ==
  ASSUME Init
  PROVE  BusInv
<1> DEFINE s == dc2dc_init \o <<Call("start")>>
<1>1. Ordered(s) /\ Begun(s)
  BY ProgramIsOrdered
<1> HIDE DEF s
<1>2. todo = [t \in Threads |-> IF t = "main" THEN s ELSE <<>>] /\ switch = Closed
      /\ ~ vm.started
  BY DEF Init, s, Fresh
<1>3. Actor = "main" /\ "main" \in Threads
  BY <1>2, FreeIs DEF Actor
<1>4. Clean(switch)
  BY <1>2 DEF Clean, Closed
<1>5. OnBus(s)
  BY <1>1, <1>4 DEF OnBus, Begun
<1>6. todo[Actor] = s /\ \A t \in Threads : t # Actor => todo[t] = <<>>
  BY <1>2, <1>3
<1> QED
  BY <1>1, <1>5, <1>6 DEF BusInv, Sound

(* As long as nothing exits, a failed transfer never makes an access reach *)
(* another converter than its own: AccessReachesItsConverter, for any      *)
(* converters and boards.                                                  *)
THEOREM AccessesItsConverter ==
  Spec => AccessReachesItsConverter
<1> DEFINE A == \A t \in Threads :
       /\ At(t, "access") /\ Head(todo[t])[2] \in ConverterAccess /\ todo'[t] # todo[t]
       /\ faults' <= 1 /\ \A u \in Threads : ~InExit(u)
       => Reached \subseteq {Head(todo[t])[3]}
<1>1. Init => BusInv
  BY InitIsSound
<1>2. Inv /\ BusInv /\ [Next]_vars => BusInv'
  BY NextIsSound
<1>3. Inv /\ BusInv /\ [Next]_vars => [A]_vars
  <2> SUFFICES ASSUME Inv, BusInv, [Next]_vars, NEW t \in Threads, At(t, "access"),
                      faults' <= 1, \A u \in Threads : ~InExit(u)
               PROVE  Reached \subseteq {Head(todo[t])[3]}
    OBVIOUS
  <2>1. ended = "no" /\ todo[t] # <<>> /\ Head(todo[t]) = todo[t][1] /\ todo[t][1][1] = "access"
    <3>1. ended = "no" /\ todo[t] # <<>> /\ Head(todo[t])[1] = "access"
      BY DEF At
    <3> QED
      BY <3>1, AtIs
  <2>2. faults \in Nat /\ faults <= 1
    BY FaultsGrow
  <2>3. NoExit
    BY SwitchingOffIs DEF NoExit, Inv, Types
  <2>4. t = Actor /\ OnBus(todo[t])
    BY <2>1, <2>2, <2>3 DEF BusInv, Sound
  <2> QED
    BY <2>1, <2>4 DEF OnBus, IsAccess
<1>4. Spec => []Inv
  BY SpecInv
<1> HIDE DEF A
<1>5. Spec => [][A]_vars
  BY <1>1, <1>2, <1>3, <1>4, PTL DEF Spec
<1> QED
  BY <1>5 DEF A, AccessReachesItsConverter
=============================================================================
