--------------------------- MODULE ScalingProofs ---------------------------
(***************************************************************************)
(* Proofs about voltages and frequencies, for any number of ASICs, boards  *)
(* and power supplies, any limits and whatever hardware answers.           *)
(***************************************************************************)
EXTENDS Scaling, FiniteSetTheorems, TLAPS

(* The types of a state whatever passert failed.                           *)
AsicShape ==
  [asic_present : BOOLEAN, vtrim : Int, freq_hw : Int, freq_bist_limit : Int, wanted : Int,
   cooling_down : BOOLEAN, bist_failed_called : BOOLEAN, revolted : BOOLEAN, hot : BOOLEAN,
   max_vtrim_currentwise : Int, max_vtrim_temperature : Int]

PsuShape ==
  [now : Readings \cup {0}, last : Readings \cup {0}, assumed : Nat, board_cooling_now : Nat]

Passerts ==
  {"vtrim below VTRIM_MIN", "vtrim above vtrim_max", "freq above ASIC_FREQ_MAX",
   "freq below ASIC_FREQ_MIN", "freq_bist_limit above ASIC_FREQ_MIN", "asic[-1]"}

Machines ==
  [asic : [Asics -> AsicShape], ac2dc : [Psus -> PsuShape],
   next_bist_countdown : 0 .. BIST_PERIOD_SECS_LONG, did_asic_reset : BOOLEAN,
   abort : Passerts \cup {"none"}]

(* The ASICs of a board that are cooling, and their count.                 *)
Cooling(v, p) == {a \in Asics : ASIC_TO_BOARD_ID(a) = p /\ v.asic[a].cooling_down}
Counted(v) == \A p \in Psus : v.ac2dc[p].board_cooling_now <= Cardinality(Cooling(v, p))

(* A state between two calls: in range as long as no passert failed, and   *)
(* no voltage was asked for that is too high.                              *)
Sound(v) ==
  /\ v \in Machines
  /\ v.abort = "none" => v.asic \in [Asics -> AsicType]
  /\ v.abort # "vtrim above vtrim_max"
  /\ Counted(v)

(* No frequency was asked for that is too high.                            *)
FreqsAsked(v) == v.abort # "freq above ASIC_FREQ_MAX"
-----------------------------------------------------------------------------
(* Max and Min of two numbers, and of three.                               *)
LEMMA MaxIs ==
  ASSUME NEW m \in Int, NEW n \in Int
  PROVE  Max({m, n}) = IF m >= n THEN m ELSE n
<1>1. \E x \in {m, n} : \A y \in {m, n} : x >= y
  OBVIOUS
<1> QED
  BY <1>1 DEF Max

(* Min of two numbers.                                                     *)
LEMMA MinIs ==
  ASSUME NEW m \in Int, NEW n \in Int
  PROVE  Min({m, n}) = IF m <= n THEN m ELSE n
<1>1. \E x \in {m, n} : \A y \in {m, n} : x <= y
  OBVIOUS
<1> QED
  BY <1>1 DEF Min

(* Max of three, as of the last readings of a power supply.                *)
LEMMA MaxOfThree ==
  ASSUME NEW k \in Nat, NEW m \in Nat, NEW n \in Nat
  PROVE  Max({k, m, n}) \in Nat
<1>1. \E x \in {k, m, n} : \A y \in {k, m, n} : x >= y
  OBVIOUS
<1> QED
  BY <1>1 DEF Max

(* Every ASIC has a power supply and a board.                              *)
LEMMA PsuOf ==
  /\ \A a \in Asics : PSU_ID(a) \in Psus /\ ASIC_TO_BOARD_ID(a) \in Psus
  /\ \A p \in Psus : p \in 0 .. ASICS_COUNT - 1
<1>1. \A a \in Asics : PSU_ID(a) \in Psus /\ ASIC_TO_BOARD_ID(a) \in Psus
  BY ScalingAssumption DEF Psus
<1>2. ASSUME NEW a \in Asics
      PROVE  a \div ASICS_PER_PSU \in 0 .. a
  BY ScalingAssumption DEF Asics
<1> QED
  BY <1>1, <1>2, ScalingAssumption DEF Psus, PSU_ID, Asics

(* Frequencies come in steps of 5 MHz.                                     *)
LEMMA FreqSteps ==
  /\ ASIC_FREQ_MIN \in Freqs /\ ASIC_FREQ_MAX \in Freqs /\ FREQ_AFTER_DISABLE \in Freqs
  /\ \A f, g \in Freqs : f < g => f + 5 <= g
  /\ \A f \in Freqs : /\ f \in Int /\ (f + 5) % 5 = 0 /\ (f + 10) % 5 = 0
                      /\ (f - 10) % 5 = 0 /\ (f + 20) % 5 = 0
  /\ (ASIC_FREQ_MIN - 5) % 5 = 0 /\ (ASIC_FREQ_MIN + 15) % 5 = 0
  BY ScalingAssumption DEF Freqs
-----------------------------------------------------------------------------
(* The boards' counts of cooling ASICs.                                    *)
LEMMA CoolingFinite ==
  ASSUME NEW v, NEW p
  PROVE  IsFiniteSet(Cooling(v, p)) /\ Cardinality(Cooling(v, p)) \in Nat
<1>1. IsFiniteSet(Asics)
  BY ScalingAssumption, FS_Interval, SMTT(30) DEF Asics
<1>2. Cooling(v, p) \in SUBSET Asics
  BY DEF Cooling
<1> QED
  BY <1>1, <1>2, FS_Subset, FS_CardinalityType

(* Where the same ASICs are cooling and the counts are the same, the       *)
(* counts are still right.                                                 *)
LEMMA SameCount ==
  ASSUME NEW v, NEW w, Counted(v),
         \A a \in Asics : w.asic[a].cooling_down = v.asic[a].cooling_down,
         \A p \in Psus : w.ac2dc[p].board_cooling_now = v.ac2dc[p].board_cooling_now
  PROVE  Counted(w)
<1>1. \A p \in Psus : Cooling(w, p) = Cooling(v, p)
  BY DEF Cooling
<1> QED
  BY <1>1 DEF Counted

(* What a function that only acts on ASICs leaves alone.                   *)
OnlyAsics(w, v) ==
  /\ w \in Machines /\ w.ac2dc = v.ac2dc
  /\ w.next_bist_countdown = v.next_bist_countdown
  /\ w.did_asic_reset = v.did_asic_reset

(* An ASIC with another voltage or frequency.                              *)
LEMMA AsicOK ==
  ASSUME NEW d \in AsicShape, NEW n \in Int
  PROVE  /\ [d EXCEPT !.vtrim = n] \in AsicShape
         /\ [d EXCEPT !.freq_hw = n] \in AsicShape
  BY DEF AsicShape

(* Only the voltages of A are other, or one of them is out of range.       *)
VtrimsSetOf(w, v, A, V) ==
  /\ OnlyAsics(w, v)
  /\ w.asic
       = [a \in Asics |-> IF a \in A THEN [v.asic[a] EXCEPT !.vtrim = V[a]]
                          ELSE v.asic[a]]
  /\ \/ v.abort # "none" /\ w.abort = v.abort
     \/ v.abort = "none" /\ w.abort = "vtrim below VTRIM_MIN"
     \/ /\ v.abort = "none" /\ w.abort = "vtrim above vtrim_max"
        /\ \E a \in A : V[a] > vtrim_max
     \/ /\ w.abort = v.abort
        /\ \A a \in A : V[a] \in VTRIM_MIN .. vtrim_max

(* Each passert() of dc2dc_set_vtrim() looks at every new voltage.         *)
LEMMA VtrimsSetIs ==
  ASSUME NEW v \in Machines, NEW A \in SUBSET Asics, NEW V \in [Asics -> Int]
  PROVE  VtrimsSetOf(dc2dc_set_vtrim(v, A, V), v, A, V)
<1> DEFINE S == {a \in A : V[a] < VTRIM_MIN}
           T == {a \in A : V[a] > vtrim_max}
           D == [a \in Asics |-> IF a \in A THEN [v.asic[a] EXCEPT !.vtrim = V[a]]
                                 ELSE v.asic[a]]
           p == Passert(v, S, "vtrim below VTRIM_MIN")
           q == Passert(p, T, "vtrim above vtrim_max")
           r == [q EXCEPT !.asic = D]
<1>1. v.asic \in [Asics -> AsicShape]
  BY DEF Machines
<1>2. D \in [Asics -> AsicShape]
  <2>1. ASSUME NEW a \in Asics
        PROVE  [v.asic[a] EXCEPT !.vtrim = V[a]] \in AsicShape
    BY <1>1, AsicOK
  <2> QED
    BY <1>1, <2>1
<1>3. (S = {} /\ T = {}) => \A a \in A : V[a] \in VTRIM_MIN .. vtrim_max
  BY ScalingAssumption
<1>4. T # {} => \E a \in A : V[a] > vtrim_max
  OBVIOUS
<1> DEFINE G == [a \in Asics |-> [v.asic[a] EXCEPT !.vtrim = V[a]]]
           u == dc2dc_set_vtrim(v, A, V)
<1>5. /\ u = Updated(q, A, G)
      /\ \A a \in Asics : D[a] = IF a \in A THEN G[a] ELSE v.asic[a]
  BY DEF dc2dc_set_vtrim
<1> HIDE DEF S, T, D, G, u
<1>6. p \in Machines /\ OnlyAsics(p, v) /\ p.asic = v.asic
      /\ p.abort = IF S = {} \/ v.abort # "none" THEN v.abort ELSE "vtrim below VTRIM_MIN"
  BY DEF Passert, Machines, OnlyAsics, Passerts
<1> HIDE DEF p
<1>7. q \in Machines /\ OnlyAsics(q, v) /\ q.asic = v.asic
      /\ q.abort = IF T = {} \/ p.abort # "none" THEN p.abort ELSE "vtrim above vtrim_max"
  BY <1>6 DEF Passert, Machines, OnlyAsics, Passerts
<1> HIDE DEF q
<1>8. OnlyAsics(r, v) /\ r.asic = D /\ r.abort = q.abort
  BY <1>2, <1>7 DEF Machines, OnlyAsics
<1>10. u = r
  <2>1. u = [q EXCEPT !.asic = [a \in Asics |-> IF a \in A THEN G[a] ELSE q.asic[a]]]
    BY <1>5 DEF Updated
  <2>2. D = [a \in Asics |-> IF a \in A THEN G[a] ELSE v.asic[a]]
    BY <1>2, <1>5
  <2> QED
    BY <1>7, <2>1, <2>2
<1> HIDE DEF r
<1>9. D = [a \in Asics |-> IF a \in A THEN [v.asic[a] EXCEPT !.vtrim = V[a]]
                           ELSE v.asic[a]]
  BY DEF D
<1> QED
  BY <1>3, <1>4, <1>6, <1>7, <1>8, <1>9, <1>10 DEF VtrimsSetOf, u

(* Only the frequencies of A are other, or one of them is out of range.    *)
FreqsSetOf(w, v, A, V) ==
  /\ OnlyAsics(w, v)
  /\ w.asic
       = [a \in Asics |-> IF a \in A THEN [v.asic[a] EXCEPT !.freq_hw = V[a]]
                          ELSE v.asic[a]]
  /\ \/ v.abort # "none" /\ w.abort = v.abort
     \/ v.abort = "none" /\ w.abort = "freq below ASIC_FREQ_MIN"
     \/ /\ v.abort = "none" /\ w.abort = "freq above ASIC_FREQ_MAX"
        /\ \E a \in A : V[a] > ASIC_FREQ_MAX
     \/ /\ w.abort = v.abort
        /\ \A a \in A : V[a] \in ASIC_FREQ_MIN .. ASIC_FREQ_MAX

(* Each passert() of set_pll() looks at every new frequency.               *)
LEMMA FreqsSetIs ==
  ASSUME NEW v \in Machines, NEW A \in SUBSET Asics, NEW V \in [Asics -> Int]
  PROVE  FreqsSetOf(set_pll(v, A, V), v, A, V)
<1> DEFINE S == {a \in A : V[a] > ASIC_FREQ_MAX}
           T == {a \in A : V[a] < ASIC_FREQ_MIN}
           D == [a \in Asics |-> IF a \in A THEN [v.asic[a] EXCEPT !.freq_hw = V[a]]
                                 ELSE v.asic[a]]
           p == Passert(v, S, "freq above ASIC_FREQ_MAX")
           q == Passert(p, T, "freq below ASIC_FREQ_MIN")
           r == [q EXCEPT !.asic = D]
<1>1. v.asic \in [Asics -> AsicShape]
  BY DEF Machines
<1>2. D \in [Asics -> AsicShape]
  <2>1. ASSUME NEW a \in Asics
        PROVE  [v.asic[a] EXCEPT !.freq_hw = V[a]] \in AsicShape
    BY <1>1, AsicOK
  <2> QED
    BY <1>1, <2>1
<1>3. (S = {} /\ T = {}) => \A a \in A : V[a] \in ASIC_FREQ_MIN .. ASIC_FREQ_MAX
  BY ScalingAssumption
<1>4. S # {} => \E a \in A : V[a] > ASIC_FREQ_MAX
  OBVIOUS
<1> DEFINE G == [a \in Asics |-> [v.asic[a] EXCEPT !.freq_hw = V[a]]]
           u == set_pll(v, A, V)
<1>5. /\ u = Updated(q, A, G)
      /\ \A a \in Asics : D[a] = IF a \in A THEN G[a] ELSE v.asic[a]
  BY DEF set_pll
<1> HIDE DEF S, T, D, G, u
<1>6. p \in Machines /\ OnlyAsics(p, v) /\ p.asic = v.asic
      /\ p.abort = IF S = {} \/ v.abort # "none" THEN v.abort ELSE "freq above ASIC_FREQ_MAX"
  BY DEF Passert, Machines, OnlyAsics, Passerts
<1> HIDE DEF p
<1>7. q \in Machines /\ OnlyAsics(q, v) /\ q.asic = v.asic
      /\ q.abort = IF T = {} \/ p.abort # "none" THEN p.abort ELSE "freq below ASIC_FREQ_MIN"
  BY <1>6 DEF Passert, Machines, OnlyAsics, Passerts
<1> HIDE DEF q
<1>8. OnlyAsics(r, v) /\ r.asic = D /\ r.abort = q.abort
  BY <1>2, <1>7 DEF Machines, OnlyAsics
<1>10. u = r
  <2>1. u = [q EXCEPT !.asic = [a \in Asics |-> IF a \in A THEN G[a] ELSE q.asic[a]]]
    BY <1>5 DEF Updated
  <2>2. D = [a \in Asics |-> IF a \in A THEN G[a] ELSE v.asic[a]]
    BY <1>2, <1>5
  <2> QED
    BY <1>7, <2>1, <2>2
<1> HIDE DEF r
<1>9. D = [a \in Asics |-> IF a \in A THEN [v.asic[a] EXCEPT !.freq_hw = V[a]]
                           ELSE v.asic[a]]
  BY DEF D
<1> QED
  BY <1>3, <1>4, <1>6, <1>7, <1>8, <1>9, <1>10 DEF FreqsSetOf, u

(* The ASICs of A have lower voltages, or one of them left its range.       *)
Lowered(w, v, A, clicks) ==
  /\ OnlyAsics(w, v)
  /\ w.asic = [a \in Asics |->
       IF a \in A THEN [v.asic[a] EXCEPT !.vtrim = @ - clicks, !.revolted = TRUE]
       ELSE v.asic[a]]
  /\ \/ v.abort # "none" /\ w.abort = v.abort
     \/ v.abort = "none" /\ w.abort = "vtrim below VTRIM_MIN"
     \/ /\ v.abort = "none" /\ w.abort = "vtrim above vtrim_max"
        /\ \E a \in A : v.asic[a].vtrim - clicks > vtrim_max
     \/ w.abort = v.abort /\ \A a \in A : v.asic[a].vtrim - clicks \in Vtrims

(* dc2dc_down() lowers voltages, unless one would leave its range.         *)
LEMMA DownIs ==
  ASSUME NEW v \in Machines, NEW A \in SUBSET Asics, NEW clicks \in Nat
  PROVE  Lowered(dc2dc_down(v, A, clicks), v, A, clicks)
<1> DEFINE w == dc2dc_down(v, A, clicks)
<1>0. w = dc2dc_down(v, A, clicks)
  OBVIOUS
<1> HIDE DEF w
<1> DEFINE V == [a \in Asics |-> v.asic[a].vtrim - clicks]
           r == dc2dc_set_vtrim(v, A, V)
           E == [a \in Asics |->
                   IF a \in A THEN [v.asic[a] EXCEPT !.vtrim = @ - clicks, !.revolted = TRUE]
                   ELSE v.asic[a]]
           x == [r EXCEPT !.asic = E]
<1>1. v.asic \in [Asics -> AsicShape]
  BY DEF Machines
<1>2. V \in [Asics -> Int]
  BY <1>1 DEF AsicShape
<1>3. E \in [Asics -> AsicShape]
  <2>1. ASSUME NEW a \in Asics
        PROVE  [v.asic[a] EXCEPT !.vtrim = @ - clicks, !.revolted = TRUE] \in AsicShape
    <3>1. v.asic[a] \in AsicShape /\ v.asic[a].vtrim - clicks \in Int
      BY <1>1, <1>2
    <3> QED
      BY <3>1 DEF AsicShape
  <2> QED
    BY <1>1, <2>1
<1>4. /\ OnlyAsics(r, v)
      /\ r.asic = [a \in Asics |-> IF a \in A THEN [v.asic[a] EXCEPT !.vtrim = V[a]]
                                  ELSE v.asic[a]]
      /\ \/ v.abort # "none" /\ r.abort = v.abort
         \/ v.abort = "none" /\ r.abort = "vtrim below VTRIM_MIN"
         \/ /\ v.abort = "none" /\ r.abort = "vtrim above vtrim_max"
            /\ \E a \in A : V[a] > vtrim_max
         \/ r.abort = v.abort /\ \A a \in A : V[a] \in VTRIM_MIN .. vtrim_max
  <2> HIDE DEF V, r
  <2>1. VtrimsSetOf(r, v, A, V)
    BY <1>2, VtrimsSetIs DEF r
  <2> QED
    BY <2>1 DEF VtrimsSetOf
<1>5. w = x
  <2> DEFINE G == [a \in Asics |-> [r.asic[a] EXCEPT !.revolted = TRUE]]
  <2>1. w = Updated(r, A, G)
    BY <1>0 DEF dc2dc_down
  <2>2. w = [r EXCEPT !.asic = [a \in Asics |-> IF a \in A THEN [r.asic[a] EXCEPT !.revolted = TRUE]
                                                ELSE r.asic[a]]]
    BY <2>1 DEF Updated
  <2> HIDE DEF r
  <2> QED
    BY <1>4, <2>2
<1>6. \A a \in A : V[a] = v.asic[a].vtrim - clicks
  OBVIOUS
<1>7. E = [a \in Asics |->
             IF a \in A THEN [v.asic[a] EXCEPT !.vtrim = @ - clicks, !.revolted = TRUE]
             ELSE v.asic[a]]
  OBVIOUS
<1> HIDE DEF V, r, E
<1>8. OnlyAsics(x, v) /\ x.asic = E /\ x.abort = r.abort
  BY <1>3, <1>4 DEF Machines, OnlyAsics
<1> HIDE DEF x
<1> QED
  BY <1>0, <1>4, <1>5, <1>6, <1>7, <1>8 DEF Vtrims, Lowered

(* No power is taken to be drawn over the limit that was not before.       *)
LimitKept(w, v) ==
  \A p \in Psus : w.ac2dc[p].assumed > v.ac2dc[p].assumed
                  => w.ac2dc[p].assumed <= ac2dc_power_limit

Keeps(w, v) == Sound(w) /\ LimitKept(w, v) /\ (FreqsAsked(v) => FreqsAsked(w))

(* Two calls, one after the other.                                         *)
LEMMA KeepsTwice ==
  ASSUME NEW u \in Machines, NEW v, NEW w, Keeps(v, u), Keeps(w, v)
  PROVE  Keeps(w, u)
<1>1. v \in Machines /\ w \in Machines
  BY DEF Keeps, Sound
<1>2. \A p \in Psus : /\ u.ac2dc[p].assumed \in Nat /\ v.ac2dc[p].assumed \in Nat
                      /\ w.ac2dc[p].assumed \in Nat
  BY <1>1 DEF Machines, PsuShape
<1> QED
  BY <1>2, ScalingAssumption DEF Keeps, LimitKept

(* A state in which only what is kept of the ASICs is new, or only what is *)
(* kept of the power supplies, or the time of the next BIST.               *)
WithAsics(v, D) == [v EXCEPT !.asic = D]
WithPsus(v, P) == [v EXCEPT !.ac2dc = P]
WithCountdown(v, n) == [v EXCEPT !.next_bist_countdown = n]

(* New entries of the ASICs, in range, of which the same are cooling.      *)
LEMMA NewAsics ==
  ASSUME NEW v, Sound(v), NEW D \in [Asics -> AsicShape],
         v.abort = "none" => D \in [Asics -> AsicType],
         \A a \in Asics : D[a].cooling_down = v.asic[a].cooling_down
  PROVE  LET w == WithAsics(v, D)
         IN  Keeps(w, v) /\ w.asic = D /\ w.abort = v.abort /\ w.ac2dc = v.ac2dc
<1> DEFINE w == WithAsics(v, D)
<1>1. w \in Machines /\ w.asic = D /\ w.abort = v.abort /\ w.ac2dc = v.ac2dc
  BY DEF Sound, Machines, WithAsics
<1> HIDE DEF w
<1>2. Counted(w)
  BY <1>1, SameCount DEF Sound
<1>3. \A p \in Psus : ~(w.ac2dc[p].assumed > v.ac2dc[p].assumed)
  BY <1>1 DEF Machines, PsuShape
<1>4. Sound(w)
  BY <1>1, <1>2 DEF Sound
<1>5. LimitKept(w, v) /\ (FreqsAsked(v) => FreqsAsked(w))
  BY <1>1, <1>3 DEF LimitKept, FreqsAsked
<1>6. Keeps(w, v)
  BY <1>4, <1>5 DEF Keeps
<1> QED
  BY <1>1, <1>6 DEF w

(* New entries of the power supplies, with counts that are not ahead.      *)
LEMMA NewPsus ==
  ASSUME NEW v, Sound(v), NEW P \in [Psus -> PsuShape],
         \A p \in Psus : P[p].board_cooling_now <= Cardinality(Cooling(v, p))
  PROVE  LET w == WithPsus(v, P)
         IN  /\ Sound(w) /\ w.ac2dc = P /\ w.abort = v.abort /\ w.asic = v.asic
             /\ (FreqsAsked(v) => FreqsAsked(w))
<1> DEFINE w == WithPsus(v, P)
<1>1. w \in Machines /\ w.asic = v.asic /\ w.abort = v.abort /\ w.ac2dc = P
  BY DEF Sound, Machines, WithPsus
<1> HIDE DEF w
<1>2. \A p \in Psus : Cooling(w, p) = Cooling(v, p)
  BY <1>1 DEF Cooling
<1>3. Counted(w)
  BY <1>1, <1>2 DEF Counted
<1>4. Sound(w) /\ (FreqsAsked(v) => FreqsAsked(w))
  BY <1>1, <1>3 DEF Sound, FreqsAsked
<1> QED
  BY <1>1, <1>4 DEF w

(* Another time of the next BIST.                                          *)
LEMMA NewCountdown ==
  ASSUME NEW v, Sound(v), NEW n \in 0 .. BIST_PERIOD_SECS_LONG
  PROVE  LET w == WithCountdown(v, n)
         IN  /\ Keeps(w, v) /\ w.asic = v.asic /\ w.ac2dc = v.ac2dc /\ w.abort = v.abort
             /\ w.next_bist_countdown = n
<1> DEFINE w == WithCountdown(v, n)
<1>1. /\ w \in Machines /\ w.asic = v.asic /\ w.abort = v.abort /\ w.ac2dc = v.ac2dc
      /\ w.next_bist_countdown = n
  BY DEF Sound, Machines, WithCountdown
<1> HIDE DEF w
<1>2. Counted(w)
  BY <1>1, SameCount DEF Sound
<1>3. \A p \in Psus : ~(w.ac2dc[p].assumed > v.ac2dc[p].assumed)
  BY <1>1 DEF Machines, PsuShape
<1>4. Sound(w)
  BY <1>1, <1>2 DEF Sound
<1>5. LimitKept(w, v) /\ (FreqsAsked(v) => FreqsAsked(w))
  BY <1>1, <1>3 DEF LimitKept, FreqsAsked
<1>6. Keeps(w, v)
  BY <1>4, <1>5 DEF Keeps
<1> QED
  BY <1>1, <1>6 DEF w

(* Lower voltages are in range, or a passert stops the process.            *)
LEMMA DownKeeps ==
  ASSUME NEW v, Sound(v), NEW A \in SUBSET Asics, NEW clicks \in Nat
  PROVE  Keeps(dc2dc_down(v, A, clicks), v)
<1> DEFINE w == dc2dc_down(v, A, clicks)
<1>1. v \in Machines
  BY DEF Sound
<1>2. Lowered(w, v, A, clicks)
  BY <1>1, DownIs
<1> HIDE DEF w
<1>3. ASSUME v.abort = "none", NEW a \in A
      PROVE  ~(v.asic[a].vtrim - clicks > vtrim_max)
  BY <1>3, ScalingAssumption DEF Sound, AsicType, Vtrims
<1>4. ASSUME w.abort = "none"
      PROVE  w.asic \in [Asics -> AsicType]
  <2>1. v.asic \in [Asics -> AsicType] /\ \A a \in A : v.asic[a].vtrim - clicks \in Vtrims
    BY <1>2, <1>4 DEF Sound, Lowered
  <2>2. ASSUME NEW a \in A
        PROVE  [v.asic[a] EXCEPT !.vtrim = @ - clicks, !.revolted = TRUE] \in AsicType
    BY <2>1, ZenonT(40) DEF AsicType
  <2> QED
    BY <1>2, <2>1, <2>2, ZenonT(40) DEF Lowered
<1>5. \A a \in Asics : w.asic[a].cooling_down = v.asic[a].cooling_down
  BY <1>1, <1>2, ZenonT(40) DEF Machines, AsicShape, Lowered
<1>6. w.ac2dc = v.ac2dc /\ w \in Machines
  BY <1>2 DEF OnlyAsics, Lowered
<1>7. Counted(w)
  BY <1>5, <1>6, SameCount DEF Sound
<1>8. w.abort # "vtrim above vtrim_max" /\ (FreqsAsked(v) => FreqsAsked(w))
  BY <1>2, <1>3 DEF Sound, FreqsAsked, Lowered
<1>9. Sound(w)
  BY <1>4, <1>6, <1>7, <1>8 DEF Sound
<1>10. LimitKept(w, v)
  BY <1>6 DEF LimitKept, Machines, PsuShape
<1> QED
  BY <1>8, <1>9, <1>10 DEF Keeps, w

(* update_dc2dc_stats(): the warned ASICs get their voltage as a maximum.  *)
LEMMA WarningKeeps ==
  ASSUME NEW v, Sound(v), NEW A \in SUBSET Asics
  PROVE  Keeps(overcurrent_warning(v, A), v)
<1> DEFINE d == dc2dc_down(v, A, 2)
           D == [a \in Asics |->
                   IF a \in A THEN [d.asic[a] EXCEPT !.max_vtrim_currentwise = d.asic[a].vtrim]
                   ELSE d.asic[a]]
           x == WithAsics(d, D)
           n == IF A = {} THEN d.next_bist_countdown ELSE Min({1, d.next_bist_countdown})
<1>1. Keeps(d, v)
  BY DownKeeps
<1>2. overcurrent_warning(v, A) = WithCountdown(x, n)
  <2> HIDE DEF d
  <2>1. d \in Machines
    BY <1>1 DEF Keeps, Sound
  <2>2. overcurrent_warning(v, A)
          = [Updated(d, A, [a \in Asics |->
                              [d.asic[a] EXCEPT !.max_vtrim_currentwise = d.asic[a].vtrim]])
               EXCEPT !.next_bist_countdown = IF A = {} THEN @ ELSE Min({1, @})]
    BY DEF overcurrent_warning, d
  <2>3. Updated(d, A, [a \in Asics |->
                        [d.asic[a] EXCEPT !.max_vtrim_currentwise = d.asic[a].vtrim]]) = x
    BY DEF Updated, WithAsics
  <2>4. x.next_bist_countdown = d.next_bist_countdown
    BY <2>1 DEF WithAsics, Machines
  <2> HIDE DEF x
  <2> QED
    BY <2>2, <2>3, <2>4 DEF WithCountdown
<1> HIDE DEF d
<1>3. d \in Machines /\ d.asic \in [Asics -> AsicShape] /\ Sound(d)
  BY <1>1 DEF Keeps, Sound, Machines
<1>4. D \in [Asics -> AsicShape]
  BY <1>3 DEF AsicShape
<1>5. d.abort = "none" => D \in [Asics -> AsicType]
  <2>1. ASSUME d.abort = "none", NEW a \in Asics
        PROVE  [d.asic[a] EXCEPT !.max_vtrim_currentwise = d.asic[a].vtrim] \in AsicType
    <3>1. d.asic[a] \in AsicType
      BY <1>3, <2>1 DEF Sound
    <3>2. d.asic[a].vtrim \in VTRIM_MIN .. VTRIM_MAX
      BY <3>1, ScalingAssumption DEF AsicType, Vtrims
    <3> QED
      BY <3>1, <3>2 DEF AsicType
  <2> QED
    BY <1>3, <2>1 DEF Sound
<1>6. \A a \in Asics : D[a].cooling_down = d.asic[a].cooling_down
  BY <1>3 DEF AsicShape
<1>7. n \in 0 .. BIST_PERIOD_SECS_LONG
  <2>1. d.next_bist_countdown \in 0 .. BIST_PERIOD_SECS_LONG
    BY <1>3 DEF Machines
  <2> QED
    BY <2>1, MinIs, ScalingAssumption
<1> HIDE DEF D
<1>8. Keeps(x, d)
  BY <1>3, <1>4, <1>5, <1>6, NewAsics
<1> HIDE DEF x, n
<1>9. Keeps(WithCountdown(x, n), x)
  BY <1>7, <1>8, NewCountdown DEF Keeps
<1>10. v \in Machines
  BY DEF Sound
<1>11. Keeps(x, v)
  BY <1>1, <1>8, <1>10, KeepsTwice
<1> QED
  BY <1>2, <1>9, <1>10, <1>11, KeepsTwice

(* New frequencies are in range, or a passert stops the process.           *)
LEMMA FreqsKeep ==
  ASSUME NEW v, Sound(v), NEW A \in SUBSET Asics, NEW V \in [Asics -> Int],
         v.abort = "none" => \A a \in A : V[a] % 5 = 0
  PROVE  LET w == set_pll(v, A, V) IN
         /\ Sound(w) /\ w.ac2dc = v.ac2dc
         /\ \A a \in Asics : w.asic[a].cooling_down = v.asic[a].cooling_down
         /\ (v.abort = "none" => \A a \in A : V[a] <= ASIC_FREQ_MAX) => Keeps(w, v)
<1> DEFINE w == set_pll(v, A, V)
<1>1. v \in Machines
  BY DEF Sound
<1>2. FreqsSetOf(w, v, A, V)
  BY <1>1, FreqsSetIs
<1> HIDE DEF w
<1>3. ASSUME w.abort = "none"
      PROVE  w.asic \in [Asics -> AsicType]
  <2>1. v.asic \in [Asics -> AsicType] /\ \A a \in A : V[a] \in Freqs
    BY <1>2, <1>3 DEF Sound, FreqsSetOf, Freqs
  <2>2. ASSUME NEW a \in A
        PROVE  [v.asic[a] EXCEPT !.freq_hw = V[a]] \in AsicType
    BY <2>1 DEF AsicType
  <2>3. w.asic = [a \in Asics |-> IF a \in A THEN [v.asic[a] EXCEPT !.freq_hw = V[a]]
                                  ELSE v.asic[a]]
    BY <1>2 DEF FreqsSetOf
  <2> QED
    BY <2>1, <2>2, <2>3
<1>4. \A a \in Asics : w.asic[a].cooling_down = v.asic[a].cooling_down
  BY <1>1, <1>2 DEF Machines, AsicShape, FreqsSetOf
<1>5. w.ac2dc = v.ac2dc /\ w \in Machines
  BY <1>2 DEF OnlyAsics, FreqsSetOf
<1>6. Counted(w)
  BY <1>4, <1>5, SameCount DEF Sound
<1>7. w.abort # "vtrim above vtrim_max"
  BY <1>2 DEF Sound, FreqsSetOf
<1>8. Sound(w)
  BY <1>3, <1>5, <1>6, <1>7 DEF Sound
<1>9. LimitKept(w, v)
  BY <1>5 DEF LimitKept, Machines, PsuShape
<1>10. ASSUME v.abort = "none" => \A a \in A : V[a] <= ASIC_FREQ_MAX
       PROVE  FreqsAsked(v) => FreqsAsked(w)
  <2>1. ASSUME v.abort = "none", NEW a \in A
        PROVE  ~(V[a] > ASIC_FREQ_MAX)
    BY <1>10, <2>1, ScalingAssumption
  <2> QED
    BY <1>2, <2>1 DEF FreqsSetOf, FreqsAsked
<1> QED
  BY <1>4, <1>5, <1>8, <1>9, <1>10 DEF Keeps, w

(* set_plls_to_wanted(): what was wanted is a frequency in range.          *)
LEMMA WantedKeeps ==
  ASSUME NEW v, Sound(v)
  PROVE  Keeps(set_plls_to_wanted(v), v)
<1> DEFINE A == {a \in Asics : v.asic[a].asic_present /\ v.asic[a].wanted # 0}
           V == [a \in Asics |-> v.asic[a].wanted]
           s == set_pll(v, A, V)
           D == [a \in Asics |-> [s.asic[a] EXCEPT !.wanted = 0]]
<1>1. v \in Machines /\ v.asic \in [Asics -> AsicShape]
  BY DEF Sound, Machines
<1>2. V \in [Asics -> Int] /\ A \in SUBSET Asics
  BY <1>1 DEF AsicShape
<1>3. ASSUME v.abort = "none", NEW a \in A
      PROVE  V[a] % 5 = 0 /\ V[a] <= ASIC_FREQ_MAX
  <2>1. v.asic[a].wanted \in Freqs \cup {ASIC_FREQ_MIN - 5}
    BY <1>3 DEF Sound, AsicType
  <2> QED
    BY <2>1, ScalingAssumption, FreqSteps DEF Freqs
<1>4. set_plls_to_wanted(v) = WithAsics(s, D)
  <2> DEFINE T == Updated(s, Asics, [a \in Asics |-> [s.asic[a] EXCEPT !.wanted = 0]])
  <2>2. set_plls_to_wanted(v) = T
    BY DEF set_plls_to_wanted
  <2> HIDE DEF s
  <2>3. T = WithAsics(s, D)
    BY DEF Updated, WithAsics
  <2> QED
    BY <2>2, <2>3
<1> HIDE DEF A, V
<1>5. Keeps(s, v)
  BY <1>2, <1>3, FreqsKeep
<1> HIDE DEF s
<1>6. s.asic \in [Asics -> AsicShape] /\ Sound(s)
  BY <1>5 DEF Keeps, Sound, Machines
<1>7. D \in [Asics -> AsicShape]
  BY <1>6 DEF AsicShape
<1>8. s.abort = "none" => D \in [Asics -> AsicType]
  BY <1>6, ZenonT(40) DEF Sound, AsicType
<1>9. \A a \in Asics : D[a].cooling_down = s.asic[a].cooling_down
  BY <1>6 DEF AsicShape
<1> HIDE DEF D
<1>10. Keeps(WithAsics(s, D), s)
  BY <1>6, <1>7, <1>8, <1>9, NewAsics
<1> QED
  BY <1>1, <1>4, <1>5, <1>10, KeepsTwice

(* on_failed_bist() of the ASICs of F, then the lower frequencies.         *)
LEMMA FailAllKeeps ==
  ASSUME NEW v, Sound(v), NEW F \in SUBSET Asics
  PROVE  Keeps(FailAll(v, F), v)
<1> DEFINE B == {a \in F : /\ v.asic[a].freq_hw > ASIC_FREQ_MIN
                          /\ v.asic[a].freq_bist_limit <= ASIC_FREQ_MIN}
           p == Passert(v, B, "freq_bist_limit above ASIC_FREQ_MIN")
           D == [a \in Asics |-> IF a \in F THEN on_failed_bist(v.asic[a]) ELSE v.asic[a]]
<1>1. v \in Machines /\ v.asic \in [Asics -> AsicShape]
  BY DEF Sound, Machines
<1>2. /\ p \in Machines /\ p.asic = v.asic /\ p.ac2dc = v.ac2dc
      /\ p.abort = v.abort \/ p.abort = "freq_bist_limit above ASIC_FREQ_MIN"
      /\ p.abort = "none" => v.abort = "none"
  <2> HIDE DEF B
  <2> QED
    BY <1>1 DEF Passert, Machines, Passerts
<1>3. FailAll(v, F) = WithAsics(p, D)
  <2>1. FailAll(v, F) = Updated(p, F, [a \in Asics |-> on_failed_bist(v.asic[a])])
    BY DEF FailAll
  <2> HIDE DEF p
  <2> QED
    BY <1>2, <2>1 DEF Updated, WithAsics
<1> HIDE DEF p
<1>4. Counted(p)
  BY <1>2, SameCount DEF Sound
<1>5. Sound(p) /\ (FreqsAsked(v) => FreqsAsked(p))
  BY <1>2, <1>4 DEF Sound, FreqsAsked
<1>6. LimitKept(p, v)
  <2>1. \A q \in Psus : ~(v.ac2dc[q].assumed > v.ac2dc[q].assumed)
    BY <1>1 DEF Machines, PsuShape
  <2> QED
    BY <1>2, <2>1 DEF LimitKept
<1>7. Keeps(p, v)
  BY <1>5, <1>6 DEF Keeps
<1>8. D \in [Asics -> AsicShape]
  <2>1. ASSUME NEW a \in Asics
        PROVE  on_failed_bist(v.asic[a]) \in AsicShape
    <3>1. v.asic[a] \in AsicShape /\ v.asic[a].freq_hw - 10 \in Int /\ FREQ_AFTER_DISABLE \in Int
      BY <1>1, ScalingAssumption DEF AsicShape
    <3> QED
      BY <3>1 DEF AsicShape, on_failed_bist
  <2> QED
    BY <1>1, <2>1
<1>9. ASSUME p.abort = "none"
      PROVE  D \in [Asics -> AsicType]
  <2>1. ASSUME NEW a \in Asics
        PROVE  on_failed_bist(v.asic[a]) \in AsicType
    <3>1. v.asic[a] \in AsicType
      BY <1>2, <1>9 DEF Sound
    <3>2. FREQ_AFTER_DISABLE \in Freqs
      BY FreqSteps
    <3>3. ASSUME v.asic[a].freq_hw > ASIC_FREQ_MIN
          PROVE  v.asic[a].freq_hw - 10 \in Freqs \cup {ASIC_FREQ_MIN - 5}
      <4>1. v.asic[a].freq_hw \in Freqs
        BY <3>1 DEF AsicType
      <4>2. /\ v.asic[a].freq_hw \in Int /\ (v.asic[a].freq_hw - 10) % 5 = 0
            /\ v.asic[a].freq_hw >= ASIC_FREQ_MIN + 5
        BY <3>3, <4>1, FreqSteps, ScalingAssumption
      <4> QED
        BY <4>1, <4>2, ScalingAssumption DEF Freqs
    <3> QED
      BY <3>1, <3>2, <3>3 DEF AsicType, on_failed_bist
  <2>2. v.asic \in [Asics -> AsicType]
    BY <1>2, <1>9 DEF Sound
  <2> QED
    BY <2>1, <2>2
<1>10. \A a \in Asics : D[a].cooling_down = p.asic[a].cooling_down
  BY <1>1, <1>2 DEF AsicShape, on_failed_bist
<1> HIDE DEF D
<1>11. Keeps(WithAsics(p, D), p)
  BY <1>5, <1>8, <1>9, <1>10, NewAsics
<1> QED
  BY <1>1, <1>3, <1>7, <1>11, KeepsTwice

(* do_bist_ok().                                                           *)
LEMMA BistKeeps ==
  ASSUME NEW v, Sound(v), NEW F \in SUBSET Asics
  PROVE  Keeps(do_bist_ok(v, F), v)
<1>1. v \in Machines /\ Keeps(FailAll(v, F), v)
  BY FailAllKeeps DEF Sound
<1>2. Keeps(do_bist_ok(v, F), FailAll(v, F))
  BY <1>1, WantedKeeps DEF do_bist_ok, Keeps
<1> QED
  BY <1>1, <1>2, KeepsTwice

(* disable_asic_forever_rt(): the boards' counts are less by as many as    *)
(* were cooling.                                                           *)
LEMMA DisableKeeps ==
  ASSUME NEW v, Sound(v), NEW D \in SUBSET Asics
  PROVE  Keeps(disable_asic_forever(v, D), v)
<1> DEFINE Y(p) == {a \in D : v.asic[a].cooling_down /\ ASIC_TO_BOARD_ID(a) = p}
           n(p) == v.ac2dc[p].board_cooling_now
           E == [a \in Asics |-> IF a \in D
                   THEN [v.asic[a] EXCEPT !.asic_present = FALSE, !.cooling_down = FALSE]
                   ELSE v.asic[a]]
           P == [p \in Psus |-> [v.ac2dc[p] EXCEPT !.board_cooling_now =
                   Max({0, @ - Cardinality(Y(p))})]]
           w == disable_asic_forever(v, D)
<1>1. v \in Machines /\ v.asic \in [Asics -> AsicShape] /\ v.ac2dc \in [Psus -> PsuShape]
  BY DEF Sound, Machines
<1>2. ASSUME NEW p \in Psus
      PROVE  /\ Max({0, n(p) - Cardinality(Y(p))}) \in Nat
             /\ Max({0, n(p) - Cardinality(Y(p))}) <= Cardinality(Cooling(v, p) \ Y(p))
  <2>1. IsFiniteSet(Cooling(v, p)) /\ Cardinality(Cooling(v, p)) \in Nat
    BY CoolingFinite
  <2>2. Y(p) \in SUBSET Cooling(v, p)
    BY DEF Cooling
  <2>3. n(p) \in Nat /\ n(p) <= Cardinality(Cooling(v, p))
    BY <1>1 DEF Sound, Counted, PsuShape
  <2> HIDE DEF Y, n
  <2>4. IsFiniteSet(Y(p)) /\ Cardinality(Y(p)) <= Cardinality(Cooling(v, p))
    BY <2>1, <2>2, FS_Subset
  <2>5. Cardinality(Y(p)) \in Nat
    BY <2>4, FS_CardinalityType
  <2>6. Cooling(v, p) \cap Y(p) = Y(p)
    BY <2>2
  <2>7. Cardinality(Cooling(v, p) \ Y(p)) = Cardinality(Cooling(v, p)) - Cardinality(Y(p))
    BY <2>1, <2>6, FS_Difference
  <2>8. n(p) - Cardinality(Y(p)) \in Int
    BY <2>3, <2>5
  <2>9. Max({0, n(p) - Cardinality(Y(p))})
          = IF 0 >= n(p) - Cardinality(Y(p)) THEN 0 ELSE n(p) - Cardinality(Y(p))
    BY <2>8, MaxIs
  <2> QED
    BY <2>1, <2>3, <2>4, <2>5, <2>7, <2>9
<1>3. P \in [Psus -> PsuShape]
  <2>1. ASSUME NEW p \in Psus
        PROVE  [v.ac2dc[p] EXCEPT !.board_cooling_now = Max({0, @ - Cardinality(Y(p))})]
                 \in PsuShape
    <3> HIDE DEF Y
    <3> QED
      BY <1>1, <1>2 DEF PsuShape
  <2> QED
    BY <2>1
<1>4. \A p \in Psus : /\ P[p].assumed = v.ac2dc[p].assumed
                      /\ P[p].board_cooling_now = Max({0, n(p) - Cardinality(Y(p))})
  <2> HIDE DEF Y
  <2> QED
    BY <1>1 DEF PsuShape
<1>5. E \in [Asics -> AsicShape]
  <2>1. ASSUME NEW a \in Asics
        PROVE  [v.asic[a] EXCEPT !.asic_present = FALSE, !.cooling_down = FALSE] \in AsicShape
    BY <1>1, ZenonT(40) DEF AsicShape
  <2> QED
    BY <1>1, <2>1
<1>6. ASSUME v.abort = "none"
      PROVE  E \in [Asics -> AsicType]
  <2>1. v.asic \in [Asics -> AsicType]
    BY <1>6 DEF Sound
  <2>2. ASSUME NEW a \in Asics
        PROVE  [v.asic[a] EXCEPT !.asic_present = FALSE, !.cooling_down = FALSE] \in AsicType
    BY <2>1, ZenonT(40) DEF AsicType
  <2> QED
    BY <2>1, <2>2
<1>7. \A a \in Asics : E[a].cooling_down = (a \notin D /\ v.asic[a].cooling_down)
  BY <1>1 DEF AsicShape
<1>8. w = [v EXCEPT !.asic = E, !.ac2dc = P]
  BY DEF disable_asic_forever
<1> HIDE DEF E, P
<1>9. w \in Machines /\ w.asic = E /\ w.ac2dc = P /\ w.abort = v.abort
  <2> HIDE DEF w
  <2> QED
    BY <1>1, <1>3, <1>5, <1>8 DEF Machines
<1> HIDE DEF w
<1>10. ASSUME NEW p \in Psus
       PROVE  Cooling(w, p) = Cooling(v, p) \ Y(p)
  BY <1>7, <1>9 DEF Cooling
<1>11. Counted(w)
  <2> HIDE DEF Y, n
  <2> QED
    BY <1>2, <1>4, <1>9, <1>10 DEF Counted
<1>12. Sound(w) /\ (FreqsAsked(v) => FreqsAsked(w))
  BY <1>6, <1>9, <1>11 DEF Sound, FreqsAsked
<1>13. LimitKept(w, v)
  <2>1. \A q \in Psus : ~(v.ac2dc[q].assumed > v.ac2dc[q].assumed)
    BY <1>1 DEF PsuShape
  <2> QED
    BY <1>4, <1>9, <2>1 DEF LimitKept
<1> QED
  BY <1>12, <1>13 DEF Keeps, w

(* One ASIC begins to cool, or ends it, and its board's count with it.     *)
Cooler(v, a) == [v EXCEPT !.asic[a].cooling_down = TRUE,
                          !.ac2dc[ASIC_TO_BOARD_ID(a)].board_cooling_now = @ + 1]
Cooled(v, a) == [v EXCEPT !.asic[a].cooling_down = FALSE,
                          !.ac2dc[ASIC_TO_BOARD_ID(a)].board_cooling_now = Max({@ - 1, 0})]

(* An ASIC that was not cooling makes one more.                            *)
LEMMA CoolerKeeps ==
  ASSUME NEW v, Sound(v), NEW a \in Asics, ~v.asic[a].cooling_down
  PROVE  Keeps(Cooler(v, a), v)
<1> DEFINE b == ASIC_TO_BOARD_ID(a)
           c == [v.asic[a] EXCEPT !.cooling_down = TRUE]
           s == [v.ac2dc[b] EXCEPT !.board_cooling_now = @ + 1]
           E == [v.asic EXCEPT ![a] = c]
           P == [v.ac2dc EXCEPT ![b] = s]
           w == Cooler(v, a)
<1>1. v \in Machines /\ v.asic \in [Asics -> AsicShape] /\ v.ac2dc \in [Psus -> PsuShape]
  BY DEF Sound, Machines
<1>2. b \in Psus
  BY PsuOf
<1>3. /\ v.ac2dc[b] \in PsuShape /\ v.ac2dc[b].board_cooling_now \in Nat
      /\ v.ac2dc[b].board_cooling_now + 1 \in Nat
  BY <1>1, <1>2 DEF PsuShape
<1>4. /\ s \in PsuShape /\ s.assumed = v.ac2dc[b].assumed
      /\ s.board_cooling_now = v.ac2dc[b].board_cooling_now + 1
  BY <1>3 DEF PsuShape
<1>5. c \in AsicShape /\ c.cooling_down /\ (v.abort = "none" => c \in AsicType)
  BY <1>1, ZenonT(40) DEF Sound, AsicShape, AsicType
<1>6. w = [v EXCEPT !.asic = E, !.ac2dc = P]
  BY DEF Cooler
<1> HIDE DEF b, c, s
<1>7. /\ E \in [Asics -> AsicShape] /\ (v.abort = "none" => E \in [Asics -> AsicType])
      /\ P \in [Psus -> PsuShape]
  BY <1>1, <1>2, <1>4, <1>5 DEF Sound
<1>8. E[a] = c /\ P[b] = s
      /\ (\A d \in Asics \ {a} : E[d] = v.asic[d]) /\ (\A p \in Psus \ {b} : P[p] = v.ac2dc[p])
  BY <1>1, <1>2
<1> HIDE DEF E, P
<1>9. w \in Machines /\ w.asic = E /\ w.ac2dc = P /\ w.abort = v.abort
  <2> HIDE DEF w
  <2> QED
    BY <1>1, <1>6, <1>7 DEF Machines
<1> HIDE DEF w
<1>10. Cooling(w, b) = Cooling(v, b) \cup {a} /\ a \notin Cooling(v, b)
  BY <1>5, <1>8, <1>9 DEF Cooling, b
<1>11. \A p \in Psus \ {b} : Cooling(w, p) = Cooling(v, p)
  BY <1>8, <1>9 DEF Cooling, b
<1>12. Cardinality(Cooling(w, b)) = Cardinality(Cooling(v, b)) + 1
  BY <1>10, CoolingFinite, FS_AddElement
<1>13. v.ac2dc[b].board_cooling_now + 1 <= Cardinality(Cooling(v, b)) + 1
  <2>1. v.ac2dc[b].board_cooling_now <= Cardinality(Cooling(v, b))
    BY <1>2 DEF Sound, Counted
  <2>2. Cardinality(Cooling(v, b)) \in Nat
    BY CoolingFinite
  <2> QED
    BY <1>3, <2>1, <2>2
<1>14. Counted(w)
  BY <1>4, <1>8, <1>9, <1>11, <1>12, <1>13 DEF Counted, Sound
<1>15. Sound(w) /\ (FreqsAsked(v) => FreqsAsked(w))
  BY <1>7, <1>9, <1>14 DEF Sound, FreqsAsked
<1>16. LimitKept(w, v)
  <2>1. \A q \in Psus : ~(v.ac2dc[q].assumed > v.ac2dc[q].assumed)
    BY <1>1 DEF PsuShape
  <2> QED
    BY <1>4, <1>8, <1>9, <2>1 DEF LimitKept
<1> QED
  BY <1>15, <1>16 DEF Keeps, w

(* An ASIC that was cooling makes one less, also where its board counts    *)
(* none.                                                                   *)
LEMMA CooledKeeps ==
  ASSUME NEW v, Sound(v), NEW a \in Asics, v.asic[a].cooling_down
  PROVE  Keeps(Cooled(v, a), v)
<1> DEFINE b == ASIC_TO_BOARD_ID(a)
           c == [v.asic[a] EXCEPT !.cooling_down = FALSE]
           s == [v.ac2dc[b] EXCEPT !.board_cooling_now = Max({@ - 1, 0})]
           E == [v.asic EXCEPT ![a] = c]
           P == [v.ac2dc EXCEPT ![b] = s]
           w == Cooled(v, a)
<1>1. v \in Machines /\ v.asic \in [Asics -> AsicShape] /\ v.ac2dc \in [Psus -> PsuShape]
  BY DEF Sound, Machines
<1>2. b \in Psus
  BY PsuOf
<1>3. /\ v.ac2dc[b] \in PsuShape /\ v.ac2dc[b].board_cooling_now \in Nat
      /\ Max({v.ac2dc[b].board_cooling_now - 1, 0}) \in Nat
      /\ \/ Max({v.ac2dc[b].board_cooling_now - 1, 0}) = 0
         \/ Max({v.ac2dc[b].board_cooling_now - 1, 0}) = v.ac2dc[b].board_cooling_now - 1
  <2>1. v.ac2dc[b] \in PsuShape /\ v.ac2dc[b].board_cooling_now \in Nat
    BY <1>1, <1>2 DEF PsuShape
  <2>2. v.ac2dc[b].board_cooling_now - 1 \in Int
    BY <2>1
  <2> QED
    BY <2>1, <2>2, MaxIs
<1>4. /\ s \in PsuShape /\ s.assumed = v.ac2dc[b].assumed
      /\ s.board_cooling_now = Max({v.ac2dc[b].board_cooling_now - 1, 0})
  BY <1>3 DEF PsuShape
<1>5. c \in AsicShape /\ ~c.cooling_down /\ (v.abort = "none" => c \in AsicType)
  BY <1>1 DEF Sound, AsicShape, AsicType
<1>6. w = [v EXCEPT !.asic = E, !.ac2dc = P]
  BY DEF Cooled
<1> HIDE DEF b, c, s
<1>7. /\ E \in [Asics -> AsicShape] /\ (v.abort = "none" => E \in [Asics -> AsicType])
      /\ P \in [Psus -> PsuShape]
  BY <1>1, <1>2, <1>4, <1>5 DEF Sound
<1>8. E[a] = c /\ P[b] = s
      /\ (\A d \in Asics \ {a} : E[d] = v.asic[d]) /\ (\A p \in Psus \ {b} : P[p] = v.ac2dc[p])
  BY <1>1, <1>2
<1> HIDE DEF E, P
<1>9. w \in Machines /\ w.asic = E /\ w.ac2dc = P /\ w.abort = v.abort
  <2> HIDE DEF w
  <2> QED
    BY <1>1, <1>6, <1>7 DEF Machines
<1> HIDE DEF w
<1>10. Cooling(w, b) = Cooling(v, b) \ {a} /\ a \in Cooling(v, b)
  BY <1>5, <1>8, <1>9 DEF Cooling, b
<1>11. \A p \in Psus \ {b} : Cooling(w, p) = Cooling(v, p)
  BY <1>8, <1>9 DEF Cooling, b
<1>12. Cardinality(Cooling(w, b)) = Cardinality(Cooling(v, b)) - 1
  BY <1>10, CoolingFinite, FS_RemoveElement
<1>13. Max({v.ac2dc[b].board_cooling_now - 1, 0}) <= Cardinality(Cooling(w, b))
  <2>1. v.ac2dc[b].board_cooling_now <= Cardinality(Cooling(v, b))
    BY <1>2 DEF Sound, Counted
  <2>2. Cardinality(Cooling(v, b)) \in Nat /\ Cardinality(Cooling(w, b)) \in Nat
    BY CoolingFinite
  <2> QED
    BY <1>3, <1>12, <2>1, <2>2
<1>14. Counted(w)
  BY <1>4, <1>8, <1>9, <1>11, <1>13 DEF Counted, Sound
<1>15. Sound(w) /\ (FreqsAsked(v) => FreqsAsked(w))
  BY <1>7, <1>9, <1>14 DEF Sound, FreqsAsked
<1>16. LimitKept(w, v)
  <2>1. \A q \in Psus : ~(v.ac2dc[q].assumed > v.ac2dc[q].assumed)
    BY <1>1 DEF PsuShape
  <2> QED
    BY <1>4, <1>8, <1>9, <2>1 DEF LimitKept
<1> QED
  BY <1>15, <1>16 DEF Keeps, w

(* More power is assumed, within the limit.                                *)
AssumeMore(v, q, n) == [v EXCEPT !.ac2dc[q].assumed = @ + n]

(* More may be assumed up to the limit; nothing more may always be.        *)
LEMMA AssumeKeeps ==
  ASSUME NEW v, Sound(v), NEW q \in Psus, NEW n \in Nat,
         n > 0 => v.ac2dc[q].assumed + n <= ac2dc_power_limit
  PROVE  LET w == AssumeMore(v, q, n)
         IN  Keeps(w, v) /\ w.asic = v.asic /\ w.abort = v.abort
<1> DEFINE s == [v.ac2dc[q] EXCEPT !.assumed = @ + n]
           P == [v.ac2dc EXCEPT ![q] = s]
           w == AssumeMore(v, q, n)
<1>1. v \in Machines /\ v.ac2dc \in [Psus -> PsuShape] /\ v.ac2dc[q] \in PsuShape
  BY DEF Sound, Machines
<1>2. v.ac2dc[q].assumed \in Nat /\ v.ac2dc[q].assumed + n \in Nat
  BY <1>1 DEF PsuShape
<1>3. /\ s \in PsuShape /\ s.assumed = v.ac2dc[q].assumed + n
      /\ s.board_cooling_now = v.ac2dc[q].board_cooling_now
  BY <1>1, <1>2 DEF PsuShape
<1>4. w = WithPsus(v, P)
  BY DEF AssumeMore, WithPsus
<1> HIDE DEF s
<1>5. P \in [Psus -> PsuShape] /\ P[q] = s /\ \A p \in Psus \ {q} : P[p] = v.ac2dc[p]
  BY <1>1, <1>3
<1> HIDE DEF P
<1>6. \A p \in Psus : P[p].board_cooling_now <= Cardinality(Cooling(v, p))
  BY <1>3, <1>5 DEF Sound, Counted
<1> HIDE DEF w
<1>7. /\ Sound(w) /\ w.ac2dc = P /\ w.abort = v.abort /\ w.asic = v.asic
      /\ (FreqsAsked(v) => FreqsAsked(w))
  BY <1>4, <1>5, <1>6, NewPsus
<1>8. LimitKept(w, v)
  <2>1. \A p \in Psus : ~(v.ac2dc[p].assumed > v.ac2dc[p].assumed)
    BY <1>1 DEF PsuShape
  <2>2. s.assumed > v.ac2dc[q].assumed => s.assumed <= ac2dc_power_limit
    BY <1>2, <1>3
  <2> QED
    BY <1>5, <1>7, <2>1, <2>2 DEF LimitKept
<1> QED
  BY <1>7, <1>8 DEF Keeps, w

(* asic_up_freq_max_request(): never more than the head-room.              *)
LEMMA MaxRequestKeeps ==
  ASSUME NEW v, Sound(v), NEW a \in Asics
  PROVE  Keeps(asic_up_freq_max_request(v, a), v)
<1> DEFINE q == PSU_ID(a)
           wanted == v.asic[a].freq_bist_limit
           wanted_hz == wanted - v.asic[a].freq_hw
           allowed_hz == Headroom(v, a) * 3
           full == wanted_hz <= allowed_hz
           hz == IF full THEN wanted_hz ELSE Truncated(allowed_hz, 5) * 5
           cooled == IF full /\ v.asic[a].cooling_down THEN Cooled(v, a) ELSE v
           x == AssumeMore(cooled, q, hz \div 3)
           E == [x.asic EXCEPT ![a] = [x.asic[a] EXCEPT !.wanted = wanted]]
           w == asic_up_freq_max_request(v, a)
<1>1. v \in Machines /\ v.asic[a] \in AsicShape /\ q \in Psus /\ v.ac2dc[q].assumed \in Nat
  BY PsuOf DEF Sound, Machines, PsuShape
<1>2. Keeps(v, v)
  BY <1>1 DEF Keeps, LimitKept, Machines, PsuShape
<1>3. Keeps(cooled, v)
  BY <1>2, CooledKeeps
<1>4. cooled.ac2dc[q].assumed = v.ac2dc[q].assumed
  <2>1. Cooled(v, a).ac2dc[q].assumed = v.ac2dc[q].assumed
    BY <1>1, PsuOf DEF Cooled, Machines, PsuShape
  <2> QED
    BY <2>1
<1>5. w = IF hz < 0 THEN cooled ELSE WithAsics(x, E)
  BY DEF asic_up_freq_max_request, Cooled, AssumeMore, WithAsics
<1>6. cooled.abort = v.abort
  <2>1. Cooled(v, a).abort = v.abort
    BY <1>1 DEF Cooled, Machines
  <2> QED
    BY <2>1
<1> HIDE DEF cooled
<1>7. CASE hz < 0
  BY <1>3, <1>5, <1>7
<1>8. CASE ~(hz < 0)
  <2>1. /\ wanted_hz \in Int /\ wanted \in Int /\ ac2dc_power_limit \in Int
        /\ v.ac2dc[q].assumed \in Int
    BY <1>1, ScalingAssumption DEF AsicShape
  <2>2. /\ hz \div 3 \in Nat
        /\ hz \div 3 > 0 => v.ac2dc[q].assumed + hz \div 3 <= ac2dc_power_limit
    <3> DEFINE m == ac2dc_power_limit - v.ac2dc[q].assumed
    <3>1. m \in Int /\ allowed_hz = m * 3
      BY <2>1 DEF Headroom
    <3>2. Truncated(m * 3, 5) * 5 \in Int
          /\ (Truncated(m * 3, 5) * 5 <= m * 3 \/ Truncated(m * 3, 5) * 5 < 0
              \/ (Truncated(m * 3, 5) * 5 = 0 /\ m < 0))
      BY <3>1 DEF Truncated
    <3>3. hz \in Nat /\ (hz <= m * 3 \/ (hz = 0 /\ m < 0))
      BY <1>8, <2>1, <3>1, <3>2
    <3> HIDE DEF m, hz
    <3>4. hz \div 3 \in Nat /\ (hz \div 3 > 0 => hz \div 3 <= m)
      BY <3>1, <3>3
    <3> QED
      BY <2>1, <3>4 DEF m
  <2> HIDE DEF hz, q, wanted
  <2>3. Keeps(x, cooled) /\ x.abort = v.abort
    BY <1>1, <1>3, <1>4, <1>6, <2>2, AssumeKeeps DEF Keeps
  <2> HIDE DEF x
  <2>4. Sound(x) /\ x.asic \in [Asics -> AsicShape] /\ x.asic[a] \in AsicShape
    BY <2>3 DEF Keeps, Sound, Machines
  <2>5. /\ E \in [Asics -> AsicShape]
        /\ \A d \in Asics : E[d].cooling_down = x.asic[d].cooling_down
    <3>1. [x.asic[a] EXCEPT !.wanted = wanted] \in AsicShape
          /\ [x.asic[a] EXCEPT !.wanted = wanted].cooling_down = x.asic[a].cooling_down
      BY <2>1, <2>4 DEF AsicShape
    <3> QED
      BY <2>4, <3>1
  <2>6. ASSUME x.abort = "none"
        PROVE  E \in [Asics -> AsicType]
    <3>1. x.asic \in [Asics -> AsicType] /\ v.asic[a] \in AsicType
      BY <2>3, <2>4, <2>6 DEF Sound
    <3>2. [x.asic[a] EXCEPT !.wanted = wanted] \in AsicType
      BY <3>1 DEF AsicType, wanted
    <3> QED
      BY <3>1, <3>2
  <2> HIDE DEF E
  <2>7. Keeps(WithAsics(x, E), x)
    BY <2>4, <2>5, <2>6, NewAsics
  <2>8. Keeps(WithAsics(x, E), cooled)
    BY <1>3, <2>3, <2>7, KeepsTwice DEF Keeps, Sound
  <2> QED
    BY <1>1, <1>3, <1>5, <1>8, <2>8, KeepsTwice
<1> QED
  BY <1>7, <1>8 DEF w

(* asic_up_freq(): five MHz, one watt.                                     *)
LEMMA UpFreqKeeps ==
  ASSUME NEW v, Sound(v), NEW a \in Asics,
         v.asic[a].freq_hw < ASIC_FREQ_MAX, Headroom(v, a) > 2
  PROVE  Keeps(asic_up_freq(v, a), v)
<1> DEFINE V == [d \in Asics |-> v.asic[d].freq_hw + 5]
           s == set_pll(v, {a}, V)
<1>1. /\ v \in Machines /\ v.asic \in [Asics -> AsicShape] /\ PSU_ID(a) \in Psus
      /\ v.ac2dc[PSU_ID(a)].assumed \in Nat
  BY PsuOf DEF Sound, Machines, PsuShape
<1>2. V \in [Asics -> Int]
  BY <1>1 DEF AsicShape
<1>3. ASSUME v.abort = "none"
      PROVE  V[a] % 5 = 0 /\ V[a] <= ASIC_FREQ_MAX
  <2>1. v.asic[a].freq_hw \in Freqs
    BY <1>3 DEF Sound, AsicType
  <2> QED
    BY <2>1, FreqSteps, ScalingAssumption
<1>4. asic_up_freq(v, a) = AssumeMore(s, PSU_ID(a), 1)
  <2>1. asic_up_freq(v, a) = [s EXCEPT !.ac2dc[PSU_ID(a)].assumed = @ + 1]
    BY DEF asic_up_freq
  <2> HIDE DEF s
  <2> QED
    BY <2>1 DEF AssumeMore
<1> HIDE DEF V
<1>5. Keeps(s, v) /\ s.ac2dc = v.ac2dc
  BY <1>2, <1>3, FreqsKeep
<1> HIDE DEF s
<1>6. v.ac2dc[PSU_ID(a)].assumed + 1 <= ac2dc_power_limit
  BY <1>1, ScalingAssumption DEF Headroom
<1>7. Keeps(AssumeMore(s, PSU_ID(a), 1), s)
  BY <1>1, <1>5, <1>6, AssumeKeeps DEF Keeps
<1> QED
  BY <1>1, <1>4, <1>5, <1>7, KeepsTwice

(* New voltages are in range, or a passert stops the process.              *)
LEMMA VtrimsKeep ==
  ASSUME NEW v, Sound(v), NEW A \in SUBSET Asics, NEW V \in [Asics -> Int],
         v.abort = "none" => \A a \in A : V[a] <= vtrim_max
  PROVE  Keeps(dc2dc_set_vtrim(v, A, V), v)
<1> DEFINE s == dc2dc_set_vtrim(v, A, V)
<1>1. v \in Machines /\ v.asic \in [Asics -> AsicShape]
  BY DEF Sound, Machines
<1>2. VtrimsSetOf(s, v, A, V)
  BY <1>1, VtrimsSetIs
<1> HIDE DEF s
<1>3. ASSUME v.abort = "none", NEW a \in A
      PROVE  ~(V[a] > vtrim_max)
  BY <1>3, ScalingAssumption
<1>4. /\ s \in Machines /\ s.ac2dc = v.ac2dc
      /\ s.asic = [a \in Asics |-> IF a \in A THEN [v.asic[a] EXCEPT !.vtrim = V[a]]
                                  ELSE v.asic[a]]
      /\ s.abort # "vtrim above vtrim_max" /\ (FreqsAsked(v) => FreqsAsked(s))
      /\ s.abort = "none" => v.abort = "none" /\ \A a \in A : V[a] \in Vtrims
  BY <1>2, <1>3 DEF VtrimsSetOf, OnlyAsics, FreqsAsked, Vtrims, Sound
<1>5. ASSUME s.abort = "none"
      PROVE  s.asic \in [Asics -> AsicType]
  <2>1. v.asic \in [Asics -> AsicType] /\ \A a \in A : V[a] \in Vtrims
    BY <1>4, <1>5 DEF Sound
  <2>2. ASSUME NEW a \in A
        PROVE  [v.asic[a] EXCEPT !.vtrim = V[a]] \in AsicType
    BY <2>1 DEF AsicType
  <2> QED
    BY <1>4, <2>1, <2>2, ZenonT(40)
<1>6. \A a \in Asics : s.asic[a].cooling_down = v.asic[a].cooling_down
  <2>1. ASSUME NEW a \in Asics
        PROVE  [v.asic[a] EXCEPT !.vtrim = V[a]].cooling_down = v.asic[a].cooling_down
    BY <1>1 DEF AsicShape
  <2> QED
    BY <1>4, <2>1
<1>7. Counted(s)
  BY <1>4, <1>6, SameCount DEF Sound
<1>8. Sound(s)
  BY <1>4, <1>5, <1>7 DEF Sound
<1>9. \A q \in Psus : ~(v.ac2dc[q].assumed > v.ac2dc[q].assumed)
  BY <1>1 DEF Machines, PsuShape
<1> QED
  BY <1>4, <1>8, <1>9 DEF Keeps, LimitKept, s

(* dc2dc_up(): one click, a higher limit, and perhaps its frequency.       *)
LEMMA UpKeeps ==
  ASSUME NEW v, Sound(v), NEW a \in Asics, NEW warm, dc2dc_can_up(v, a, warm)
  PROVE  Keeps(dc2dc_up(v, a, warm), v)
<1> DEFINE V == [d \in Asics |-> v.asic[d].vtrim + 1]
           s == dc2dc_set_vtrim(v, {a}, V)
           limit == Min({s.asic[a].freq_bist_limit + 20, ASIC_FREQ_MAX})
           c == [s.asic[a] EXCEPT !.revolted = TRUE, !.freq_bist_limit = limit]
           E == [s.asic EXCEPT ![a] = c]
           u == WithAsics(s, E)
<1>1. v \in Machines /\ v.asic \in [Asics -> AsicShape] /\ v.asic[a].vtrim \in Int
  BY DEF Sound, Machines, AsicShape
<1>2. V \in [Asics -> Int]
  BY <1>1 DEF AsicShape
<1>3. V[a] <= vtrim_max
  BY <1>1, ScalingAssumption DEF dc2dc_can_up
<1>4. dc2dc_set_vtrim(v, {a}, [b \in Asics |-> v.asic[b].vtrim + 1]) = s
  OBVIOUS
<1> HIDE DEF V
<1>5. Keeps(s, v) /\ Sound(s)
  BY <1>2, <1>3, VtrimsKeep, ScalingAssumption DEF Keeps
<1> HIDE DEF s
<1>6. ASSUME s.abort = "none"
      PROVE  s.asic \in [Asics -> AsicType]
  BY <1>6, <1>5 DEF Sound
<1>7. s.asic \in [Asics -> AsicShape] /\ s.asic[a] \in AsicShape
  BY <1>5 DEF Sound, Machines
<1>8. limit \in Int /\ (s.abort = "none" => limit \in Freqs)
  <2>1. s.asic[a].freq_bist_limit \in Int /\ s.asic[a].freq_bist_limit + 20 \in Int
    BY <1>7 DEF AsicShape
  <2>2. limit = IF s.asic[a].freq_bist_limit + 20 <= ASIC_FREQ_MAX
                THEN s.asic[a].freq_bist_limit + 20 ELSE ASIC_FREQ_MAX
    BY <2>1, MinIs, ScalingAssumption
  <2>3. ASSUME s.abort = "none"
        PROVE  /\ (s.asic[a].freq_bist_limit + 20) % 5 = 0
               /\ s.asic[a].freq_bist_limit + 20 >= ASIC_FREQ_MIN
    <3>1. s.asic[a].freq_bist_limit \in Freqs \cup {ASIC_FREQ_MIN - 5}
      BY <1>6, <2>3 DEF AsicType
    <3> QED
      BY <3>1, ScalingAssumption, FreqSteps DEF Freqs
  <2>4. ASIC_FREQ_MAX \in Freqs
    BY FreqSteps
  <2> HIDE DEF limit
  <2> QED
    BY <2>1, <2>2, <2>3, <2>4, ScalingAssumption DEF Freqs
<1>9. u = [s EXCEPT !.asic[a].revolted = TRUE,
                     !.asic[a].freq_bist_limit = Min({@ + 20, ASIC_FREQ_MAX})]
  BY <1>5, <1>7 DEF WithAsics, Machines, Sound, AsicShape
<1>10. dc2dc_up(v, a, warm) = IF ~u.asic[a].cooling_down /\ asic_can_up_freq(u, a, warm)
                              THEN asic_up_freq_max_request(u, a) ELSE u
  <2> HIDE DEF u, s
  <2> DEFINE T == [dc2dc_set_vtrim(v, {a}, [b \in Asics |-> v.asic[b].vtrim + 1]) EXCEPT
                     !.asic[a].revolted = TRUE,
                     !.asic[a].freq_bist_limit = Min({@ + 20, ASIC_FREQ_MAX})]
  <2>1. dc2dc_up(v, a, warm) = IF ~T.asic[a].cooling_down /\ asic_can_up_freq(T, a, warm)
                               THEN asic_up_freq_max_request(T, a) ELSE T
    BY DEF dc2dc_up
  <2>2. T = u
    BY <1>4, <1>9
  <2> HIDE DEF T
  <2> QED
    BY <2>1, <2>2
<1> HIDE DEF limit
<1>11. /\ c \in AsicShape /\ c.cooling_down = s.asic[a].cooling_down
       /\ (s.abort = "none" => c \in AsicType)
  BY <1>6, <1>7, <1>8 DEF AsicShape, AsicType
<1> HIDE DEF c
<1>12. /\ E \in [Asics -> AsicShape] /\ (s.abort = "none" => E \in [Asics -> AsicType])
       /\ \A d \in Asics : E[d].cooling_down = s.asic[d].cooling_down
  BY <1>6, <1>7, <1>11
<1> HIDE DEF E
<1>13. Keeps(u, s)
  BY <1>5, <1>12, NewAsics
<1> HIDE DEF u
<1>14. Keeps(u, v)
  BY <1>1, <1>5, <1>13, KeepsTwice
<1>15. Keeps(asic_up_freq_max_request(u, a), v)
  BY <1>1, <1>14, MaxRequestKeeps, KeepsTwice DEF Keeps
<1> QED
  BY <1>10, <1>14, <1>15

(* act_on_temperature(): a voltage two clicks lower, which is also the     *)
(* maximum now, the lowest frequency, and one more ASIC that cools.        *)
LEMMA TooHotKeeps ==
  ASSUME NEW v, Sound(v), NEW a \in Asics
  PROVE  Keeps(TooHot(v, a), v)
<1> DEFINE low == v.asic[a].vtrim - 2
           c == [v.asic[a] EXCEPT !.max_vtrim_temperature = low]
           x == WithAsics(v, [v.asic EXCEPT ![a] = c])
           d == dc2dc_down(x, {a}, 2)
           V == [e \in Asics |-> ASIC_FREQ_MIN]
           w == set_pll(d, {a}, V)
<1>1. v \in Machines /\ v.asic \in [Asics -> AsicShape] /\ v.asic[a] \in AsicShape
  BY DEF Sound, Machines
<1>2. low \in Int /\ v.asic[a].vtrim \in Int
  BY <1>1 DEF AsicShape
<1>3. /\ c \in AsicShape /\ c.vtrim = v.asic[a].vtrim
      /\ c.cooling_down = v.asic[a].cooling_down
  BY <1>1, <1>2 DEF AsicShape
<1>4. /\ x \in Machines /\ x.ac2dc = v.ac2dc /\ x.abort = v.abort
      /\ x.asic = [v.asic EXCEPT ![a] = c]
  <2> HIDE DEF c
  <2> QED
    BY <1>1, <1>3 DEF Machines, WithAsics
<1>5. TooHot(v, a) = IF v.asic[a].max_vtrim_temperature > VTRIM_MIN /\ dc2dc_can_down(v, a)
                     THEN IF v.asic[a].cooling_down THEN w ELSE Cooler(w, a)
                     ELSE v
  <2> DEFINE y == [v EXCEPT !.asic[a].max_vtrim_temperature = v.asic[a].vtrim - 2]
             s == set_pll(dc2dc_down(y, {a}, 2), {a}, [e \in Asics |-> ASIC_FREQ_MIN])
  <2>1. y = x
    BY DEF WithAsics
  <2> HIDE DEF x, y
  <2>2. s = w
    BY <2>1
  <2>3. TooHot(v, a) = IF v.asic[a].max_vtrim_temperature > VTRIM_MIN /\ dc2dc_can_down(v, a)
                       THEN IF v.asic[a].cooling_down THEN s ELSE Cooler(s, a)
                       ELSE v
    BY DEF TooHot, Cooler, y
  <2> HIDE DEF w, s
  <2> QED
    BY <2>2, <2>3
<1> HIDE DEF x
<1>6. Lowered(d, x, {a}, 2)
  BY <1>4, DownIs
<1> HIDE DEF d
<1>7. /\ d \in Machines /\ d.ac2dc = v.ac2dc
      /\ d.asic = [e \in Asics |-> IF e \in {a}
                     THEN [x.asic[e] EXCEPT !.vtrim = @ - 2, !.revolted = TRUE]
                     ELSE x.asic[e]]
  BY <1>4, <1>6 DEF Lowered, OnlyAsics
<1>8. /\ x.asic[a] = c /\ x.asic[a].vtrim - 2 = low
      /\ \A e \in Asics \ {a} : x.asic[e] = v.asic[e]
  <2> HIDE DEF c
  <2> QED
    BY <1>1, <1>3, <1>4
<1>9. /\ d.abort = "none" => v.abort = "none" /\ low \in Vtrims
      /\ d.abort # "vtrim above vtrim_max" /\ (FreqsAsked(v) => FreqsAsked(d))
  <2>1. ASSUME v.abort = "none"
        PROVE  ~(x.asic[a].vtrim - 2 > vtrim_max)
    <3>1. v.asic[a].vtrim \in Vtrims
      BY <2>1 DEF Sound, AsicType
    <3> QED
      BY <1>3, <1>8, <3>1, ScalingAssumption DEF Vtrims
  <2> HIDE DEF low
  <2> QED
    BY <1>4, <1>6, <1>8, <2>1 DEF Lowered, FreqsAsked, Sound
<1>10. \A e \in Asics : d.asic[e].cooling_down = v.asic[e].cooling_down
  <2>1. d.asic[a].cooling_down = x.asic[a].cooling_down
    BY <1>3, <1>7, <1>8 DEF AsicShape
  <2> HIDE DEF c
  <2> QED
    BY <1>3, <1>7, <1>8, <2>1
<1>11. ASSUME d.abort = "none"
       PROVE  d.asic \in [Asics -> AsicType]
  <2>1. v.asic \in [Asics -> AsicType] /\ low \in Vtrims
    BY <1>9, <1>11 DEF Sound
  <2>2. low \in VTRIM_MIN .. VTRIM_MAX
    BY <2>1, ScalingAssumption DEF Vtrims
  <2>3. d.asic[a] = [c EXCEPT !.vtrim = low, !.revolted = TRUE]
    <3> HIDE DEF c, low
    <3> QED
      BY <1>7, <1>8
  <2>4. [c EXCEPT !.vtrim = low, !.revolted = TRUE] \in AsicType
    <3>1. v.asic[a] \in AsicType
      BY <2>1
    <3> HIDE DEF low
    <3> QED
      BY <2>1, <2>2, <3>1 DEF AsicType
  <2>5. \A e \in Asics \ {a} : d.asic[e] = v.asic[e]
    BY <1>7, <1>8
  <2>6. DOMAIN d.asic = Asics /\ d.asic = [e \in Asics |-> d.asic[e]]
    BY <1>7
  <2> HIDE DEF c
  <2>7. \A e \in Asics : d.asic[e] \in AsicType
    BY <2>1, <2>3, <2>4, <2>5
  <2> QED
    BY <2>6, <2>7
<1>12. Counted(d)
  BY <1>7, <1>10, SameCount DEF Sound
<1>13. Sound(d)
  BY <1>7, <1>9, <1>11, <1>12 DEF Sound
<1>14. Keeps(d, v)
  <2>1. \A q \in Psus : ~(v.ac2dc[q].assumed > v.ac2dc[q].assumed)
    BY <1>1 DEF Machines, PsuShape
  <2> QED
    BY <1>7, <1>9, <1>13, <2>1 DEF Keeps, LimitKept
<1>15. /\ Keeps(w, d)
       /\ \A e \in Asics : w.asic[e].cooling_down = d.asic[e].cooling_down
  <2>1. V \in [Asics -> Int] /\ V[a] % 5 = 0 /\ V[a] <= ASIC_FREQ_MAX
    BY ScalingAssumption
  <2> HIDE DEF V
  <2> DEFINE B == {a}
  <2>2. B \in SUBSET Asics /\ \A e \in B : V[e] % 5 = 0 /\ V[e] <= ASIC_FREQ_MAX
    BY <2>1
  <2>3. w = set_pll(d, B, V)
    OBVIOUS
  <2> HIDE DEF w, B
  <2> QED
    BY <1>13, <2>1, <2>2, <2>3, FreqsKeep
<1> HIDE DEF w
<1>16. Keeps(w, v)
  BY <1>1, <1>14, <1>15, KeepsTwice
<1>17. ASSUME ~v.asic[a].cooling_down
       PROVE  Keeps(Cooler(w, a), v)
  BY <1>1, <1>10, <1>15, <1>16, <1>17, CoolerKeeps, KeepsTwice DEF Keeps
<1>18. Keeps(v, v)
  BY <1>1 DEF Keeps, LimitKept, Machines, PsuShape
<1> QED
  BY <1>5, <1>16, <1>17, <1>18

(* An ASIC that is no longer hot gets its frequency back.                  *)
LEMMA CoolingDoneKeeps ==
  ASSUME NEW v, Sound(v), NEW a \in Asics
  PROVE  Keeps(CoolingDone(v, a), v)
<1> DEFINE s == set_plls_to_wanted(asic_up_freq_max_request(v, a))
           n == Min({1, s.next_bist_countdown})
<1>1. v \in Machines
  BY DEF Sound
<1>2. Keeps(asic_up_freq_max_request(v, a), v)
  BY MaxRequestKeeps
<1>3. Keeps(s, asic_up_freq_max_request(v, a))
  BY <1>2, WantedKeeps DEF Keeps
<1>4. CoolingDone(v, a) = WithCountdown(s, n)
  BY DEF CoolingDone, WithCountdown
<1> HIDE DEF s
<1>5. Keeps(s, v)
  BY <1>1, <1>2, <1>3, KeepsTwice
<1>6. s.next_bist_countdown \in 0 .. BIST_PERIOD_SECS_LONG
  BY <1>5 DEF Keeps, Sound, Machines
<1>7. n \in 0 .. BIST_PERIOD_SECS_LONG
  BY <1>6, MinIs, ScalingAssumption
<1> HIDE DEF n
<1>8. Keeps(WithCountdown(s, n), s)
  BY <1>5, <1>7, NewCountdown DEF Keeps
<1> QED
  BY <1>1, <1>4, <1>5, <1>8, KeepsTwice

(* A restart forgets what cooled, and lowers every voltage by one click.   *)
LEMMA RestartIsSound ==
  ASSUME NEW v, Sound(v)
  PROVE  Sound(RestartVoltages(v)) /\ (FreqsAsked(v) => FreqsAsked(RestartVoltages(v)))
<1> DEFINE P == [p \in Psus |-> [v.ac2dc[p] EXCEPT !.board_cooling_now = 0]]
           y == WithPsus(v, P)
           A == {a \in Asics : v.asic[a].asic_present}
           V == [a \in Asics |-> v.asic[a].vtrim - 1]
<1>1. P \in [Psus -> PsuShape] /\ \A p \in Psus : P[p].board_cooling_now = 0
  BY DEF Sound, Machines, PsuShape
<1>2. \A p \in Psus : P[p].board_cooling_now <= Cardinality(Cooling(v, p))
  <2> HIDE DEF P
  <2> QED
    BY <1>1, CoolingFinite
<1>3. RestartVoltages(v) = dc2dc_set_vtrim(y, A, V)
  BY DEF RestartVoltages, WithPsus
<1> HIDE DEF P
<1>4. Sound(y) /\ y.abort = v.abort /\ y.asic = v.asic /\ (FreqsAsked(v) => FreqsAsked(y))
  BY <1>1, <1>2, NewPsus
<1> HIDE DEF y
<1>5. y \in Machines /\ y.asic \in [Asics -> AsicShape]
  BY <1>4 DEF Sound, Machines
<1>6. V \in [Asics -> Int]
  BY <1>4, <1>5 DEF AsicShape
<1>7. ASSUME y.abort = "none", NEW a \in A
      PROVE  V[a] <= vtrim_max
  <2>1. y.asic[a].vtrim \in Vtrims
    BY <1>4, <1>7 DEF Sound, AsicType
  <2> QED
    BY <1>4, <2>1, ScalingAssumption DEF Vtrims
<1>9. A \in SUBSET Asics
  OBVIOUS
<1> HIDE DEF V, A
<1>10. Keeps(dc2dc_set_vtrim(y, A, V), y)
  BY <1>4, <1>6, <1>7, <1>9, VtrimsKeep
<1> QED
  BY <1>3, <1>4, <1>10 DEF Keeps

(* update_ac2dc_power_measurments(): the largest of three readings.        *)
LEMMA StatsAreSound ==
  ASSUME NEW v, Sound(v), NEW reading \in Answers
  PROVE  LET w == update_ac2dc_stats(v, reading)
         IN  /\ Sound(w) /\ (FreqsAsked(v) => FreqsAsked(w))
             /\ w.asic = v.asic /\ w.abort = v.abort
<1> DEFINE s(p) == v.ac2dc[p]
           top(p) == Max({reading[p], s(p).now, s(p).last})
           new(p) == IF reading[p] = NoReading THEN s(p)
                     ELSE [s(p) EXCEPT !.now = reading[p], !.last = s(p).now, !.assumed = top(p)]
           P == [p \in Psus |-> new(p)]
           w == update_ac2dc_stats(v, reading)
<1>1. v.ac2dc \in [Psus -> PsuShape]
  BY DEF Sound, Machines
<1>2. ASSUME NEW p \in Psus
      PROVE  new(p) \in PsuShape /\ new(p).board_cooling_now = s(p).board_cooling_now
  <2>1. CASE reading[p] = NoReading
    BY <1>1, <2>1
  <2>2. CASE reading[p] # NoReading
    <3>1. reading[p] \in Readings /\ reading[p] \in Nat
      BY <2>2, ScalingAssumption DEF Answers
    <3>2. s(p) \in PsuShape /\ s(p).now \in Readings \cup {0} /\ s(p).last \in Readings \cup {0}
      BY <1>1 DEF PsuShape
    <3>3. s(p).now \in Nat /\ s(p).last \in Nat
      <4> HIDE DEF s
      <4>1. \A x \in Readings \cup {0} : x \in Nat
        BY ScalingAssumption
      <4> QED
        BY <3>2, <4>1
    <3>4. top(p) \in Nat
      BY <3>1, <3>3, MaxOfThree
    <3> HIDE DEF s, top
    <3> QED
      BY <2>2, <3>1, <3>2, <3>4 DEF PsuShape
  <2> QED
    BY <2>1, <2>2
<1>3. w = WithPsus(v, P)
  BY DEF update_ac2dc_stats, WithPsus
<1> HIDE DEF new
<1>4. /\ P \in [Psus -> PsuShape]
      /\ \A p \in Psus : P[p].board_cooling_now <= Cardinality(Cooling(v, p))
  BY <1>2 DEF Sound, Counted
<1> HIDE DEF P, w
<1>5. /\ Sound(w) /\ (FreqsAsked(v) => FreqsAsked(w))
      /\ w.asic = v.asic /\ w.abort = v.abort
  BY <1>3, <1>4, NewPsus
<1> QED
  BY <1>5 DEF w
-----------------------------------------------------------------------------
(* Where the thread is, and the BISTs a restart still makes.               *)
Places == {"minimal", "raise", "mining", "upvolt", "bist", "restart", "retest", "rebist",
           "lazy", "power", "temp", "end", "exit"}

Control ==
  /\ at \in Places /\ i \in 0 .. ASICS_COUNT
  /\ can_upscale \in BOOLEAN /\ psu_pimped \subseteq Psus /\ do_bist \in BOOLEAN
  /\ tries \in 0 .. 2 /\ resume \in {"upvolt", "bist", "lazy", "end"}
  /\ at \in {"restart", "retest"} => tries = 2
  /\ at = "rebist" => tries \in 1 .. 2

(* Only the search for the first frequencies asks for one too high.        *)
OnlyRaiseAsks == vm.abort = "freq above ASIC_FREQ_MAX" => at = "raise"

SInv == Sound(vm) /\ OnlyRaiseAsks /\ Control

(* What must be shown of a step.                                           *)
LEMMA SInvAgain ==
  ASSUME Sound(vm'), FreqsAsked(vm') \/ at' = "raise", Control'
  PROVE  SInv'
  BY DEF SInv, OnlyRaiseAsks, FreqsAsked

(* What a step may start from, while the process is alive.                 *)
LEMMA SInvNow ==
  ASSUME SInv, Alive
  PROVE  Sound(vm) /\ FreqsAsked(vm) /\ vm \in Machines /\ Present \in SUBSET Asics
  BY DEF SInv, Alive, FreqsAsked, Sound, Present

(* No voltage has been changed in this second.                             *)
LEMMA NoneRevoltedKeeps ==
  ASSUME NEW v, Sound(v)
  PROVE  Keeps(NoneRevolted(v), v)
<1> DEFINE E == [a \in Asics |-> [v.asic[a] EXCEPT !.revolted = FALSE]]
<1>1. v.asic \in [Asics -> AsicShape]
  BY DEF Sound, Machines
<1>2. /\ E \in [Asics -> AsicShape]
      /\ \A a \in Asics : E[a].cooling_down = v.asic[a].cooling_down
  BY <1>1 DEF AsicShape
<1>3. v.abort = "none" => E \in [Asics -> AsicType]
  BY ZenonT(40) DEF Sound, AsicType
<1>4. NoneRevolted(v) = WithAsics(v, E)
  BY DEF NoneRevolted, WithAsics
<1> HIDE DEF E
<1> QED
  BY <1>2, <1>3, <1>4, NewAsics

(* Whether the ASICs were restarted in this second.                        *)
WithReset(v, b) == [v EXCEPT !.did_asic_reset = b]

(* The mark of a restart touches nothing else.                             *)
LEMMA ResetKeeps ==
  ASSUME NEW v, Sound(v), NEW b \in BOOLEAN
  PROVE  Sound(WithReset(v, b)) /\ (FreqsAsked(v) => FreqsAsked(WithReset(v, b)))
<1> DEFINE w == WithReset(v, b)
<1>1. w \in Machines /\ w.asic = v.asic /\ w.abort = v.abort /\ w.ac2dc = v.ac2dc
  BY DEF Sound, Machines, WithReset
<1> HIDE DEF w
<1>2. Counted(w)
  BY <1>1, SameCount DEF Sound
<1>3. Sound(w) /\ (FreqsAsked(v) => FreqsAsked(w))
  BY <1>1, <1>2 DEF Sound, FreqsAsked
<1> QED
  BY <1>3 DEF w

(* The program starts with every ASIC in range and none cooling.           *)
LEMMA InitSInv ==
  ASSUME Init
  PROVE  SInv
<1> DEFINE d == [asic_present |-> TRUE, vtrim |-> vtrim_start, freq_hw |-> ASIC_FREQ_MIN,
                 freq_bist_limit |-> ASIC_FREQ_MAX, wanted |-> 0, cooling_down |-> FALSE,
                 bist_failed_called |-> FALSE, revolted |-> FALSE, hot |-> FALSE,
                 max_vtrim_currentwise |-> VTRIM_MAX, max_vtrim_temperature |-> VTRIM_MAX]
           s == [now |-> 0, last |-> 0, assumed |-> 0, board_cooling_now |-> 0]
<1>1. d \in AsicShape /\ d \in AsicType
  <2>1. vtrim_start \in Vtrims /\ VTRIM_MAX \in VTRIM_MIN .. VTRIM_MAX
    BY ScalingAssumption DEF Vtrims
  <2>2. {vtrim_start, ASIC_FREQ_MIN, ASIC_FREQ_MAX, VTRIM_MAX} \subseteq Int
    BY ScalingAssumption
  <2> QED
    BY <2>1, <2>2, FreqSteps DEF AsicType, AsicShape
<1>2. s \in PsuShape /\ s.board_cooling_now = 0
  BY DEF PsuShape
<1>3. BIST_PERIOD_SECS \in 0 .. BIST_PERIOD_SECS_LONG
  BY ScalingAssumption
<1>4. vm = [asic |-> [a \in Asics |-> d], ac2dc |-> [p \in Psus |-> s],
            next_bist_countdown |-> BIST_PERIOD_SECS, did_asic_reset |-> FALSE, abort |-> "none"]
  BY DEF Init
<1> HIDE DEF d, s
<1>5. /\ vm \in Machines /\ vm.asic \in [Asics -> AsicType] /\ vm.abort = "none"
      /\ \A p \in Psus : vm.ac2dc[p].board_cooling_now = 0
  BY <1>1, <1>2, <1>3, <1>4 DEF Machines
<1>6. Counted(vm)
  BY <1>5, CoolingFinite DEF Counted
<1>7. Sound(vm) /\ OnlyRaiseAsks
  BY <1>5, <1>6 DEF Sound, OnlyRaiseAsks
<1>8. 0 \in 0 .. ASICS_COUNT
  BY ScalingAssumption
<1>9. /\ at = "minimal" /\ i = 0 /\ tries = 0 /\ resume = "end"
      /\ can_upscale = TRUE /\ psu_pimped = {} /\ do_bist = FALSE
  BY DEF Init
<1>10. Control
  <2>1. at \in Places /\ resume \in {"upvolt", "bist", "lazy", "end"}
    BY <1>9 DEF Places
  <2>2. at \notin {"restart", "retest"} /\ at # "rebist"
    BY <1>9
  <2>3. can_upscale \in BOOLEAN /\ do_bist \in BOOLEAN /\ psu_pimped \subseteq Psus
    BY <1>9
  <2>4. i \in 0 .. ASICS_COUNT /\ tries \in 0 .. 2
    BY <1>8, <1>9
  <2> QED
    BY <2>1, <2>2, <2>3, <2>4, Zenon DEF Control
<1> QED
  BY <1>7, <1>10 DEF SInv
-----------------------------------------------------------------------------
(* The actions, one by one: each keeps the invariant.                      *)
LEMMA MinimalBistStep ==
  ASSUME SInv, Alive, MinimalBist
  PROVE  SInv'
<1>1. PICK F \in SUBSET Present, D \in SUBSET Asics :
        vm' = disable_asic_forever(do_bist_ok(vm, F), D)
  BY DEF MinimalBist, Present
<1>2. Keeps(do_bist_ok(vm, F), vm)
  BY <1>1, SInvNow, BistKeeps
<1>3. Keeps(vm', do_bist_ok(vm, F))
  BY <1>1, <1>2, SInvNow, DisableKeeps DEF Keeps
<1>4. Control'
  BY DEF MinimalBist, SInv, Control, Places, NotRestarting, Locals
<1> QED
  BY <1>2, <1>3, <1>4, SInvNow, SInvAgain DEF Keeps

(* Ten MHz more: the only frequencies asked for that may be too high.      *)
LEMMA RaiseStepStep ==
  ASSUME SInv, Alive, RaiseStep
  PROVE  SInv'
<1>1. PICK F \in SUBSET Present, D \in SUBSET Asics :
        LET v == disable_asic_forever(do_bist_ok(vm, F), D)
            freq == [a \in Asics |-> v.asic[a].freq_hw + 10]
            Rising == {a \in Asics : v.asic[a].asic_present /\ ~v.asic[a].bist_failed_called}
            Up == {a \in Rising : v.asic[a].freq_hw <= ASIC_FREQ_MAX}
        IN  /\ vm' = set_pll(disable_asic_forever(v, Rising \ Up), Up, freq)
            /\ at' = IF \A a \in Asics : ~v.asic[a].asic_present THEN "exit"
                     ELSE IF Rising = {} THEN "mining" ELSE "raise"
  BY DEF RaiseStep, AtMinimum, Present
<1> DEFINE v == disable_asic_forever(do_bist_ok(vm, F), D)
           Rising == {a \in Asics : v.asic[a].asic_present /\ ~v.asic[a].bist_failed_called}
           Up == {a \in Rising : v.asic[a].freq_hw <= ASIC_FREQ_MAX}
           x == disable_asic_forever(v, Rising \ Up)
           V == [a \in Asics |-> v.asic[a].freq_hw + 10]
<1>2. Keeps(do_bist_ok(vm, F), vm)
  BY <1>1, SInvNow, BistKeeps
<1>3. Keeps(v, do_bist_ok(vm, F))
  BY <1>1, <1>2, SInvNow, DisableKeeps DEF Keeps
<1> HIDE DEF v
<1>4. Keeps(x, v)
  BY <1>3, DisableKeeps DEF Keeps
<1>5. vm' = set_pll(x, Up, V)
  BY <1>1 DEF v
<1>6. at' = IF \A a \in Asics : ~v.asic[a].asic_present THEN "exit"
            ELSE IF Rising = {} THEN "mining" ELSE "raise"
  BY <1>1 DEF v
<1>7. Up # {} => at' = "raise"
  BY <1>6
<1>8. Up \in SUBSET Asics
  OBVIOUS
<1> HIDE DEF Up, x
<1>9. /\ Sound(x) /\ (x.abort = "none" => v.abort = "none")
      /\ Sound(v) /\ v.asic \in [Asics -> AsicShape]
  BY <1>3, <1>4 DEF Keeps, Sound, Machines, disable_asic_forever, x
<1>10. V \in [Asics -> Int]
  BY <1>9 DEF AsicShape
<1>11. ASSUME x.abort = "none", NEW a \in Up
       PROVE  V[a] % 5 = 0
  <2>1. v.asic[a].freq_hw \in Freqs
    BY <1>8, <1>9, <1>11 DEF Sound, AsicType
  <2> QED
    BY <1>8, <2>1, FreqSteps
<1> HIDE DEF V
<1>13. Sound(vm') /\ (Up = {} => Keeps(vm', x))
  BY <1>5, <1>8, <1>9, <1>10, <1>11, FreqsKeep
<1>14. FreqsAsked(vm') \/ at' = "raise"
  BY <1>2, <1>3, <1>4, <1>7, <1>13, SInvNow DEF Keeps
<1>15. Control'
  <2>1. at' \in {"exit", "mining", "raise"}
    BY <1>6
  <2> QED
    BY <2>1 DEF RaiseStep, SInv, Control, Places, NotRestarting, Locals
<1> QED
  BY <1>13, <1>14, <1>15, SInvAgain

(* An overcurrent between two seconds.                                     *)
LEMMA OvercurrentStep ==
  ASSUME SInv, Alive, NEW a \in Present, OvercurrentWarning(a)
  PROVE  SInv'
<1>1. Keeps(vm', vm)
  BY SInvNow, WarningKeeps DEF OvercurrentWarning, Present
<1>2. Control'
  BY DEF OvercurrentWarning, SInv, Control, NotRestarting, Locals
<1> QED
  BY <1>1, <1>2, SInvNow, SInvAgain DEF Keeps

(* The maxima found so far are forgotten: VTRIM_MAX, not vtrim_max.        *)
LEMMA ForgetStep ==
  ASSUME SInv, Alive, forget_all_limits
  PROVE  SInv'
<1> DEFINE E == [a \in Asics |-> [vm.asic[a] EXCEPT
                   !.max_vtrim_currentwise = VTRIM_MAX, !.max_vtrim_temperature = VTRIM_MAX]]
<1>1. vm.asic \in [Asics -> AsicShape] /\ vm.asic \in [Asics -> AsicType] /\ Sound(vm)
  BY SInvNow DEF Alive, Sound, Machines
<1>2. VTRIM_MAX \in VTRIM_MIN .. VTRIM_MAX /\ VTRIM_MAX \in Int
  BY ScalingAssumption
<1>3. /\ E \in [Asics -> AsicShape]
      /\ \A a \in Asics : E[a].cooling_down = vm.asic[a].cooling_down
  BY <1>1, <1>2, ZenonT(40) DEF AsicShape
<1>4. E \in [Asics -> AsicType]
  BY <1>1, <1>2, ZenonT(40) DEF AsicType
<1>5. vm' = WithAsics(vm, E)
  BY DEF forget_all_limits, WithAsics
<1> HIDE DEF E
<1>6. Keeps(vm', vm)
  BY <1>1, <1>3, <1>4, <1>5, NewAsics
<1>7. Control'
  BY DEF forget_all_limits, SInv, Control, NotRestarting, Locals
<1> QED
  BY <1>6, <1>7, SInvNow, SInvAgain DEF Keeps

(* restart_asics_full() from any place.                                    *)
LEMMA RestartStep ==
  ASSUME SInv, Alive, NEW v, Sound(v), FreqsAsked(v),
         NEW place \in {"upvolt", "bist", "lazy", "end"}, restart_asics_full(v, place),
         can_upscale' = can_upscale, psu_pimped' \subseteq Psus, do_bist' = do_bist,
         i' \in 0 .. ASICS_COUNT
  PROVE  SInv' /\ at' = "restart"
<1>1. vm' = WithCountdown(v, BIST_PERIOD_SECS)
  BY DEF restart_asics_full, WithCountdown
<1>2. BIST_PERIOD_SECS \in 0 .. BIST_PERIOD_SECS_LONG
  BY ScalingAssumption
<1>3. Keeps(vm', v)
  BY <1>1, <1>2, NewCountdown
<1>4. Control'
  BY DEF restart_asics_full, SInv, Control, Places
<1> QED
  BY <1>3, <1>4, SInvAgain DEF Keeps, restart_asics_full

(* An error restarts the ASICs.                                            *)
LEMMA ErrorRestartStep ==
  ASSUME SInv, Alive, ErrorRestart
  PROVE  SInv'
  BY SInvNow, RestartStep DEF ErrorRestart, Locals, SInv, Control

(* The readings of a second, and the countdown to the next BIST.           *)
LEMMA OnceSecondStep ==
  ASSUME SInv, Alive, OnceSecond
  PROVE  SInv'
<1>1. PICK reading \in Answers :
        LET v == update_ac2dc_stats(vm, reading)
            left == v.next_bist_countdown - 1
        IN  IF left <= 0
            THEN vm' = [v EXCEPT !.next_bist_countdown = BIST_PERIOD_SECS_LONG,
                          !.asic = [a \in Asics |-> [v.asic[a] EXCEPT !.revolted = FALSE]]]
            ELSE vm' = [v EXCEPT !.next_bist_countdown = left]
  BY DEF OnceSecond
<1> DEFINE v == update_ac2dc_stats(vm, reading)
           left == v.next_bist_countdown - 1
           x == WithCountdown(v, BIST_PERIOD_SECS_LONG)
<1>2. Sound(v) /\ FreqsAsked(v)
  BY SInvNow, StatsAreSound
<1> HIDE DEF v
<1>3. v.next_bist_countdown \in 0 .. BIST_PERIOD_SECS_LONG /\ v \in Machines
  BY <1>2 DEF Sound, Machines
<1>4. BIST_PERIOD_SECS_LONG \in 0 .. BIST_PERIOD_SECS_LONG /\ BIST_PERIOD_SECS_LONG \in Nat
  BY ScalingAssumption
<1>5. Keeps(x, v) /\ x.asic = v.asic
  BY <1>2, <1>4, NewCountdown
<1>6. ASSUME left <= 0
      PROVE  Sound(vm') /\ FreqsAsked(vm')
  <2>1. vm' = [v EXCEPT !.next_bist_countdown = BIST_PERIOD_SECS_LONG,
                 !.asic = [a \in Asics |-> [v.asic[a] EXCEPT !.revolted = FALSE]]]
    BY <1>1, <1>6 DEF v
  <2>2. vm' = NoneRevolted(x)
    BY <1>5, <2>1 DEF NoneRevolted, WithCountdown
  <2> QED
    BY <1>2, <1>5, <2>2, NoneRevoltedKeeps DEF Keeps
<1>7. ASSUME ~(left <= 0)
      PROVE  Sound(vm') /\ FreqsAsked(vm')
  <2>1. vm' = WithCountdown(v, left)
    BY <1>1, <1>7 DEF v, WithCountdown
  <2>2. left \in 0 .. BIST_PERIOD_SECS_LONG
    BY <1>3, <1>4, <1>7
  <2> HIDE DEF left
  <2> QED
    BY <1>2, <2>1, <2>2, NewCountdown DEF Keeps
<1>8. Sound(vm') /\ FreqsAsked(vm')
  BY <1>6, <1>7
<1>9. Control'
  BY DEF OnceSecond, SInv, Control, Places, NotRestarting, Locals
<1> QED
  BY <1>8, <1>9, SInvAgain

(* A PSU has its best ASIC raised, or restarted where it is a runaway.     *)
LEMMA UpvoltStep ==
  ASSUME SInv, Alive, Upvolt
  PROVE  SInv' /\ (at' = at => LimitKept(vm', vm))
<1>1. PICK warm \in SUBSET Present, a \in Asics :
        /\ IsBestToUpvolt(a, Upvoltable(i, warm))
        /\ IF Runaway(vm, a)
           THEN restart_asics_full(vm, "upvolt")
           ELSE /\ vm' = [dc2dc_up(vm, a, warm) EXCEPT
                            !.next_bist_countdown = BIST_PERIOD_SECS]
                /\ UNCHANGED at /\ NotRestarting
  BY DEF Upvolt
<1>2. /\ at = "upvolt" /\ i \in Psus /\ psu_pimped' = psu_pimped \cup {i}
      /\ i' = i /\ can_upscale' = can_upscale /\ do_bist' = do_bist
  BY DEF Upvolt
<1>3. psu_pimped' \subseteq Psus /\ i' \in 0 .. ASICS_COUNT
  BY <1>2 DEF SInv, Control
<1>4. dc2dc_can_up(vm, a, warm)
  BY <1>1 DEF IsBestToUpvolt, Upvoltable
<1>5. CASE Runaway(vm, a)
  <2>1. restart_asics_full(vm, "upvolt")
    BY <1>1, <1>5
  <2>2. SInv' /\ at' = "restart"
    BY <1>2, <1>3, <2>1, SInvNow, RestartStep
  <2> QED
    BY <1>2, <2>2
<1>6. CASE ~Runaway(vm, a)
  <2> DEFINE u == dc2dc_up(vm, a, warm)
  <2>1. vm' = WithCountdown(u, BIST_PERIOD_SECS) /\ UNCHANGED at /\ NotRestarting
    BY <1>1, <1>6 DEF WithCountdown
  <2>2. Keeps(u, vm)
    BY <1>4, SInvNow, UpKeeps
  <2> HIDE DEF u
  <2>3. BIST_PERIOD_SECS \in 0 .. BIST_PERIOD_SECS_LONG
    BY ScalingAssumption
  <2>4. Keeps(vm', u)
    BY <2>1, <2>2, <2>3, NewCountdown DEF Keeps
  <2>5. Keeps(vm', vm)
    BY <2>2, <2>4, SInvNow, KeepsTwice
  <2>6. Control'
    BY <1>2, <1>3, <2>1 DEF SInv, Control, NotRestarting
  <2> QED
    BY <2>5, <2>6, SInvNow, SInvAgain DEF Keeps
<1> QED
  BY <1>5, <1>6

(* A PSU has nothing to raise, or an ASIC that cools.                      *)
LEMMA NextPsuStep ==
  ASSUME SInv, Alive, NextPsu
  PROVE  SInv' /\ LimitKept(vm', vm)
<1>1. Keeps(vm, vm)
  BY SInvNow DEF Keeps, LimitKept, Machines, PsuShape
<1>2. BIST_PERIOD_SECS \in 0 .. BIST_PERIOD_SECS_LONG
  BY ScalingAssumption
<1>3. Keeps(WithCountdown(vm, BIST_PERIOD_SECS), vm)
  BY <1>2, SInvNow, NewCountdown
<1>4. Keeps(vm', vm)
  BY <1>1, <1>3 DEF NextPsu, WithCountdown
<1>5. i + 1 \in 0 .. ASICS_COUNT
  BY PsuOf, ScalingAssumption DEF NextPsu
<1>6. Control'
  BY <1>5 DEF NextPsu, SInv, Control, NotRestarting, Locals
<1> QED
  BY <1>4, <1>6, SInvNow, SInvAgain DEF Keeps

(* The frequencies the raised voltages allow are set.                      *)
LEMMA UpscaledStep ==
  ASSUME SInv, Alive, Upscaled
  PROVE  SInv'
<1>1. PICK reading \in Answers : vm' = update_ac2dc_stats(set_plls_to_wanted(vm), reading)
  BY DEF Upscaled
<1>2. Keeps(set_plls_to_wanted(vm), vm)
  BY SInvNow, WantedKeeps
<1>3. Sound(vm') /\ FreqsAsked(vm')
  BY <1>1, <1>2, SInvNow, StatsAreSound DEF Keeps
<1>4. 0 \in 0 .. ASICS_COUNT
  BY ScalingAssumption
<1>5. Control'
  BY <1>4 DEF Upscaled, SInv, Control, Places, NotRestarting, Locals
<1> QED
  BY <1>3, <1>5, SInvAgain

(* A BIST while mining; one that leaves too few engines restarts all.      *)
LEMMA BistLoopStep ==
  ASSUME SInv, Alive, BistLoop
  PROVE  SInv'
<1>1. PICK F \in SUBSET Present, D \in SUBSET Asics :
        IF D = {}
        THEN /\ vm' = do_bist_ok(vm, F)
             /\ at' = IF F = {} \/ vm.did_asic_reset THEN "lazy" ELSE "bist"
             /\ NotRestarting
        ELSE restart_asics_full(FailAll(vm, {a \in F : a <= Min(D)}), "bist")
  BY DEF BistLoop, AtMinimum, Present
<1>2. UNCHANGED <<i, can_upscale, psu_pimped, do_bist>>
  BY DEF BistLoop, Locals
<1>3. CASE D = {}
  <2>1. Keeps(vm', vm)
    BY <1>1, <1>3, SInvNow, BistKeeps
  <2>2. Control'
    BY <1>1, <1>2, <1>3 DEF SInv, Control, Places, NotRestarting
  <2> QED
    BY <2>1, <2>2, SInvNow, SInvAgain DEF Keeps
<1>4. CASE D # {}
  <2> DEFINE G == {a \in F : a <= Min(D)}
  <2>1. G \in SUBSET Asics
    BY <1>1, SInvNow
  <2>2. restart_asics_full(FailAll(vm, G), "bist")
    BY <1>1, <1>4
  <2> HIDE DEF G
  <2>3. Keeps(FailAll(vm, G), vm)
    BY <2>1, SInvNow, FailAllKeeps
  <2>4. psu_pimped' \subseteq Psus /\ i' \in 0 .. ASICS_COUNT
    BY <1>2 DEF SInv, Control
  <2> QED
    BY <1>2, <2>2, <2>3, <2>4, SInvNow, RestartStep DEF Keeps
<1> QED
  BY <1>3, <1>4

(* A restart finds overcurrents, then lowers the voltages.                 *)
LEMMA RestartTestStep ==
  ASSUME SInv, Alive, RestartTest
  PROVE  SInv'
<1>1. PICK C \in SUBSET Asics :
        \/ vm' = RestartVoltages(overcurrent_warning(vm, C)) /\ at' = "rebist"
        \/ /\ at = "restart"
           /\ \E reading \in Answers :
                vm' = update_ac2dc_stats(overcurrent_warning(vm, C), reading)
           /\ at' = "retest"
  BY DEF RestartTest, Present
<1>2. Keeps(overcurrent_warning(vm, C), vm)
  BY SInvNow, WarningKeeps
<1>3. Sound(vm') /\ FreqsAsked(vm')
  BY <1>1, <1>2, SInvNow, RestartIsSound, StatsAreSound DEF Keeps
<1>4. Control'
  BY <1>1 DEF RestartTest, SInv, Control, Places, NotRestarting, Locals
<1> QED
  BY <1>3, <1>4, SInvAgain

(* The last BIST of a restart lets the thread go on where it was.          *)
LEMMA RestartBistStep ==
  ASSUME SInv, Alive, RestartBist
  PROVE  SInv'
<1>1. PICK F \in SUBSET Present, D \in SUBSET Asics :
        LET v == disable_asic_forever(do_bist_ok(vm, F), D) IN
        /\ vm' = IF tries = 1 THEN [v EXCEPT !.did_asic_reset = TRUE] ELSE v
        /\ at' = IF D # {} THEN "exit" ELSE IF tries = 1 THEN resume ELSE "rebist"
  BY DEF RestartBist, AtMinimum, Present
<1> DEFINE v == disable_asic_forever(do_bist_ok(vm, F), D)
<1>2. Keeps(do_bist_ok(vm, F), vm)
  BY <1>1, SInvNow, BistKeeps
<1>3. Keeps(v, do_bist_ok(vm, F))
  BY <1>2, DisableKeeps DEF Keeps
<1>4. vm' = IF tries = 1 THEN WithReset(v, TRUE) ELSE v
  BY <1>1 DEF WithReset
<1>5. at' = IF D # {} THEN "exit" ELSE IF tries = 1 THEN resume ELSE "rebist"
  BY <1>1
<1> HIDE DEF v
<1>6. Sound(vm') /\ FreqsAsked(vm')
  BY <1>2, <1>3, <1>4, SInvNow, ResetKeeps DEF Keeps
<1>7. at = "rebist" /\ tries' = tries - 1
      /\ UNCHANGED <<i, resume, can_upscale, psu_pimped, do_bist>>
  BY DEF RestartBist, Locals
<1>8. Control'
  BY <1>5, <1>7 DEF SInv, Control, Places
<1> QED
  BY <1>6, <1>8, SInvAgain

(* Idle ASICs restart all of them, inside the loop or after it.            *)
LEMMA LazyAsicsStep ==
  ASSUME SInv, Alive, LazyAsics
  PROVE  SInv'
<1>1. Keeps(NoneRevolted(vm), vm) /\ Sound(vm) /\ FreqsAsked(vm)
  BY SInvNow, NoneRevoltedKeeps
<1>2. Sound(NoneRevolted(vm)) /\ FreqsAsked(NoneRevolted(vm))
  BY <1>1 DEF Keeps
<1>3. UNCHANGED <<can_upscale, psu_pimped, do_bist>> /\ psu_pimped' \subseteq Psus
  BY DEF LazyAsics, Locals, SInv, Control
<1>4. ASSUME NEW a \in Asics, i' = a + 1 \/ i' = 0
      PROVE  i' \in 0 .. ASICS_COUNT
  BY <1>4, ScalingAssumption DEF Asics
<1>5. ASSUME NEW a \in Present, i' = a + 1, restart_asics_full(NoneRevolted(vm), "lazy")
      PROVE  SInv'
  <2>1. i' \in 0 .. ASICS_COUNT
    BY <1>4, <1>5 DEF Present
  <2> QED
    BY <1>2, <1>3, <1>5, <2>1, RestartStep
<1>6. 0 \in 0 .. ASICS_COUNT
  BY ScalingAssumption
<1>7. ASSUME i' = 0, restart_asics_full(NoneRevolted(vm), "end")
      PROVE  SInv'
  BY <1>2, <1>3, <1>6, <1>7, RestartStep
<1>8. ASSUME vm' = IF i = 0 /\ vm.did_asic_reset THEN vm ELSE NoneRevolted(vm),
             i' = 0, at' = IF vm.did_asic_reset THEN "end" ELSE "power", NotRestarting
      PROVE  SInv'
  <2>1. Sound(vm') /\ FreqsAsked(vm')
    BY <1>1, <1>2, <1>8
  <2>2. Control'
    BY <1>3, <1>6, <1>8 DEF SInv, Control, Places, NotRestarting
  <2> QED
    BY <2>1, <2>2, SInvAgain
<1> QED
  BY <1>5, <1>7, <1>8 DEF LazyAsics

(* A read before the first ASIC stops the process.                         *)
LEMMA PassertKeeps ==
  ASSUME NEW v, Sound(v), NEW B
  PROVE  /\ Sound(Passert(v, B, "asic[-1]"))
         /\ (FreqsAsked(v) => FreqsAsked(Passert(v, B, "asic[-1]")))
<1> DEFINE w == Passert(v, B, "asic[-1]")
<1>1. /\ w \in Machines /\ w.asic = v.asic /\ w.ac2dc = v.ac2dc
      /\ w.abort = v.abort \/ w.abort = "asic[-1]"
  BY DEF Sound, Machines, Passert, Passerts
<1> HIDE DEF w
<1>2. Counted(w)
  BY <1>1, SameCount DEF Sound
<1>3. Sound(w) /\ (FreqsAsked(v) => FreqsAsked(w))
  BY <1>1, <1>2 DEF Sound, FreqsAsked
<1> QED
  BY <1>3 DEF w

(* A PSU over its limit has its readings forgotten, its ASICs lowered.     *)
LEMMA PowerTooHighStep ==
  ASSUME SInv, Alive, PowerTooHigh
  PROVE  SInv'
<1> DEFINE T == BestToDownvolt(Downvoltable(i))
           v == dc2dc_down(vm, T, 2)
<1>1. T \in SUBSET Asics
  BY DEF BestToDownvolt, Downvoltable, Present
<1> HIDE DEF T
<1>2. Sound(v) /\ FreqsAsked(v)
  BY <1>1, SInvNow, DownKeeps DEF Keeps
<1>3. i \in Psus /\ v.ac2dc \in [Psus -> PsuShape]
  BY <1>2 DEF PowerTooHigh, Sound, Machines
<1>4. ASSUME NEW stray,
             vm' = [Passert(v, stray, "asic[-1]") EXCEPT
                      !.ac2dc[i].last = v.ac2dc[i].now, !.ac2dc[i].now = 0]
      PROVE  Sound(vm') /\ FreqsAsked(vm')
  <2> DEFINE w == Passert(v, stray, "asic[-1]")
             s == [v.ac2dc[i] EXCEPT !.last = v.ac2dc[i].now, !.now = 0]
             P == [v.ac2dc EXCEPT ![i] = s]
  <2>1. Sound(w) /\ FreqsAsked(w)
    BY <1>2, PassertKeeps
  <2>2. w.ac2dc = v.ac2dc /\ w.asic = v.asic
    BY <1>2 DEF Passert, Sound, Machines
  <2>3. s \in PsuShape /\ s.board_cooling_now = v.ac2dc[i].board_cooling_now
    BY <1>3 DEF PsuShape
  <2>4. vm' = [w EXCEPT !.ac2dc[i].last = v.ac2dc[i].now, !.ac2dc[i].now = 0]
    BY <1>4
  <2> HIDE DEF w, v
  <2>5. vm' = WithPsus(w, P)
    BY <1>3, <2>1, <2>2, <2>4 DEF WithPsus, Sound, Machines
  <2> HIDE DEF s
  <2>6. P \in [Psus -> PsuShape]
        /\ \A p \in Psus : P[p].board_cooling_now = v.ac2dc[p].board_cooling_now
    BY <1>3, <2>3
  <2> HIDE DEF P
  <2>7. \A p \in Psus : P[p].board_cooling_now <= Cardinality(Cooling(w, p))
    BY <2>1, <2>2, <2>6 DEF Sound, Counted
  <2> QED
    BY <2>1, <2>5, <2>6, <2>7, NewPsus
<1>5. Sound(vm') /\ FreqsAsked(vm')
  <2>1. CASE OverPower(i)
    BY <1>4, <2>1 DEF PowerTooHigh, T
  <2>2. CASE ~OverPower(i)
    BY <2>2, SInvNow DEF PowerTooHigh
  <2> QED
    BY <2>1, <2>2
<1>6. i + 1 \in 0 .. ASICS_COUNT
  BY <1>3, PsuOf, ScalingAssumption
<1>7. do_bist' \in BOOLEAN
  BY DEF PowerTooHigh, OverPower
<1>8. at = "power" /\ i' = i + 1 /\ UNCHANGED <<at, can_upscale, psu_pimped>> /\ NotRestarting
  BY DEF PowerTooHigh
<1>9. Control'
  BY <1>6, <1>7, <1>8 DEF SInv, Control, NotRestarting
<1> QED
  BY <1>5, <1>9, SInvAgain

(* An overload brings the next BIST forward.                               *)
LEMMA PowerDoneStep ==
  ASSUME SInv, Alive, PowerDone
  PROVE  SInv'
<1> DEFINE v == NoneRevolted(vm)
           n == Min({3, v.next_bist_countdown})
<1>1. vm' = IF do_bist THEN WithCountdown(v, n) ELSE v
  BY DEF PowerDone, WithCountdown
<1>2. Sound(v) /\ FreqsAsked(v)
  BY SInvNow, NoneRevoltedKeeps DEF Keeps
<1> HIDE DEF v
<1>3. v.next_bist_countdown \in 0 .. BIST_PERIOD_SECS_LONG
  BY <1>2 DEF Sound, Machines
<1>4. n \in 0 .. BIST_PERIOD_SECS_LONG
  BY <1>3, MinIs, ScalingAssumption
<1> HIDE DEF n
<1>5. Keeps(WithCountdown(v, n), v)
  BY <1>2, <1>4, NewCountdown
<1>6. Sound(vm') /\ FreqsAsked(vm')
  BY <1>1, <1>2, <1>5 DEF Keeps
<1>7. 0 \in 0 .. ASICS_COUNT
  BY ScalingAssumption
<1>8. Control'
  BY <1>7 DEF PowerDone, SInv, Control, Places, NotRestarting, Locals
<1> QED
  BY <1>6, <1>8, SInvAgain

(* A hot ASIC, one that may be released, or five MHz more.                 *)
LEMMA TemperatureStep ==
  ASSUME SInv, Alive, Temperature
  PROVE  SInv' /\ LimitKept(vm', vm)
<1>1. PICK hot \in BOOLEAN, warm \in SUBSET {i} :
        LET d == [vm EXCEPT !.asic[i].hot = hot]
            upscales == ~hot /\ vm.asic[i].cooling_down /\ can_upscale
            acted == IF hot THEN TooHot(d, i)
                     ELSE IF upscales THEN CoolingDone(d, i) ELSE d
            b == acted.asic[i]
        IN  IF vm.asic[i].asic_present
            THEN /\ vm' = IF /\ ~b.cooling_down /\ b.freq_hw < b.freq_bist_limit
                             /\ asic_can_up_freq(acted, i, warm)
                          THEN asic_up_freq(acted, i) ELSE acted
                 /\ can_upscale' = (can_upscale /\ ~upscales)
            ELSE UNCHANGED <<vm, can_upscale>>
  BY DEF Temperature
<1> DEFINE c == [vm.asic[i] EXCEPT !.hot = hot]
           E == [vm.asic EXCEPT ![i] = c]
           d == WithAsics(vm, E)
           upscales == ~hot /\ vm.asic[i].cooling_down /\ can_upscale
           acted == IF hot THEN TooHot(d, i)
                    ELSE IF upscales THEN CoolingDone(d, i) ELSE d
<1>2. /\ i \in Asics /\ vm \in Machines /\ Sound(vm) /\ vm.asic \in [Asics -> AsicShape]
      /\ vm.asic \in [Asics -> AsicType]
  BY SInvNow DEF Temperature, Sound, Machines, Alive
<1>3. c \in AsicShape /\ c \in AsicType /\ c.cooling_down = vm.asic[i].cooling_down
  BY <1>2 DEF AsicShape, AsicType
<1>4. [vm EXCEPT !.asic[i].hot = hot] = d
  BY DEF WithAsics
<1>5. IF vm.asic[i].asic_present
      THEN /\ vm' = IF /\ ~acted.asic[i].cooling_down
                       /\ acted.asic[i].freq_hw < acted.asic[i].freq_bist_limit
                       /\ asic_can_up_freq(acted, i, warm)
                    THEN asic_up_freq(acted, i) ELSE acted
           /\ can_upscale' = (can_upscale /\ ~upscales)
      ELSE UNCHANGED <<vm, can_upscale>>
  <2> HIDE DEF d
  <2> QED
    BY <1>1, <1>4
<1> HIDE DEF c
<1>6. /\ E \in [Asics -> AsicShape] /\ E \in [Asics -> AsicType]
      /\ \A a \in Asics : E[a].cooling_down = vm.asic[a].cooling_down
  BY <1>2, <1>3
<1> HIDE DEF E
<1>7. Keeps(d, vm)
  BY <1>2, <1>6, NewAsics
<1> HIDE DEF d
<1>8. Sound(d)
  BY <1>7 DEF Keeps
<1>9. Keeps(acted, vm)
  <2>1. Keeps(TooHot(d, i), vm)
    BY <1>2, <1>7, <1>8, TooHotKeeps, KeepsTwice
  <2>2. Keeps(CoolingDone(d, i), vm)
    BY <1>2, <1>7, <1>8, CoolingDoneKeeps, KeepsTwice
  <2> QED
    BY <1>7, <2>1, <2>2
<1> HIDE DEF acted, upscales
<1>10. ASSUME asic_can_up_freq(acted, i, warm)
       PROVE  Keeps(asic_up_freq(acted, i), vm)
  <2>1. acted.asic[i].freq_hw < ASIC_FREQ_MAX /\ Headroom(acted, i) > 2
    BY <1>10 DEF asic_can_up_freq
  <2>2. Keeps(asic_up_freq(acted, i), acted)
    BY <1>2, <1>9, <2>1, UpFreqKeeps DEF Keeps
  <2> QED
    BY <1>2, <1>9, <2>2, KeepsTwice
<1>11. Keeps(vm, vm)
  BY <1>2 DEF Keeps, LimitKept, Machines, PsuShape
<1>12. Keeps(vm', vm)
  BY <1>5, <1>9, <1>10, <1>11
<1>13. can_upscale' \in BOOLEAN
  BY <1>5 DEF SInv, Control
<1>14. i + 1 \in 0 .. ASICS_COUNT
  BY <1>2, ScalingAssumption, SMTT(30) DEF Asics
<1>15. /\ at = "temp" /\ i' = i + 1 /\ UNCHANGED <<at, psu_pimped, do_bist>> /\ NotRestarting
  BY DEF Temperature
<1>16. Control'
  BY <1>13, <1>14, <1>15 DEF SInv, Control, NotRestarting
<1> QED
  BY <1>12, <1>16, SInvNow, SInvAgain DEF Keeps

(* The locals of the second are gone.                                      *)
LEMMA EndTickStep ==
  ASSUME SInv, Alive, EndTick
  PROVE  SInv'
<1> DEFINE x == WithReset(vm, FALSE)
           E == [a \in Asics |-> [vm.asic[a] EXCEPT !.hot = FALSE]]
<1>1. vm \in Machines /\ vm.asic \in [Asics -> AsicShape] /\ vm.asic \in [Asics -> AsicType]
  BY SInvNow DEF Sound, Machines, Alive
<1>2. /\ E \in [Asics -> AsicShape]
      /\ \A a \in Asics : E[a].cooling_down = vm.asic[a].cooling_down
  BY <1>1 DEF AsicShape
<1>3. E \in [Asics -> AsicType]
  BY <1>1, ZenonT(40) DEF AsicType
<1>4. vm' = WithAsics(x, E)
  BY DEF EndTick, WithAsics, WithReset
<1>5. x.asic = vm.asic
  BY <1>1 DEF WithReset, Machines
<1> HIDE DEF E
<1>6. Sound(x) /\ FreqsAsked(x)
  BY SInvNow, ResetKeeps
<1> HIDE DEF x
<1>7. Keeps(vm', x)
  BY <1>2, <1>3, <1>4, <1>5, <1>6, NewAsics
<1>8. 0 \in 0 .. ASICS_COUNT /\ {} \subseteq Psus
  BY ScalingAssumption
<1>9. Control'
  <2>1. /\ at' = "mining" /\ i' = 0 /\ resume' = "end"
        /\ can_upscale' = TRUE /\ psu_pimped' = {} /\ do_bist' = FALSE /\ tries' = tries
    BY DEF EndTick
  <2>2. at' \in Places /\ resume' \in {"upvolt", "bist", "lazy", "end"}
    BY <2>1 DEF Places
  <2>3. at' \notin {"restart", "retest"} /\ at' # "rebist"
    BY <2>1
  <2>4. can_upscale' \in BOOLEAN /\ do_bist' \in BOOLEAN /\ psu_pimped' \subseteq Psus
    BY <2>1
  <2>5. i' \in 0 .. ASICS_COUNT
    BY <1>8, <2>1
  <2>6. tries' \in 0 .. 2
    BY <2>1 DEF SInv, Control
  <2> QED
    BY <2>2, <2>3, <2>4, <2>5, <2>6, Zenon DEF Control
<1> QED
  BY <1>6, <1>7, <1>9, SInvAgain DEF Keeps
-----------------------------------------------------------------------------
(* Every step keeps the invariant, and assumes no power over a limit.      *)
LEMMA NextSInv ==
  ASSUME SInv, [Next]_vars
  PROVE  /\ SInv'
         /\ (at \in {"upvolt", "temp"} /\ at' = at) => LimitKept(vm', vm)
<1>1. CASE UNCHANGED vars
  <2>1. SInv'
    BY <1>1 DEF vars, SInv, OnlyRaiseAsks, Control
  <2>2. LimitKept(vm', vm)
    <3>0. vm.ac2dc \in [Psus -> PsuShape]
      BY DEF SInv, Sound, Machines
    <3>1. \A p \in Psus : ~(vm.ac2dc[p].assumed > vm.ac2dc[p].assumed)
      BY <3>0 DEF PsuShape
    <3> QED
      BY <1>1, <3>1 DEF vars, LimitKept
  <2> QED
    BY <2>1, <2>2
<1>2. CASE Next
  <2>1. Alive
    BY <1>2 DEF Next
  <2>2. CASE MinimalBist
    BY <2>1, <2>2, MinimalBistStep DEF MinimalBist
  <2>3. CASE RaiseStep
    BY <2>1, <2>3, RaiseStepStep DEF RaiseStep
  <2>4. CASE \E a \in Present : OvercurrentWarning(a)
    BY <2>1, <2>4, OvercurrentStep DEF OvercurrentWarning
  <2>5. CASE forget_all_limits
    BY <2>1, <2>5, ForgetStep DEF forget_all_limits
  <2>6. CASE ErrorRestart
    BY <2>1, <2>6, ErrorRestartStep DEF ErrorRestart
  <2>7. CASE OnceSecond
    BY <2>1, <2>7, OnceSecondStep DEF OnceSecond
  <2>8. CASE Upvolt
    BY <2>1, <2>8, UpvoltStep
  <2>9. CASE NextPsu
    BY <2>1, <2>9, NextPsuStep
  <2>10. CASE Upscaled
    <3>1. at' = "bist"
      BY <2>10 DEF Upscaled
    <3> QED
      BY <2>1, <2>10, <3>1, UpscaledStep
  <2>11. CASE BistLoop
    BY <2>1, <2>11, BistLoopStep DEF BistLoop
  <2>12. CASE RestartTest
    BY <2>1, <2>12, RestartTestStep DEF RestartTest
  <2>13. CASE RestartBist
    BY <2>1, <2>13, RestartBistStep DEF RestartBist
  <2>14. CASE LazyAsics
    BY <2>1, <2>14, LazyAsicsStep DEF LazyAsics
  <2>15. CASE PowerTooHigh
    BY <2>1, <2>15, PowerTooHighStep DEF PowerTooHigh
  <2>16. CASE PowerDone
    <3>1. at = "power" /\ at' = "temp"
      BY <2>16 DEF PowerDone
    <3> QED
      BY <2>1, <2>16, <3>1, PowerDoneStep
  <2>17. CASE Temperature
    BY <2>1, <2>17, TemperatureStep
  <2>18. CASE EndTick
    <3>1. at' = "mining"
      BY <2>18 DEF EndTick
    <3> QED
      BY <2>1, <2>18, <3>1, EndTickStep
  <2> QED
    BY <1>2, <2>2, <2>3, <2>4, <2>5, <2>6, <2>7, <2>8, <2>9, <2>10, <2>11, <2>12, <2>13,
       <2>14, <2>15, <2>16, <2>17, <2>18 DEF Next
<1> QED
  BY <1>1, <1>2

(* The invariant, always: in range while no passert has failed, no count   *)
(* of cooling ASICs ahead of them, and no voltage asked for above the      *)
(* user's maximum.                                                         *)
THEOREM Invariance == Spec => []SInv
<1>1. Init => SInv
  BY InitSInv
<1>2. SInv /\ [Next]_vars => SInv'
  BY NextSInv
<1> QED
  BY <1>1, <1>2, PTL DEF Spec

(* Type correctness: voltages, frequencies and limits stay in their ranges *)
(* as long as no passert() failed, and no board counts more cooling ASICs  *)
(* than there are.                                                         *)
THEOREM Typing == Spec => []TypeOK
<1>1. SInv => TypeOK
  <2> SUFFICES ASSUME SInv PROVE TypeOK
    OBVIOUS
  <2>1. IsFiniteSet(Asics) /\ Cardinality(Asics) = ASICS_COUNT
    <3>1. ASICS_COUNT - 1 \in Int /\ ASICS_COUNT \in Nat \ {0}
      BY ScalingAssumption
    <3>2. /\ IsFiniteSet(0 .. ASICS_COUNT - 1)
          /\ Cardinality(0 .. ASICS_COUNT - 1)
               = IF 0 > ASICS_COUNT - 1 THEN 0 ELSE ASICS_COUNT - 1 - 0 + 1
      BY <3>1, FS_Interval
    <3> QED
      BY <3>1, <3>2 DEF Asics
  <2>2. ASSUME NEW p \in Psus
        PROVE  vm.ac2dc[p] \in PsuType
    <3>1. vm.ac2dc[p] \in PsuShape
      BY DEF SInv, Sound, Machines
    <3>2. Cooling(vm, p) \in SUBSET Asics
      BY DEF Cooling
    <3>3. Cardinality(Cooling(vm, p)) <= ASICS_COUNT /\ Cardinality(Cooling(vm, p)) \in Nat
      BY <2>1, <3>2, FS_Subset, CoolingFinite
    <3>4. vm.ac2dc[p].board_cooling_now <= Cardinality(Cooling(vm, p))
      BY DEF SInv, Sound, Counted
    <3>5. vm.ac2dc[p].board_cooling_now \in 0 .. ASICS_COUNT
      BY <3>1, <3>3, <3>4, ScalingAssumption DEF PsuShape
    <3> QED
      BY <3>1, <3>5 DEF PsuShape, PsuType
  <2>3. vm.ac2dc \in [Psus -> PsuType]
    BY <2>2 DEF SInv, Sound, Machines
  <2>4. Alive => vm.asic \in [Asics -> AsicType]
    BY DEF Alive, SInv, Sound
  <2>5. vm.next_bist_countdown \in 0 .. BIST_PERIOD_SECS_LONG /\ vm.did_asic_reset \in BOOLEAN
    BY DEF SInv, Sound, Machines
  <2>6. Control
    BY DEF SInv
  <2> QED
    BY <2>3, <2>4, <2>5, <2>6 DEF TypeOK, Control, Places
<1> QED
  BY <1>1, Invariance, PTL

(* dc2dc_set_vtrim() is never asked for more than the user's maximum, and  *)
(* set_pll() only at start-up for more than the highest frequency: the     *)
(* tests made before each of their many calls are enough.                  *)
THEOREM LimitsHold == Spec => []UpperLimitsHold
<1>1. SInv => UpperLimitsHold
  BY DEF SInv, Sound, OnlyRaiseAsks, UpperLimitsHold
<1> QED
  BY <1>1, Invariance, PTL

(* Through heat, restarts and ASICs that are disabled, no board's count of *)
(* cooling ASICs gets ahead of the ASICs that are marked.                  *)
THEOREM CountNeverAhead == Spec => []CoolingCountNotAhead
<1>1. SInv => CoolingCountNotAhead
  BY DEF SInv, Sound, Counted, Cooling, CoolingCountNotAhead
<1> QED
  BY <1>1, Invariance, PTL

(* Raising a frequency never takes the power assumed of a supply over its  *)
(* limit, whatever the head-room is rounded to.                            *)
THEOREM PowerKept == Spec => UpscalingKeepsLimit
<1>1. SInv /\ [Next]_vars
        => [(at \in {"upvolt", "temp"} /\ at' = at) =>
             (\A p \in Psus : vm'.ac2dc[p].assumed > vm.ac2dc[p].assumed
                              => vm'.ac2dc[p].assumed <= ac2dc_power_limit)]_vars
  BY NextSInv DEF LimitKept
<1> QED
  BY <1>1, Invariance, PTL DEF Spec, UpscalingKeepsLimit
-----------------------------------------------------------------------------
(* How fast an ASIC is, how fast its BISTs allow, and what is asked for.   *)
SameFreq(e, d) ==
  /\ e.freq_hw = d.freq_hw /\ e.freq_bist_limit = d.freq_bist_limit
  /\ e.wanted = d.wanted /\ e.bist_failed_called = d.bist_failed_called

(* A call that slows and speeds up nothing, but may disable ASICs.         *)
SameFreqs(w, v) ==
  /\ w.abort = "none" => v.abort = "none"
  /\ \A a \in Asics : w.asic[a].asic_present
                      => v.asic[a].asic_present /\ SameFreq(w.asic[a], v.asic[a])

(* The limit is kept; or the first frequencies are still being searched;   *)
(* or just the limit is asked for.                                         *)
Settled(d) == d.wanted = 0 /\ d.freq_hw <= d.freq_bist_limit
Searching(d) == d.wanted = 0 /\ ~d.bist_failed_called
Asked(d) == d.wanted = d.freq_bist_limit /\ d.wanted # 0

Limited(v, search, asked) ==
  \A a \in Asics : v.asic[a].asic_present =>
    \/ Settled(v.asic[a])
    \/ search /\ Searching(v.asic[a])
    \/ asked /\ Asked(v.asic[a])

(* Nothing is asked for an ASIC at the lowest frequency: one that fails    *)
(* there gets another limit, and keeps what it has asked for.              *)
AskedAboveMin(v) ==
  \A a \in Asics : v.asic[a].asic_present /\ v.asic[a].wanted # 0
                   => v.asic[a].freq_hw > ASIC_FREQ_MIN

(* The upvolt loop takes an ASIC once.                                     *)
AskedOnce(v) ==
  \A a \in Asics : v.asic[a].asic_present /\ v.asic[a].wanted # 0 => v.asic[a].revolted

(* The same ASICs and frequencies mean all this as before.                 *)
LEMMA SameLimited ==
  ASSUME NEW v, NEW w, SameFreqs(w, v)
  PROVE  /\ \A search, asked \in BOOLEAN :
              Limited(v, search, asked) => Limited(w, search, asked)
         /\ AskedAboveMin(v) => AskedAboveMin(w)
  BY DEF SameFreqs, SameFreq, Limited, Settled, Searching, Asked, AskedAboveMin

(* Two such calls are one.                                                 *)
LEMMA SameTwice ==
  ASSUME NEW u, NEW v, NEW w, SameFreqs(v, u), SameFreqs(w, v)
  PROVE  SameFreqs(w, u)
  BY DEF SameFreqs, SameFreq

(* What touches only power supplies, or the countdown.                     *)
LEMMA EqualSame ==
  ASSUME NEW v, NEW w, w.asic = v.asic, w.abort = v.abort
  PROVE  SameFreqs(w, v)
  BY DEF SameFreqs, SameFreq

(* What touches other fields of the ASICs.                                 *)
LEMMA AsicsSame ==
  ASSUME NEW v, v \in Machines, NEW D,
         \A a \in Asics : D[a].asic_present
                          => v.asic[a].asic_present /\ SameFreq(D[a], v.asic[a])
  PROVE  SameFreqs(WithAsics(v, D), v)
<1>1. WithAsics(v, D).asic = D /\ WithAsics(v, D).abort = v.abort
  BY DEF WithAsics, Machines
<1> QED
  BY <1>1 DEF SameFreqs

(* dc2dc_set_vtrim() changes no frequency.                                 *)
LEMMA VtrimsSame ==
  ASSUME NEW v, v \in Machines, NEW A \in SUBSET Asics, NEW V \in [Asics -> Int]
  PROVE  SameFreqs(dc2dc_set_vtrim(v, A, V), v)
<1> DEFINE s == dc2dc_set_vtrim(v, A, V)
<1>1. VtrimsSetOf(s, v, A, V)
  BY VtrimsSetIs
<1> HIDE DEF s
<1>2. ASSUME NEW a \in Asics
      PROVE  /\ s.asic[a].asic_present = v.asic[a].asic_present
             /\ SameFreq(s.asic[a], v.asic[a])
  <2>1. v.asic[a] \in AsicShape
    BY DEF Machines
  <2>2. s.asic[a] = v.asic[a] \/ s.asic[a] = [v.asic[a] EXCEPT !.vtrim = V[a]]
    BY <1>1 DEF VtrimsSetOf
  <2> QED
    BY <2>1, <2>2 DEF AsicShape, SameFreq
<1>3. s.abort = "none" => v.abort = "none"
  BY <1>1 DEF VtrimsSetOf
<1> QED
  BY <1>2, <1>3 DEF SameFreqs, s

(* Nor does dc2dc_down().                                                  *)
LEMMA DownSame ==
  ASSUME NEW v, v \in Machines, NEW A \in SUBSET Asics, NEW clicks \in Nat
  PROVE  SameFreqs(dc2dc_down(v, A, clicks), v)
<1> DEFINE s == dc2dc_down(v, A, clicks)
<1>1. Lowered(s, v, A, clicks)
  BY DownIs
<1> HIDE DEF s
<1>2. ASSUME NEW a \in Asics
      PROVE  /\ s.asic[a].asic_present = v.asic[a].asic_present
             /\ SameFreq(s.asic[a], v.asic[a])
  <2>1. v.asic[a] \in AsicShape
    BY DEF Machines
  <2>2. \/ s.asic[a] = v.asic[a]
        \/ s.asic[a] = [v.asic[a] EXCEPT !.vtrim = @ - clicks, !.revolted = TRUE]
    BY <1>1, ZenonT(40) DEF Lowered
  <2> QED
    BY <2>1, <2>2 DEF AsicShape, SameFreq
<1>3. s.abort = "none" => v.abort = "none"
  BY <1>1 DEF Lowered
<1> QED
  BY <1>2, <1>3 DEF SameFreqs, s

(* Nor do overcurrents.                                                    *)
LEMMA WarningSame ==
  ASSUME NEW v, Sound(v), NEW A \in SUBSET Asics
  PROVE  SameFreqs(overcurrent_warning(v, A), v)
<1> DEFINE d == dc2dc_down(v, A, 2)
           D == [a \in Asics |->
                   IF a \in A THEN [d.asic[a] EXCEPT !.max_vtrim_currentwise = d.asic[a].vtrim]
                   ELSE d.asic[a]]
           n == IF A = {} THEN d.next_bist_countdown ELSE Min({1, d.next_bist_countdown})
           x == WithAsics(d, D)
           w == overcurrent_warning(v, A)
<1>1. Keeps(d, v) /\ SameFreqs(d, v)
  BY DownKeeps, DownSame DEF Sound
<1>2. w = [Updated(d, A, [a \in Asics |->
                              [d.asic[a] EXCEPT !.max_vtrim_currentwise = d.asic[a].vtrim]])
                 EXCEPT !.next_bist_countdown = IF A = {} THEN @ ELSE Min({1, @})]
  BY DEF overcurrent_warning
<1> HIDE DEF d, w
<1>3. d \in Machines /\ d.asic \in [Asics -> AsicShape]
  BY <1>1 DEF Keeps, Sound, Machines
<1>4. Updated(d, A, [a \in Asics |->
                       [d.asic[a] EXCEPT !.max_vtrim_currentwise = d.asic[a].vtrim]]) = x
  BY DEF Updated, WithAsics
<1>5. ASSUME NEW a \in Asics
      PROVE  D[a].asic_present => d.asic[a].asic_present /\ SameFreq(D[a], d.asic[a])
  BY <1>3 DEF AsicShape, SameFreq
<1> HIDE DEF D
<1>6. SameFreqs(x, d)
  BY <1>3, <1>5, AsicsSame
<1>7. w.asic = x.asic /\ w.abort = x.abort
  <2>1. x.asic = D /\ x.abort = d.abort
    BY <1>3 DEF WithAsics, Machines
  <2> QED
    BY <1>2, <1>3, <1>4, <2>1 DEF WithAsics, Machines
<1> HIDE DEF x
<1>8. SameFreqs(w, x)
  BY <1>7, EqualSame
<1>9. SameFreqs(w, v)
  BY <1>1, <1>6, <1>8, SameTwice
<1> QED
  BY <1>9 DEF w

(* disable_asic_forever_rt() leaves the others alone.                      *)
LEMMA DisableSame ==
  ASSUME NEW v, v \in Machines, NEW D \in SUBSET Asics
  PROVE  SameFreqs(disable_asic_forever(v, D), v)
<1> DEFINE w == disable_asic_forever(v, D)
<1>1. /\ w.abort = v.abort
      /\ w.asic = [a \in Asics |-> IF a \in D
                     THEN [v.asic[a] EXCEPT !.asic_present = FALSE, !.cooling_down = FALSE]
                     ELSE v.asic[a]]
  BY DEF disable_asic_forever, Machines
<1> HIDE DEF w
<1>2. ASSUME NEW a \in Asics, w.asic[a].asic_present
      PROVE  w.asic[a] = v.asic[a]
  <2>1. v.asic[a] \in AsicShape
    BY DEF Machines
  <2> QED
    BY <1>1, <1>2, <2>1 DEF AsicShape
<1>3. SameFreqs(w, v)
  BY <1>1, <1>2 DEF SameFreqs, SameFreq
<1> QED
  BY <1>3 DEF w

(* A restart changes voltages only; BISTs come later.                      *)
LEMMA RestartSame ==
  ASSUME NEW v, Sound(v)
  PROVE  SameFreqs(RestartVoltages(v), v)
<1> DEFINE P == [p \in Psus |-> [v.ac2dc[p] EXCEPT !.board_cooling_now = 0]]
           y == WithPsus(v, P)
           A == {a \in Asics : v.asic[a].asic_present}
           V == [a \in Asics |-> v.asic[a].vtrim - 1]
<1>1. P \in [Psus -> PsuShape] /\ v.asic \in [Asics -> AsicShape]
  BY DEF Sound, Machines, PsuShape
<1>2. RestartVoltages(v) = dc2dc_set_vtrim(y, A, V)
  BY DEF RestartVoltages, WithPsus
<1> HIDE DEF P
<1>3. y \in Machines /\ y.asic = v.asic /\ y.abort = v.abort
  BY <1>1 DEF WithPsus, Sound, Machines
<1> HIDE DEF y
<1>4. V \in [Asics -> Int] /\ A \in SUBSET Asics
  BY <1>1 DEF AsicShape
<1> HIDE DEF V, A
<1>5. SameFreqs(dc2dc_set_vtrim(y, A, V), y) /\ SameFreqs(y, v)
  BY <1>3, <1>4, VtrimsSame, EqualSame
<1> QED
  BY <1>2, <1>5, SameTwice

(* A new turn for every ASIC in the upvolt loop.                           *)
LEMMA NoneRevoltedSame ==
  ASSUME NEW v, Sound(v)
  PROVE  SameFreqs(NoneRevolted(v), v)
<1> DEFINE D == [a \in Asics |-> [v.asic[a] EXCEPT !.revolted = FALSE]]
<1>1. v \in Machines /\ v.asic \in [Asics -> AsicShape]
  BY DEF Sound, Machines
<1>2. ASSUME NEW a \in Asics
      PROVE  D[a].asic_present => v.asic[a].asic_present /\ SameFreq(D[a], v.asic[a])
  BY <1>1 DEF AsicShape, SameFreq
<1>3. NoneRevolted(v) = WithAsics(v, D)
  BY DEF NoneRevolted, WithAsics
<1> HIDE DEF D
<1> QED
  BY <1>1, <1>2, <1>3, AsicsSame

(* The frequencies asked for are set, unless one is out of range.          *)
WantedSetOf(w, v) ==
  /\ w.abort = "none" => v.abort = "none"
  /\ \A a \in Asics :
       LET f == w.asic[a]
           d == v.asic[a]
       IN  /\ f.asic_present = d.asic_present /\ f.freq_bist_limit = d.freq_bist_limit
           /\ f.bist_failed_called = d.bist_failed_called /\ f.wanted = 0
           /\ f.freq_hw = IF d.asic_present /\ d.wanted # 0 THEN d.wanted ELSE d.freq_hw

(* This is what set_plls_to_wanted() does.                                 *)
LEMMA WantedIs ==
  ASSUME NEW v, Sound(v)
  PROVE  WantedSetOf(set_plls_to_wanted(v), v)
<1> DEFINE A == {a \in Asics : v.asic[a].asic_present /\ v.asic[a].wanted # 0}
           V == [a \in Asics |-> v.asic[a].wanted]
           s == set_pll(v, A, V)
           w == set_plls_to_wanted(v)
<1>1. v \in Machines /\ v.asic \in [Asics -> AsicShape]
  BY DEF Sound, Machines
<1>2. V \in [Asics -> Int] /\ A \in SUBSET Asics
  BY <1>1 DEF AsicShape
<1>3. w = Updated(s, Asics, [a \in Asics |-> [s.asic[a] EXCEPT !.wanted = 0]])
  BY DEF set_plls_to_wanted
<1>4. \A a \in Asics : /\ V[a] = v.asic[a].wanted
                       /\ a \in A <=> v.asic[a].asic_present /\ v.asic[a].wanted # 0
  OBVIOUS
<1> HIDE DEF w, A, V
<1>5. FreqsSetOf(s, v, A, V)
  BY <1>1, <1>2, FreqsSetIs
<1> HIDE DEF s
<1>6. s \in Machines /\ s.asic \in [Asics -> AsicShape]
  BY <1>5 DEF FreqsSetOf, OnlyAsics, Machines
<1>7. /\ w.abort = s.abort
      /\ w.asic = [a \in Asics |-> [s.asic[a] EXCEPT !.wanted = 0]]
  BY <1>3, <1>6 DEF Updated, Machines
<1>8. w.abort = "none" => v.abort = "none"
  BY <1>5, <1>7 DEF FreqsSetOf
<1>9. ASSUME NEW a \in Asics
      PROVE  LET f == w.asic[a]
                 d == v.asic[a]
             IN  /\ f.asic_present = d.asic_present /\ f.freq_bist_limit = d.freq_bist_limit
                 /\ f.bist_failed_called = d.bist_failed_called /\ f.wanted = 0
                 /\ f.freq_hw = IF d.asic_present /\ d.wanted # 0 THEN d.wanted ELSE d.freq_hw
  <2> DEFINE d == v.asic[a]
             e == s.asic[a]
             f == w.asic[a]
  <2>1. d \in AsicShape /\ e \in AsicShape
    BY <1>1, <1>6
  <2>2. e = IF a \in A THEN [d EXCEPT !.freq_hw = V[a]] ELSE d
    BY <1>5 DEF FreqsSetOf
  <2>3. f = [e EXCEPT !.wanted = 0]
    BY <1>7
  <2>4. V[a] = d.wanted /\ (a \in A <=> d.asic_present /\ d.wanted # 0)
    BY <1>4
  <2> HIDE DEF d, e, f
  <2>5. /\ f.wanted = 0 /\ f.freq_hw = e.freq_hw /\ f.freq_bist_limit = e.freq_bist_limit
        /\ f.bist_failed_called = e.bist_failed_called /\ f.asic_present = e.asic_present
    BY <2>1, <2>3 DEF AsicShape
  <2>6. /\ e.freq_hw = IF a \in A THEN d.wanted ELSE d.freq_hw
        /\ e.freq_bist_limit = d.freq_bist_limit
        /\ e.bist_failed_called = d.bist_failed_called /\ e.asic_present = d.asic_present
    BY <2>1, <2>2, <2>4 DEF AsicShape
  <2> QED
    BY <2>4, <2>5, <2>6 DEF d, f
<1> QED
  BY <1>8, <1>9 DEF WantedSetOf, w

(* set_plls_to_wanted(): what was asked for is set, and nothing is left.   *)
LEMMA WantedLimited ==
  ASSUME NEW v, Sound(v), NEW search \in BOOLEAN, Limited(v, search, TRUE)
  PROVE  Limited(set_plls_to_wanted(v), search, FALSE)
<1> DEFINE w == set_plls_to_wanted(v)
<1>1. WantedSetOf(w, v) /\ \A a \in Asics : v.asic[a].freq_bist_limit \in Int
  BY WantedIs DEF Sound, Machines, AsicShape
<1> HIDE DEF w
<1>2. Limited(w, search, FALSE)
  BY <1>1 DEF WantedSetOf, Limited, Settled, Searching, Asked
<1> QED
  BY <1>2 DEF w

(* on_failed_bist(): a slower frequency is asked for and is the limit; at  *)
(* the lowest, the limit is the one of an ASIC with fewer engines.         *)
LEMMA FailLimited ==
  ASSUME NEW v, Sound(v), NEW F \in SUBSET Asics, NEW search \in BOOLEAN,
         NEW asked \in BOOLEAN, Limited(v, search, asked), AskedAboveMin(v),
         FailAll(v, F).abort = "none"
  PROVE  LET w == FailAll(v, F)
         IN  v.abort = "none" /\ Limited(w, search, TRUE) /\ AskedAboveMin(w)
<1> DEFINE B == {a \in F : /\ v.asic[a].freq_hw > ASIC_FREQ_MIN
                          /\ v.asic[a].freq_bist_limit <= ASIC_FREQ_MIN}
           p == Passert(v, B, "freq_bist_limit above ASIC_FREQ_MIN")
           D == [a \in Asics |-> IF a \in F THEN on_failed_bist(v.asic[a]) ELSE v.asic[a]]
           w == FailAll(v, F)
<1>1. v \in Machines /\ v.asic \in [Asics -> AsicShape]
  BY DEF Sound, Machines
<1>2. p \in Machines /\ p.asic = v.asic /\ (p.abort = "none" => v.abort = "none")
  <2> HIDE DEF B
  <2> QED
    BY <1>1 DEF Passert, Machines, Passerts
<1>3. w = Updated(p, F, [a \in Asics |-> on_failed_bist(v.asic[a])])
  BY DEF FailAll
<1> HIDE DEF p, w
<1>4. w.asic = D /\ w.abort = p.abort
  BY <1>2, <1>3 DEF Updated, Machines
<1>5. v.abort = "none" /\ v.asic \in [Asics -> AsicType]
  BY <1>2, <1>4 DEF Sound, w
<1>6. ASSUME NEW a \in Asics, w.asic[a].asic_present
      PROVE  /\ Settled(w.asic[a]) \/ (search /\ Searching(w.asic[a])) \/ Asked(w.asic[a])
             /\ w.asic[a].wanted # 0 => w.asic[a].freq_hw > ASIC_FREQ_MIN
  <2> DEFINE d == v.asic[a]
             e == on_failed_bist(d)
             f == w.asic[a]
  <2>1. d \in AsicType /\ f = IF a \in F THEN e ELSE d
    BY <1>4, <1>5
  <2>2. e.asic_present = d.asic_present /\ e.freq_hw = d.freq_hw
    BY <2>1 DEF on_failed_bist, AsicType
  <2>3. d.asic_present
    BY <1>6, <2>1, <2>2
  <2>4. /\ Settled(d) \/ (search /\ Searching(d)) \/ Asked(d)
        /\ d.wanted # 0 => d.freq_hw > ASIC_FREQ_MIN
    BY <2>3 DEF Limited, AskedAboveMin
  <2>5. d.freq_hw \in Int /\ d.freq_hw >= ASIC_FREQ_MIN
    BY <2>1 DEF AsicType, Freqs
  <2> HIDE DEF d
  <2>6. CASE d.freq_hw > ASIC_FREQ_MIN
    <3>1. /\ e.wanted = d.freq_hw - 10 /\ e.freq_bist_limit = d.freq_hw - 10
          /\ e.bist_failed_called
      BY <2>1, <2>6 DEF on_failed_bist, AsicType
    <3>2. d.freq_hw \in Freqs /\ ASIC_FREQ_MIN \in Freqs
      BY <2>1, FreqSteps DEF AsicType
    <3>3. d.freq_hw - 10 # 0
      BY <2>6, <3>2, FreqSteps, ScalingAssumption
    <3>4. Asked(e)
      BY <3>1, <3>3 DEF Asked
    <3> HIDE DEF e
    <3> QED
      BY <2>1, <2>2, <2>4, <2>6, <3>4
  <2>7. CASE ~(d.freq_hw > ASIC_FREQ_MIN)
    <3>1. e = [d EXCEPT !.freq_bist_limit = FREQ_AFTER_DISABLE]
      BY <2>7 DEF on_failed_bist
    <3>2. d.wanted = 0
      BY <2>4, <2>7
    <3>3. e.wanted = 0 /\ e.freq_bist_limit = FREQ_AFTER_DISABLE
      BY <2>1, <3>1, <3>2 DEF AsicType
    <3> HIDE DEF e
    <3>4. d.freq_hw <= FREQ_AFTER_DISABLE
      BY <2>5, <2>7, ScalingAssumption
    <3>5. Settled(e)
      BY <2>2, <3>3, <3>4 DEF Settled
    <3> QED
      BY <2>1, <2>4, <3>2, <3>3, <3>5
  <2> QED
    BY <2>6, <2>7
<1>7. Limited(w, search, TRUE) /\ AskedAboveMin(w)
  BY <1>6 DEF Limited, AskedAboveMin
<1> QED
  BY <1>5, <1>7 DEF w

(* Where only the search may be under way, nothing is asked for.           *)
LEMMA NothingAsked ==
  ASSUME NEW v, NEW search \in BOOLEAN, Limited(v, search, FALSE)
  PROVE  AskedAboveMin(v) /\ AskedOnce(v) /\ Limited(v, search, TRUE)
  BY DEF Limited, AskedAboveMin, AskedOnce, Settled, Searching

(* do_bist_ok(): a BIST, and the frequencies that follow from it.          *)
LEMMA BistLimited ==
  ASSUME NEW v, Sound(v), NEW F \in SUBSET Asics, NEW search \in BOOLEAN,
         NEW asked \in BOOLEAN, Limited(v, search, asked), AskedAboveMin(v),
         do_bist_ok(v, F).abort = "none"
  PROVE  LET w == do_bist_ok(v, F)
         IN  Limited(w, search, FALSE)
<1> DEFINE x == FailAll(v, F)
<1>1. Sound(x)
  BY FailAllKeeps DEF Keeps
<1>2. do_bist_ok(v, F) = set_plls_to_wanted(x)
  BY DEF do_bist_ok
<1>3. x.abort = "none"
  BY <1>1, <1>2, WantedIs DEF WantedSetOf
<1>4. Limited(x, search, TRUE)
  BY <1>3, FailLimited
<1> HIDE DEF x
<1> QED
  BY <1>1, <1>2, <1>4, WantedLimited

(* asic_up_freq_max_request(): one ASIC may have its limit asked for.      *)
SameButWanted(e, d) ==
  /\ e.asic_present = d.asic_present /\ e.freq_hw = d.freq_hw
  /\ e.freq_bist_limit = d.freq_bist_limit
  /\ e.bist_failed_called = d.bist_failed_called /\ e.revolted = d.revolted

RequestedOf(w, v, a) ==
  /\ w.abort = v.abort
  /\ \A b \in Asics :
       /\ SameButWanted(w.asic[b], v.asic[b])
       /\ \/ w.asic[b].wanted = v.asic[b].wanted
          \/ b = a /\ w.asic[b].wanted = v.asic[b].freq_bist_limit

(* Only this one, and nothing else but that it no longer cools.            *)
LEMMA RequestIs ==
  ASSUME NEW v, v \in Machines, NEW a \in Asics
  PROVE  RequestedOf(asic_up_freq_max_request(v, a), v, a)
<1> DEFINE q == PSU_ID(a)
           wanted == v.asic[a].freq_bist_limit
           wanted_hz == wanted - v.asic[a].freq_hw
           allowed_hz == Headroom(v, a) * 3
           full == wanted_hz <= allowed_hz
           hz == IF full THEN wanted_hz ELSE Truncated(allowed_hz, 5) * 5
           y == Cooled(v, a)
           cooled == IF full /\ v.asic[a].cooling_down THEN y ELSE v
           x == AssumeMore(cooled, q, hz \div 3)
           z == [x EXCEPT !.asic[a].wanted = wanted]
           w == asic_up_freq_max_request(v, a)
           Keys == {"asic", "ac2dc", "next_bist_countdown", "did_asic_reset", "abort"}
<1>1. v.asic \in [Asics -> AsicShape] /\ DOMAIN v = Keys
  BY DEF Machines
<1>2. w = IF hz < 0 THEN cooled ELSE z
  BY DEF asic_up_freq_max_request, Cooled, AssumeMore
<1>3. /\ y.abort = v.abort /\ DOMAIN y = Keys /\ DOMAIN y.asic = Asics
      /\ \A b \in Asics : \/ y.asic[b] = v.asic[b]
                          \/ y.asic[b] = [v.asic[b] EXCEPT !.cooling_down = FALSE]
  BY <1>1 DEF Cooled
<1> HIDE DEF y, full, hz, z
<1>4. /\ cooled.abort = v.abort /\ DOMAIN cooled = Keys /\ DOMAIN cooled.asic = Asics
      /\ \A b \in Asics : \/ cooled.asic[b] = v.asic[b]
                          \/ cooled.asic[b] = [v.asic[b] EXCEPT !.cooling_down = FALSE]
  BY <1>1, <1>3
<1> HIDE DEF cooled
<1>5. x.abort = cooled.abort /\ x.asic = cooled.asic /\ DOMAIN x = Keys
  BY <1>4 DEF AssumeMore
<1> HIDE DEF x, wanted
<1>6. /\ z.abort = x.abort
      /\ \A b \in Asics : \/ b # a /\ z.asic[b] = x.asic[b]
                          \/ b = a /\ z.asic[b] = [x.asic[b] EXCEPT !.wanted = wanted]
  BY <1>4, <1>5 DEF z
<1>7. ASSUME NEW b \in Asics
      PROVE  /\ SameButWanted(cooled.asic[b], v.asic[b])
             /\ cooled.asic[b].wanted = v.asic[b].wanted
             /\ DOMAIN cooled.asic[b] = DOMAIN v.asic[b]
  <2>1. v.asic[b] \in AsicShape
    BY <1>1
  <2> QED
    BY <1>4, <2>1 DEF AsicShape, SameButWanted
<1>8. ASSUME NEW b \in Asics
      PROVE  /\ SameButWanted(z.asic[b], v.asic[b])
             /\ \/ z.asic[b].wanted = v.asic[b].wanted
                \/ b = a /\ z.asic[b].wanted = v.asic[b].freq_bist_limit
  <2>2. CASE b # a
    <3>1. z.asic[b] = cooled.asic[b]
      BY <1>5, <1>6, <2>2, Zenon
    <3> QED
      BY <1>7, <3>1, Zenon
  <2>3. CASE b = a
    <3> DEFINE c == cooled.asic[b]
               e == z.asic[b]
    <3>1. /\ e = [c EXCEPT !.wanted = wanted] /\ wanted = v.asic[b].freq_bist_limit
          /\ v.asic[b] \in AsicShape /\ DOMAIN c = DOMAIN v.asic[b]
      BY <1>1, <1>5, <1>6, <1>7, <2>3 DEF wanted
    <3> HIDE DEF c, e
    <3>2. e.wanted = wanted /\ SameButWanted(e, c)
      BY <3>1 DEF AsicShape, SameButWanted
    <3>3. SameButWanted(e, v.asic[b])
      BY <1>7, <3>2 DEF SameButWanted, c
    <3> QED
      BY <2>3, <3>1, <3>2, <3>3 DEF e
  <2> QED
    BY <2>2, <2>3
<1>9. RequestedOf(w, v, a)
  BY <1>2, <1>4, <1>5, <1>6, <1>7, <1>8 DEF RequestedOf
<1> QED
  BY <1>9 DEF w

(* dc2dc_up(): a higher limit, which may be asked for.                     *)
SameButLimit(e, d) == e.asic_present = d.asic_present /\ e.freq_hw = d.freq_hw

UppedOf(w, v, a) ==
  /\ w.abort = "none" => v.abort = "none"
  /\ \A b \in Asics : SameButLimit(w.asic[b], v.asic[b])
  /\ \A b \in Asics \ {a} :
       SameFreq(w.asic[b], v.asic[b]) /\ w.asic[b].revolted = v.asic[b].revolted
  /\ w.asic[a].revolted /\ w.asic[a].freq_bist_limit \in Int
  /\ w.asic[a].freq_bist_limit >= v.asic[a].freq_bist_limit
  /\ \/ w.asic[a].wanted = v.asic[a].wanted
     \/ w.asic[a].wanted = w.asic[a].freq_bist_limit

(* One ASIC, whose limit never falls: it is no higher than ASIC_FREQ_MAX.  *)
LEMMA UpIs ==
  ASSUME NEW v, Sound(v), v.abort = "none", NEW a \in Asics, NEW warm
  PROVE  UppedOf(dc2dc_up(v, a, warm), v, a)
<1> DEFINE V == [d \in Asics |-> v.asic[d].vtrim + 1]
           s == dc2dc_set_vtrim(v, {a}, V)
           limit == Min({s.asic[a].freq_bist_limit + 20, ASIC_FREQ_MAX})
           u == [s EXCEPT !.asic[a].revolted = TRUE, !.asic[a].freq_bist_limit = limit]
           w == dc2dc_up(v, a, warm)
           Keys == {"asic", "ac2dc", "next_bist_countdown", "did_asic_reset", "abort"}
<1>1. v \in Machines /\ v.asic \in [Asics -> AsicShape] /\ v.asic \in [Asics -> AsicType]
  BY DEF Sound, Machines
<1>2. V \in [Asics -> Int]
  BY <1>1 DEF AsicShape
<1>3. VtrimsSetOf(s, v, {a}, V)
  <2> HIDE DEF V
  <2> QED
    BY <1>1, <1>2, VtrimsSetIs
<1>4. s \in Machines /\ s.asic \in [Asics -> AsicShape] /\ DOMAIN s = Keys
  <2> HIDE DEF s, V
  <2> QED
    BY <1>3 DEF VtrimsSetOf, OnlyAsics, Machines
<1>5. w = u \/ w = asic_up_freq_max_request(u, a)
  <2> DEFINE T == [dc2dc_set_vtrim(v, {a}, [b \in Asics |-> v.asic[b].vtrim + 1]) EXCEPT
                     !.asic[a].revolted = TRUE,
                     !.asic[a].freq_bist_limit = Min({@ + 20, ASIC_FREQ_MAX})]
  <2>1. w = IF ~T.asic[a].cooling_down /\ asic_can_up_freq(T, a, warm)
            THEN asic_up_freq_max_request(T, a) ELSE T
    BY DEF dc2dc_up
  <2>2. T = [s EXCEPT !.asic[a].revolted = TRUE,
                      !.asic[a].freq_bist_limit = Min({@ + 20, ASIC_FREQ_MAX})]
    BY DEF V
  <2> HIDE DEF T, V, w, s
  <2>3. T = u
    BY <1>4, <2>2 DEF Machines, AsicShape
  <2> QED
    BY <2>1, <2>3, Zenon
<1> HIDE DEF w, V, s
<1>6. ASSUME NEW b \in Asics
      PROVE  LET e == s.asic[b]
                 d == v.asic[b]
             IN  /\ e.asic_present = d.asic_present /\ SameFreq(e, d)
                 /\ e.revolted = d.revolted
  <2>1. v.asic[b] \in AsicShape
    BY <1>1
  <2>2. s.asic[b] = v.asic[b] \/ s.asic[b] = [v.asic[b] EXCEPT !.vtrim = V[b]]
    BY <1>3 DEF VtrimsSetOf
  <2> QED
    BY <2>1, <2>2 DEF AsicShape, SameFreq
<1>7. limit \in Int /\ limit >= v.asic[a].freq_bist_limit
  <2>1. v.asic[a].freq_bist_limit \in Int /\ v.asic[a].freq_bist_limit <= ASIC_FREQ_MAX
    BY <1>1, ScalingAssumption DEF AsicType, Freqs
  <2>2. s.asic[a].freq_bist_limit = v.asic[a].freq_bist_limit
    BY <1>6 DEF SameFreq
  <2> QED
    BY <2>1, <2>2, MinIs, ScalingAssumption
<1> HIDE DEF limit
<1>8. /\ u.abort = s.abort /\ u \in Machines
      /\ \A b \in Asics \ {a} : u.asic[b] = s.asic[b]
      /\ u.asic[a] = [s.asic[a] EXCEPT !.revolted = TRUE, !.freq_bist_limit = limit]
  <2> DEFINE c == [s.asic[a] EXCEPT !.revolted = TRUE, !.freq_bist_limit = limit]
             E == [s.asic EXCEPT ![a] = c]
  <2>1. c \in AsicShape
    BY ZenonT(40), <1>4, <1>7 DEF AsicShape
  <2>2. u = WithAsics(s, E)
    BY <1>4 DEF WithAsics, Machines, AsicShape
  <2> HIDE DEF c, u
  <2>3. E \in [Asics -> AsicShape] /\ E[a] = c /\ \A b \in Asics \ {a} : E[b] = s.asic[b]
    BY <1>4, <2>1
  <2> HIDE DEF E
  <2>4. u \in Machines /\ u.abort = s.abort /\ u.asic = E
    BY <1>4, <2>2, <2>3 DEF WithAsics, Machines
  <2> QED
    BY <2>3, <2>4 DEF c
<1> HIDE DEF u
<1>9. /\ SameButLimit(u.asic[a], s.asic[a]) /\ u.asic[a].wanted = s.asic[a].wanted
      /\ u.asic[a].revolted /\ u.asic[a].freq_bist_limit = limit
  BY <1>4, <1>7, <1>8 DEF AsicShape, SameButLimit
<1>10. UppedOf(u, v, a)
  <2>1. u.abort = "none" => v.abort = "none"
    BY <1>3, <1>8 DEF VtrimsSetOf
  <2>2. ASSUME NEW b \in Asics \ {a}
        PROVE  /\ SameButLimit(u.asic[b], v.asic[b]) /\ SameFreq(u.asic[b], v.asic[b])
               /\ u.asic[b].revolted = v.asic[b].revolted
    BY <1>6, <1>8 DEF SameButLimit, SameFreq
  <2>3. /\ SameButLimit(u.asic[a], v.asic[a]) /\ u.asic[a].wanted = v.asic[a].wanted
        /\ u.asic[a].revolted /\ u.asic[a].freq_bist_limit \in Int
        /\ u.asic[a].freq_bist_limit >= v.asic[a].freq_bist_limit
    BY <1>6, <1>7, <1>9 DEF SameButLimit, SameFreq
  <2> QED
    BY <2>1, <2>2, <2>3 DEF UppedOf
<1>11. UppedOf(asic_up_freq_max_request(u, a), v, a)
  <2>1. RequestedOf(asic_up_freq_max_request(u, a), u, a)
    BY <1>8, RequestIs
  <2> QED
    BY <1>10, <2>1 DEF UppedOf, RequestedOf, SameButWanted, SameButLimit, SameFreq
<1> QED
  BY <1>5, <1>10, <1>11 DEF w

(* The ASIC of the upvolt loop: if its limit is asked for, this is its     *)
(* turn in the loop.                                                       *)
LEMMA UpLimited ==
  ASSUME NEW v, Sound(v), v.abort = "none", NEW a \in Asics, NEW warm,
         v.asic[a].asic_present, ~v.asic[a].revolted,
         Limited(v, FALSE, TRUE), AskedOnce(v)
  PROVE  LET w == dc2dc_up(v, a, warm)
         IN  Limited(w, FALSE, TRUE) /\ AskedOnce(w)
<1> DEFINE w == dc2dc_up(v, a, warm)
<1>1. UppedOf(w, v, a)
  BY UpIs
<1> HIDE DEF w
<1>2. v.asic \in [Asics -> AsicShape] /\ v.asic[a].wanted = 0
  BY DEF Sound, Machines, AskedOnce
<1>3. Settled(v.asic[a])
  BY <1>2 DEF Limited, Asked
<1>4. /\ w.asic[a].freq_hw = v.asic[a].freq_hw
      /\ w.asic[a].freq_bist_limit >= v.asic[a].freq_bist_limit
      /\ w.asic[a].freq_bist_limit \in Int /\ w.asic[a].revolted
      /\ w.asic[a].wanted = 0 \/ w.asic[a].wanted = w.asic[a].freq_bist_limit
  BY <1>1, <1>2 DEF UppedOf, SameButLimit
<1>5. Settled(w.asic[a]) \/ Asked(w.asic[a])
  <2>1. v.asic[a].freq_hw \in Int /\ v.asic[a].freq_bist_limit \in Int
    BY <1>2 DEF AsicShape
  <2> QED
    BY <1>3, <1>4, <2>1 DEF Settled, Asked
<1>6. ASSUME NEW b \in Asics \ {a}, w.asic[b].asic_present
      PROVE  /\ Settled(w.asic[b]) \/ Asked(w.asic[b])
             /\ w.asic[b].wanted # 0 => w.asic[b].revolted
  <2>1. /\ SameFreq(w.asic[b], v.asic[b]) /\ v.asic[b].asic_present
        /\ w.asic[b].revolted = v.asic[b].revolted
    BY <1>1, <1>6 DEF UppedOf, SameButLimit
  <2>2. /\ Settled(v.asic[b]) \/ Asked(v.asic[b])
        /\ v.asic[b].wanted # 0 => v.asic[b].revolted
    BY <2>1 DEF Limited, AskedOnce
  <2> QED
    BY <2>1, <2>2 DEF SameFreq, Settled, Asked
<1>7. Limited(w, FALSE, TRUE) /\ AskedOnce(w)
  BY <1>4, <1>5, <1>6 DEF Limited, AskedOnce
<1> QED
  BY <1>7 DEF w

(* An ASIC that may speed up, or that is too hot, and no other.            *)
OtherFreqOf(w, v, a) ==
  /\ w.abort = "none" => v.abort = "none"
  /\ \A b \in Asics \ {a} :
       w.asic[b].asic_present = v.asic[b].asic_present /\ SameFreq(w.asic[b], v.asic[b])
  /\ w.asic[a].asic_present = v.asic[a].asic_present
  /\ w.asic[a].freq_bist_limit = v.asic[a].freq_bist_limit
  /\ w.asic[a].wanted = v.asic[a].wanted

(* A frequency within its limit keeps all limits.                          *)
LEMMA OtherFreqLimited ==
  ASSUME NEW v, NEW w, NEW a \in Asics, OtherFreqOf(w, v, a), Limited(v, FALSE, FALSE),
         v.asic[a].asic_present => w.asic[a].freq_hw <= w.asic[a].freq_bist_limit
  PROVE  Limited(w, FALSE, FALSE)
<1>1. ASSUME NEW b \in Asics, w.asic[b].asic_present
      PROVE  Settled(w.asic[b])
  <2>1. v.asic[b].asic_present /\ Settled(v.asic[b])
    BY <1>1 DEF OtherFreqOf, Limited
  <2> QED
    BY <1>1, <2>1 DEF OtherFreqOf, SameFreq, Settled
<1> QED
  BY <1>1 DEF Limited

(* set_pll() of one ASIC.                                                  *)
LEMMA OnePll ==
  ASSUME NEW v, v \in Machines, NEW a \in Asics, NEW V \in [Asics -> Int]
  PROVE  LET w == set_pll(v, {a}, V)
         IN  OtherFreqOf(w, v, a) /\ w.asic[a].freq_hw = V[a] /\ w \in Machines
<1> DEFINE w == set_pll(v, {a}, V)
<1>1. FreqsSetOf(w, v, {a}, V)
  BY FreqsSetIs
<1> HIDE DEF w
<1>2. v.asic[a] \in AsicShape /\ w \in Machines
  BY <1>1 DEF Machines, FreqsSetOf, OnlyAsics
<1>3. /\ w.asic[a] = [v.asic[a] EXCEPT !.freq_hw = V[a]]
      /\ \A b \in Asics \ {a} : w.asic[b] = v.asic[b]
      /\ w.abort = "none" => v.abort = "none"
  BY <1>1 DEF FreqsSetOf
<1>4. /\ w.asic[a].freq_hw = V[a] /\ w.asic[a].asic_present = v.asic[a].asic_present
      /\ w.asic[a].freq_bist_limit = v.asic[a].freq_bist_limit
      /\ w.asic[a].wanted = v.asic[a].wanted
  BY <1>2, <1>3 DEF AsicShape
<1>5. OtherFreqOf(w, v, a)
  BY <1>3, <1>4 DEF OtherFreqOf, SameFreq
<1> QED
  BY <1>2, <1>4, <1>5 DEF w

(* asic_up_freq(): five MHz more, where the limit is not yet reached.      *)
LEMMA UpFreqLimited ==
  ASSUME NEW v, Sound(v), NEW a \in Asics, Limited(v, FALSE, FALSE),
         v.asic[a].freq_hw < v.asic[a].freq_bist_limit,
         asic_up_freq(v, a).abort = "none"
  PROVE  Limited(asic_up_freq(v, a), FALSE, FALSE)
<1> DEFINE V == [b \in Asics |-> v.asic[b].freq_hw + 5]
           s == set_pll(v, {a}, V)
           w == asic_up_freq(v, a)
<1>1. v \in Machines /\ v.asic \in [Asics -> AsicShape]
  BY DEF Sound, Machines
<1>2. V \in [Asics -> Int] /\ V[a] = v.asic[a].freq_hw + 5
  BY <1>1 DEF AsicShape
<1>3. w = [s EXCEPT !.ac2dc[PSU_ID(a)].assumed = @ + 1]
  BY DEF asic_up_freq
<1> HIDE DEF V, w
<1>4. OtherFreqOf(s, v, a) /\ s.asic[a].freq_hw = V[a] /\ s \in Machines
  BY <1>1, <1>2, OnePll
<1> HIDE DEF s
<1>5. w.asic = s.asic /\ w.abort = s.abort
  BY <1>3, <1>4 DEF Machines
<1>6. v.asic[a] \in AsicType
  BY <1>4, <1>5 DEF OtherFreqOf, Sound, w
<1>7. V[a] <= v.asic[a].freq_bist_limit
  <2>1. /\ v.asic[a].freq_hw \in Freqs
        /\ v.asic[a].freq_bist_limit \in Freqs \cup {ASIC_FREQ_MIN - 5}
    BY <1>6 DEF AsicType
  <2>2. v.asic[a].freq_bist_limit \in Freqs
    BY <2>1, ScalingAssumption DEF Freqs
  <2> QED
    BY <1>2, <2>1, <2>2, FreqSteps
<1>8. OtherFreqOf(w, v, a) /\ w.asic[a].freq_hw <= w.asic[a].freq_bist_limit
  BY <1>4, <1>5, <1>7 DEF OtherFreqOf
<1>9. Limited(w, FALSE, FALSE)
  BY <1>8, OtherFreqLimited
<1> QED
  BY <1>9 DEF w

(* act_on_temperature(): the lowest frequency, whatever the limit is.      *)
LEMMA TooHotLimited ==
  ASSUME NEW v, Sound(v), v.abort = "none", NEW a \in Asics, Limited(v, FALSE, FALSE)
  PROVE  Limited(TooHot(v, a), FALSE, FALSE)
<1> DEFINE low == v.asic[a].vtrim - 2
           c == [v.asic[a] EXCEPT !.max_vtrim_temperature = low]
           x == WithAsics(v, [v.asic EXCEPT ![a] = c])
           d == dc2dc_down(x, {a}, 2)
           V == [e \in Asics |-> ASIC_FREQ_MIN]
           w == set_pll(d, {a}, V)
<1>1. /\ v \in Machines /\ v.asic \in [Asics -> AsicShape] /\ v.asic[a] \in AsicShape
      /\ v.asic[a] \in AsicType
  BY DEF Sound, Machines
<1>2. low \in Int
  BY <1>1 DEF AsicShape
<1>3. c \in AsicShape /\ c.asic_present = v.asic[a].asic_present /\ SameFreq(c, v.asic[a])
  BY <1>1, <1>2 DEF AsicShape, SameFreq
<1>4. TooHot(v, a) = w \/ TooHot(v, a) = Cooler(w, a) \/ TooHot(v, a) = v
  <2> DEFINE y == [v EXCEPT !.asic[a].max_vtrim_temperature = v.asic[a].vtrim - 2]
             s == set_pll(dc2dc_down(y, {a}, 2), {a}, [e \in Asics |-> ASIC_FREQ_MIN])
  <2>1. y = x
    BY DEF WithAsics
  <2> HIDE DEF x, y
  <2>2. s = w
    BY <2>1
  <2>3. TooHot(v, a) = IF v.asic[a].max_vtrim_temperature > VTRIM_MIN /\ dc2dc_can_down(v, a)
                       THEN IF v.asic[a].cooling_down THEN s ELSE Cooler(s, a)
                       ELSE v
    BY DEF TooHot, Cooler, y
  <2> HIDE DEF w, s
  <2> QED
    BY <2>2, <2>3
<1>5. /\ x \in Machines /\ SameFreqs(x, v)
      /\ \A b \in Asics : x.asic[b].asic_present = v.asic[b].asic_present
  <2> DEFINE E == [v.asic EXCEPT ![a] = c]
  <2> HIDE DEF c
  <2>1. E \in [Asics -> AsicShape] /\ E[a] = c /\ \A b \in Asics \ {a} : E[b] = v.asic[b]
    BY <1>1, <1>3
  <2>2. \A b \in Asics : E[b].asic_present = v.asic[b].asic_present /\ SameFreq(E[b], v.asic[b])
    BY <1>3, <2>1 DEF SameFreq
  <2> HIDE DEF E
  <2>3. SameFreqs(WithAsics(v, E), v)
    BY <1>1, <2>2, AsicsSame
  <2>4. WithAsics(v, E) \in Machines /\ WithAsics(v, E).asic = E
    BY <1>1, <2>1 DEF WithAsics, Machines
  <2> QED
    BY <2>2, <2>3, <2>4 DEF E
<1> HIDE DEF x, c, low
<1>6. SameFreqs(d, x) /\ d \in Machines
  BY <1>5, DownSame, DownIs DEF Lowered, OnlyAsics
<1> HIDE DEF d
<1>7. Limited(d, FALSE, FALSE)
  BY <1>5, <1>6, SameTwice, SameLimited
<1>8. ASIC_FREQ_MIN \in Int /\ V \in [Asics -> Int] /\ V[a] = ASIC_FREQ_MIN
  BY ScalingAssumption
<1> HIDE DEF V
<1>9. OtherFreqOf(w, d, a) /\ w.asic[a].freq_hw = ASIC_FREQ_MIN /\ w \in Machines
  BY <1>6, <1>8, OnePll
<1> HIDE DEF w
<1>10. ASSUME d.asic[a].asic_present
       PROVE  w.asic[a].freq_hw <= w.asic[a].freq_bist_limit
  <2>1. /\ v.asic[a].asic_present /\ d.asic[a].freq_hw = v.asic[a].freq_hw
        /\ d.asic[a].freq_bist_limit = v.asic[a].freq_bist_limit
    BY <1>5, <1>6, <1>10 DEF SameFreqs, SameFreq
  <2>2. v.asic[a].freq_hw <= v.asic[a].freq_bist_limit
    BY <2>1 DEF Limited, Settled
  <2>3. /\ v.asic[a].freq_hw \in Int /\ v.asic[a].freq_bist_limit \in Int
        /\ v.asic[a].freq_hw >= ASIC_FREQ_MIN
    BY <1>1 DEF AsicShape, AsicType, Freqs
  <2>4. w.asic[a].freq_bist_limit = v.asic[a].freq_bist_limit
    BY <1>9, <2>1 DEF OtherFreqOf
  <2> QED
    BY <1>8, <1>9, <2>2, <2>3, <2>4
<1>11. Limited(w, FALSE, FALSE)
  BY <1>7, <1>9, <1>10, OtherFreqLimited
<1>12. Limited(Cooler(w, a), FALSE, FALSE)
  <2> DEFINE z == Cooler(w, a)
  <2>1. w.asic \in [Asics -> AsicShape] /\ w \in Machines
    BY <1>9 DEF Machines
  <2>2. /\ z.abort = w.abort
        /\ \A b \in Asics : \/ z.asic[b] = w.asic[b]
                            \/ z.asic[b] = [w.asic[b] EXCEPT !.cooling_down = TRUE]
    BY <2>1 DEF Cooler, Machines
  <2> HIDE DEF z
  <2>3. ASSUME NEW b \in Asics
        PROVE  z.asic[b].asic_present = w.asic[b].asic_present /\ SameFreq(z.asic[b], w.asic[b])
    <3>1. w.asic[b] \in AsicShape
      BY <2>1
    <3> QED
      BY <2>2, <3>1 DEF AsicShape, SameFreq
  <2>4. SameFreqs(z, w)
    BY <2>2, <2>3 DEF SameFreqs
  <2>5. Limited(z, FALSE, FALSE)
    BY <1>11, <2>4, SameLimited
  <2> QED
    BY <2>5 DEF z
<1> QED
  BY <1>4, <1>11, <1>12

(* An ASIC that has cooled gets what it may have, at once.                 *)
LEMMA CoolingDoneLimited ==
  ASSUME NEW v, Sound(v), NEW a \in Asics, Limited(v, FALSE, FALSE)
  PROVE  Limited(CoolingDone(v, a), FALSE, FALSE)
<1> DEFINE r == asic_up_freq_max_request(v, a)
           s == set_plls_to_wanted(r)
           n == Min({1, s.next_bist_countdown})
<1>1. Keeps(r, v) /\ RequestedOf(r, v, a)
  BY MaxRequestKeeps, RequestIs DEF Sound
<1>2. CoolingDone(v, a) = WithCountdown(s, n)
  BY DEF CoolingDone, WithCountdown
<1> HIDE DEF r
<1>3. ASSUME NEW b \in Asics, r.asic[b].asic_present
      PROVE  Settled(r.asic[b]) \/ Asked(r.asic[b])
  <2>1. v.asic[b].asic_present /\ Settled(v.asic[b])
    BY <1>1, <1>3 DEF RequestedOf, SameButWanted, Limited
  <2> QED
    BY <1>1, <2>1 DEF RequestedOf, SameButWanted, Settled, Asked
<1>4. Limited(r, FALSE, TRUE)
  BY <1>3 DEF Limited
<1>5. Limited(s, FALSE, FALSE) /\ Keeps(s, r)
  BY <1>1, <1>4, WantedLimited, WantedKeeps DEF Keeps
<1> HIDE DEF s
<1>6. SameFreqs(WithCountdown(s, n), s)
  <2>1. WithCountdown(s, n).asic = s.asic /\ WithCountdown(s, n).abort = s.abort
    BY <1>5 DEF WithCountdown, Keeps, Sound, Machines
  <2> QED
    BY <2>1, EqualSame
<1> QED
  BY <1>2, <1>5, <1>6, SameLimited
-----------------------------------------------------------------------------
Restarts == {"restart", "retest", "rebist"}

(* While the first frequencies are searched an ASIC may be above a limit   *)
(* it does not have yet.  Something is asked for only in the upvolt loop,  *)
(* once of each ASIC, and across a restart, of no ASIC at the lowest       *)
(* frequency.                                                              *)
LInv ==
  Alive =>
    /\ Limited(vm, at = "raise", at \in Restarts \cup {"upvolt"})
    /\ at \in Restarts => AskedAboveMin(vm)
    /\ at = "upvolt" => AskedOnce(vm)

(* No runaway restarts the ASICs while the upvolt loop has asked for a     *)
(* frequency of one that is at the lowest.                                 *)
NoneDropped == (at = "restart" /\ resume = "upvolt") => AskedAboveMin(vm)

(* Where every ASIC is settled, so it is anywhere.                         *)
LEMMA SettledAnywhere ==
  ASSUME Alive' => Limited(vm', FALSE, FALSE)
  PROVE  LInv'
  BY DEF LInv, Limited, AskedAboveMin, AskedOnce, Settled

(* Outside of the search, the upvolt loop and restarts all are settled.    *)
LEMMA SettledNow ==
  ASSUME LInv, Alive, at # "raise", at \notin Restarts, at # "upvolt"
  PROVE  Limited(vm, FALSE, FALSE) /\ AskedAboveMin(vm)
<1>1. Limited(vm, FALSE, FALSE)
  BY DEF LInv, Limited
<1> QED
  BY <1>1, NothingAsked

(* At the lowest frequency a failed BIST gives a limit, but no step down.  *)
LEMMA MinimalBistLimited ==
  ASSUME SInv, LInv, Alive, MinimalBist
  PROVE  LInv'
<1>1. PICK F \in SUBSET Present, D \in SUBSET Asics :
        vm' = disable_asic_forever(do_bist_ok(vm, F), D)
  BY DEF MinimalBist, Present
<1>2. Limited(vm, FALSE, FALSE) /\ AskedAboveMin(vm) /\ F \in SUBSET Asics /\ Sound(vm)
  BY <1>1, SettledNow, SInvNow DEF MinimalBist, Restarts
<1>3. Keeps(do_bist_ok(vm, F), vm)
  BY <1>2, BistKeeps
<1>4. SameFreqs(vm', do_bist_ok(vm, F))
  BY <1>1, <1>3, DisableSame DEF Keeps, Sound
<1>5. ASSUME Alive'
      PROVE  Limited(vm', FALSE, FALSE)
  <2>1. do_bist_ok(vm, F).abort = "none"
    BY <1>4, <1>5 DEF SameFreqs, Alive
  <2>2. Limited(do_bist_ok(vm, F), FALSE, FALSE)
    BY <1>2, <2>1, BistLimited
  <2> QED
    BY <1>4, <2>2, SameLimited
<1> QED
  BY <1>5, SettledAnywhere

(* An ASIC that has not failed goes on; once all have, all are settled.    *)
LEMMA RaiseStepLimited ==
  ASSUME SInv, LInv, Alive, RaiseStep
  PROVE  LInv'
<1>1. PICK F \in SUBSET Present, D \in SUBSET Asics :
        LET v == disable_asic_forever(do_bist_ok(vm, F), D)
            freq == [a \in Asics |-> v.asic[a].freq_hw + 10]
            Rising == {a \in Asics : v.asic[a].asic_present /\ ~v.asic[a].bist_failed_called}
            Up == {a \in Rising : v.asic[a].freq_hw <= ASIC_FREQ_MAX}
        IN  /\ vm' = set_pll(disable_asic_forever(v, Rising \ Up), Up, freq)
            /\ at' = IF \A a \in Asics : ~v.asic[a].asic_present THEN "exit"
                     ELSE IF Rising = {} THEN "mining" ELSE "raise"
  BY DEF RaiseStep, AtMinimum, Present
<1> DEFINE v == disable_asic_forever(do_bist_ok(vm, F), D)
           Rising == {a \in Asics : v.asic[a].asic_present /\ ~v.asic[a].bist_failed_called}
           Up == {a \in Rising : v.asic[a].freq_hw <= ASIC_FREQ_MAX}
           x == disable_asic_forever(v, Rising \ Up)
           V == [a \in Asics |-> v.asic[a].freq_hw + 10]
<1>2. /\ Limited(vm, TRUE, FALSE) /\ AskedAboveMin(vm)
      /\ F \in SUBSET Asics /\ Sound(vm)
  <2>1. Limited(vm, TRUE, FALSE)
    BY DEF RaiseStep, LInv, Restarts, Limited
  <2> QED
    BY <1>1, <2>1, NothingAsked, SInvNow
<1>3. Keeps(do_bist_ok(vm, F), vm)
  BY <1>2, BistKeeps
<1>4. SameFreqs(v, do_bist_ok(vm, F)) /\ Keeps(v, do_bist_ok(vm, F))
  BY <1>1, <1>3, DisableSame, DisableKeeps DEF Keeps, Sound
<1>5. vm' = set_pll(x, Up, V)
  BY <1>1 DEF v
<1>6. at' = IF \A a \in Asics : ~v.asic[a].asic_present THEN "exit"
            ELSE IF Rising = {} THEN "mining" ELSE "raise"
  BY <1>1 DEF v
<1> HIDE DEF v
<1>7. SameFreqs(x, v) /\ Keeps(x, v) /\ v.asic \in [Asics -> AsicShape]
  BY <1>4, DisableSame, DisableKeeps DEF Keeps, Sound, Machines
<1>8. V \in [Asics -> Int] /\ Up \in SUBSET Asics
  BY <1>7 DEF AsicShape
<1> HIDE DEF x, V
<1>9. FreqsSetOf(vm', x, Up, V) /\ x.asic \in [Asics -> AsicShape]
  <2> HIDE DEF Up
  <2> QED
    BY <1>5, <1>7, <1>8, FreqsSetIs DEF Keeps, Sound, Machines
<1>10. ASSUME Alive'
       PROVE  Limited(x, TRUE, FALSE)
  <2>1. vm'.abort = "none"
    BY <1>10 DEF Alive
  <2>2. x.abort = "none"
    BY <1>9, <2>1 DEF FreqsSetOf
  <2>3. do_bist_ok(vm, F).abort = "none"
    BY <1>4, <1>7, <2>2 DEF SameFreqs
  <2>4. Limited(do_bist_ok(vm, F), TRUE, FALSE)
    BY <1>2, <2>3, BistLimited
  <2> QED
    BY <1>4, <1>7, <2>4, SameTwice, SameLimited
<1>11. ASSUME NEW a \in Asics, vm'.asic[a].asic_present
       PROVE  /\ x.asic[a].asic_present /\ v.asic[a].asic_present
              /\ vm'.asic[a].wanted = x.asic[a].wanted
              /\ vm'.asic[a].bist_failed_called = v.asic[a].bist_failed_called
              /\ a \notin Up => vm'.asic[a] = x.asic[a]
  <2>1. x.asic[a] \in AsicShape
    BY <1>9
  <2>2. vm'.asic[a] = IF a \in Up THEN [x.asic[a] EXCEPT !.freq_hw = V[a]] ELSE x.asic[a]
    BY <1>9 DEF FreqsSetOf
  <2>3. /\ vm'.asic[a].asic_present = x.asic[a].asic_present
        /\ vm'.asic[a].wanted = x.asic[a].wanted
        /\ vm'.asic[a].bist_failed_called = x.asic[a].bist_failed_called
        /\ a \notin Up => vm'.asic[a] = x.asic[a]
    <3> HIDE DEF Up
    <3> QED
      BY <2>1, <2>2 DEF AsicShape
  <2>4. v.asic[a].asic_present /\ SameFreq(x.asic[a], v.asic[a])
    BY <1>7, <1>11, <2>3 DEF SameFreqs
  <2> HIDE DEF Up
  <2> QED
    BY <1>11, <2>3, <2>4 DEF SameFreq
<1>12. CASE Alive' /\ Rising = {}
  <2>1. ASSUME NEW a \in Asics, vm'.asic[a].asic_present
        PROVE  Settled(vm'.asic[a])
    <3>1. vm'.asic[a] = x.asic[a] /\ x.asic[a].asic_present /\ v.asic[a].asic_present
      BY <1>11, <1>12, <2>1
    <3>2. x.asic[a].bist_failed_called
      BY <1>11, <1>12, <2>1, <3>1
    <3> QED
      BY <1>10, <1>12, <3>1, <3>2 DEF Limited, Searching
  <2> QED
    BY <2>1, SettledAnywhere DEF Limited
<1>13. CASE Alive' /\ Rising # {}
  <2>1. at' = "raise"
    BY <1>6, <1>13 DEF Alive
  <2>2. ASSUME NEW a \in Asics, vm'.asic[a].asic_present
        PROVE  Settled(vm'.asic[a]) \/ Searching(vm'.asic[a])
    <3>1. Settled(x.asic[a]) \/ Searching(x.asic[a])
      BY <1>10, <1>11, <1>13, <2>2 DEF Limited
    <3>2. CASE a \in Up
      <4>1. ~vm'.asic[a].bist_failed_called /\ vm'.asic[a].wanted = 0
        BY <1>11, <2>2, <3>1, <3>2 DEF Settled, Searching
      <4> QED
        BY <4>1 DEF Searching
    <3>3. CASE a \notin Up
      BY <1>11, <2>2, <3>1, <3>3
    <3> QED
      BY <3>2, <3>3
  <2>3. Limited(vm', TRUE, FALSE)
    BY <2>2 DEF Limited
  <2> QED
    BY <2>1, <2>3 DEF LInv, Restarts, Limited
<1>14. CASE ~Alive'
  BY <1>14 DEF LInv
<1> QED
  BY <1>12, <1>13, <1>14

(* A step that slows and speeds up nothing, where all are settled.         *)
LEMMA SameSettled ==
  ASSUME Limited(vm, FALSE, FALSE), NEW v, SameFreqs(v, vm), SameFreqs(vm', v)
  PROVE  LInv'
<1>1. Limited(vm', FALSE, FALSE)
  BY SameTwice, SameLimited
<1> QED
  BY <1>1, SettledAnywhere

(* restart_asics_full() takes along what is asked for.                     *)
LEMMA RestartLimited ==
  ASSUME NEW v, v \in Machines, NEW place, restart_asics_full(v, place),
         Limited(v, FALSE, TRUE), AskedAboveMin(v)
  PROVE  LInv'
<1>1. vm'.asic = v.asic /\ vm'.abort = v.abort
  BY DEF restart_asics_full, Machines
<1>2. Limited(vm', FALSE, TRUE) /\ AskedAboveMin(vm')
  BY <1>1, EqualSame, SameLimited
<1>3. at' = "restart"
  BY DEF restart_asics_full
<1> QED
  BY <1>2, <1>3 DEF LInv, Restarts

(* An overcurrent, or the limits of voltages forgotten.                    *)
LEMMA OvercurrentLimited ==
  ASSUME SInv, LInv, Alive, NEW a \in Present, OvercurrentWarning(a)
  PROVE  LInv'
<1>1. SameFreqs(vm', vm)
  BY SInvNow, WarningSame DEF OvercurrentWarning, Present
<1>2. SameFreqs(vm, vm) /\ Limited(vm, FALSE, FALSE)
  BY SettledNow, EqualSame DEF OvercurrentWarning, Restarts
<1> QED
  BY <1>1, <1>2, SameSettled

(* Every three hours.                                                      *)
LEMMA ForgetLimited ==
  ASSUME SInv, LInv, Alive, forget_all_limits
  PROVE  LInv'
<1> DEFINE D == [a \in Asics |-> [vm.asic[a] EXCEPT
                   !.max_vtrim_currentwise = VTRIM_MAX, !.max_vtrim_temperature = VTRIM_MAX]]
<1>1. vm \in Machines /\ vm.asic \in [Asics -> AsicShape]
  BY SInvNow DEF Machines
<1>2. ASSUME NEW a \in Asics
      PROVE  D[a].asic_present => vm.asic[a].asic_present /\ SameFreq(D[a], vm.asic[a])
  BY <1>1 DEF AsicShape, SameFreq
<1>3. vm' = WithAsics(vm, D)
  BY DEF forget_all_limits, WithAsics
<1> HIDE DEF D
<1>4. SameFreqs(vm', vm)
  BY <1>1, <1>2, <1>3, AsicsSame
<1>5. SameFreqs(vm, vm) /\ Limited(vm, FALSE, FALSE)
  BY SettledNow, EqualSame DEF forget_all_limits, Restarts
<1> QED
  BY <1>4, <1>5, SameSettled

(* An error while mining.                                                  *)
LEMMA ErrorRestartLimited ==
  ASSUME SInv, LInv, Alive, ErrorRestart
  PROVE  LInv'
<1>1. Limited(vm, FALSE, FALSE) /\ AskedAboveMin(vm)
  BY SettledNow DEF ErrorRestart, Restarts
<1>2. Limited(vm, FALSE, TRUE) /\ vm \in Machines
  BY <1>1, NothingAsked, SInvNow
<1> QED
  BY <1>1, <1>2, RestartLimited DEF ErrorRestart

(* A second begins: readings, and perhaps a new turn of the upvolt loop.   *)
LEMMA OnceSecondLimited ==
  ASSUME SInv, LInv, Alive, OnceSecond
  PROVE  LInv'
<1>1. PICK reading \in Answers :
        LET v == update_ac2dc_stats(vm, reading)
            left == v.next_bist_countdown - 1
        IN  IF left <= 0
            THEN vm' = [v EXCEPT !.next_bist_countdown = BIST_PERIOD_SECS_LONG,
                          !.asic = [a \in Asics |-> [v.asic[a] EXCEPT !.revolted = FALSE]]]
            ELSE vm' = [v EXCEPT !.next_bist_countdown = left]
  BY DEF OnceSecond
<1> DEFINE v == update_ac2dc_stats(vm, reading)
           D == [a \in Asics |-> [v.asic[a] EXCEPT !.revolted = FALSE]]
<1>2. Sound(v) /\ v.asic = vm.asic /\ v.abort = vm.abort
  BY SInvNow, StatsAreSound
<1>3. \/ vm' = [v EXCEPT !.next_bist_countdown = BIST_PERIOD_SECS_LONG, !.asic = D]
      \/ vm' = [v EXCEPT !.next_bist_countdown = v.next_bist_countdown - 1]
  BY <1>1 DEF v
<1> HIDE DEF v
<1>4. v \in Machines /\ v.asic \in [Asics -> AsicShape]
  BY <1>2 DEF Sound, Machines
<1>5. ASSUME NEW a \in Asics
      PROVE  D[a].asic_present => v.asic[a].asic_present /\ SameFreq(D[a], v.asic[a])
  BY <1>4 DEF AsicShape, SameFreq
<1> HIDE DEF D
<1>6. vm'.abort = v.abort /\ (vm'.asic = v.asic \/ vm'.asic = D)
  BY <1>3, <1>4 DEF Machines
<1>7. SameFreqs(vm', v)
  BY <1>5, <1>6, EqualSame DEF SameFreqs
<1>8. SameFreqs(v, vm) /\ Limited(vm, FALSE, FALSE)
  BY <1>2, SettledNow, EqualSame DEF OnceSecond, Restarts
<1> QED
  BY <1>7, <1>8, SameSettled

(* The upvolt loop asks for a frequency; a runaway must not drop one.      *)
LEMMA UpvoltLimited ==
  ASSUME SInv, LInv, Alive, Upvolt, NoneDropped' \/ ASICS_COUNT = 1
  PROVE  LInv'
<1>1. PICK warm \in SUBSET Present, a \in Asics :
        /\ IsBestToUpvolt(a, Upvoltable(i, warm))
        /\ IF Runaway(vm, a)
           THEN restart_asics_full(vm, "upvolt")
           ELSE /\ vm' = [dc2dc_up(vm, a, warm) EXCEPT
                            !.next_bist_countdown = BIST_PERIOD_SECS]
                /\ UNCHANGED at
  BY DEF Upvolt
<1>2. Limited(vm, FALSE, TRUE) /\ AskedOnce(vm) /\ Sound(vm) /\ vm \in Machines
  BY SInvNow DEF Upvolt, LInv, Limited
<1>3. vm.asic[a].asic_present /\ ~vm.asic[a].revolted /\ dc2dc_can_up(vm, a, warm)
  BY <1>1 DEF IsBestToUpvolt, Upvoltable, Present
<1>4. CASE Runaway(vm, a)
  <2>1. restart_asics_full(vm, "upvolt")
    BY <1>1, <1>4
  <2>2. ASSUME NoneDropped'
        PROVE  LInv'
    <3>1. at' = "restart" /\ resume' = "upvolt" /\ vm'.asic = vm.asic
      BY <1>2, <2>1 DEF restart_asics_full, Machines
    <3>2. AskedAboveMin(vm)
      BY <2>2, <3>1 DEF NoneDropped, AskedAboveMin
    <3> QED
      BY <1>2, <2>1, <3>2, RestartLimited
  <2>3. ASSUME ASICS_COUNT = 1
        PROVE  LInv'
    <3>1. \A b \in Asics : b = a
      BY <2>3 DEF Asics
    <3>2. vm.asic[a].wanted = 0
      BY <1>2, <1>3 DEF AskedOnce
    <3>3. AskedAboveMin(vm)
      BY <3>1, <3>2, Zenon DEF AskedAboveMin
    <3> QED
      BY <1>2, <2>1, <3>3, RestartLimited
  <2> QED
    BY <2>2, <2>3
<1>5. CASE ~Runaway(vm, a)
  <2> DEFINE u == dc2dc_up(vm, a, warm)
  <2>1. vm' = WithCountdown(u, BIST_PERIOD_SECS) /\ at' = "upvolt"
    BY <1>1, <1>5 DEF WithCountdown, Upvolt
  <2>2. Limited(u, FALSE, TRUE) /\ AskedOnce(u)
    BY <1>2, <1>3, UpLimited DEF Alive
  <2>3. u \in Machines
    BY <1>2, <1>3, UpKeeps DEF Keeps, Sound
  <2> HIDE DEF u
  <2>4. vm'.asic = u.asic
    BY <2>1, <2>3 DEF WithCountdown, Machines
  <2>5. Limited(vm', FALSE, TRUE) /\ AskedOnce(vm')
    BY <2>2, <2>4 DEF Limited, AskedOnce
  <2> QED
    BY <2>1, <2>5 DEF LInv, Restarts
<1> QED
  BY <1>4, <1>5

(* The loop goes on to the next power supply.                              *)
LEMMA NextPsuLimited ==
  ASSUME SInv, LInv, Alive, NextPsu
  PROVE  LInv'
<1>1. vm'.asic = vm.asic /\ at = "upvolt" /\ at' = "upvolt"
  BY SInvNow DEF NextPsu, Machines
<1>2. Limited(vm, FALSE, TRUE) /\ AskedOnce(vm)
  BY <1>1 DEF LInv, Limited
<1>3. Limited(vm', FALSE, TRUE) /\ AskedOnce(vm')
  BY <1>1, <1>2 DEF Limited, AskedOnce
<1> QED
  BY <1>1, <1>3 DEF LInv, Restarts

(* After it, what was asked for is set.                                    *)
LEMMA UpscaledLimited ==
  ASSUME SInv, LInv, Alive, Upscaled
  PROVE  LInv'
<1>1. PICK reading \in Answers : vm' = update_ac2dc_stats(set_plls_to_wanted(vm), reading)
  BY DEF Upscaled
<1>2. Limited(vm, FALSE, TRUE) /\ Sound(vm)
  BY SInvNow DEF Upscaled, LInv, Limited
<1>3. Limited(set_plls_to_wanted(vm), FALSE, FALSE)
  BY <1>2, WantedLimited
<1>4. SameFreqs(vm', set_plls_to_wanted(vm))
  BY <1>1, <1>2, WantedKeeps, StatsAreSound, EqualSame DEF Keeps
<1>5. Limited(vm', FALSE, FALSE)
  BY <1>3, <1>4, SameLimited
<1> QED
  BY <1>5, SettledAnywhere

(* A BIST sets the frequencies of those that failed, or a restart does.    *)
LEMMA BistLoopLimited ==
  ASSUME SInv, LInv, Alive, BistLoop
  PROVE  LInv'
<1>1. PICK F \in SUBSET Present, D \in SUBSET Asics :
        IF D = {} THEN vm' = do_bist_ok(vm, F)
        ELSE restart_asics_full(FailAll(vm, {a \in F : a <= Min(D)}), "bist")
  BY DEF BistLoop, AtMinimum, Present
<1>2. Limited(vm, FALSE, FALSE) /\ AskedAboveMin(vm) /\ F \in SUBSET Asics /\ Sound(vm)
  BY <1>1, SettledNow, SInvNow DEF BistLoop, Restarts
<1>3. CASE D = {}
  <2>1. Alive' => Limited(vm', FALSE, FALSE)
    BY <1>1, <1>2, <1>3, BistLimited DEF Alive
  <2> QED
    BY <2>1, SettledAnywhere
<1>4. CASE D # {}
  <2> DEFINE G == {a \in F : a <= Min(D)}
             v == FailAll(vm, G)
  <2>1. G \in SUBSET Asics /\ restart_asics_full(v, "bist")
    BY <1>1, <1>2, <1>4
  <2> HIDE DEF G
  <2>2. v \in Machines
    BY <1>2, <2>1, FailAllKeeps DEF Keeps, Sound
  <2>3. v.abort = "none" => Limited(v, FALSE, TRUE) /\ AskedAboveMin(v)
    BY <1>2, <2>1, FailLimited
  <2> HIDE DEF v
  <2>4. vm'.abort = v.abort
    BY <2>1, <2>2 DEF restart_asics_full, Machines
  <2>5. CASE Alive'
    BY <2>1, <2>2, <2>3, <2>4, <2>5, RestartLimited DEF Alive
  <2>6. CASE ~Alive'
    BY <2>6 DEF LInv
  <2> QED
    BY <2>5, <2>6
<1> QED
  BY <1>3, <1>4

(* The restart changes voltages, then its BISTs set what was asked for.    *)
LEMMA RestartTestLimited ==
  ASSUME SInv, LInv, Alive, RestartTest
  PROVE  LInv'
<1>1. PICK C \in SUBSET Asics :
        \/ vm' = RestartVoltages(overcurrent_warning(vm, C)) /\ at' = "rebist"
        \/ /\ \E reading \in Answers :
                vm' = update_ac2dc_stats(overcurrent_warning(vm, C), reading)
           /\ at' = "retest"
  BY DEF RestartTest, Present
<1> DEFINE w == overcurrent_warning(vm, C)
<1>2. Keeps(w, vm) /\ SameFreqs(w, vm)
  BY SInvNow, WarningKeeps, WarningSame
<1> HIDE DEF w
<1>3. SameFreqs(vm', w)
  BY <1>1, <1>2, RestartSame, StatsAreSound, EqualSame DEF Keeps, w
<1>4. Limited(vm, FALSE, TRUE) /\ AskedAboveMin(vm)
  BY DEF RestartTest, LInv, Restarts, Limited
<1>5. Limited(vm', FALSE, TRUE) /\ AskedAboveMin(vm')
  BY <1>2, <1>3, <1>4, SameTwice, SameLimited
<1>6. at' \in {"rebist", "retest"}
  BY <1>1
<1> QED
  BY <1>5, <1>6 DEF LInv, Restarts

(* Its BISTs leave every ASIC settled.                                     *)
LEMMA RestartBistLimited ==
  ASSUME SInv, LInv, Alive, RestartBist
  PROVE  LInv'
<1>1. PICK F \in SUBSET Present, D \in SUBSET Asics :
        LET v == disable_asic_forever(do_bist_ok(vm, F), D) IN
        vm' = IF tries = 1 THEN [v EXCEPT !.did_asic_reset = TRUE] ELSE v
  BY DEF RestartBist, AtMinimum, Present
<1> DEFINE v == disable_asic_forever(do_bist_ok(vm, F), D)
<1>2. Limited(vm, FALSE, TRUE) /\ AskedAboveMin(vm) /\ F \in SUBSET Asics /\ Sound(vm)
  BY <1>1, SInvNow DEF RestartBist, LInv, Restarts, Limited
<1>3. Keeps(do_bist_ok(vm, F), vm)
  BY <1>2, BistKeeps
<1>4. SameFreqs(v, do_bist_ok(vm, F)) /\ v \in Machines
  BY <1>1, <1>3, DisableSame, DisableKeeps DEF Keeps, Sound
<1>5. vm' = v \/ vm' = [v EXCEPT !.did_asic_reset = TRUE]
  BY <1>1
<1> HIDE DEF v
<1>6. vm'.asic = v.asic /\ vm'.abort = v.abort
  BY <1>4, <1>5 DEF Machines
<1>7. SameFreqs(vm', do_bist_ok(vm, F))
  BY <1>4, <1>6, EqualSame, SameTwice
<1>8. ASSUME Alive'
      PROVE  Limited(vm', FALSE, FALSE)
  <2>1. do_bist_ok(vm, F).abort = "none"
    BY <1>7, <1>8 DEF SameFreqs, Alive
  <2>2. Limited(do_bist_ok(vm, F), FALSE, FALSE)
    BY <1>2, <2>1, BistLimited
  <2> QED
    BY <1>7, <2>2, SameLimited
<1> QED
  BY <1>8, SettledAnywhere

(* Idle ASICs restart them all.                                            *)
LEMMA LazyAsicsLimited ==
  ASSUME SInv, LInv, Alive, LazyAsics
  PROVE  LInv'
<1> DEFINE w == NoneRevolted(vm)
<1>1. Limited(vm, FALSE, FALSE) /\ SameFreqs(vm, vm)
  BY SettledNow, EqualSame DEF LazyAsics, Restarts
<1>2. w \in Machines /\ SameFreqs(w, vm)
  BY SInvNow, NoneRevoltedKeeps, NoneRevoltedSame DEF Keeps, Sound
<1>3. \/ \E place \in {"lazy", "end"} : restart_asics_full(w, place)
      \/ vm' = vm \/ vm' = w
  BY DEF LazyAsics
<1> HIDE DEF w
<1>4. Limited(w, FALSE, FALSE)
  BY <1>1, <1>2, SameLimited
<1>5. Limited(w, FALSE, TRUE) /\ AskedAboveMin(w)
  BY <1>4, NothingAsked
<1>6. CASE \E place \in {"lazy", "end"} : restart_asics_full(w, place)
  BY <1>2, <1>5, <1>6, RestartLimited
<1>7. CASE vm' = vm \/ vm' = w
  BY <1>1, <1>4, <1>7, SettledAnywhere
<1> QED
  BY <1>3, <1>6, <1>7

(* A power supply over its limit has voltages lowered, not frequencies.    *)
LEMMA PowerTooHighLimited ==
  ASSUME SInv, LInv, Alive, PowerTooHigh
  PROVE  LInv'
<1> DEFINE T == BestToDownvolt(Downvoltable(i))
           v == dc2dc_down(vm, T, 2)
<1>1. T \in SUBSET Asics
  BY DEF BestToDownvolt, Downvoltable, Present
<1>2. Limited(vm, FALSE, FALSE) /\ SameFreqs(vm, vm)
  BY SettledNow, EqualSame DEF PowerTooHigh, Restarts
<1>3. \/ vm' = vm
      \/ \E stray :
           vm' = [Passert(v, stray, "asic[-1]") EXCEPT
                    !.ac2dc[i].last = v.ac2dc[i].now, !.ac2dc[i].now = 0]
  BY DEF PowerTooHigh
<1> HIDE DEF T
<1>4. v \in Machines /\ SameFreqs(v, vm)
  BY <1>1, SInvNow, DownKeeps, DownSame DEF Keeps, Sound
<1> HIDE DEF v
<1>5. ASSUME NEW stray,
             vm' = [Passert(v, stray, "asic[-1]") EXCEPT
                      !.ac2dc[i].last = v.ac2dc[i].now, !.ac2dc[i].now = 0]
      PROVE  SameFreqs(vm', v)
  <2> DEFINE w == Passert(v, stray, "asic[-1]")
  <2>1. /\ DOMAIN w = DOMAIN v /\ w.asic = v.asic
        /\ w.abort = "none" => v.abort = "none"
    BY <1>4 DEF Passert, Machines
  <2> HIDE DEF w
  <2>2. vm' = [w EXCEPT !.ac2dc[i].last = v.ac2dc[i].now, !.ac2dc[i].now = 0]
    BY <1>5 DEF w
  <2>3. vm'.asic = w.asic /\ vm'.abort = w.abort
    BY <1>4, <2>1, <2>2 DEF Machines
  <2> QED
    BY <2>1, <2>3 DEF SameFreqs, SameFreq
<1> QED
  BY <1>2, <1>3, <1>4, <1>5, SameSettled

(* Nor does the end of that loop.                                          *)
LEMMA PowerDoneLimited ==
  ASSUME SInv, LInv, Alive, PowerDone
  PROVE  LInv'
<1> DEFINE v == NoneRevolted(vm)
<1>1. v \in Machines /\ SameFreqs(v, vm)
  BY SInvNow, NoneRevoltedKeeps, NoneRevoltedSame DEF Keeps, Sound
<1>2. vm' = v \/ vm' = WithCountdown(v, Min({3, v.next_bist_countdown}))
  BY DEF PowerDone, WithCountdown
<1> HIDE DEF v
<1>3. vm'.asic = v.asic /\ vm'.abort = v.abort
  BY <1>1, <1>2 DEF WithCountdown, Machines
<1>4. Limited(vm, FALSE, FALSE) /\ SameFreqs(vm', v)
  BY <1>3, SettledNow, EqualSame DEF PowerDone, Restarts
<1> QED
  BY <1>1, <1>4, SameSettled

(* One turn of the temperature loop.                                       *)
LEMMA TemperatureLimited ==
  ASSUME SInv, LInv, Alive, Temperature
  PROVE  LInv'
<1>1. PICK hot \in BOOLEAN, warm \in SUBSET {i} :
        LET d == [vm EXCEPT !.asic[i].hot = hot]
            upscales == ~hot /\ vm.asic[i].cooling_down /\ can_upscale
            acted == IF hot THEN TooHot(d, i)
                     ELSE IF upscales THEN CoolingDone(d, i) ELSE d
            b == acted.asic[i]
        IN  IF vm.asic[i].asic_present
            THEN vm' = IF /\ ~b.cooling_down /\ b.freq_hw < b.freq_bist_limit
                          /\ asic_can_up_freq(acted, i, warm)
                       THEN asic_up_freq(acted, i) ELSE acted
            ELSE UNCHANGED vm
  BY ZenonT(40) DEF Temperature
<1> DEFINE c == [vm.asic[i] EXCEPT !.hot = hot]
           E == [vm.asic EXCEPT ![i] = c]
           d == WithAsics(vm, E)
           upscales == ~hot /\ vm.asic[i].cooling_down /\ can_upscale
           acted == IF hot THEN TooHot(d, i)
                    ELSE IF upscales THEN CoolingDone(d, i) ELSE d
<1>2. /\ i \in Asics /\ vm \in Machines /\ Sound(vm) /\ vm.abort = "none"
      /\ vm.asic \in [Asics -> AsicShape] /\ vm.asic \in [Asics -> AsicType]
  BY SInvNow DEF Temperature, Sound, Machines, Alive
<1>3. /\ c \in AsicShape /\ c \in AsicType /\ c.cooling_down = vm.asic[i].cooling_down
      /\ c.asic_present = vm.asic[i].asic_present /\ SameFreq(c, vm.asic[i])
  BY <1>2 DEF AsicShape, AsicType, SameFreq
<1>4. [vm EXCEPT !.asic[i].hot = hot] = d
  BY DEF WithAsics
<1>5. \/ vm' = vm \/ vm' = acted
      \/ /\ vm' = asic_up_freq(acted, i) /\ acted.asic[i].freq_hw < acted.asic[i].freq_bist_limit
         /\ asic_can_up_freq(acted, i, warm)
  <2> HIDE DEF d
  <2> QED
    BY <1>1, <1>4
<1> HIDE DEF c
<1>6. /\ E \in [Asics -> AsicShape] /\ E \in [Asics -> AsicType]
      /\ \A a \in Asics : /\ E[a].cooling_down = vm.asic[a].cooling_down
                          /\ E[a].asic_present = vm.asic[a].asic_present
                          /\ SameFreq(E[a], vm.asic[a])
  BY <1>2, <1>3 DEF SameFreq
<1> HIDE DEF E
<1>7. Keeps(d, vm) /\ d.abort = vm.abort
  BY <1>2, <1>6, NewAsics
<1>8. SameFreqs(d, vm)
  BY <1>2, <1>6, AsicsSame
<1> HIDE DEF d
<1>9. Limited(vm, FALSE, FALSE) /\ Limited(d, FALSE, FALSE) /\ Sound(d) /\ d.abort = "none"
  BY <1>2, <1>7, <1>8, SettledNow, SameLimited DEF Temperature, Restarts, Keeps
<1>10. Sound(acted) /\ Limited(acted, FALSE, FALSE)
  <2>1. Sound(TooHot(d, i)) /\ Limited(TooHot(d, i), FALSE, FALSE)
    BY <1>2, <1>9, TooHotKeeps, TooHotLimited DEF Keeps
  <2>2. Sound(CoolingDone(d, i)) /\ Limited(CoolingDone(d, i), FALSE, FALSE)
    BY <1>2, <1>9, CoolingDoneKeeps, CoolingDoneLimited DEF Keeps
  <2> QED
    BY <1>9, <2>1, <2>2
<1> HIDE DEF acted
<1>11. ASSUME Alive'
       PROVE  Limited(vm', FALSE, FALSE)
  <2>1. vm'.abort = "none"
    BY <1>11 DEF Alive
  <2> QED
    BY <1>2, <1>5, <1>9, <1>10, <2>1, UpFreqLimited
<1> QED
  BY <1>11, SettledAnywhere

(* The next second finds the same frequencies.                             *)
LEMMA EndTickLimited ==
  ASSUME SInv, LInv, Alive, EndTick
  PROVE  LInv'
<1> DEFINE D == [a \in Asics |-> [vm.asic[a] EXCEPT !.hot = FALSE]]
<1>1. vm \in Machines /\ vm.asic \in [Asics -> AsicShape]
  BY SInvNow DEF Machines
<1>2. ASSUME NEW a \in Asics
      PROVE  D[a].asic_present => vm.asic[a].asic_present /\ SameFreq(D[a], vm.asic[a])
  BY <1>1 DEF AsicShape, SameFreq
<1>3. vm' = [vm EXCEPT !.did_asic_reset = FALSE, !.asic = D]
  BY DEF EndTick
<1> HIDE DEF D
<1>4. vm'.asic = D /\ vm'.abort = vm.abort
  BY <1>1, <1>3 DEF Machines
<1>5. SameFreqs(vm', vm)
  BY <1>2, <1>4 DEF SameFreqs
<1>6. SameFreqs(vm, vm) /\ Limited(vm, FALSE, FALSE)
  BY SettledNow, EqualSame DEF EndTick, Restarts
<1> QED
  BY <1>5, <1>6, SameSettled

(* At first nothing is asked for, and every ASIC runs at the lowest        *)
(* frequency.                                                              *)
LEMMA InitLInv ==
  ASSUME Init
  PROVE  LInv
<1>1. ASSUME NEW a \in Asics
      PROVE  /\ vm.asic[a].freq_hw = ASIC_FREQ_MIN /\ vm.asic[a].freq_bist_limit = ASIC_FREQ_MAX
             /\ vm.asic[a].wanted = 0
  BY <1>1 DEF Init
<1>2. at = "minimal"
  BY DEF Init
<1>3. ASIC_FREQ_MIN <= ASIC_FREQ_MAX
  BY ScalingAssumption
<1> QED
  BY <1>1, <1>2, <1>3 DEF LInv, Limited, Settled, Restarts

(* Every step keeps the frequencies within their limits, where no pending  *)
(* one is dropped or there is but one ASIC to ask for.                     *)
LEMMA NextLInv ==
  ASSUME SInv, LInv, [Next]_vars, NoneDropped' \/ ASICS_COUNT = 1
  PROVE  LInv'
<1>1. CASE UNCHANGED vars
  BY <1>1 DEF vars, LInv, Limited, Settled, Searching, Asked, AskedAboveMin, AskedOnce, Alive
<1>2. CASE Next
  <2>1. Alive
    BY <1>2 DEF Next
  <2>2. CASE MinimalBist
    BY <2>1, <2>2, MinimalBistLimited
  <2>3. CASE RaiseStep
    BY <2>1, <2>3, RaiseStepLimited
  <2>4. CASE \E a \in Present : OvercurrentWarning(a)
    BY <2>1, <2>4, OvercurrentLimited
  <2>5. CASE forget_all_limits
    BY <2>1, <2>5, ForgetLimited
  <2>6. CASE ErrorRestart
    BY <2>1, <2>6, ErrorRestartLimited
  <2>7. CASE OnceSecond
    BY <2>1, <2>7, OnceSecondLimited
  <2>8. CASE Upvolt
    BY <2>1, <2>8, UpvoltLimited
  <2>9. CASE NextPsu
    BY <2>1, <2>9, NextPsuLimited
  <2>10. CASE Upscaled
    BY <2>1, <2>10, UpscaledLimited
  <2>11. CASE BistLoop
    BY <2>1, <2>11, BistLoopLimited
  <2>12. CASE RestartTest
    BY <2>1, <2>12, RestartTestLimited
  <2>13. CASE RestartBist
    BY <2>1, <2>13, RestartBistLimited
  <2>14. CASE LazyAsics
    BY <2>1, <2>14, LazyAsicsLimited
  <2>15. CASE PowerTooHigh
    BY <2>1, <2>15, PowerTooHighLimited
  <2>16. CASE PowerDone
    BY <2>1, <2>16, PowerDoneLimited
  <2>17. CASE Temperature
    BY <2>1, <2>17, TemperatureLimited
  <2>18. CASE EndTick
    BY <2>1, <2>18, EndTickLimited
  <2> QED
    BY <1>2, <2>2, <2>3, <2>4, <2>5, <2>6, <2>7, <2>8, <2>9, <2>10, <2>11, <2>12, <2>13,
       <2>14, <2>15, <2>16, <2>17, <2>18 DEF Next
<1> QED
  BY <1>1, <1>2

(* An ASIC that is settled is within its limit, and what is asked for is   *)
(* the limit itself.                                                       *)
LEMMA LimitedMeans ==
  ASSUME SInv, LInv
  PROVE  FreqWithinBistLimit
<1> SUFFICES ASSUME Alive, at # "raise", NEW a \in Present
             PROVE  \/ vm.asic[a].freq_hw <= vm.asic[a].freq_bist_limit
                    \/ vm.asic[a].wanted \in 1 .. vm.asic[a].freq_bist_limit
  BY DEF FreqWithinBistLimit
<1>1. a \in Asics /\ vm.asic[a].asic_present
  BY DEF Present
<1>2. vm.asic[a].freq_bist_limit \in Freqs \cup {ASIC_FREQ_MIN - 5}
  BY <1>1 DEF SInv, Sound, Alive, AsicType
<1>3. ASIC_FREQ_MIN \in Int /\ ASIC_FREQ_MIN - 5 >= 1
  BY ScalingAssumption
<1>4. \A f \in Freqs : f \in Int /\ f >= ASIC_FREQ_MIN
  BY ScalingAssumption DEF Freqs
<1>5. vm.asic[a].freq_bist_limit \in Int /\ vm.asic[a].freq_bist_limit >= 1
  BY <1>2, <1>3, <1>4
<1>6. Settled(vm.asic[a]) \/ Asked(vm.asic[a])
  BY <1>1 DEF LInv, Limited
<1> QED
  BY <1>5, <1>6 DEF Settled, Asked

(* Through BISTs that fail, restarts, heat and upscaling no ASIC is left   *)
(* above the frequency its last BIST allowed without that frequency being  *)
(* asked for, unless a runaway restarts the ASICs in the upvolt loop when  *)
(* something is asked of one at the lowest frequency.                      *)
THEOREM FreqsKept == Spec /\ []NoneDropped => []FreqWithinBistLimit
<1>1. Init => LInv
  BY InitLInv
<1>2. SInv /\ LInv /\ [Next]_vars /\ NoneDropped' => LInv'
  BY NextLInv
<1>3. SInv /\ LInv => FreqWithinBistLimit
  BY LimitedMeans
<1> QED
  BY <1>1, <1>2, <1>3, Invariance, PTL DEF Spec

(* One ASIC alone is never left above its limit: the loop that asks for    *)
(* its frequency does not take it again before the PLL is set.             *)
THEOREM FreqsKeptOfOne == ASICS_COUNT = 1 => (Spec => []FreqWithinBistLimit)
<1> SUFFICES ASSUME ASICS_COUNT = 1
             PROVE  Spec => []FreqWithinBistLimit
  OBVIOUS
<1>1. Init => LInv
  BY InitLInv
<1>2. SInv /\ LInv /\ [Next]_vars => LInv'
  BY NextLInv
<1>3. SInv /\ LInv => FreqWithinBistLimit
  BY LimitedMeans
<1> QED
  BY <1>1, <1>2, <1>3, Invariance, PTL DEF Spec
=============================================================================
