----------------------------- MODULE PllsProofs -----------------------------
(***************************************************************************)
(* Proofs about the PLLs and engines, for every number of ASICs and        *)
(* engines and every limit on what is tried: whatever a call runs into,    *)
(* when it is over the same ASICs mine, with their good engines on the     *)
(* frequency the scaling counts with, and the two ways in which the        *)
(* passert on the frequency fails are the only ones.                       *)
(***************************************************************************)
EXTENDS Plls, SequenceTheorems, FiniteSetTheorems, TLAPS

(* The calls there are.                                                    *)
Bare == {"none", "restart", "squid wait", "program", "poll", "enable wanted", "again", "wait any",
         "restarted"}
OfAsic == {"disable", "enable", "wait", "wait once", "wait wanted", "drop engines"}
Calls ==
  {<<n>> : n \in Bare} \cup (OfAsic \X ASICS) \cup ({"judge"} \X ASICS \X BOOLEAN)
  \cup ({"restart pll"} \X ASICS \X {0}) \cup ({"set_pll"} \X ASICS \X {f \in Int : f % 5 = 0})
  \cup ({"bist"} \X BOOLEAN) \cup ({"good"} \X Nat \X BOOLEAN)

(* A call in front of others.                                              *)
Cons(h, t) == <<h>> \o t

(* Has s a call named in N, one for a, one after its i-th, one before it?  *)
Has(s, N)       == \E i \in 1 .. Len(s) : s[i][1] \in N
HasFor(s, N, a) == \E i \in 1 .. Len(s) : s[i][1] \in N /\ s[i][2] = a
After(s, i, N)  == \E j \in i + 1 .. Len(s) : s[j][1] \in N
Before(s, i, N) == \E j \in 1 .. i - 1 : s[j][1] \in N

(* What a call counts on: that the BIST it is part of goes on and ends     *)
(* with enabling the engines, that the ASIC it enables is one that mines,  *)
(* A being those in use when mining began.                                 *)
Settles == {"good", "bist"}
OkCall(s, i, A) ==
  /\ s[i][1] \in {"judge", "drop engines", "restart pll"} => After(s, i, Settles)
  /\ s[i][1] = "judge" => After(s, i, {"program"})
  /\ s[i][1] = "enable" =>
       After(s, i, Settles) \/ (s[i][2] \in A /\ ~ After(s, i, {"restarted"}))
  /\ s[i][1] = "set_pll" => Len(s) = 1 /\ s[i][2] \in A
  /\ s[i][1] = "restart" => i = 1
InOrder(s, A) == \A i \in 1 .. Len(s) : OkCall(s, i, A)

(* One "restarted" is to come, and a is disabled before it.                *)
One(s) == \E r \in 1 .. Len(s) : \A i \in 1 .. Len(s) : s[i][1] = "restarted" <=> i = r
First(s, a) ==
  \E i \in 1 .. Len(s) :
    s[i][1] = "disable" /\ s[i][2] = a /\ \A j \in 1 .. i : s[j][1] # "restarted"

(* The marks that set_plls_to_wanted leaves are gone when the PLLs are set *)
(* again, unless it is by a restart.                                       *)
Marked == {"poll", "enable wanted"}
Sets == {"program", "bist", "again"}
Guarded(s) ==
  \A i \in 1 .. Len(s) :
    s[i][1] \in Sets => After(s, i, {"restarted"}) \/ Before(s, i, Marked)

-----------------------------------------------------------------------------
(* Calls in front of others. *)

(* A call has a name, and what it is about.                                *)
LEMMA CallFacts ==
  ASSUME NEW h \in Calls
  PROVE  /\ h[1] \in OfAsic \cup {"judge", "restart pll", "set_pll"} => h[2] \in ASICS
         /\ h[1] = "set_pll" => h[3] \in Int /\ h[3] % 5 = 0
         /\ h[1] = "bist" => h[2] \in BOOLEAN
         /\ h[1] = "good" => h[2] \in Nat /\ h[3] \in BOOLEAN
         /\ h[1] = "judge" => h[3] \in BOOLEAN
<1>1. CASE \E n \in Bare : h = <<n>>
  <2>1. h[1] \in Bare
    BY <1>1
  <2> QED BY <2>1 DEF Bare, OfAsic
<1>2. CASE h \in OfAsic \X ASICS
  BY <1>2 DEF OfAsic
<1>3. CASE h \in {"judge"} \X ASICS \X BOOLEAN
  BY <1>3 DEF OfAsic
<1>4. CASE h \in {"restart pll"} \X ASICS \X {0}
  BY <1>4 DEF OfAsic
<1>5. CASE h \in {"set_pll"} \X ASICS \X {f \in Int : f % 5 = 0}
  BY <1>5 DEF OfAsic
<1>6. CASE h \in {"bist"} \X BOOLEAN
  BY <1>6 DEF OfAsic
<1>7. CASE h \in {"good"} \X Nat \X BOOLEAN
  BY <1>7 DEF OfAsic
<1> QED BY <1>1, <1>2, <1>3, <1>4, <1>5, <1>6, <1>7 DEF Calls

(* These are calls.                                                        *)
LEMMA CallTypes ==
  /\ \A n \in Bare : <<n>> \in Calls
  /\ \A n \in OfAsic, a \in ASICS : <<n, a>> \in Calls
  /\ \A a \in ASICS, fast \in BOOLEAN : <<"judge", a, fast>> \in Calls
  /\ \A a \in ASICS : <<"restart pll", a, 0>> \in Calls
  /\ \A a \in ASICS, f \in Int : f % 5 = 0 => <<"set_pll", a, f>> \in Calls
  /\ \A fast \in BOOLEAN : <<"bist", fast>> \in Calls
  /\ \A i \in Nat, killed \in BOOLEAN : <<"good", i, killed>> \in Calls
BY DEF Calls

(* The calls of a sequence with one more in front.                         *)
LEMMA ConsSeq ==
  ASSUME NEW h \in Calls, NEW t \in Seq(Calls)
  PROVE  /\ Cons(h, t) \in Seq(Calls) /\ Len(Cons(h, t)) = Len(t) + 1 /\ Len(t) \in Nat
         /\ Cons(h, t)[1] = h
         /\ \A i \in 1 .. Len(t) : Cons(h, t)[i + 1] = t[i]
         /\ \A i \in 2 .. Len(t) + 1 : Cons(h, t)[i] = t[i - 1]
<1>1. /\ <<h>> \in Seq(Calls) /\ Len(<<h>>) = 1 /\ <<h>>[1] = h
  OBVIOUS
<1>2. Len(t) \in Nat
  BY LenProperties
<1> QED BY <1>1, <1>2, ConcatProperties DEF Cons

(* What it has.                                                            *)
LEMMA ConsHas ==
  ASSUME NEW h \in Calls, NEW t \in Seq(Calls)
  PROVE  /\ \A N : Has(Cons(h, t), N) <=> h[1] \in N \/ Has(t, N)
         /\ \A N, a : HasFor(Cons(h, t), N, a) <=> (h[1] \in N /\ h[2] = a) \/ HasFor(t, N, a)
<1> DEFINE c == Cons(h, t)
<1>0. /\ Len(c) = Len(t) + 1 /\ Len(t) \in Nat /\ c[1] = h
      /\ \A i \in 1 .. Len(t) : c[i + 1] = t[i]
      /\ \A i \in 2 .. Len(t) + 1 : c[i] = t[i - 1]
  BY ConsSeq
<1> HIDE DEF c
<1>1. /\ Len(c) = Len(t) + 1 /\ Len(t) \in Nat /\ c[1] = h
      /\ \A i \in 1 .. Len(t) : i + 1 \in 1 .. Len(c) /\ c[i + 1] = t[i]
      /\ \A i \in 1 .. Len(c) : i = 1 \/ (i - 1 \in 1 .. Len(t) /\ c[i] = t[i - 1])
  BY <1>0
<1>2. ASSUME NEW N PROVE Has(c, N) <=> h[1] \in N \/ Has(t, N)
  <2>1. ASSUME Has(c, N), h[1] \notin N PROVE Has(t, N)
    BY <1>1, <2>1 DEF Has
  <2>2. ASSUME Has(t, N) PROVE Has(c, N)
    BY <1>1, <2>2 DEF Has
  <2>3. ASSUME h[1] \in N PROVE Has(c, N)
    <3>1. 1 \in 1 .. Len(c)
      BY <1>1
    <3> QED BY <1>1, <2>3, <3>1 DEF Has
  <2> QED BY <2>1, <2>2, <2>3
<1>3. ASSUME NEW N, NEW a
      PROVE  HasFor(c, N, a) <=> (h[1] \in N /\ h[2] = a) \/ HasFor(t, N, a)
  <2>1. ASSUME HasFor(c, N, a), ~ (h[1] \in N /\ h[2] = a) PROVE HasFor(t, N, a)
    BY <1>1, <2>1 DEF HasFor
  <2>2. ASSUME HasFor(t, N, a) PROVE HasFor(c, N, a)
    BY <1>1, <2>2 DEF HasFor
  <2>3. ASSUME h[1] \in N /\ h[2] = a PROVE HasFor(c, N, a)
    <3>1. 1 \in 1 .. Len(c)
      BY <1>1
    <3> QED BY <1>1, <2>3, <3>1 DEF HasFor
  <2> QED BY <2>1, <2>2, <2>3
<1> QED BY <1>2, <1>3 DEF c

(* What comes after its calls, and before them.                            *)
LEMMA ConsAfter ==
  ASSUME NEW h \in Calls, NEW t \in Seq(Calls)
  PROVE  /\ \A N : After(Cons(h, t), 1, N) <=> Has(t, N)
         /\ \A N : \A i \in 1 .. Len(t) : After(Cons(h, t), i + 1, N) <=> After(t, i, N)
         /\ \A N : \A i \in 1 .. Len(t) :
              Before(Cons(h, t), i + 1, N) <=> h[1] \in N \/ Before(t, i, N)
         /\ \A N : ~ Before(Cons(h, t), 1, N)
<1> DEFINE c == Cons(h, t)
<1>1. /\ Len(c) = Len(t) + 1 /\ Len(t) \in Nat /\ c[1] = h
      /\ \A i \in 1 .. Len(t) : c[i + 1] = t[i]
      /\ \A i \in 2 .. Len(t) + 1 : c[i] = t[i - 1]
  BY ConsSeq
<1> HIDE DEF c
<1>2. ASSUME NEW N PROVE After(c, 1, N) <=> Has(t, N)
  <2>1. \A j \in 1 .. Len(t) : j + 1 \in 1 + 1 .. Len(c) /\ c[j + 1] = t[j]
    BY <1>1
  <2>2. \A j \in 1 + 1 .. Len(c) : j - 1 \in 1 .. Len(t) /\ c[j] = t[j - 1]
    BY <1>1
  <2> QED BY <2>1, <2>2 DEF After, Has
<1>3. ASSUME NEW N, NEW i \in 1 .. Len(t) PROVE After(c, i + 1, N) <=> After(t, i, N)
  <2>1. \A j \in i + 1 .. Len(t) : j + 1 \in i + 1 + 1 .. Len(c) /\ c[j + 1] = t[j]
    BY <1>1
  <2>2. \A j \in i + 1 + 1 .. Len(c) : j - 1 \in i + 1 .. Len(t) /\ c[j] = t[j - 1]
    BY <1>1
  <2> QED BY <2>1, <2>2 DEF After
<1>4. ASSUME NEW N, NEW i \in 1 .. Len(t)
      PROVE  Before(c, i + 1, N) <=> h[1] \in N \/ Before(t, i, N)
  <2>1. \A j \in 1 .. i - 1 : j + 1 \in 1 .. i + 1 - 1 /\ c[j + 1] = t[j]
    BY <1>1
  <2>2. \A j \in 1 .. i + 1 - 1 : j = 1 \/ (j - 1 \in 1 .. i - 1 /\ c[j] = t[j - 1])
    BY <1>1
  <2>3. 1 \in 1 .. i + 1 - 1 /\ c[1] = h
    BY <1>1
  <2> QED BY SMTT(30), <2>1, <2>2, <2>3 DEF Before
<1>5. \A N : ~ Before(c, 1, N)
  BY DEF Before
<1> QED BY <1>2, <1>3, <1>4, <1>5 DEF c

(* Whether one "restarted" is to come.                                     *)
LEMMA ConsOne ==
  ASSUME NEW h \in Calls, NEW t \in Seq(Calls)
  PROVE  One(Cons(h, t)) <=>
           IF h[1] = "restarted" THEN ~ Has(t, {"restarted"}) ELSE One(t)
<1> DEFINE c == Cons(h, t)
<1>1. /\ Len(c) = Len(t) + 1 /\ Len(t) \in Nat /\ c[1] = h
      /\ \A i \in 1 .. Len(t) : c[i + 1] = t[i]
      /\ \A i \in 2 .. Len(t) + 1 : c[i] = t[i - 1]
  BY ConsSeq
<1> HIDE DEF c
<1>2. /\ 1 \in 1 .. Len(c)
      /\ \A i \in 1 .. Len(t) : i + 1 \in 1 .. Len(c) /\ c[i + 1] = t[i] /\ i + 1 # 1
      /\ \A i \in 1 .. Len(c) : i = 1 \/ (i - 1 \in 1 .. Len(t) /\ c[i] = t[i - 1])
  BY <1>1
<1>3. CASE h[1] = "restarted"
  <2>1. ASSUME One(c) PROVE ~ Has(t, {"restarted"})
    <3>1. PICK r \in 1 .. Len(c) : \A i \in 1 .. Len(c) : c[i][1] = "restarted" <=> i = r
      BY <2>1 DEF One
    <3>2. r = 1
      BY <1>1, <1>2, <1>3, <3>1
    <3> QED BY <1>2, <3>1, <3>2 DEF Has
  <2>2. ASSUME ~ Has(t, {"restarted"}) PROVE One(c)
    <3>1. \A i \in 1 .. Len(c) : c[i][1] = "restarted" <=> i = 1
      BY <1>1, <1>2, <1>3, <2>2 DEF Has
    <3> QED BY <1>2, <3>1 DEF One
  <2> QED BY <1>3, <2>1, <2>2 DEF c
<1>4. CASE h[1] # "restarted"
  <2>1. ASSUME One(c) PROVE One(t)
    <3>1. PICK r \in 1 .. Len(c) : \A i \in 1 .. Len(c) : c[i][1] = "restarted" <=> i = r
      BY <2>1 DEF One
    <3>2. r - 1 \in 1 .. Len(t)
      BY <1>1, <1>2, <1>4, <3>1
    <3>3. \A i \in 1 .. Len(t) : t[i][1] = "restarted" <=> i = r - 1
      BY <1>1, <1>2, <3>1
    <3> QED BY <3>2, <3>3 DEF One
  <2>2. ASSUME One(t) PROVE One(c)
    <3>1. PICK r \in 1 .. Len(t) : \A i \in 1 .. Len(t) : t[i][1] = "restarted" <=> i = r
      BY <2>2 DEF One
    <3>2. r + 1 \in 1 .. Len(c)
      BY <1>1
    <3>3. ASSUME NEW i \in 1 .. Len(c) PROVE c[i][1] = "restarted" <=> i = r + 1
      <4>1. CASE i = 1
        BY <1>1, <1>4, <4>1
      <4>2. CASE i # 1
        <5>1. i - 1 \in 1 .. Len(t) /\ c[i] = t[i - 1]
          BY <1>2, <4>2
        <5>2. t[i - 1][1] = "restarted" <=> i - 1 = r
          BY <3>1, <5>1
        <5> QED BY <1>1, <5>1, <5>2
      <4> QED BY <4>1, <4>2
    <3> QED BY <3>2, <3>3 DEF One
  <2> QED BY <1>4, <2>1, <2>2 DEF c
<1> QED BY <1>3, <1>4

(* What is disabled before the first "restarted".                          *)
LEMMA ConsFirst ==
  ASSUME NEW h \in Calls, NEW t \in Seq(Calls), NEW a
  PROVE  First(Cons(h, t), a) <=>
           h[1] # "restarted" /\ ((h[1] = "disable" /\ h[2] = a) \/ First(t, a))
<1> DEFINE c == Cons(h, t)
<1>1. /\ Len(c) = Len(t) + 1 /\ Len(t) \in Nat /\ c[1] = h
      /\ \A i \in 1 .. Len(t) : c[i + 1] = t[i]
      /\ \A i \in 2 .. Len(t) + 1 : c[i] = t[i - 1]
  BY ConsSeq
<1> HIDE DEF c
<1>2. ASSUME First(c, a)
      PROVE  h[1] # "restarted" /\ ((h[1] = "disable" /\ h[2] = a) \/ First(t, a))
  <2>1. PICK i \in 1 .. Len(c) :
          c[i][1] = "disable" /\ c[i][2] = a /\ \A j \in 1 .. i : c[j][1] # "restarted"
    BY <1>2 DEF First
  <2>2. h[1] # "restarted"
    BY <1>1, <2>1
  <2>3. CASE i = 1
    BY <1>1, <2>1, <2>2, <2>3
  <2>4. CASE i # 1
    <3>1. i - 1 \in 1 .. Len(t) /\ c[i] = t[i - 1]
      BY <1>1, <2>4
    <3>2. \A j \in 1 .. i - 1 : t[j][1] # "restarted"
      BY SMTT(30), <1>1, <2>1, <3>1
    <3> QED BY <2>1, <2>2, <3>1, <3>2 DEF First
  <2> QED BY <2>3, <2>4
<1>3. ASSUME h[1] # "restarted", (h[1] = "disable" /\ h[2] = a) \/ First(t, a)
      PROVE  First(c, a)
  <2>1. CASE h[1] = "disable" /\ h[2] = a
    <3>1. 1 \in 1 .. Len(c) /\ \A j \in 1 .. 1 : c[j][1] # "restarted"
      BY <1>1, <1>3
    <3> QED BY <1>1, <2>1, <3>1 DEF First
  <2>2. CASE First(t, a)
    <3>1. PICK i \in 1 .. Len(t) :
            t[i][1] = "disable" /\ t[i][2] = a /\ \A j \in 1 .. i : t[j][1] # "restarted"
      BY <2>2 DEF First
    <3>2. i + 1 \in 1 .. Len(c) /\ c[i + 1] = t[i]
      BY <1>1
    <3>3. ASSUME NEW j \in 1 .. i + 1 PROVE c[j][1] # "restarted"
      BY SMTT(30), <1>1, <1>3, <3>1, <3>3
    <3> QED BY <3>1, <3>2, <3>3 DEF First
  <2> QED BY <1>3, <2>1, <2>2
<1> QED BY <1>2, <1>3 DEF c

(* Whether its calls that set PLLs are guarded.                            *)
LEMMA ConsGuarded ==
  ASSUME NEW h \in Calls, NEW t \in Seq(Calls)
  PROVE  Guarded(Cons(h, t)) <=>
           \/ h[1] \in Marked
           \/ Guarded(t) /\ (h[1] \in Sets => Has(t, {"restarted"}))
<1> DEFINE c == Cons(h, t)
<1>1. /\ Len(c) = Len(t) + 1 /\ Len(t) \in Nat /\ c[1] = h
      /\ \A i \in 1 .. Len(t) : c[i + 1] = t[i]
      /\ \A i \in 2 .. Len(t) + 1 : c[i] = t[i - 1]
  BY ConsSeq
<1>2. /\ \A N : After(c, 1, N) <=> Has(t, N)
      /\ \A N : \A i \in 1 .. Len(t) : After(c, i + 1, N) <=> After(t, i, N)
      /\ \A N : \A i \in 1 .. Len(t) : Before(c, i + 1, N) <=> h[1] \in N \/ Before(t, i, N)
      /\ \A N : ~ Before(c, 1, N)
  BY ConsAfter
<1> DEFINE Ok(s, i) == s[i][1] \in Sets => After(s, i, {"restarted"}) \/ Before(s, i, Marked)
<1> HIDE DEF c
<1>3. Ok(c, 1) <=> (h[1] \in Sets => Has(t, {"restarted"}))
  BY <1>1, <1>2
<1>4. ASSUME NEW i \in 1 .. Len(t) PROVE Ok(c, i + 1) <=> h[1] \in Marked \/ Ok(t, i)
  BY <1>1, <1>2
<1>5. h[1] \in Marked => h[1] \notin Sets
  BY DEF Marked, Sets
<1>6. Guarded(c) <=> Ok(c, 1) /\ \A i \in 1 .. Len(t) : Ok(c, i + 1)
  <2>1. Guarded(c) <=> \A i \in 1 .. Len(c) : Ok(c, i)
    BY DEF Guarded
  <2> HIDE DEF Ok
  <2>2. /\ 1 \in 1 .. Len(c)
        /\ \A i \in 1 .. Len(t) : i + 1 \in 1 .. Len(c)
        /\ \A i \in 1 .. Len(c) : i = 1 \/ (i - 1 \in 1 .. Len(t) /\ i - 1 + 1 = i)
    BY <1>1
  <2> QED BY <2>1, <2>2
<1>7. Guarded(t) <=> \A i \in 1 .. Len(t) : Ok(t, i)
  BY DEF Guarded
<1> HIDE DEF Ok
<1> QED BY <1>3, <1>4, <1>5, <1>6, <1>7 DEF c

(* A call counts on what comes after it.                                   *)
Counts(h, t, A) ==
  /\ h[1] \in {"judge", "drop engines", "restart pll"} => Has(t, Settles)
  /\ h[1] = "judge" => Has(t, {"program"})
  /\ h[1] = "enable" => Has(t, Settles) \/ (h[2] \in A /\ ~ Has(t, {"restarted"}))
  /\ h[1] = "set_pll" => Len(t) = 0 /\ h[2] \in A

(* Whether each of its calls finds what it counts on.                      *)
LEMMA ConsInOrder ==
  ASSUME NEW h \in Calls, NEW t \in Seq(Calls), NEW A
  PROVE  InOrder(Cons(h, t), A) <=>
           Counts(h, t, A) /\ InOrder(t, A) /\ ~ Has(t, {"restart", "set_pll"})
<1> DEFINE c == Cons(h, t)
<1>1. /\ Len(c) = Len(t) + 1 /\ Len(t) \in Nat /\ c[1] = h
      /\ \A i \in 1 .. Len(t) : c[i + 1] = t[i]
      /\ \A i \in 2 .. Len(t) + 1 : c[i] = t[i - 1]
  BY ConsSeq
<1>2. /\ \A N : After(c, 1, N) <=> Has(t, N)
      /\ \A N : \A i \in 1 .. Len(t) : After(c, i + 1, N) <=> After(t, i, N)
  BY ConsAfter
<1> HIDE DEF c
<1>3. OkCall(c, 1, A) <=> Counts(h, t, A)
  <2>1. /\ After(c, 1, Settles) <=> Has(t, Settles)
        /\ After(c, 1, {"program"}) <=> Has(t, {"program"})
        /\ After(c, 1, {"restarted"}) <=> Has(t, {"restarted"})
        /\ Len(c) = 1 <=> Len(t) = 0
    BY <1>1, <1>2
  <2> QED BY <1>1, <2>1 DEF OkCall, Counts
<1>4. ASSUME NEW i \in 1 .. Len(t)
      PROVE  OkCall(c, i + 1, A) <=> OkCall(t, i, A) /\ t[i][1] \notin {"restart", "set_pll"}
  <2>1. c[i + 1] = t[i] /\ i + 1 # 1 /\ Len(c) # 1
    BY <1>1
  <2>2. \A N : After(c, i + 1, N) <=> After(t, i, N)
    BY <1>2
  <2> QED BY <2>1, <2>2 DEF OkCall
<1>5. InOrder(c, A) <=> OkCall(c, 1, A) /\ \A i \in 1 .. Len(t) : OkCall(c, i + 1, A)
  <2>1. /\ 1 \in 1 .. Len(c)
        /\ \A i \in 1 .. Len(t) : i + 1 \in 1 .. Len(c)
        /\ \A i \in 1 .. Len(c) : i = 1 \/ (i - 1 \in 1 .. Len(t) /\ i - 1 + 1 = i)
    BY <1>1
  <2> QED BY <2>1 DEF InOrder
<1>6. ~ Has(t, {"restart", "set_pll"}) <=>
        \A i \in 1 .. Len(t) : t[i][1] \notin {"restart", "set_pll"}
  BY DEF Has
<1> QED BY <1>3, <1>4, <1>5, <1>6 DEF c, InOrder

(* The same for a call of each ASIC in front of others.                    *)
EachNames == {"none", "disable", "wait wanted", "judge", "restart pll"}
EachSeq(u) == u \in Seq(Calls) /\ \A i \in 1 .. Len(u) : u[i][1] \in EachNames

(* Where the calls are, when u is in front of t.                           *)
LEMMA EachFront ==
  ASSUME NEW u, EachSeq(u), NEW t \in Seq(Calls)
  PROVE  /\ u \o t \in Seq(Calls) /\ Len(u) \in Nat /\ Len(t) \in Nat
         /\ Len(u \o t) = Len(u) + Len(t)
         /\ \A i \in 1 .. Len(u) : i \in 1 .. Len(u \o t) /\ (u \o t)[i] = u[i]
         /\ \A i \in 1 .. Len(t) :
              i + Len(u) \in 1 .. Len(u \o t) /\ (u \o t)[i + Len(u)] = t[i]
         /\ \A i \in 1 .. Len(u \o t) :
              i \in 1 .. Len(u) \/ (i - Len(u) \in 1 .. Len(t) /\ (u \o t)[i] = t[i - Len(u)])
<1>1. u \in Seq(Calls) /\ Len(u) \in Nat /\ Len(t) \in Nat
  BY LenProperties DEF EachSeq
<1>2. /\ u \o t \in Seq(Calls) /\ Len(u \o t) = Len(u) + Len(t)
      /\ \A i \in 1 .. Len(u) + Len(t) :
           (u \o t)[i] = IF i <= Len(u) THEN u[i] ELSE t[i - Len(u)]
  BY <1>1, ConcatProperties
<1> QED BY <1>1, <1>2

(* What u and t have together.                                             *)
LEMMA EachHas ==
  ASSUME NEW u, EachSeq(u), NEW t \in Seq(Calls)
  PROVE  /\ \A N : Has(t, N) => Has(u \o t, N)
         /\ \A N : N \cap EachNames = {} => (Has(u \o t, N) <=> Has(t, N))
         /\ \A N, a : HasFor(u \o t, N, a) <=> HasFor(u, N, a) \/ HasFor(t, N, a)
<1> DEFINE c == u \o t
<1>1. /\ Len(u) \in Nat /\ Len(t) \in Nat
      /\ \A i \in 1 .. Len(u) : i \in 1 .. Len(c) /\ c[i] = u[i]
      /\ \A i \in 1 .. Len(t) : i + Len(u) \in 1 .. Len(c) /\ c[i + Len(u)] = t[i]
      /\ \A i \in 1 .. Len(c) :
           i \in 1 .. Len(u) \/ (i - Len(u) \in 1 .. Len(t) /\ c[i] = t[i - Len(u)])
  BY EachFront
<1> HIDE DEF c
<1>2. \A N : Has(t, N) => Has(c, N)
  BY <1>1 DEF Has
<1>3. ASSUME NEW N, N \cap EachNames = {}, Has(c, N) PROVE Has(t, N)
  BY <1>1, <1>3 DEF Has, EachSeq
<1>4. ASSUME NEW N, NEW a PROVE HasFor(c, N, a) <=> HasFor(u, N, a) \/ HasFor(t, N, a)
  <2>1. ASSUME HasFor(u, N, a) PROVE HasFor(c, N, a)
    BY <1>1, <2>1 DEF HasFor
  <2>2. ASSUME HasFor(t, N, a) PROVE HasFor(c, N, a)
    BY <1>1, <2>2 DEF HasFor
  <2>3. ASSUME HasFor(c, N, a) PROVE HasFor(u, N, a) \/ HasFor(t, N, a)
    <3>1. PICK i \in 1 .. Len(c) : c[i][1] \in N /\ c[i][2] = a
      BY <2>3 DEF HasFor
    <3> QED BY <1>1, <3>1 DEF HasFor
  <2> QED BY <2>1, <2>2, <2>3
<1> QED BY <1>2, <1>3, <1>4 DEF c

(* u ends no restart, and disables before t does anything.                 *)
LEMMA EachOne ==
  ASSUME NEW u, EachSeq(u), NEW t \in Seq(Calls)
  PROVE  /\ One(t) => One(u \o t)
         /\ \A a : HasFor(u, {"disable"}, a) \/ First(t, a) => First(u \o t, a)
<1> DEFINE c == u \o t
<1>1. /\ Len(u) \in Nat /\ Len(t) \in Nat
      /\ \A i \in 1 .. Len(u) : i \in 1 .. Len(c) /\ c[i] = u[i]
      /\ \A i \in 1 .. Len(t) : i + Len(u) \in 1 .. Len(c) /\ c[i + Len(u)] = t[i]
      /\ \A i \in 1 .. Len(c) :
           i \in 1 .. Len(u) \/ (i - Len(u) \in 1 .. Len(t) /\ c[i] = t[i - Len(u)])
  BY EachFront
<1> HIDE DEF c
<1>2. \A i \in 1 .. Len(u) : c[i][1] # "restarted"
  BY <1>1 DEF EachSeq, EachNames
<1>3. ASSUME One(t) PROVE One(c)
  <2>1. PICK r \in 1 .. Len(t) : \A i \in 1 .. Len(t) : t[i][1] = "restarted" <=> i = r
    BY <1>3 DEF One
  <2>2. ASSUME NEW i \in 1 .. Len(c) PROVE c[i][1] = "restarted" <=> i = r + Len(u)
    <3>1. CASE i \in 1 .. Len(u)
      <4>1. c[i][1] # "restarted" /\ i # r + Len(u)
        BY <1>1, <1>2, <3>1
      <4> QED BY <4>1
    <3>2. CASE i \notin 1 .. Len(u)
      <4>1. i - Len(u) \in 1 .. Len(t) /\ c[i] = t[i - Len(u)]
        BY <1>1, <3>2
      <4>2. t[i - Len(u)][1] = "restarted" <=> i - Len(u) = r
        BY <2>1, <4>1
      <4> QED BY <1>1, <4>1, <4>2
    <3> QED BY <3>1, <3>2
  <2> QED BY <1>1, <2>1, <2>2 DEF One
<1>4. ASSUME NEW a, HasFor(u, {"disable"}, a) PROVE First(c, a)
  <2>1. PICK i \in 1 .. Len(u) : u[i][1] = "disable" /\ u[i][2] = a
    BY <1>4 DEF HasFor
  <2>2. \A j \in 1 .. i : j \in 1 .. Len(u)
    BY <1>1
  <2> QED BY <1>1, <1>2, <2>1, <2>2 DEF First
<1>5. ASSUME NEW a, First(t, a) PROVE First(c, a)
  <2>1. PICK i \in 1 .. Len(t) :
          t[i][1] = "disable" /\ t[i][2] = a /\ \A j \in 1 .. i : t[j][1] # "restarted"
    BY <1>5 DEF First
  <2>2. ASSUME NEW j \in 1 .. i + Len(u) PROVE c[j][1] # "restarted"
    <3>1. j \in 1 .. Len(c)
      BY <1>1
    <3>2. CASE j \in 1 .. Len(u)
      BY <1>2, <3>2
    <3>3. CASE j \notin 1 .. Len(u)
      <4>1. j - Len(u) \in 1 .. i /\ c[j] = t[j - Len(u)]
        BY <1>1, <3>1, <3>3
      <4> QED BY <2>1, <4>1
    <3> QED BY <3>2, <3>3
  <2> QED BY <1>1, <2>1, <2>2 DEF First
<1> QED BY <1>3, <1>4, <1>5 DEF c

(* u sets no PLLs.                                                         *)
LEMMA EachGuarded ==
  ASSUME NEW u, EachSeq(u), NEW t \in Seq(Calls), Guarded(t)
  PROVE  Guarded(u \o t)
<1> DEFINE c == u \o t
<1>1. /\ Len(u) \in Nat /\ Len(t) \in Nat /\ Len(c) = Len(u) + Len(t)
      /\ \A i \in 1 .. Len(u) : i \in 1 .. Len(c) /\ c[i] = u[i]
      /\ \A i \in 1 .. Len(t) : i + Len(u) \in 1 .. Len(c) /\ c[i + Len(u)] = t[i]
      /\ \A i \in 1 .. Len(c) :
           i \in 1 .. Len(u) \/ (i - Len(u) \in 1 .. Len(t) /\ c[i] = t[i - Len(u)])
  BY EachFront
<1> HIDE DEF c
<1>2. SUFFICES ASSUME NEW i \in 1 .. Len(c), c[i][1] \in Sets
               PROVE  After(c, i, {"restarted"}) \/ Before(c, i, Marked)
  BY DEF c, Guarded
<1>3. i \notin 1 .. Len(u)
  BY <1>1, <1>2 DEF EachSeq, EachNames, Sets
<1>4. i - Len(u) \in 1 .. Len(t) /\ c[i] = t[i - Len(u)]
  BY <1>1, <1>3
<1>5. CASE After(t, i - Len(u), {"restarted"})
  <2>1. PICK j \in i - Len(u) + 1 .. Len(t) : t[j][1] \in {"restarted"}
    BY <1>5 DEF After
  <2>2. j + Len(u) \in i + 1 .. Len(c) /\ c[j + Len(u)] = t[j]
    BY <1>1, <1>4
  <2> QED BY <2>1, <2>2 DEF After
<1>6. CASE Before(t, i - Len(u), Marked)
  <2>1. PICK j \in 1 .. i - Len(u) - 1 : t[j][1] \in Marked
    BY <1>6 DEF Before
  <2>2. j + Len(u) \in 1 .. i - 1 /\ c[j + Len(u)] = t[j]
    BY <1>1, <1>4
  <2> QED BY <2>1, <2>2 DEF Before
<1> QED BY <1>2, <1>4, <1>5, <1>6 DEF Guarded

(* u in front of t is in order, when each call of u finds what it needs.   *)
LEMMA EachInOrder ==
  ASSUME NEW u, EachSeq(u), NEW t \in Seq(Calls), NEW A,
         InOrder(t, A), ~ Has(t, {"restart", "set_pll"}),
         \A i \in 1 .. Len(u) : Counts(u[i], t, A)
  PROVE  InOrder(u \o t, A) /\ ~ Has(u \o t, {"restart", "set_pll"})
<1> DEFINE c == u \o t
<1>1. /\ Len(u) \in Nat /\ Len(t) \in Nat /\ Len(c) = Len(u) + Len(t)
      /\ \A i \in 1 .. Len(u) : i \in 1 .. Len(c) /\ c[i] = u[i]
      /\ \A i \in 1 .. Len(t) : i + Len(u) \in 1 .. Len(c) /\ c[i + Len(u)] = t[i]
      /\ \A i \in 1 .. Len(c) :
           i \in 1 .. Len(u) \/ (i - Len(u) \in 1 .. Len(t) /\ c[i] = t[i - Len(u)])
  BY EachFront
<1> HIDE DEF c
<1>2. ~ Has(c, {"restart", "set_pll"})
  <2>1. {"restart", "set_pll"} \cap EachNames = {}
    BY DEF EachNames
  <2> QED BY <2>1, EachHas DEF c
<1>3. ASSUME NEW i \in 1 .. Len(u), NEW N, Has(t, N) PROVE After(c, i, N)
  <2>1. PICK j \in 1 .. Len(t) : t[j][1] \in N
    BY <1>3 DEF Has
  <2>2. j + Len(u) \in i + 1 .. Len(c) /\ c[j + Len(u)] = t[j]
    BY <1>1
  <2> QED BY <2>1, <2>2 DEF After
<1>4. ASSUME NEW i \in 1 .. Len(t), NEW N PROVE After(c, i + Len(u), N) <=> After(t, i, N)
  <2>1. \A j \in i + 1 .. Len(t) : j + Len(u) \in i + Len(u) + 1 .. Len(c) /\ c[j + Len(u)] = t[j]
    BY <1>1
  <2>2. \A j \in i + Len(u) + 1 .. Len(c) : j - Len(u) \in i + 1 .. Len(t) /\ c[j] = t[j - Len(u)]
    BY <1>1
  <2> QED BY <2>1, <2>2 DEF After
<1>5. ASSUME NEW i \in 1 .. Len(u) PROVE OkCall(c, i, A)
  <2>1. c[i] = u[i] /\ u[i][1] \in EachNames /\ Counts(u[i], t, A)
    BY <1>1 DEF EachSeq
  <2>2. \A N : Has(t, N) => After(c, i, N)
    BY <1>3
  <2> QED BY <2>1, <2>2 DEF OkCall, Counts, EachNames
<1>6. ASSUME NEW i \in 1 .. Len(t) PROVE OkCall(c, i + Len(u), A)
  <2>1. OkCall(t, i, A) /\ t[i][1] \notin {"restart", "set_pll"} /\ c[i + Len(u)] = t[i]
    BY <1>1 DEF InOrder, Has
  <2>2. \A N : After(c, i + Len(u), N) <=> After(t, i, N)
    BY <1>4
  <2> QED BY <2>1, <2>2 DEF OkCall
<1>7. ASSUME NEW i \in 1 .. Len(c) PROVE OkCall(c, i, A)
  <2>1. CASE i \in 1 .. Len(u)
    BY <1>5, <2>1
  <2>2. CASE i \notin 1 .. Len(u)
    <3>1. i - Len(u) \in 1 .. Len(t) /\ (i - Len(u)) + Len(u) = i
      BY <1>1, <2>2
    <3>2. OkCall(c, (i - Len(u)) + Len(u), A)
      BY <1>6, <3>1
    <3> QED BY <3>1, <3>2
  <2> QED BY <2>1, <2>2
<1> QED BY <1>2, <1>7 DEF c, InOrder

-----------------------------------------------------------------------------
(* What the functions do, in front of what is left. *)

(* No call for a t that has not enough calls begins a restart or sets one  *)
(* PLL: s carries on with t if it only counts on what t has.               *)
Carries(s, A) == s \in Seq(Calls) /\ InOrder(s, A) /\ ~ Has(s, {"restart", "set_pll"})

(* The first call of a sequence, and the rest.                             *)
LEMMA HeadTail ==
  ASSUME NEW s \in Seq(Calls), s # <<>>
  PROVE  Head(s) \in Calls /\ Tail(s) \in Seq(Calls) /\ s = Cons(Head(s), Tail(s))
<1>1. /\ Head(s) \in Calls /\ Tail(s) \in Seq(Calls) /\ Len(Tail(s)) = Len(s) - 1
      /\ \A i \in 1 .. Len(Tail(s)) : Tail(s)[i] = s[i + 1]
  BY HeadTailProperties
<1>2. Head(s) = s[1] /\ Len(s) \in Nat
  BY LenProperties
<1> DEFINE c == Cons(Head(s), Tail(s))
<1>3. /\ c \in Seq(Calls) /\ Len(c) = Len(Tail(s)) + 1 /\ c[1] = Head(s)
      /\ \A i \in 2 .. Len(Tail(s)) + 1 : c[i] = Tail(s)[i - 1]
  BY <1>1, ConsSeq
<1> HIDE DEF c
<1>4. ASSUME NEW i \in 1 .. Len(s) PROVE s[i] = c[i]
  <2>1. CASE i = 1
    BY <1>2, <1>3, <2>1
  <2>2. CASE i # 1
    <3>1. i - 1 \in 1 .. Len(Tail(s)) /\ i \in 2 .. Len(Tail(s)) + 1
      BY <1>1, <1>2, <2>2
    <3>2. c[i] = Tail(s)[i - 1] /\ Tail(s)[i - 1] = s[i - 1 + 1] /\ i - 1 + 1 = i
      BY <1>1, <1>3, <3>1
    <3> QED BY <3>2
  <2> QED BY <2>1, <2>2
<1>5. s = c
  <2>1. Len(s) = Len(c)
    BY <1>1, <1>2, <1>3
  <2> QED BY <1>3, <1>4, <2>1, SeqEqual
<1> QED BY <1>1, <1>5 DEF c

(* Sequences put together from the front.                                  *)
LEMMA Conses ==
  ASSUME NEW h \in Calls, NEW s \in Seq(Calls), NEW t \in Seq(Calls)
  PROVE  /\ <<h>> \in Seq(Calls) /\ <<h>> \o s \in Seq(Calls) /\ s \o t \in Seq(Calls)
         /\ (<<h>> \o s) \o t = Cons(h, s \o t)
         /\ (s \o <<h>>) \o t = s \o Cons(h, t)
         /\ Cons(h, t) \in Seq(Calls)
<1>1. <<h>> \in Seq(Calls)
  OBVIOUS
<1> QED BY SMTT(40), <1>1, ConcatProperties, ConcatAssociative DEF Cons

(* A pair of calls, as two sequences.                                      *)
LEMMA Pair ==
  ASSUME NEW g \in Calls, NEW h \in Calls
  PROVE  <<g, h>> = <<g>> \o <<h>>
<1>1. <<g>> \in Seq(Calls) /\ <<h>> \in Seq(Calls) /\ <<g, h>> \in Seq(Calls)
  OBVIOUS
<1>2. Len(<<g>>) = 1 /\ Len(<<h>>) = 1 /\ Len(<<g, h>>) = 2
  OBVIOUS
<1>3. /\ <<g>> \o <<h>> \in Seq(Calls) /\ Len(<<g>> \o <<h>>) = 2
      /\ (<<g>> \o <<h>>)[1] = g /\ (<<g>> \o <<h>>)[2] = h
  BY <1>1, <1>2, ConcatProperties
<1>4. <<g, h>>[1] = g /\ <<g, h>>[2] = h
  OBVIOUS
<1>5. \A i \in 1 .. 2 : i = 1 \/ i = 2
  OBVIOUS
<1> QED BY <1>1, <1>2, <1>3, <1>4, <1>5, SeqEqual

(* A pair of calls in front of others.                                     *)
LEMMA TwoConses ==
  ASSUME NEW g \in Calls, NEW h \in Calls, NEW t \in Seq(Calls)
  PROVE  (<<g>> \o <<h>>) \o t = Cons(g, Cons(h, t))
<1>1. <<g>> \in Seq(Calls) /\ <<h>> \in Seq(Calls)
  OBVIOUS
<1> QED BY <1>1, ConcatAssociative DEF Cons

(* What the ASICs of some set are dealt with by.                           *)
ThoseNames == {"disable", "wait wanted"}

(* A call of each ASIC, or of each of those in D.                          *)
LEMMA Each ==
  ASSUME NEW n \in ThoseNames, NEW D,
         NEW fast \in BOOLEAN, NEW t, NEW A
  PROVE  /\ EachSeq(Those(n, D))
         /\ \A i \in 1 .. Len(Those(n, D)) : Counts(Those(n, D)[i], t, A)
         /\ \A a \in D \cap ASICS : HasFor(Those(n, D), {n}, a)
         /\ EachSeq(EachAsic("judge", fast)) /\ EachSeq(EachAsic("restart pll", 0))
         /\ \A a \in ASICS : HasFor(EachAsic("restart pll", 0), {"restart pll"}, a)
         /\ Has(t, Settles) /\ Has(t, {"program"}) =>
              \A i \in 1 .. Len(EachAsic("judge", fast)) :
                Counts(EachAsic("judge", fast)[i], t, A)
         /\ Has(t, Settles) =>
              \A i \in 1 .. Len(EachAsic("restart pll", 0)) :
                Counts(EachAsic("restart pll", 0)[i], t, A)
<1> DEFINE D1 == Those(n, D)
           J1 == EachAsic("judge", fast)
           R1 == EachAsic("restart pll", 0)
<1>1. ASICS_COUNT \in Nat /\ ASICS_COUNT # 0
  BY PllsAssumption
<1>2. \A i \in 1 .. ASICS_COUNT : i - 1 \in ASICS
  BY <1>1 DEF ASICS
<1>3. ASSUME NEW f, DOMAIN f = 1 .. ASICS_COUNT, \A i \in 1 .. ASICS_COUNT : f[i] \in Calls,
             f = [i \in 1 .. ASICS_COUNT |-> f[i]]
      PROVE  f \in Seq(Calls) /\ Len(f) = ASICS_COUNT
  <2>1. f \in [1 .. ASICS_COUNT -> Calls]
    BY <1>3
  <2>2. f \in Seq(Calls)
    BY <1>1, <2>1, SeqDef
  <2>3. Len(f) \in Nat /\ 1 .. Len(f) = 1 .. ASICS_COUNT
    BY <1>3, <2>2, LenProperties
  <2>4. ASICS_COUNT \in 1 .. Len(f)
    BY <1>1, <2>3
  <2>5. Len(f) # 0 => Len(f) \in 1 .. ASICS_COUNT
    BY <1>1, <2>3
  <2> QED BY <1>1, <2>2, <2>3, <2>4, <2>5
<1>4. \A i \in 1 .. ASICS_COUNT : D1[i] = IF i - 1 \in D THEN <<n, i - 1>> ELSE <<"none">>
  BY DEF Those
<1>5. D1 \in Seq(Calls) /\ Len(D1) = ASICS_COUNT
  <2>1. <<"none">> \in Calls /\ \A i \in 1 .. ASICS_COUNT : <<n, i - 1>> \in Calls
    BY <1>2, CallTypes DEF Bare, OfAsic, ThoseNames
  <2>2. DOMAIN D1 = 1 .. ASICS_COUNT /\ D1 = [i \in 1 .. ASICS_COUNT |-> D1[i]]
    BY DEF Those
  <2>3. \A i \in 1 .. ASICS_COUNT : D1[i] \in Calls
    BY <1>4, <2>1
  <2> HIDE DEF D1
  <2> QED BY <1>3, <2>2, <2>3
<1>6. \A i \in 1 .. ASICS_COUNT : J1[i] = <<"judge", i - 1, fast>>
  BY DEF EachAsic
<1>7. J1 \in Seq(Calls) /\ Len(J1) = ASICS_COUNT
  <2>1. DOMAIN J1 = 1 .. ASICS_COUNT /\ J1 = [i \in 1 .. ASICS_COUNT |-> J1[i]]
    BY DEF EachAsic
  <2>2. \A i \in 1 .. ASICS_COUNT : J1[i] \in Calls
    BY <1>2, <1>6, CallTypes
  <2> HIDE DEF J1
  <2> QED BY <1>3, <2>1, <2>2
<1>8. \A i \in 1 .. ASICS_COUNT : R1[i] = <<"restart pll", i - 1, 0>>
  BY DEF EachAsic
<1>9. R1 \in Seq(Calls) /\ Len(R1) = ASICS_COUNT
  <2>1. DOMAIN R1 = 1 .. ASICS_COUNT /\ R1 = [i \in 1 .. ASICS_COUNT |-> R1[i]]
    BY DEF EachAsic
  <2>2. \A i \in 1 .. ASICS_COUNT : R1[i] \in Calls
    BY <1>2, <1>8, CallTypes
  <2> HIDE DEF R1
  <2> QED BY <1>3, <2>1, <2>2
<1> HIDE DEF D1, J1, R1
<1>10. EachSeq(D1) /\ \A i \in 1 .. Len(D1) : Counts(D1[i], t, A)
  <2>1. ASSUME NEW i \in 1 .. ASICS_COUNT
        PROVE  D1[i][1] \in {"disable", "wait wanted", "none"}
    <3>1. D1[i][1] = n \/ D1[i][1] = "none"
      BY DEF Those, D1
    <3> QED BY <3>1 DEF ThoseNames
  <2> QED BY <1>5, <2>1 DEF EachSeq, EachNames, Counts
<1>11. ASSUME NEW a \in D \cap ASICS PROVE HasFor(D1, {n}, a)
  <2>1. a + 1 \in 1 .. ASICS_COUNT /\ (a + 1) - 1 = a
    BY <1>1 DEF ASICS
  <2>2. D1[a + 1] = <<n, a>>
    BY <1>4, <2>1
  <2>3. D1[a + 1][1] = n /\ D1[a + 1][2] = a
    BY <2>2
  <2> QED BY <1>5, <2>1, <2>3 DEF HasFor
<1>12. EachSeq(J1) /\ (Has(t, Settles) /\ Has(t, {"program"}) =>
                         \A i \in 1 .. Len(J1) : Counts(J1[i], t, A))
  <2>1. \A i \in 1 .. ASICS_COUNT : J1[i][1] = "judge"
    BY <1>6
  <2> QED BY <1>7, <2>1 DEF EachSeq, EachNames, Counts
<1>13. EachSeq(R1) /\ (Has(t, Settles) => \A i \in 1 .. Len(R1) : Counts(R1[i], t, A))
  <2>1. \A i \in 1 .. ASICS_COUNT : R1[i][1] = "restart pll"
    BY DEF EachAsic, R1
  <2> QED BY <1>9, <2>1 DEF EachSeq, EachNames, Counts
<1>14. ASSUME NEW a \in ASICS PROVE HasFor(R1, {"restart pll"}, a)
  <2>1. a + 1 \in 1 .. ASICS_COUNT /\ (a + 1) - 1 = a
    BY <1>1 DEF ASICS
  <2>2. R1[a + 1][1] = "restart pll" /\ R1[a + 1][2] = a
    BY <2>1 DEF EachAsic, R1
  <2> QED BY <1>9, <2>1, <2>2 DEF HasFor
<1> QED BY <1>10, <1>11, <1>12, <1>13, <1>14 DEF D1, J1, R1

(* s does all that t does, and leaves the end of a restart to it.          *)
Over(s, t) ==
  /\ \A N : Has(t, N) => Has(s, N)
  /\ \A N, a : HasFor(t, N, a) => HasFor(s, N, a)
  /\ Has(s, {"restarted"}) => Has(t, {"restarted"})
  /\ One(t) => One(s)
  /\ \A a : First(t, a) => First(s, a)

(* A sequence does what it does itself.                                    *)
LEMMA OverItself == \A t : Over(t, t)
BY DEF Over

(* What does what t does, does what u does, when t does that.              *)
LEMMA OverOver ==
  ASSUME NEW s, NEW t, NEW u, Over(s, t), Over(t, u)
  PROVE  Over(s, u)
BY DEF Over

(* With one more call in front, all is still done.                         *)
LEMMA OverCons ==
  ASSUME NEW h \in Calls, NEW t \in Seq(Calls), h[1] # "restarted"
  PROVE  Over(Cons(h, t), t)
BY ConsHas, ConsOne, ConsFirst DEF Over

(* So it is with a call of each ASIC in front.                             *)
LEMMA OverEach ==
  ASSUME NEW u, EachSeq(u), NEW t \in Seq(Calls)
  PROVE  Over(u \o t, t)
<1>1. {"restarted"} \cap EachNames = {}
  BY DEF EachNames
<1> QED BY <1>1, EachHas, EachOne DEF Over

(* A call in front of a sequence to carry on with.                         *)
LEMMA CarriesCons ==
  ASSUME NEW h \in Calls, NEW t, NEW A, Carries(t, A), Counts(h, t, A),
         h[1] \notin {"restart", "set_pll"}
  PROVE  Carries(Cons(h, t), A)
<1>1. t \in Seq(Calls) /\ InOrder(t, A) /\ ~ Has(t, {"restart", "set_pll"})
  BY DEF Carries
<1> QED BY <1>1, ConsSeq, ConsInOrder, ConsHas DEF Carries

(* A call for some of the ASICs in front.                                  *)
LEMMA ThoseFront ==
  ASSUME NEW n \in ThoseNames, NEW D, NEW t, NEW A, Carries(t, A)
  PROVE  /\ Carries(Those(n, D) \o t, A) /\ Over(Those(n, D) \o t, t)
         /\ Guarded(t) => Guarded(Those(n, D) \o t)
         /\ \A a \in D \cap ASICS : HasFor(Those(n, D) \o t, {n}, a)
         /\ n = "disable" => \A a \in D \cap ASICS : First(Those(n, D) \o t, a)
         /\ Has(Those(n, D) \o t, {"restart"}) <=> Has(t, {"restart"})
         /\ Those(n, D) \in Seq(Calls)
<1> DEFINE u == Those(n, D)
<1>1. t \in Seq(Calls) /\ InOrder(t, A) /\ ~ Has(t, {"restart", "set_pll"})
  BY DEF Carries
<1>2. /\ EachSeq(u) /\ \A i \in 1 .. Len(u) : Counts(u[i], t, A)
      /\ \A a \in D \cap ASICS : HasFor(u, {n}, a)
  BY Each
<1> HIDE DEF u
<1>3. u \o t \in Seq(Calls)
  BY <1>1, <1>2, EachFront
<1>4. {"restart"} \cap EachNames = {}
  BY DEF EachNames
<1>5. Has(u \o t, {"restart"}) <=> Has(t, {"restart"})
  BY <1>1, <1>2, <1>4, EachHas
<1>6. \A a \in D \cap ASICS : HasFor(u \o t, {n}, a)
  BY <1>1, <1>2, EachHas
<1>7. n = "disable" => \A a \in D \cap ASICS : First(u \o t, a)
  BY <1>1, <1>2, EachOne
<1>8. Carries(u \o t, A)
  BY <1>1, <1>2, <1>3, EachInOrder DEF Carries
<1>9. u \in Seq(Calls)
  BY <1>2 DEF EachSeq
<1> QED BY <1>1, <1>2, <1>5, <1>6, <1>7, <1>8, <1>9, OverEach, EachGuarded DEF u

(* The judging of a BIST, and the setting of the PLLs it leads to.         *)
LEMMA JudgeAllFront ==
  ASSUME NEW fast \in BOOLEAN, NEW t, NEW A, Carries(t, A)
  PROVE  /\ JudgeAll(fast) \in Seq(Calls)
         /\ Carries(JudgeAll(fast) \o t, A) /\ Over(JudgeAll(fast) \o t, t)
         /\ Guarded(t) /\ Has(t, {"restarted"}) => Guarded(JudgeAll(fast) \o t)
         /\ Has(JudgeAll(fast) \o t, Settles)
<1> DEFINE w == <<"squid wait">>
           J == EachAsic("judge", fast)
           p == <<"program">>
           g == <<"good", 0, FALSE>>
           t1 == Cons(g, t)
           t2 == Cons(p, t1)
           t3 == J \o t2
           t4 == Cons(w, t3)
<1>1. t \in Seq(Calls)
  BY DEF Carries
<1>2. /\ w \in Calls /\ p \in Calls /\ g \in Calls
      /\ w[1] = "squid wait" /\ p[1] = "program" /\ g[1] = "good"
  BY CallTypes DEF Bare
<1>3. EachSeq(J) /\ J \in Seq(Calls)
  BY Each DEF EachSeq, ThoseNames
<1>4. JudgeAll(fast) = ((<<w>> \o J) \o <<p>>) \o <<g>>
  BY DEF JudgeAll, squid_wait, set_plls_to_wanted
<1> HIDE DEF w, J, p, g
<1>5. /\ <<w>> \o J \in Seq(Calls) /\ (<<w>> \o J) \o <<p>> \in Seq(Calls)
      /\ ((<<w>> \o J) \o <<p>>) \o <<g>> \in Seq(Calls)
      /\ t1 \in Seq(Calls) /\ t2 \in Seq(Calls)
  <2>1. <<p>> \in Seq(Calls) /\ <<g>> \in Seq(Calls) /\ <<w>> \o J \in Seq(Calls)
    BY <1>1, <1>2, <1>3, Conses
  <2> QED BY <1>1, <1>2, <2>1, ConcatProperties, Conses
<1>6. (((<<w>> \o J) \o <<p>>) \o <<g>>) \o t = t4
  <2>1. (((<<w>> \o J) \o <<p>>) \o <<g>>) \o t = ((<<w>> \o J) \o <<p>>) \o t1
    BY ZenonT(40), <1>1, <1>2, <1>5, Conses
  <2> HIDE DEF t1
  <2>2. ((<<w>> \o J) \o <<p>>) \o t1 = (<<w>> \o J) \o t2
    <3>1. p \in Calls /\ <<w>> \o J \in Seq(Calls) /\ t1 \in Seq(Calls)
      BY <1>2, <1>5
    <3> QED BY <3>1, Conses
  <2> HIDE DEF t2
  <2>3. (<<w>> \o J) \o t2 = Cons(w, t3)
    <3>1. w \in Calls /\ J \in Seq(Calls) /\ t2 \in Seq(Calls)
      BY <1>2, <1>3, <1>5
    <3> QED BY <3>1, Conses
  <2> QED BY <2>1, <2>2, <2>3
<1>7. Carries(t1, A) /\ Over(t1, t) /\ Has(t1, Settles) /\ (Guarded(t) => Guarded(t1))
  <2>1. Counts(g, t, A)
    BY <1>2 DEF Counts
  <2>2. "good" \in Settles /\ "good" \notin Sets
    BY DEF Settles, Sets
  <2> HIDE DEF t1
  <2> QED
    BY ZenonT(40), <1>1, <1>2, <2>1, <2>2, CarriesCons, OverCons, ConsHas, ConsGuarded DEF t1
<1>8. /\ Carries(t2, A) /\ Over(t2, t1) /\ Has(t2, {"program"})
      /\ Guarded(t1) /\ Has(t1, {"restarted"}) => Guarded(t2)
  <2>1. Counts(p, t1, A)
    BY <1>2 DEF Counts
  <2> HIDE DEF t1
  <2> QED BY <1>2, <1>5, <1>7, <2>1, CarriesCons, OverCons, ConsHas, ConsGuarded
<1> HIDE DEF t1
<1>9. Has(t2, Settles)
  BY <1>7, <1>8 DEF Over
<1> HIDE DEF t2
<1>10. \A i \in 1 .. Len(J) : Counts(J[i], t2, A)
  BY <1>8, <1>9, Each DEF J, ThoseNames
<1>11. Carries(t3, A) /\ Over(t3, t2) /\ (Guarded(t2) => Guarded(t3)) /\ t3 \in Seq(Calls)
  <2>1. InOrder(t2, A) /\ ~ Has(t2, {"restart", "set_pll"})
    BY <1>8 DEF Carries
  <2>2. t3 \in Seq(Calls)
    BY <1>3, <1>5, ConcatProperties
  <2> QED BY <1>3, <1>5, <1>10, <2>1, <2>2, EachInOrder, OverEach, EachGuarded DEF Carries
<1> HIDE DEF t3
<1>12. Carries(t4, A) /\ Over(t4, t3) /\ (Guarded(t3) => Guarded(t4))
  <2>1. Counts(w, t3, A)
    BY <1>2 DEF Counts
  <2>2. "squid wait" \notin Sets
    BY DEF Sets
  <2>3. w[1] \notin {"restart", "set_pll", "restarted"} /\ w[1] \notin Sets /\ w \in Calls
    BY <1>2, <2>2
  <2>4. Carries(t4, A)
    BY <1>11, <2>1, <2>3, CarriesCons
  <2>5. Over(t4, t3) /\ (Guarded(t3) => Guarded(t4))
    BY <1>11, <2>3, OverCons, ConsGuarded
  <2> QED BY <2>4, <2>5
<1> HIDE DEF t4
<1>13. Over(t4, t)
  BY <1>7, <1>8, <1>11, <1>12, OverOver
<1>14. Has(t4, Settles)
  BY <1>9, <1>11, <1>12 DEF Over
<1>15. Has(t, {"restarted"}) => Has(t1, {"restarted"})
  BY <1>7 DEF Over
<1> QED BY <1>4, <1>5, <1>6, <1>7, <1>8, <1>11, <1>12, <1>13, <1>14, <1>15

(* A restart, once the ASICs are addressed.                                *)
LEMMA RestartFront ==
  ASSUME NEW D, NEW t, NEW A, Carries(t, A), ~ Has(t, {"restarted"})
  PROVE  LET s == (Disabling(D) \o set_initial_freq_on_restart) \o t IN
         /\ Carries(s, A) /\ One(s) /\ Has(s, Settles)
         /\ \A N : Has(t, N) => Has(s, N)
         /\ \A a \in D \cap ASICS : First(s, a)
         /\ \A a \in ASICS : HasFor(s, {"restart pll"}, a)
         /\ Guarded(t) => Guarded(s)
<1> DEFINE R == EachAsic("restart pll", 0)
           w == <<"wait any">>
           b == <<"bist", FALSE>>
           e == <<"restarted">>
           t1 == Cons(e, t)
           t2 == Cons(b, t1)
           t3 == Cons(b, t2)
           t4 == Cons(w, t3)
           t5 == R \o t4
           t6 == Those("disable", D) \o t5
<1>1. t \in Seq(Calls)
  BY DEF Carries
<1>2. /\ w \in Calls /\ b \in Calls /\ e \in Calls
      /\ w[1] = "wait any" /\ b[1] = "bist" /\ e[1] = "restarted"
  BY CallTypes DEF Bare
<1>3. EachSeq(R) /\ R \in Seq(Calls)
  BY Each DEF EachSeq, ThoseNames
<1>4. set_initial_freq_on_restart = (((R \o <<w>>) \o <<b>>) \o <<b>>) \o <<e>>
  BY DEF set_initial_freq_on_restart, do_bist_ok
<1> HIDE DEF R, w, b, e
<1> DEFINE r1 == R \o <<w>>
           r2 == r1 \o <<b>>
           r3 == r2 \o <<b>>
           r4 == r3 \o <<e>>
<1>5. r1 \in Seq(Calls) /\ r2 \in Seq(Calls) /\ r3 \in Seq(Calls) /\ r4 \in Seq(Calls)
  <2>1. <<w>> \in Seq(Calls) /\ <<b>> \in Seq(Calls) /\ <<e>> \in Seq(Calls)
    BY <1>1, <1>2, Conses
  <2>2. r1 \in Seq(Calls)
    BY <1>3, <2>1, ConcatProperties
  <2> HIDE DEF r1
  <2>3. r2 \in Seq(Calls)
    BY <2>1, <2>2, ConcatProperties
  <2> HIDE DEF r2
  <2>4. r3 \in Seq(Calls)
    BY <2>1, <2>3, ConcatProperties
  <2> HIDE DEF r3
  <2>5. r4 \in Seq(Calls)
    BY <2>1, <2>4, ConcatProperties
  <2> QED BY <2>2, <2>3, <2>4, <2>5
<1>6. t1 \in Seq(Calls) /\ t2 \in Seq(Calls) /\ t3 \in Seq(Calls) /\ t4 \in Seq(Calls)
  BY <1>1, <1>2, Conses
<1>7. r4 \o t = t5
  <2> HIDE DEF r1, r2, r3
  <2>1. (r3 \o <<e>>) \o t = r3 \o Cons(e, t)
    BY ZenonT(40), <1>1, <1>2, <1>5, Conses
  <2> HIDE DEF t1
  <2>2. (r2 \o <<b>>) \o t1 = r2 \o Cons(b, t1)
    <3>1. b \in Calls /\ r2 \in Seq(Calls) /\ t1 \in Seq(Calls)
      BY <1>2, <1>5, <1>6
    <3> QED BY <3>1, Conses
  <2> HIDE DEF t2
  <2>3. (r1 \o <<b>>) \o t2 = r1 \o Cons(b, t2)
    <3>1. b \in Calls /\ r1 \in Seq(Calls) /\ t2 \in Seq(Calls)
      BY <1>2, <1>5, <1>6
    <3> QED BY <3>1, Conses
  <2> HIDE DEF t3
  <2>4. (R \o <<w>>) \o t3 = R \o Cons(w, t3)
    <3>1. w \in Calls /\ R \in Seq(Calls) /\ t3 \in Seq(Calls)
      BY <1>2, <1>3, <1>6
    <3> QED BY <3>1, Conses
  <2> QED BY <2>1, <2>2, <2>3, <2>4 DEF r1, r2, r3, t1, t2, t3
<1>8. Carries(t1, A) /\ One(t1) /\ Has(t1, {"restarted"}) /\ (Guarded(t) => Guarded(t1))
  <2>1. Counts(e, t, A) /\ e[1] \notin {"restart", "set_pll"} /\ e[1] \notin Sets
    BY <1>2 DEF Counts, Sets
  <2>2. Carries(t1, A)
    BY <1>2, <2>1, CarriesCons
  <2>3. One(t1) /\ Has(t1, {"restarted"}) /\ (Guarded(t) => Guarded(t1))
    BY <1>1, <1>2, <2>1, ConsOne, ConsHas, ConsGuarded
  <2> QED BY <2>2, <2>3
<1>9. \A N : Has(t, N) => Has(t1, N)
  BY <1>1, <1>2, ConsHas
<1> HIDE DEF t1
<1>10. ASSUME NEW u \in Seq(Calls), Carries(u, A), Has(u, {"restarted"})
       PROVE  /\ Carries(Cons(b, u), A) /\ Over(Cons(b, u), u) /\ Has(Cons(b, u), Settles)
              /\ Guarded(u) => Guarded(Cons(b, u))
  <2>1. /\ Counts(b, u, A) /\ b[1] \notin {"restart", "set_pll", "restarted"}
        /\ b[1] \in Settles
    BY <1>2 DEF Counts, Settles
  <2>2. Carries(Cons(b, u), A)
    BY <1>2, <1>10, <2>1, CarriesCons
  <2> QED BY <1>2, <1>10, <2>1, <2>2, OverCons, ConsHas, ConsGuarded
<1>11. /\ Carries(t2, A) /\ Over(t2, t1) /\ Has(t2, {"restarted"})
       /\ Guarded(t1) => Guarded(t2)
  <2>1. Carries(t2, A) /\ Over(t2, t1) /\ (Guarded(t1) => Guarded(t2))
    BY <1>6, <1>8, <1>10
  <2> QED BY <1>8, <2>1 DEF Over
<1> HIDE DEF t2
<1>12. /\ Carries(t3, A) /\ Over(t3, t2) /\ Has(t3, Settles)
       /\ Guarded(t2) => Guarded(t3)
  BY <1>6, <1>10, <1>11
<1> HIDE DEF t3
<1>13. Carries(t4, A) /\ Over(t4, t3) /\ (Guarded(t3) => Guarded(t4))
  <2>1. /\ Counts(w, t3, A) /\ w[1] \notin {"restart", "set_pll", "restarted"}
        /\ w[1] \notin Sets
    BY <1>2 DEF Counts, Sets
  <2>2. Carries(t4, A)
    BY <1>2, <1>12, <2>1, CarriesCons
  <2> QED BY <1>2, <1>6, <2>1, <2>2, OverCons, ConsGuarded
<1> HIDE DEF t4
<1>14. Has(t4, Settles)
  BY <1>12, <1>13 DEF Over
<1>15. /\ Carries(t5, A) /\ Over(t5, t4) /\ (Guarded(t4) => Guarded(t5))
       /\ \A a \in ASICS : HasFor(t5, {"restart pll"}, a)
  <2>1. InOrder(t4, A) /\ ~ Has(t4, {"restart", "set_pll"})
    BY <1>13 DEF Carries
  <2>2. /\ \A i \in 1 .. Len(R) : Counts(R[i], t4, A)
        /\ \A a \in ASICS : HasFor(R, {"restart pll"}, a)
    BY <1>14, Each DEF R, ThoseNames
  <2>3. t5 \in Seq(Calls)
    BY <1>3, <1>6, ConcatProperties
  <2>4. Carries(t5, A)
    BY <1>3, <1>6, <2>1, <2>2, <2>3, EachInOrder DEF Carries
  <2>5. Over(t5, t4) /\ (Guarded(t4) => Guarded(t5))
    BY <1>3, <1>6, OverEach, EachGuarded
  <2>6. \A a \in ASICS : HasFor(t5, {"restart pll"}, a)
    BY <1>3, <1>6, <2>2, EachHas
  <2> QED BY <2>4, <2>5, <2>6
<1>16. t5 \in Seq(Calls)
  BY <1>15 DEF Carries
<1> HIDE DEF t5
<1>17. /\ Carries(t6, A) /\ Over(t6, t5) /\ (Guarded(t5) => Guarded(t6))
       /\ \A a \in D \cap ASICS : First(t6, a)
       /\ Those("disable", D) \in Seq(Calls)
  BY <1>15, ThoseFront DEF ThoseNames
<1>18. (Disabling(D) \o set_initial_freq_on_restart) \o t = t6
  <2>1. set_initial_freq_on_restart = r4
    BY <1>4
  <2> HIDE DEF r4
  <2>2. (Those("disable", D) \o r4) \o t = Those("disable", D) \o (r4 \o t)
    BY SMTT(30), <1>1, <1>5, <1>17, ConcatAssociative
  <2> QED BY <1>7, <2>1, <2>2 DEF Disabling
<1> HIDE DEF t6
<1>19. Over(t6, t1) /\ Over(t6, t3)
  BY <1>11, <1>12, <1>13, <1>15, <1>17, OverOver
<1>20. One(t6) /\ Has(t6, Settles) /\ \A N : Has(t, N) => Has(t6, N)
  BY <1>8, <1>9, <1>12, <1>19 DEF Over
<1>21. \A a \in ASICS : HasFor(t6, {"restart pll"}, a)
  BY <1>15, <1>17 DEF Over
<1>22. Guarded(t) => Guarded(t6)
  BY <1>8, <1>11, <1>12, <1>13, <1>15, <1>17
<1> QED BY <1>17, <1>18, <1>20, <1>21, <1>22

-----------------------------------------------------------------------------
(* The inductive invariant. *)

Types ==
  /\ asics \subseteq ASICS /\ present \subseteq ASICS /\ engines_down \subseteq ASICS
  /\ asic \in [ASICS -> [good : SUBSET ENGINES, freq_hw : Freqs, wanted : Int]]
  /\ enable \in [ASICS -> SUBSET ENGINES] /\ pll \in [ASICS -> Int]
  /\ vm \in [in_asic_reset : {0, 2}, did_asic_reset : BOOLEAN, disasics : Nat, working : Nat]
  /\ todo \in Seq(Calls)

(* Out of a restart the ASICs of the beginning mine.  In one their number  *)
(* is remembered, its end is among the calls that are left, and an ASIC    *)
(* that the restart finds is disabled before.                              *)
Stage ==
  \/ /\ vm.in_asic_reset = 0 /\ present = asics /\ ~ Has(todo, {"restarted"})
  \/ /\ vm.in_asic_reset = 2 /\ vm.working = Cardinality(asics) /\ ~ Has(todo, {"restart"})
     /\ One(todo) /\ \A a \in present \ asics : First(todo, a)

(* The engines of a are the good ones, or what is left makes them so.      *)
Mends == {"good", "bist", "restart"}
Unmended(s, a) == ~ Has(s, Mends) /\ ~ HasFor(s, {"enable", "disable"}, a)
Mended(a) ==
  IF a \in present
  THEN \/ asic[a].good # {} /\ enable[a] = asic[a].good /\ a \notin engines_down
       \/ ~ Unmended(todo, a)
       \/ asic[a].wanted = SENTINEL /\ Has(todo, Marked)
  ELSE (enable[a] = {} /\ a \in engines_down) \/ Has(todo, Mends)

(* The PLL of a has the frequency that is noted, or a restart sets it.     *)
Clocked(a) ==
  a \in present =>
    pll[a] = asic[a].freq_hw \/ Has(todo, {"restart"}) \/ HasFor(todo, {"restart pll"}, a)

(* What is asked for is a frequency, the one a failed BIST leads to, or    *)
(* the mark; and it is asked for only until the PLLs are set.              *)
Asked(a) ==
  /\ \/ asic[a].wanted \in Freqs \cup {0, SENTINEL}
     \/ asic[a].freq_hw > ASIC_FREQ_MIN /\ asic[a].wanted = asic[a].freq_hw - 10
  /\ asic[a].wanted # 0 => Has(todo, {"program"} \cup Marked)
  /\ asic[a].wanted = SENTINEL => Guarded(todo)

PInv ==
  /\ Types /\ InOrder(todo, asics) /\ Stage
  /\ \A a \in ASICS : Mended(a) /\ Clocked(a) /\ Asked(a)
IInv ==
  /\ ended = <<>> => PInv
  /\ ended # <<>> => todo = <<>>
  /\ OutOfRangeIsKnown

(* No call is left.                                                        *)
LEMMA EmptyTodo ==
  /\ \A N : ~ Has(<<>>, N)
  /\ \A N, a : ~ HasFor(<<>>, N, a)
  /\ ~ One(<<>>) /\ Guarded(<<>>) /\ \A A : InOrder(<<>>, A)
  /\ <<>> \in Seq(Calls)
BY DEF Has, HasFor, One, Guarded, InOrder

(* The invariant says what it has to.                                      *)
LEMMA IInvImplies == IInv => MiningEngines /\ OutOfRangeIsKnown
<1> SUFFICES ASSUME IInv, Mining
             PROVE  /\ present = asics /\ engines_down = ASICS \ present
                    /\ \A a \in present : asic[a].good # {} /\ enable[a] = asic[a].good
                                          /\ pll[a] = asic[a].freq_hw
                    /\ \A a \in ASICS \ present : enable[a] = {}
  BY DEF IInv, MiningEngines
<1>1. PInv /\ todo = <<>>
  BY DEF IInv, Mining
<1>2. present = asics
  BY <1>1, EmptyTodo DEF PInv, Stage
<1>3. ASSUME NEW a \in ASICS
      PROVE  /\ a \in present => /\ asic[a].good # {} /\ enable[a] = asic[a].good
                                 /\ a \notin engines_down /\ pll[a] = asic[a].freq_hw
             /\ a \notin present => enable[a] = {} /\ a \in engines_down
  BY <1>1, EmptyTodo DEF PInv, Mended, Unmended, Clocked
<1>4. present \subseteq ASICS /\ engines_down \subseteq ASICS
  BY <1>1 DEF PInv, Types
<1> QED BY <1>2, <1>3, <1>4

(* It holds when mining begins.                                            *)
LEMMA InitIInv == Init => IInv
<1> SUFFICES ASSUME Init PROVE IInv
  OBVIOUS
<1>1. ended = <<>> /\ todo = <<>> /\ present = asics /\ present \subseteq ASICS
  BY DEF Init
<1>2. OutOfRangeIsKnown
  BY <1>1 DEF OutOfRangeIsKnown
<1>3. Types
  <2>1. ASIC_FREQ_MIN \in Nat /\ IsFiniteSet(ENGINES)
    BY PllsAssumption
  <2>2. asic \in [ASICS -> [good : SUBSET ENGINES, freq_hw : Freqs, wanted : {0}]]
    BY DEF Init
  <2>3. asic \in [ASICS -> [good : SUBSET ENGINES, freq_hw : Freqs, wanted : Int]]
    BY <2>2
  <2>4. enable \in [ASICS -> SUBSET ENGINES]
    BY <2>2 DEF Init
  <2>5. pll \in [ASICS -> Int]
    <3>1. Freqs \subseteq Int
      BY DEF Freqs
    <3>2. \A a \in ASICS : asic[a].freq_hw \in Int
      BY <2>2, <3>1
    <3> QED BY <3>2 DEF Init
  <2>6. vm \in [in_asic_reset : {0, 2}, did_asic_reset : BOOLEAN, disasics : Nat, working : Nat]
    <3>1. PICK n \in 0 .. MAX_DISASICS : vm = [Fresh EXCEPT !.disasics = n]
      BY DEF Init
    <3>2. n \in Nat
      BY PllsAssumption
    <3> QED BY <3>1, <3>2 DEF Fresh
  <2>7. asics \subseteq ASICS /\ engines_down \subseteq ASICS /\ todo \in Seq(Calls)
    BY <1>1, EmptyTodo DEF Init
  <2> QED BY <1>1, <2>3, <2>4, <2>5, <2>6, <2>7 DEF Types
<1>4. Stage
  <2>1. vm.in_asic_reset = 0
    BY DEF Init, Fresh
  <2> QED BY <1>1, <2>1, EmptyTodo DEF Stage
<1>5. ASSUME NEW a \in ASICS PROVE Mended(a) /\ Clocked(a) /\ Asked(a)
  <2>1. asic[a].good \in SUBSET ENGINES /\ asic[a].wanted = 0
    BY DEF Init
  <2>2. a \in present => asic[a].good # {}
    <3>1. Cardinality({}) = 0
      BY FS_EmptySet
    <3>2. MIN_ENGINES \in 1 .. Cardinality(ENGINES) /\ Cardinality(ENGINES) \in Nat
      BY PllsAssumption, FS_CardinalityType
    <3>3. a \in present => Cardinality(asic[a].good) >= MIN_ENGINES
      BY DEF Init
    <3> QED BY <3>1, <3>2, <3>3
  <2>3. /\ enable[a] = IF a \in present THEN asic[a].good ELSE {}
        /\ a \in engines_down <=> a \notin present
        /\ pll[a] = asic[a].freq_hw
    BY DEF Init
  <2>4. Mended(a) /\ Clocked(a)
    BY <2>2, <2>3 DEF Mended, Clocked
  <2>5. Asked(a)
    BY <2>1 DEF Asked, SENTINEL
  <2> QED BY <2>4, <2>5
<1> QED BY <1>1, <1>2, <1>3, <1>4, <1>5, EmptyTodo DEF IInv, PInv

-----------------------------------------------------------------------------
(* Every step preserves it. *)

(* The calls that are left: the current one and the rest.                  *)
LEMMA Current ==
  ASSUME PInv, todo # <<>>
  PROVE  /\ Head(todo) \in Calls /\ Tail(todo) \in Seq(Calls)
         /\ todo = Cons(Head(todo), Tail(todo))
         /\ Counts(Head(todo), Tail(todo), asics) /\ Carries(Tail(todo), asics)
         /\ InOrder(todo, asics)
<1>1. /\ Head(todo) \in Calls /\ Tail(todo) \in Seq(Calls)
      /\ todo = Cons(Head(todo), Tail(todo))
  BY HeadTail DEF PInv, Types
<1>2. InOrder(todo, asics)
  BY DEF PInv
<1> QED BY <1>1, <1>2, ConsInOrder DEF Carries

(* A step that leaves the ASICs alone, and does what is left: nothing that *)
(* an ASIC waits for is lost.                                              *)
LeavesAlone(h, t) ==
  /\ Over(todo', t) /\ InOrder(todo', asics) /\ todo' \in Seq(Calls)
  /\ Guarded(Cons(h, t)) => Guarded(todo')
  /\ h[1] \notin {"program", "restart", "restarted"}
  /\ h[1] \in Mends => Has(todo', Mends)
  /\ h[1] \in {"enable", "disable", "restart pll"} =>
       h[2] \notin present \/ Has(todo', {"restart"})
  /\ h[1] \in Marked => Has(todo', Marked)
  /\ Has(todo', {"restart"}) => Has(todo, {"restart"}) \/ vm.in_asic_reset = 0

(* Such a step keeps the invariant, whatever it counts in vm.              *)
LEMMA Alone ==
  ASSUME PInv, todo # <<>>, ended' = <<>>, LeavesAlone(Head(todo), Tail(todo)),
         UNCHANGED <<asics, soft, enable, pll>>,
         vm' \in [in_asic_reset : {0, 2}, did_asic_reset : BOOLEAN, disasics : Nat,
                 working : Nat],
         vm'.in_asic_reset = vm.in_asic_reset, vm'.working = vm.working
  PROVE  IInv'
<1> DEFINE h == Head(todo)
           t == Tail(todo)
<1>1. /\ h \in Calls /\ t \in Seq(Calls) /\ todo = Cons(h, t)
  BY Current
<1>2. /\ asics' = asics /\ present' = present /\ engines_down' = engines_down /\ asic' = asic
      /\ enable' = enable /\ pll' = pll
  BY DEF soft
<1> HIDE DEF h, t
<1>3. /\ \A N : Has(todo, N) <=> h[1] \in N \/ Has(t, N)
      /\ \A N, a : HasFor(todo, N, a) <=> (h[1] \in N /\ h[2] = a) \/ HasFor(t, N, a)
      /\ One(todo) <=> IF h[1] = "restarted" THEN ~ Has(t, {"restarted"}) ELSE One(t)
      /\ \A a : First(todo, a) <=>
           h[1] # "restarted" /\ ((h[1] = "disable" /\ h[2] = a) \/ First(t, a))
  <2>1. \A N : Has(Cons(h, t), N) <=> h[1] \in N \/ Has(t, N)
    BY <1>1, ConsHas
  <2>2. \A N, a : HasFor(Cons(h, t), N, a) <=> (h[1] \in N /\ h[2] = a) \/ HasFor(t, N, a)
    BY <1>1, ConsHas
  <2>3. One(Cons(h, t)) <=> IF h[1] = "restarted" THEN ~ Has(t, {"restarted"}) ELSE One(t)
    BY <1>1, ConsOne
  <2>4. \A a : First(Cons(h, t), a) <=>
          h[1] # "restarted" /\ ((h[1] = "disable" /\ h[2] = a) \/ First(t, a))
    BY <1>1, ConsFirst
  <2> QED BY <1>1, <2>1, <2>2, <2>3, <2>4
<1>4. LeavesAlone(h, t) /\ (Guarded(todo) => Guarded(todo'))
  BY <1>1 DEF LeavesAlone, h, t
<1>5. Types'
  BY <1>2, <1>4 DEF PInv, Types, LeavesAlone
<1>6. Stage'
  <2>1. CASE vm.in_asic_reset = 0
    <3>1. present = asics /\ ~ Has(todo, {"restarted"})
      BY <2>1 DEF PInv, Stage
    <3>2. ~ Has(todo', {"restarted"})
      BY <1>3, <1>4, <3>1 DEF LeavesAlone, Over
    <3> QED BY <1>2, <2>1, <3>1, <3>2 DEF Stage
  <2>2. CASE vm.in_asic_reset # 0
    <3>1. /\ vm.in_asic_reset = 2 /\ vm.working = Cardinality(asics)
          /\ ~ Has(todo, {"restart"}) /\ One(todo)
          /\ \A a \in present \ asics : First(todo, a)
      BY <2>2 DEF PInv, Stage
    <3>2. ~ Has(todo', {"restart"})
      BY <2>2, <3>1, <1>4 DEF LeavesAlone
    <3>3. One(todo')
      BY <1>3, <1>4, <3>1 DEF LeavesAlone, Over
    <3>4. ASSUME NEW a \in present \ asics PROVE First(todo', a)
      BY <1>3, <1>4, <3>1, <3>2 DEF LeavesAlone, Over
    <3> QED BY <1>2, <3>1, <3>2, <3>3, <3>4 DEF Stage
  <2> QED BY <2>1, <2>2
<1>7. ASSUME NEW a \in ASICS PROVE Mended(a)' /\ Clocked(a)' /\ Asked(a)'
  <2>1. Mended(a) /\ Clocked(a) /\ Asked(a)
    BY DEF PInv
  <2>2. Has(todo, Mends) => Has(todo', Mends)
    BY <1>3, <1>4 DEF LeavesAlone, Over
  <2>3. Has(todo', {"restart"}) => Has(todo', Mends)
    BY DEF Has, Mends
  <2>4. a \in present /\ ~ Unmended(todo, a) => ~ Unmended(todo', a)
    BY <1>3, <1>4, <2>2, <2>3 DEF LeavesAlone, Over, Unmended
  <2>5. Has(todo, Marked) => Has(todo', Marked)
    BY <1>3, <1>4 DEF LeavesAlone, Over
  <2>6. Mended(a)'
    BY <1>2, <2>1, <2>2, <2>4, <2>5 DEF Mended
  <2>7. Clocked(a)'
    BY <1>2, <1>3, <1>4, <2>1 DEF Clocked, LeavesAlone, Over
  <2>8. Has(todo, {"program"} \cup Marked) => Has(todo', {"program"} \cup Marked)
    <3>1. Has(todo', Marked) => Has(todo', {"program"} \cup Marked)
      BY DEF Has
    <3>2. h[1] # "program"
      BY <1>4 DEF LeavesAlone
    <3> QED BY <1>3, <1>4, <3>1, <3>2 DEF LeavesAlone, Over
  <2>9. Asked(a)'
    BY <1>2, <1>4, <2>1, <2>8 DEF Asked
  <2> QED BY <2>6, <2>7, <2>9
<1>8. OutOfRangeIsKnown'
  BY DEF OutOfRangeIsKnown
<1>9. InOrder(todo, asics)'
  BY <1>2, <1>4 DEF LeavesAlone
<1> QED BY <1>5, <1>6, <1>7, <1>8, <1>9 DEF IInv, PInv

(* When the process ends nothing is left.                                  *)
LEMMA Ends ==
  ASSUME NEW why, why # <<>>, Len(why) # 4, Stop(why)
  PROVE  IInv'
BY DEF Stop, IInv, OutOfRangeIsKnown

(* A call in front that sets no PLLs and does not end a restart.           *)
LEMMA InFront ==
  ASSUME NEW c \in Calls, NEW s, NEW A, Carries(s, A), Counts(c, s, A),
         c[1] \notin {"restart", "set_pll", "restarted"} \cup Sets
  PROVE  /\ Carries(Cons(c, s), A) /\ Over(Cons(c, s), s)
         /\ Guarded(s) => Guarded(Cons(c, s))
<1>1. s \in Seq(Calls)
  BY DEF Carries
<1> QED BY <1>1, CarriesCons, OverCons, ConsGuarded

(* The step of a call that leads to the calls s or, out of a restart, to   *)
(* one before them.                                                        *)
Follows(s) ==
  LET h == Head(todo)  t == Tail(todo) IN
  /\ todo # <<>> /\ Carries(s, asics) /\ Over(s, t) /\ (Guarded(Cons(h, t)) => Guarded(s))
  /\ h[1] \notin {"program", "restart", "restarted"} \cup Marked

(* The step to s leaves the ASICs alone.                                   *)
LEMMA Replaces ==
  ASSUME PInv, NEW s, Follows(s), todo' = s, asics' = asics,
         LET h == Head(todo) IN
         /\ h[1] \in Mends => Has(s, Mends)
         /\ h[1] \in {"enable", "disable", "restart pll"} => h[2] \notin present
  PROVE  LeavesAlone(Head(todo), Tail(todo))
<1>1. /\ InOrder(s, asics) /\ s \in Seq(Calls) /\ ~ Has(s, {"restart", "set_pll"})
      /\ ~ Has(s, {"restart"})
  BY DEF Follows, Carries, Has
<1> QED BY <1>1 DEF LeavesAlone, Follows

(* So does one that restarts them first.                                   *)
LEMMA Begins ==
  ASSUME PInv, NEW s, Follows(s), vm.in_asic_reset = 0, todo' = Cons(<<"restart">>, s),
         asics' = asics
  PROVE  LeavesAlone(Head(todo), Tail(todo))
<1> DEFINE r == <<"restart">>
<1>1. r \in Calls /\ r[1] = "restart"
  BY CallTypes DEF Bare
<1> HIDE DEF r
<1>2. s \in Seq(Calls) /\ InOrder(s, asics) /\ ~ Has(s, {"restart", "set_pll"})
  BY DEF Follows, Carries
<1>3. Counts(r, s, asics)
  BY <1>1 DEF Counts
<1>4. InOrder(Cons(r, s), asics) /\ Cons(r, s) \in Seq(Calls)
  BY <1>1, <1>2, <1>3, ConsInOrder, ConsSeq
<1>5. Over(Cons(r, s), s)
  BY <1>1, <1>2, OverCons
<1>6. Over(Cons(r, s), Tail(todo))
  BY <1>5, OverOver DEF Follows
<1>7. Guarded(s) => Guarded(Cons(r, s))
  BY <1>1, <1>2, ConsGuarded DEF Sets
<1>8. Has(Cons(r, s), {"restart"}) /\ Has(Cons(r, s), Mends)
  BY <1>1, <1>2, ConsHas DEF Mends
<1> QED BY <1>4, <1>6, <1>7, <1>8 DEF LeavesAlone, Follows, r

(* A step that leaves the ASICs alone and counts nothing.                  *)
LEMMA Same ==
  ASSUME PInv, ended = <<>>, todo # <<>>, LeavesAlone(Head(todo), Tail(todo)),
         UNCHANGED <<asics, ended, soft, enable, pll, vm>>
  PROVE  IInv'
<1>1. /\ asics' = asics /\ ended' = ended /\ soft' = soft /\ enable' = enable /\ pll' = pll
      /\ vm' = vm
  OBVIOUS
<1>2. vm' \in [in_asic_reset : {0, 2}, did_asic_reset : BOOLEAN, disasics : Nat, working : Nat]
  BY <1>1 DEF PInv, Types
<1> QED BY <1>1, <1>2, Alone

(* restart_asics_full is called.                                           *)
LEMMA Calling ==
  ASSUME PInv, ended = <<>>, NEW rest \in Seq(Calls), CallRestart(rest),
         Follows(rest \o Tail(todo))
  PROVE  IInv'
<1>1. todo # <<>> /\ Tail(todo) \in Seq(Calls)
  BY Current DEF Follows
<1>2. CASE vm.in_asic_reset = 0 /\ Proceed(restart_asics_full \o rest)
           /\ UNCHANGED <<soft, hw, vm, failed>>
  <2>1. <<"restart">> \in Calls
    BY CallTypes DEF Bare
  <2>2. todo' = Cons(<<"restart">>, rest \o Tail(todo))
    BY <1>1, <1>2, <2>1, Conses DEF Proceed, restart_asics_full
  <2>3. asics' = asics /\ ended' = ended
    BY <1>2 DEF Proceed
  <2>4. LeavesAlone(Head(todo), Tail(todo))
    BY <1>2, <2>2, <2>3, Begins
  <2> QED BY <1>1, <1>2, <2>3, <2>4, Same DEF hw
<1>3. CASE Stop(<<"recursive restart">>)
  <2>1. <<"recursive restart">> # <<>> /\ Len(<<"recursive restart">>) # 4
    OBVIOUS
  <2> QED BY <1>3, <2>1, Ends
<1> QED BY <1>2, <1>3 DEF CallRestart

(* Nothing more to do for a call.                                          *)
LEMMA NoMore ==
  ASSUME PInv, ended = <<>>, todo # <<>>,
         Head(todo)[1] \notin {"program", "restart", "restarted"} \cup Marked
  PROVE  Follows(<<>> \o Tail(todo)) /\ <<>> \o Tail(todo) = Tail(todo) /\ <<>> \in Seq(Calls)
<1>1. Tail(todo) \in Seq(Calls) /\ Head(todo) \in Calls /\ Carries(Tail(todo), asics)
  BY Current
<1>2. <<>> \o Tail(todo) = Tail(todo)
  BY <1>1, ConcatEmptySeq
<1> QED BY <1>1, <1>2, OverItself, ConsGuarded, EmptyTodo DEF Follows

(* A lost address, too many readings, or failed reads restart the ASICs.   *)
LEMMA RestartingPreserves ==
  ASSUME PInv, ended = <<>>, NEW rest, rest = <<>>,
         WaitLostAddress \/ WaitAnyLostAddress \/ GoodRestarts
         \/ (At("squid wait") /\ CallRestart(rest))
  PROVE  IInv'
<1>1. /\ todo # <<>> /\ CallRestart(<<>>)
      /\ Head(todo)[1] \in {"wait", "wait once", "wait any", "good", "squid wait"}
  BY DEF WaitLostAddress, WaitAnyLostAddress, GoodRestarts, GoodNotReady, AnyStuck, Waiting, At
<1>2. Head(todo)[1] \notin {"program", "restart", "restarted"} \cup Marked
  BY <1>1 DEF Marked
<1> QED BY <1>1, <1>2, NoMore, Calling

(* Calls that end at once.                                                 *)
LEMMA EndingPreserves ==
  ASSUME PInv, ended = <<>>,
         \/ None \/ (At("squid wait") /\ Proceed(<<>>) /\ UNCHANGED <<soft, hw, vm, failed>>)
         \/ WaitReady \/ WaitAnyReady \/ JudgePassed \/ RestartPllAbsent
  PROVE  IInv'
<1> DEFINE h == Head(todo)
<1>1. /\ todo # <<>> /\ Proceed(<<>>) /\ UNCHANGED <<soft, enable, pll, vm>>
      /\ h[1] \in {"none", "squid wait", "wait", "wait once", "wait any", "judge", "restart pll"}
      /\ h[1] = "restart pll" => h[2] \notin present
  <2>1. CASE None
    BY <2>1 DEF None, At, hw, soft
  <2>2. CASE At("squid wait") /\ Proceed(<<>>) /\ UNCHANGED <<soft, hw, vm, failed>>
    BY <2>2 DEF At, hw
  <2>3. CASE WaitReady
    BY <2>3 DEF WaitReady, Waiting, At
  <2>4. CASE WaitAnyReady
    BY <2>4 DEF WaitAnyReady, At
  <2>5. CASE JudgePassed
    BY <2>5 DEF JudgePassed, At, hw
  <2>6. CASE RestartPllAbsent
    BY <2>6 DEF RestartPllAbsent, At, hw, Arg
  <2> QED BY <2>1, <2>2, <2>3, <2>4, <2>5, <2>6
<1>2. h[1] \notin {"program", "restart", "restarted"} \cup Marked
  BY <1>1 DEF Marked
<1>3. Follows(todo') /\ asics' = asics /\ ended' = ended
  BY <1>1, <1>2, NoMore DEF Proceed
<1>4. /\ h[1] \in Mends => Has(todo', Mends)
      /\ h[1] \in {"enable", "disable", "restart pll"} => h[2] \notin present
  BY <1>1 DEF Mends
<1>5. LeavesAlone(h, Tail(todo))
  BY <1>3, <1>4, Replaces
<1> QED BY <1>1, <1>3, <1>5, Same

(* Calls that lead to others, or end in other ways.                        *)
LEMMA LeadingPreserves ==
  ASSUME PInv, ended = <<>>,
         \/ JudgeEvil \/ WaitWanted \/ WaitStuck \/ GoodTries \/ GoodDisables
         \/ FailedDropsEngines \/ BistAgain
  PROVE  IInv'
<1> DEFINE h == Head(todo)
           t == Tail(todo)
<1>1. /\ todo # <<>> /\ asics' = asics /\ ended' = ended /\ UNCHANGED <<soft, enable, pll, vm>>
      /\ h[1] \in {"judge", "wait wanted", "wait", "wait once", "good", "again"}
  <2>1. CASE JudgeEvil
    BY <2>1 DEF JudgeEvil, At, hw, Proceed
  <2>2. CASE WaitWanted
    BY <2>2 DEF WaitWanted, At, hw, Proceed
  <2>3. CASE WaitStuck
    BY <2>3 DEF WaitStuck, Waiting, At, hw, Proceed
  <2>4. CASE GoodTries
    BY <2>4 DEF GoodTries, GoodNotReady, At, hw, Proceed
  <2>5. CASE GoodDisables
    BY <2>5 DEF GoodDisables, GoodNotReady, At, hw, Proceed
  <2>6. CASE FailedDropsEngines
    BY <2>6 DEF FailedDropsEngines, JudgeFailed, At, hw, Proceed
  <2>7. CASE BistAgain
    BY <2>7 DEF BistAgain, At, hw, Proceed
  <2> QED BY <2>1, <2>2, <2>3, <2>4, <2>5, <2>6, <2>7
<1>2. /\ h \in Calls /\ t \in Seq(Calls) /\ Counts(h, t, asics) /\ Carries(t, asics)
      /\ todo = Cons(h, t)
  BY <1>1, Current
<1>3. /\ h[1] \in OfAsic \cup {"judge", "restart pll", "set_pll"} => h[2] \in ASICS
      /\ h[1] = "good" => h[2] \in Nat /\ h[3] \in BOOLEAN
  BY <1>2, CallFacts
<1>4. present \subseteq ASICS
  BY DEF PInv, Types
<1> HIDE DEF h, t
<1>5. Over(t, t) /\ (Guarded(Cons(h, t)) => Guarded(t) \/ h[1] \in Marked)
  BY <1>2, OverItself, ConsGuarded
<1>6. h[1] \notin {"program", "restart", "restarted"} \cup Marked
  BY <1>1 DEF Marked
<1> DEFINE Good2(s) ==
      /\ Carries(s, asics) /\ Over(s, t) /\ (Guarded(Cons(h, t)) => Guarded(s))
      /\ h[1] \in Mends => Has(s, Mends)
<1>7. SUFFICES Good2(todo')
  <2>1. Follows(todo')
    BY <1>1, <1>6, <1>7 DEF Follows, h, t
  <2>2. h[1] \notin {"enable", "disable", "restart pll"}
    BY <1>1
  <2>3. LeavesAlone(h, t)
    BY <1>1, <1>7, <2>1, <2>2, Replaces DEF h, t
  <2> QED BY <1>1, <2>3, Same DEF h, t
<1>8. ASSUME NEW c \in Calls, Counts(c, t, asics), todo' = <<c>> \o t,
             c[1] \notin {"restart", "set_pll", "restarted"} \cup Sets,
             h[1] \in Mends => c[1] \in Mends
      PROVE  Good2(todo')
  <2>1. todo' = Cons(c, t)
    BY <1>8 DEF Cons
  <2>2. /\ Carries(Cons(c, t), asics) /\ Over(Cons(c, t), t)
        /\ Guarded(t) => Guarded(Cons(c, t))
    BY <1>2, <1>8, InFront
  <2>3. h[1] \in Mends => Has(Cons(c, t), Mends)
    BY <1>2, <1>8, ConsHas
  <2> QED BY <1>5, <1>6, <2>1, <2>2, <2>3
<1>9. ASSUME NEW a \in ASICS
      PROVE  LET c == <<"disable", a>> IN
             /\ c \in Calls /\ \A s : Counts(c, s, asics)
             /\ c[1] \notin {"restart", "set_pll", "restarted"} \cup Sets
  BY <1>9, CallTypes DEF OfAsic, Counts, Sets
<1>10. CASE JudgeEvil
  <2>1. todo' = <<<<"disable", h[2]>>>> \o t /\ h[1] = "judge" /\ h[2] \in ASICS
    BY <1>3, <1>10 DEF JudgeEvil, Proceed, disable_asic_forever, Arg, At, h, t
  <2> QED BY <1>8, <1>9, <2>1 DEF Mends
<1>11. CASE WaitWanted
  <2>1. h[1] = "wait wanted" /\ h[2] \in ASICS
    BY <1>3, <1>11 DEF WaitWanted, At, OfAsic, h
  <2>2. CASE h[2] \in Pending
    <3>1. todo' = <<<<"wait", h[2]>>>> \o t
      BY <1>11, <2>2 DEF WaitWanted, Proceed, Arg, h, t
    <3>2. /\ <<"wait", h[2]>> \in Calls
          /\ <<"wait", h[2]>>[1] \notin {"restart", "set_pll", "restarted"} \cup Sets
          /\ Counts(<<"wait", h[2]>>, t, asics)
      BY <2>1, CallTypes DEF OfAsic, Sets, Counts
    <3> QED BY <1>8, <2>1, <3>1, <3>2 DEF Mends
  <2>3. CASE h[2] \notin Pending
    <3>1. todo' = t
      BY <1>2, <1>11, <2>3, ConcatEmptySeq DEF WaitWanted, Proceed, Arg, h, t
    <3> QED BY <1>2, <1>5, <1>6, <2>1, <3>1 DEF Mends
  <2> QED BY <2>2, <2>3
<1>12. CASE WaitStuck
  <2>1. h[1] \in {"wait", "wait once"} /\ h[2] \in ASICS
    BY <1>3, <1>12 DEF WaitStuck, Waiting, At, OfAsic, h
  <2> DEFINE c == <<"disable", h[2]>>
  <2>2. /\ c \in Calls /\ \A s : Counts(c, s, asics)
        /\ c[1] \notin {"restart", "set_pll", "restarted"} \cup Sets
    BY <1>9, <2>1
  <2>3. CASE h[1] = "wait once"
    <3>1. <<c>> \o <<>> = <<c>>
      OBVIOUS
    <3>2. todo' = <<c>> \o t
      BY <1>12, <2>3, <3>1 DEF WaitStuck, Proceed, disable_asic_forever, Arg, At, h, t
    <3> QED BY <1>8, <2>1, <2>2, <3>2 DEF Mends
  <2>4. CASE h[1] = "wait"
    <3>1. todo' = (<<c>> \o <<h>>) \o t
      BY <1>1, <1>12, <2>4 DEF WaitStuck, Proceed, disable_asic_forever, Arg, At, h, t
    <3> HIDE DEF c
    <3>2. todo' = Cons(c, Cons(h, t))
      BY <1>2, <2>2, <3>1, TwoConses
    <3>3. /\ Carries(Cons(h, t), asics) /\ Over(Cons(h, t), t)
          /\ h[1] \notin {"restart", "set_pll", "restarted"} \cup Sets
      <4>1. h[1] \notin {"restart", "set_pll", "restarted"} \cup Sets
        BY <2>4 DEF Sets
      <4> QED BY <1>2, <4>1, InFront
    <3>4. /\ Carries(todo', asics) /\ Over(todo', Cons(h, t))
          /\ Guarded(Cons(h, t)) => Guarded(todo')
      BY <2>2, <3>2, <3>3, InFront
    <3>5. Over(todo', t) /\ h[1] \notin Mends
      BY <2>4, <3>3, <3>4, OverOver DEF Mends
    <3> QED BY <3>4, <3>5
  <2> QED BY <2>1, <2>3, <2>4
<1>13. CASE GoodTries
  <2> DEFINE c == <<"good", h[2] + 1, h[3]>>
  <2>1. h[1] = "good" /\ todo' = <<c>> \o t
    BY <1>13 DEF GoodTries, GoodNotReady, Good, Killed, Arg, At, Proceed, h, t
  <2>2. /\ c \in Calls /\ c[1] = "good"
        /\ c[1] \notin {"restart", "set_pll", "restarted"} \cup Sets /\ Counts(c, t, asics)
    <3>1. h[2] + 1 \in Nat /\ h[3] \in BOOLEAN
      BY <1>3, <2>1
    <3>2. c \in Calls
      BY <3>1, CallTypes
    <3> QED BY <3>2 DEF Sets, Counts
  <2> HIDE DEF c
  <2> QED BY <1>8, <2>1, <2>2
<1>14. CASE GoodDisables
  <2>1. PICK a \in present :
          Proceed(disable_asic_forever(a) \o Good(Arg + 1, TRUE))
    BY <1>14 DEF GoodDisables
  <2> DEFINE d == <<"disable", a>>
             c == <<"good", h[2] + 1, TRUE>>
  <2>2. h[1] = "good" /\ todo' = (<<d>> \o <<c>>) \o t
    BY <1>14, <2>1 DEF GoodDisables, GoodNotReady, disable_asic_forever, Good, Arg, At,
         Proceed, h, t
  <2>3. /\ c \in Calls /\ c[1] = "good" /\ c[1] \in Mends
        /\ c[1] \notin {"restart", "set_pll", "restarted"} \cup Sets /\ Counts(c, t, asics)
    <3>1. h[2] + 1 \in Nat /\ TRUE \in BOOLEAN
      BY <1>3, <2>2
    <3>2. c \in Calls
      BY <3>1, CallTypes
    <3> QED BY <3>2 DEF Sets, Counts, Mends
  <2>4. /\ d \in Calls /\ \A s : Counts(d, s, asics)
        /\ d[1] \notin {"restart", "set_pll", "restarted"} \cup Sets
    BY <1>4, <1>9, <2>1
  <2> HIDE DEF c, d
  <2>5. todo' = Cons(d, Cons(c, t))
    BY <1>2, <2>2, <2>3, <2>4, TwoConses
  <2>6. /\ Carries(Cons(c, t), asics) /\ Over(Cons(c, t), t) /\ Has(Cons(c, t), Mends)
        /\ Guarded(t) => Guarded(Cons(c, t))
    BY <1>2, <2>3, InFront, ConsHas
  <2>7. /\ Carries(todo', asics) /\ Over(todo', Cons(c, t))
        /\ Guarded(Cons(c, t)) => Guarded(todo')
    BY <2>4, <2>5, <2>6, InFront
  <2>8. Over(todo', t) /\ Has(todo', Mends)
    BY <2>6, <2>7, OverOver DEF Over
  <2> QED BY <1>5, <1>6, <2>6, <2>7, <2>8
<1>15. CASE FailedDropsEngines
  <2> DEFINE w == <<"squid wait">>
             d == <<"drop engines", h[2]>>
  <2>1. h[1] = "judge" /\ todo' = ((<<w>> \o <<d>>) \o <<w>>) \o t
    BY <1>15 DEF FailedDropsEngines, JudgeFailed, squid_wait, Arg, At, Proceed, h, t
  <2>2. /\ w \in Calls /\ \A s : Counts(w, s, asics)
        /\ w[1] \notin {"restart", "set_pll", "restarted"} \cup Sets
    BY CallTypes DEF Bare, Counts, Sets
  <2>3. /\ d \in Calls /\ d[1] \notin {"restart", "set_pll", "restarted"} \cup Sets
        /\ d[1] = "drop engines"
    BY <1>3, <2>1, CallTypes DEF OfAsic, Sets
  <2> HIDE DEF w, d
  <2>4. todo' = Cons(w, Cons(d, Cons(w, t)))
    <3>1. /\ <<w>> \in Seq(Calls) /\ <<d>> \in Seq(Calls) /\ <<w>> \o <<d>> \in Seq(Calls)
          /\ Cons(w, t) \in Seq(Calls)
      BY <1>2, <2>2, <2>3, Conses
    <3>2. ((<<w>> \o <<d>>) \o <<w>>) \o t = (<<w>> \o <<d>>) \o Cons(w, t)
      BY ZenonT(40), <1>2, <2>2, <3>1, Conses
    <3>3. (<<w>> \o <<d>>) \o Cons(w, t) = Cons(w, <<d>> \o Cons(w, t))
      BY ZenonT(40), <2>2, <3>1, Conses
    <3> QED BY <2>1, <3>2, <3>3 DEF Cons
  <2>5. /\ Carries(Cons(w, t), asics) /\ Over(Cons(w, t), t)
        /\ Guarded(t) => Guarded(Cons(w, t))
    BY <1>2, <2>2, InFront
  <2> DEFINE s == Cons(w, t)
  <2> HIDE DEF s
  <2>6. Has(s, Settles)
    BY <1>2, <2>1, <2>5 DEF Counts, Over, s
  <2>7. Counts(d, s, asics)
    BY <2>3, <2>6 DEF Counts
  <2>8. /\ Carries(Cons(d, s), asics) /\ Over(Cons(d, s), s)
        /\ Guarded(s) => Guarded(Cons(d, s))
    BY <2>3, <2>5, <2>7, InFront DEF s
  <2>9. /\ Carries(todo', asics) /\ Over(todo', Cons(d, s))
        /\ Guarded(Cons(d, s)) => Guarded(todo')
    BY <2>2, <2>4, <2>8, InFront DEF s
  <2>10. Over(todo', t) /\ h[1] \notin Mends
    BY <2>1, <2>5, <2>8, <2>9, OverOver DEF s, Mends
  <2> QED BY <1>5, <1>6, <2>5, <2>8, <2>9, <2>10 DEF s
<1>16. CASE BistAgain
  <2>1. h[1] = "again" /\ Proceed(IF failed /\ ~ vm.did_asic_reset THEN do_bist_loop ELSE <<>>)
    BY <1>16 DEF BistAgain, At, h
  <2>2. CASE ~ (failed /\ ~ vm.did_asic_reset)
    <3>1. todo' = t
      BY <1>2, <2>1, <2>2, ConcatEmptySeq DEF Proceed, h, t
    <3> QED BY <1>2, <1>5, <1>6, <2>1, <3>1 DEF Mends
  <2>3. CASE failed /\ ~ vm.did_asic_reset
    <3> DEFINE b == <<"bist", TRUE>>
               g == <<"again">>
    <3>1. todo' = (<<b>> \o <<g>>) \o t
      BY <2>1, <2>3 DEF Proceed, do_bist_loop, do_bist_ok, h, t
    <3>2. /\ b \in Calls /\ g \in Calls
          /\ b[1] \notin {"restart", "set_pll", "restarted"}
          /\ g[1] \notin {"restart", "set_pll", "restarted"}
          /\ \A s : Counts(b, s, asics) /\ Counts(g, s, asics)
      BY CallTypes DEF Bare, Counts
    <3>3. h[1] \in Sets /\ h[1] \notin Mends
      BY <2>1 DEF Sets, Mends
    <3> HIDE DEF b, g
    <3>4. todo' = Cons(b, Cons(g, t))
      BY <1>2, <3>1, <3>2, TwoConses
    <3>5. Carries(Cons(g, t), asics) /\ Over(Cons(g, t), t) /\ Cons(g, t) \in Seq(Calls)
      BY <1>2, <3>2, CarriesCons, OverCons, Conses
    <3>6. Carries(todo', asics) /\ Over(todo', Cons(g, t))
      BY <3>2, <3>4, <3>5, CarriesCons, OverCons
    <3>7. Over(todo', t)
      BY <3>5, <3>6, OverOver
    <3>8. Guarded(Cons(h, t)) => Guarded(t) /\ Has(t, {"restarted"})
      BY <1>2, <1>6, <3>3, ConsGuarded
    <3>9. Guarded(t) /\ Has(t, {"restarted"}) => Guarded(Cons(g, t))
      BY <1>2, <3>2, ConsGuarded
    <3>10. Has(t, {"restarted"}) => Has(Cons(g, t), {"restarted"})
      BY <3>5 DEF Over
    <3>11. Guarded(Cons(g, t)) /\ Has(Cons(g, t), {"restarted"}) => Guarded(todo')
      BY <3>2, <3>4, <3>5, ConsGuarded
    <3> QED BY <3>3, <3>6, <3>7, <3>8, <3>9, <3>10, <3>11
  <2> QED BY <2>2, <2>3
<1> QED BY <1>10, <1>11, <1>12, <1>13, <1>14, <1>15, <1>16

(* The readings of the PLLs that were set.                                 *)
LEMMA PollPreserves ==
  ASSUME PInv, ended = <<>>, PollPlls
  PROVE  IInv'
<1> DEFINE h == Head(todo)
           t == Tail(todo)
           e == <<"enable wanted">>
<1>1. /\ todo # <<>> /\ h[1] = "poll" /\ asics' = asics /\ ended' = ended
      /\ UNCHANGED <<soft, enable, pll, vm>>
  BY DEF PollPlls, At, Proceed
<1>2. PICK D : todo' = (Those("wait wanted", D) \o <<e>>) \o t
  BY DEF PollPlls, Proceed
<1>3. /\ h \in Calls /\ t \in Seq(Calls) /\ Carries(t, asics) /\ todo = Cons(h, t)
  BY <1>1, Current
<1>4. e \in Calls /\ e[1] = "enable wanted" /\ e[1] \in Marked
  BY CallTypes DEF Bare, Marked
<1> HIDE DEF h, t, e
<1> DEFINE s == Cons(e, t)
<1>5. Carries(s, asics) /\ Over(s, t) /\ Guarded(s) /\ Has(s, Marked)
  <2>1. Counts(e, t, asics) /\ e[1] \notin {"restart", "set_pll", "restarted"}
    BY <1>4 DEF Counts
  <2>2. Carries(s, asics)
    BY <1>3, <1>4, <2>1, CarriesCons
  <2> QED BY <1>3, <1>4, <2>1, <2>2, OverCons, ConsGuarded, ConsHas
<1>6. todo' = Those("wait wanted", D) \o s
  <2>1. Those("wait wanted", D) \in Seq(Calls)
    BY <1>5, ThoseFront DEF ThoseNames
  <2> QED BY <1>2, <1>3, <1>4, <2>1, Conses
<1> HIDE DEF s
<1>7. /\ Carries(todo', asics) /\ Over(todo', s) /\ Guarded(todo')
      /\ ~ Has(todo', {"restart"})
  <2>1. ~ Has(s, {"restart"})
    BY <1>5 DEF Carries, Has
  <2> QED BY <1>5, <1>6, <2>1, ThoseFront DEF ThoseNames
<1>8. Over(todo', t) /\ Has(todo', Marked)
  BY <1>5, <1>7, OverOver DEF Over
<1>9. LeavesAlone(h, t)
  BY <1>1, <1>7, <1>8 DEF LeavesAlone, Carries, Mends
<1> QED BY <1>1, <1>9, Same DEF h, t

(* An ASIC is to be disabled that is not present, or mines.                *)
LEMMA DisablePreserves ==
  ASSUME PInv, ended = <<>>, DisableAbsent \/ DisableMining
  PROVE  IInv'
<1> DEFINE h == Head(todo)
           t == Tail(todo)
<1>1. /\ todo # <<>> /\ h[1] = "disable" /\ asics' = asics /\ ended' = ended
      /\ UNCHANGED <<soft, enable, pll>> /\ vm' = [vm EXCEPT !.disasics = @ + 1]
  BY DEF DisableAbsent, DisableMining, Disasic, At, Proceed, hw
<1>2. Head(todo)[1] \notin {"program", "restart", "restarted"} \cup Marked
  BY <1>1 DEF Marked
<1>3. Follows(t) /\ <<>> \o t = t
  BY <1>1, <1>2, NoMore
<1>4. LeavesAlone(h, t)
  <2>1. CASE DisableAbsent
    <3>1. todo' = t /\ h[2] \notin present
      BY <1>3, <2>1 DEF DisableAbsent, Proceed, Arg
    <3> QED BY <1>1, <1>3, <3>1, Replaces DEF Mends
  <2>2. CASE DisableMining
    <3>1. todo' = Cons(<<"restart">>, t) /\ vm.in_asic_reset = 0
      BY <2>2 DEF DisableMining, Proceed, restart_asics_full, Cons
    <3> QED BY <1>1, <1>3, <3>1, Begins
  <2> QED BY <2>1, <2>2
<1> HIDE DEF h, t
<1>5. /\ vm' \in [in_asic_reset : {0, 2}, did_asic_reset : BOOLEAN, disasics : Nat, working : Nat]
      /\ vm'.in_asic_reset = vm.in_asic_reset /\ vm'.working = vm.working
  <2>1. vm \in [in_asic_reset : {0, 2}, did_asic_reset : BOOLEAN, disasics : Nat, working : Nat]
    BY DEF PInv, Types
  <2> QED BY <1>1, <2>1
<1> QED BY <1>1, <1>4, <1>5, Alone DEF h, t

(* The BIST runs.                                                          *)
LEMMA BistPreserves ==
  ASSUME PInv, ended = <<>>, BistStart
  PROVE  IInv'
<1> DEFINE h == Head(todo)
           t == Tail(todo)
           J == JudgeAll(h[2])
<1>1. /\ todo # <<>> /\ h[1] = "bist"
  BY DEF BistStart, At
<1>2. /\ h \in Calls /\ t \in Seq(Calls) /\ Carries(t, asics) /\ todo = Cons(h, t)
  BY <1>1, Current
<1>3. h[2] \in BOOLEAN
  BY <1>1, <1>2, CallFacts
<1>4. \/ Proceed(J) /\ UNCHANGED <<soft, hw, vm>>
      \/ CallRestart(J)
  BY DEF BistStart, Arg
<1>5. /\ J \in Seq(Calls) /\ Carries(J \o t, asics) /\ Over(J \o t, t)
      /\ Guarded(t) /\ Has(t, {"restarted"}) => Guarded(J \o t)
      /\ Has(J \o t, Settles)
  BY <1>2, <1>3, JudgeAllFront
<1> HIDE DEF h, t, J
<1>6. Guarded(Cons(h, t)) => Guarded(J \o t)
  BY <1>1, <1>2, <1>5, ConsGuarded DEF Marked, Sets
<1>7. h[1] \notin {"program", "restart", "restarted"} \cup Marked
  BY <1>1 DEF Marked
<1>8. Follows(J \o t)
  BY <1>1, <1>5, <1>6, <1>7 DEF Follows, h, t
<1>9. CASE Proceed(J) /\ UNCHANGED <<soft, hw, vm>>
  <2>1. todo' = J \o t /\ asics' = asics /\ ended' = ended
    BY <1>9 DEF Proceed, t
  <2>2. Has(J \o t, Mends)
    BY <1>5 DEF Has, Settles, Mends
  <2>3. h[1] \notin {"enable", "disable", "restart pll"}
    BY <1>1
  <2>4. LeavesAlone(h, t)
    BY <1>8, <2>1, <2>2, <2>3, Replaces DEF h, t
  <2> QED BY <1>1, <1>9, <2>1, <2>4, Same DEF h, t, hw
<1>10. CASE CallRestart(J)
  BY <1>5, <1>8, <1>10, Calling DEF t
<1> QED BY <1>4, <1>9, <1>10

(* A step within a restart, or out of one, keeps to it.                    *)
LEMMA StageKept ==
  ASSUME PInv, todo # <<>>, Over(todo', Tail(todo)), ~ Has(todo', {"restart"}),
         Head(todo)[1] # "restarted", asics' = asics, present' \subseteq present,
         vm.in_asic_reset = 0 => present' = present,
         Head(todo)[1] = "disable" => Head(todo)[2] \notin present',
         vm'.in_asic_reset = vm.in_asic_reset, vm'.working = vm.working
  PROVE  Stage'
<1> DEFINE h == Head(todo)
           t == Tail(todo)
<1>1. h \in Calls /\ t \in Seq(Calls) /\ todo = Cons(h, t)
  BY Current
<1> HIDE DEF h, t
<1>2. /\ One(todo) => One(todo')
      /\ \A a : First(todo, a) => (h[1] = "disable" /\ h[2] = a) \/ First(todo', a)
      /\ Has(todo', {"restarted"}) => Has(todo, {"restarted"})
  <2>1. One(todo) => One(t)
    BY <1>1, ConsOne DEF h
  <2>2. \A a : First(todo, a) => (h[1] = "disable" /\ h[2] = a) \/ First(t, a)
    BY <1>1, ConsFirst
  <2>3. Has(t, {"restarted"}) => Has(todo, {"restarted"})
    BY <1>1, ConsHas
  <2> QED BY <2>1, <2>2, <2>3 DEF Over, t
<1>3. CASE vm.in_asic_reset = 0
  BY <1>2, <1>3 DEF PInv, Stage
<1>4. CASE vm.in_asic_reset # 0
  <2>1. /\ vm.in_asic_reset = 2 /\ vm.working = Cardinality(asics) /\ One(todo)
        /\ \A a \in present \ asics : First(todo, a)
    BY <1>4 DEF PInv, Stage
  <2>2. ASSUME NEW a \in present' \ asics PROVE First(todo', a)
    <3>1. First(todo, a) /\ ~ (h[1] = "disable" /\ h[2] = a)
      BY <2>1 DEF h
    <3> QED BY <1>2, <3>1
  <2> QED BY <1>2, <2>1, <2>2 DEF Stage
<1> QED BY <1>3, <1>4

(* What is left of the calls is there to carry on with.                    *)
LEMMA Rest ==
  ASSUME PInv, todo # <<>>
  PROVE  LET h == Head(todo)  t == Tail(todo) IN
         /\ h \in Calls /\ t \in Seq(Calls) /\ todo = Cons(h, t)
         /\ Carries(t, asics) /\ Counts(h, t, asics)
         /\ \A N : Has(todo, N) <=> h[1] \in N \/ Has(t, N)
         /\ \A N, a : HasFor(todo, N, a) <=> (h[1] \in N /\ h[2] = a) \/ HasFor(t, N, a)
         /\ <<>> \o t = t
<1> DEFINE h == Head(todo)
           t == Tail(todo)
<1>1. /\ h \in Calls /\ t \in Seq(Calls) /\ todo = Cons(h, t)
      /\ Counts(h, t, asics) /\ Carries(t, asics)
  BY Current
<1> HIDE DEF h, t
<1>2. <<>> \o t = t
  BY <1>1, ConcatEmptySeq
<1>3. \A N : Has(Cons(h, t), N) <=> h[1] \in N \/ Has(t, N)
  BY <1>1, ConsHas
<1>4. \A N, a : HasFor(Cons(h, t), N, a) <=> (h[1] \in N /\ h[2] = a) \/ HasFor(t, N, a)
  BY <1>1, ConsHas
<1> QED BY <1>1, <1>2, <1>3, <1>4 DEF h, t

(* A step that does not end the process.                                   *)
LEMMA Runs == ended' = <<>> => OutOfRangeIsKnown'
BY DEF OutOfRangeIsKnown

(* What is noted of an ASIC that is not there.                             *)
LEMMA UnknownType ==
  /\ Unknown \in [good : SUBSET ENGINES, freq_hw : Freqs, wanted : Int]
  /\ Unknown.wanted = 0
<1>1. ASIC_FREQ_MIN \in Freqs
  <2>1. /\ ASIC_FREQ_MIN \in Nat /\ ASIC_FREQ_MAX \in Nat /\ ASIC_FREQ_MIN % 5 = 0
        /\ ASIC_FREQ_MIN < ASIC_FREQ_MAX
    BY PllsAssumption
  <2> QED BY <2>1 DEF Freqs
<1> QED BY <1>1 DEF Unknown

(* Some of the ASICs that are as many are the same.                        *)
LEMMA Finite ==
  ASSUME NEW S \in SUBSET ASICS
  PROVE  /\ Cardinality(S) \in Nat
         /\ \A T \in SUBSET S : Cardinality(T) >= Cardinality(S) => T = S
<1>1. IsFiniteSet(ASICS)
  <2>1. ASICS_COUNT \in Nat
    BY PllsAssumption
  <2> QED BY <2>1, FS_Interval DEF ASICS
<1>2. IsFiniteSet(S) /\ Cardinality(S) \in Nat
  BY <1>1, FS_Subset, FS_CardinalityType
<1>3. ASSUME NEW T \in SUBSET S, Cardinality(T) >= Cardinality(S) PROVE T = S
  <2>1. Cardinality(T) <= Cardinality(S) /\ IsFiniteSet(T) /\ Cardinality(T) \in Nat
    BY <1>2, FS_Subset, FS_CardinalityType
  <2>2. Cardinality(T) = Cardinality(S)
    BY <1>2, <1>3, <2>1
  <2> QED BY <1>2, <2>2, FS_Subset
<1> QED BY <1>2, <1>3

(* No PLL is to be set.                                                    *)
LEMMA NothingPreserves ==
  ASSUME PInv, ended = <<>>, SetNothing
  PROVE  IInv'
<1> DEFINE h == Head(todo)
           t == Tail(todo)
<1>1. /\ todo # <<>> /\ h[1] = "program" /\ asics' = asics /\ ended' = ended
      /\ present' = present /\ engines_down' = engines_down /\ enable' = enable /\ pll' = pll
      /\ vm' = vm /\ todo' = t
  BY Rest DEF SetNothing, At, Proceed, hw
<1>2. /\ h \in Calls /\ t \in Seq(Calls) /\ todo = Cons(h, t) /\ Carries(t, asics)
      /\ \A N : Has(todo, N) <=> h[1] \in N \/ Has(t, N)
      /\ \A N, a : HasFor(todo, N, a) <=> (h[1] \in N /\ h[2] = a) \/ HasFor(t, N, a)
  BY <1>1, Rest
<1>3. \A a \in ASICS :
        /\ asic'[a] = [asic[a] EXCEPT !.wanted = 0]
        /\ a \in present => asic[a].wanted = 0
  BY DEF SetNothing, Wanting
<1>4. asic' \in [ASICS -> [good : SUBSET ENGINES, freq_hw : Freqs, wanted : Int]]
  <2>1. asic \in [ASICS -> [good : SUBSET ENGINES, freq_hw : Freqs, wanted : Int]]
    BY DEF PInv, Types
  <2> QED BY SMTT(30), <2>1 DEF SetNothing
<1>5. Types'
  BY <1>1, <1>2, <1>4 DEF PInv, Types
<1>6. Stage'
  <2>1. ~ Has(t, {"restart"}) /\ h[1] \notin {"restarted", "disable"}
    BY <1>1, <1>2 DEF Carries, Has
  <2> QED BY <1>1, <2>1, OverItself, StageKept
<1> HIDE DEF h, t
<1>7. ASSUME NEW a \in ASICS PROVE Mended(a)' /\ Clocked(a)' /\ Asked(a)'
  <2>1. Mended(a) /\ Clocked(a)
    BY DEF PInv
  <2>2. /\ asic'[a].good = asic[a].good /\ asic'[a].freq_hw = asic[a].freq_hw
        /\ asic'[a].wanted = 0 /\ (a \in present => asic[a].wanted = 0)
    <3>1. asic[a] \in [good : SUBSET ENGINES, freq_hw : Freqs, wanted : Int]
      BY DEF PInv, Types
    <3> QED BY <1>3, <3>1
  <2>3. h[1] \notin Mends \cup {"restart", "restart pll", "enable", "disable"}
    BY <1>1 DEF Mends
  <2>4. Mended(a)'
    BY <1>1, <1>2, <2>1, <2>2, <2>3 DEF Mended, Unmended, SENTINEL
  <2>5. Clocked(a)'
    BY <1>1, <1>2, <2>1, <2>2, <2>3 DEF Clocked
  <2>6. Asked(a)'
    BY <2>2 DEF Asked, SENTINEL
  <2> QED BY <2>4, <2>5, <2>6
<1>8. OutOfRangeIsKnown' /\ InOrder(todo, asics)' /\ ended' = <<>>
  BY <1>1, <1>2, Runs DEF Carries
<1> QED BY <1>5, <1>6, <1>7, <1>8 DEF IInv, PInv

(* The PLLs are set.                                                       *)
LEMMA WantedPreserves ==
  ASSUME PInv, ended = <<>>, SetWanted
  PROVE  IInv'
<1> DEFINE h == Head(todo)
           t == Tail(todo)
           w == <<"squid wait">>
           p == <<"poll">>
<1>1. /\ todo # <<>> /\ h[1] = "program" /\ asics' = asics /\ ended' = ended
      /\ present' = present /\ vm' = vm /\ todo' = (<<w>> \o <<p>>) \o t
  BY DEF SetWanted, At, Proceed, squid_wait
<1>2. /\ h \in Calls /\ t \in Seq(Calls) /\ todo = Cons(h, t) /\ Carries(t, asics)
      /\ \A N : Has(todo, N) <=> h[1] \in N \/ Has(t, N)
      /\ \A N, a : HasFor(todo, N, a) <=> (h[1] \in N /\ h[2] = a) \/ HasFor(t, N, a)
  BY <1>1, Rest
<1>3. /\ w \in Calls /\ p \in Calls /\ w[1] = "squid wait" /\ p[1] = "poll"
  BY CallTypes DEF Bare
<1> HIDE DEF h, t, w, p
<1>4. todo' = Cons(w, Cons(p, t)) /\ Cons(p, t) \in Seq(Calls)
  <2>1. Cons(p, t) \in Seq(Calls)
    BY <1>2, <1>3, Conses
  <2> QED BY <1>1, <1>2, <1>3, <2>1, TwoConses
<1>5. /\ Carries(todo', asics) /\ Over(todo', t) /\ Guarded(todo') /\ Has(todo', Marked)
      /\ todo' \in Seq(Calls)
  <2>1. /\ \A s : Counts(p, s, asics) /\ Counts(w, s, asics)
        /\ w[1] \notin {"restart", "set_pll", "restarted"} \cup Sets
        /\ p[1] \notin {"restart", "set_pll", "restarted"} \cup Sets
        /\ p[1] \in Marked
    BY <1>3 DEF Counts, Sets, Marked
  <2>2. Carries(Cons(p, t), asics) /\ Over(Cons(p, t), t)
    BY <1>2, <1>3, <2>1, InFront
  <2>3. Guarded(Cons(p, t)) /\ Has(Cons(p, t), Marked)
    BY <1>2, <1>3, <2>1, ConsGuarded, ConsHas
  <2>4. /\ Carries(todo', asics) /\ Over(todo', Cons(p, t))
        /\ Guarded(Cons(p, t)) => Guarded(todo')
    BY <1>3, <1>4, <2>1, <2>2, InFront
  <2>5. Over(todo', t) /\ Has(todo', Marked)
    BY <2>2, <2>3, <2>4, OverOver DEF Over
  <2> QED BY <2>3, <2>4, <2>5 DEF Carries
<1>6. /\ asic \in [ASICS -> [good : SUBSET ENGINES, freq_hw : Freqs, wanted : Int]]
      /\ enable \in [ASICS -> SUBSET ENGINES] /\ pll \in [ASICS -> Int]
      /\ present \subseteq ASICS /\ engines_down \subseteq ASICS
  BY DEF PInv, Types
<1>7. Wanting \subseteq ASICS /\ \A a \in present : a \in Wanting <=> asic[a].wanted # 0
  BY <1>6 DEF Wanting
<1>8. ASSUME NEW a \in ASICS, a \in Wanting
      PROVE  /\ asic'[a].good = asic[a].good /\ asic'[a].freq_hw = asic[a].wanted
             /\ asic'[a].wanted = SENTINEL
             /\ enable'[a] = {} /\ pll'[a] = asic[a].wanted
             /\ asic[a].wanted \in Freqs
  <2>1. /\ asic'[a] = [asic[a] EXCEPT !.freq_hw = asic[a].wanted, !.wanted = SENTINEL]
        /\ enable'[a] = {} /\ pll'[a] = asic[a].wanted
    BY <1>8 DEF SetWanted, Program
  <2>2. asic[a] \in [good : SUBSET ENGINES, freq_hw : Freqs, wanted : Int]
    BY <1>6
  <2>3. asic[a].wanted \in Freqs
    <3>1. InRange(asic[a].wanted) /\ asic[a].wanted # 0
      BY <1>8 DEF SetWanted, Wanting
    <3>2. Asked(a)
      BY DEF PInv
    <3>3. /\ ASIC_FREQ_MIN \in Nat /\ ASIC_FREQ_MAX \in Nat
      BY PllsAssumption
    <3>4. asic[a].freq_hw \in Int /\ asic[a].freq_hw % 5 = 0
      BY <2>2 DEF Freqs
    <3>5. (asic[a].freq_hw - 10) % 5 = 0 /\ asic[a].freq_hw - 10 \in Int
      BY <3>4
    <3>6. asic[a].wanted # SENTINEL
      BY <3>1, <3>3 DEF InRange, SENTINEL
    <3> QED BY <3>1, <3>2, <3>3, <3>5, <3>6 DEF Asked, InRange, Freqs
  <2> QED BY <2>1, <2>2, <2>3
<1>9. ASSUME NEW a \in ASICS, a \notin Wanting
      PROVE  asic'[a] = asic[a] /\ enable'[a] = enable[a] /\ pll'[a] = pll[a]
  BY <1>9 DEF SetWanted, Program
<1>10. engines_down' = engines_down \cup Wanting
  BY DEF SetWanted, Program
<1>11. Types'
  <2>1. asic' \in [ASICS -> [good : SUBSET ENGINES, freq_hw : Freqs, wanted : Int]]
    <3>1. asic' = [a \in ASICS |-> IF a \in Wanting
             THEN [asic[a] EXCEPT !.freq_hw = asic[a].wanted, !.wanted = SENTINEL] ELSE asic[a]]
      BY DEF SetWanted
    <3>2. ASSUME NEW a \in ASICS
          PROVE  asic'[a] \in [good : SUBSET ENGINES, freq_hw : Freqs, wanted : Int]
      <4>1. asic[a] \in [good : SUBSET ENGINES, freq_hw : Freqs, wanted : Int] /\ SENTINEL \in Int
        BY <1>6 DEF SENTINEL
      <4>2. a \in Wanting => asic[a].wanted \in Freqs
        BY <1>8
      <4> QED BY <3>1, <4>1, <4>2
    <3> QED BY <3>1, <3>2
  <2>2. enable' \in [ASICS -> SUBSET ENGINES]
    BY <1>6 DEF SetWanted, Program
  <2>3. pll' \in [ASICS -> Int]
    <3>1. DOMAIN pll' = ASICS /\ pll' = [a \in ASICS |-> pll'[a]]
      BY DEF SetWanted, Program
    <3>2. \A a \in ASICS : pll'[a] \in Int
      BY <1>6, <1>8, <1>9 DEF Freqs
    <3> QED BY <3>1, <3>2
  <2> QED BY <1>1, <1>5, <1>6, <1>7, <1>10, <2>1, <2>2, <2>3 DEF PInv, Types
<1>12. Stage'
  <2>1. ~ Has(todo', {"restart"}) /\ h[1] \notin {"restarted", "disable"}
    BY <1>1, <1>5 DEF Carries, Has
  <2> QED BY <1>1, <1>5, <2>1, StageKept DEF h, t
<1>13. ASSUME NEW a \in ASICS PROVE Mended(a)' /\ Clocked(a)' /\ Asked(a)'
  <2>1. Mended(a) /\ Clocked(a) /\ Asked(a)
    BY DEF PInv
  <2>2. Has(todo', {"program"} \cup Marked)
    BY <1>5 DEF Has
  <2>3. /\ h[1] \notin Mends \cup {"restart", "restart pll", "enable", "disable"}
        /\ \A N : Has(t, N) => Has(todo', N)
        /\ \A N : HasFor(t, N, a) => HasFor(todo', N, a)
    BY <1>1, <1>5 DEF Mends, Over
  <2>4. CASE a \in Wanting
    <3>1. a \in present
      BY <2>4 DEF Wanting
    <3>2. Mended(a)'
      BY <1>1, <1>5, <1>8, <2>4, <3>1 DEF Mended
    <3>3. Clocked(a)'
      BY <1>8, <2>4 DEF Clocked
    <3>4. Asked(a)'
      BY <1>5, <1>8, <2>2, <2>4 DEF Asked
    <3> QED BY <3>2, <3>3, <3>4
  <2>5. CASE a \notin Wanting
    <3>1. asic'[a] = asic[a] /\ enable'[a] = enable[a] /\ pll'[a] = pll[a]
      BY <1>9, <2>5
    <3>2. a \in present => asic[a].wanted = 0
      BY <1>7, <2>5
    <3>3. Mended(a)'
      <4>1. CASE a \in present
        <5>1. asic[a].wanted # SENTINEL
          BY <3>2, <4>1 DEF SENTINEL
        <5>2. a \in engines_down' => a \in engines_down
          BY <1>10, <2>5
        <5> QED BY <1>1, <1>2, <2>1, <2>3, <3>1, <4>1, <5>1, <5>2 DEF Mended, Unmended
      <4>2. CASE a \notin present
        BY <1>1, <1>2, <1>10, <2>1, <2>3, <3>1, <4>2 DEF Mended
      <4> QED BY <4>1, <4>2
    <3>4. Clocked(a)'
      BY <1>1, <1>2, <2>1, <2>3, <3>1 DEF Clocked
    <3>5. Asked(a)'
      BY <1>5, <2>1, <2>2, <3>1 DEF Asked
    <3> QED BY <3>3, <3>4, <3>5
  <2> QED BY <2>4, <2>5
<1>14. OutOfRangeIsKnown' /\ InOrder(todo, asics)' /\ ended' = <<>>
  BY <1>1, <1>5, Runs DEF Carries
<1> QED BY <1>11, <1>12, <1>13, <1>14 DEF IInv, PInv

(* What is asked of the PLLs is out of their range.                        *)
LEMMA OutOfRangePreserves ==
  ASSUME PInv, ended = <<>>, WantedOutOfRange
  PROVE  IInv'
<1>1. todo # <<>> /\ Head(todo)[1] = "program"
  BY DEF WantedOutOfRange, At
<1>2. PICK a \in Wanting :
        /\ ~ InRange(asic[a].wanted)
        /\ Stop(<<"freq", asic[a].wanted, asic[a].freq_hw, vm.in_asic_reset>>)
  BY DEF WantedOutOfRange
<1>3. a \in ASICS /\ asic[a].wanted # 0 /\ Asked(a)
  BY <1>2 DEF Wanting, PInv, Types
<1>4. /\ asic[a].freq_hw \in Freqs
      /\ ASIC_FREQ_MIN \in Nat /\ ASIC_FREQ_MAX \in Nat /\ ASIC_FREQ_MIN % 5 = 0
  BY <1>3, PllsAssumption DEF PInv, Types
<1>5. \/ asic[a].wanted = ASIC_FREQ_MIN - 5 /\ asic[a].freq_hw = ASIC_FREQ_MIN + 5
      \/ asic[a].wanted = SENTINEL /\ vm.in_asic_reset = 2
  <2>1. CASE asic[a].wanted = SENTINEL
    <3>1. Guarded(todo)
      BY <1>3, <2>1 DEF Asked
    <3>2. /\ Head(todo) \in Calls /\ Tail(todo) \in Seq(Calls)
          /\ todo = Cons(Head(todo), Tail(todo))
      BY <1>1, Rest
    <3>3. Head(todo)[1] \notin Marked /\ Head(todo)[1] \in Sets
      BY <1>1 DEF Marked, Sets
    <3>4. Has(Tail(todo), {"restarted"})
      BY <3>1, <3>2, <3>3, ConsGuarded
    <3>5. Has(todo, {"restarted"})
      BY <1>1, <3>4, Rest
    <3> QED BY <2>1, <3>5 DEF PInv, Stage
  <2>2. CASE asic[a].freq_hw > ASIC_FREQ_MIN /\ asic[a].wanted = asic[a].freq_hw - 10
    <3>1. /\ asic[a].freq_hw \in Int /\ asic[a].freq_hw % 5 = 0
          /\ asic[a].freq_hw <= ASIC_FREQ_MAX
      BY <1>4 DEF Freqs
    <3>2. asic[a].freq_hw - 10 < ASIC_FREQ_MIN
      BY <1>2, <1>4, <2>2, <3>1 DEF InRange
    <3>3. asic[a].freq_hw = ASIC_FREQ_MIN + 5
      BY <1>4, <2>2, <3>1, <3>2
    <3> QED BY <1>4, <2>2, <3>3
  <2>3. asic[a].wanted \notin Freqs
    BY <1>2, <1>4 DEF InRange, Freqs
  <2> QED BY <1>3, <2>1, <2>2, <2>3 DEF Asked
<1> DEFINE why == <<"freq", asic[a].wanted, asic[a].freq_hw, vm.in_asic_reset>>
<1>6. /\ why # <<>> /\ why[2] = asic[a].wanted /\ why[3] = asic[a].freq_hw
      /\ why[4] = vm.in_asic_reset
  OBVIOUS
<1>7. ended' = why /\ todo' = <<>>
  BY <1>2 DEF Stop
<1> HIDE DEF why
<1>8. OutOfRangeIsKnown'
  BY <1>5, <1>6, <1>7 DEF OutOfRangeIsKnown
<1> QED BY <1>6, <1>7, <1>8 DEF IInv

(* The PLLs that were set get their engines.                               *)
LEMMA EnableWantedPreserves ==
  ASSUME PInv, ended = <<>>, EnableWanted
  PROVE  IInv'
<1> DEFINE h == Head(todo)
           t == Tail(todo)
           D == {a \in Pending : asic[a].good = {}}
<1>0. Enabled({})
  BY DEF EnableWanted
<1>1. /\ todo # <<>> /\ h[1] = "enable wanted" /\ asics' = asics /\ ended' = ended
      /\ present' = present /\ vm' = vm /\ pll' = pll /\ todo' = Those("disable", D) \o t
  BY <1>0 DEF Enabled, At, Proceed, Disabling
<1>2. /\ h \in Calls /\ t \in Seq(Calls) /\ todo = Cons(h, t) /\ Carries(t, asics)
      /\ \A N : Has(todo, N) <=> h[1] \in N \/ Has(t, N)
      /\ \A N, a : HasFor(todo, N, a) <=> (h[1] \in N /\ h[2] = a) \/ HasFor(t, N, a)
  BY <1>1, Rest
<1>3. /\ asic \in [ASICS -> [good : SUBSET ENGINES, freq_hw : Freqs, wanted : Int]]
      /\ enable \in [ASICS -> SUBSET ENGINES] /\ pll \in [ASICS -> Int]
      /\ present \subseteq ASICS /\ engines_down \subseteq ASICS
  BY DEF PInv, Types
<1>4. Pending \subseteq present /\ \A a \in present : a \in Pending <=> asic[a].wanted = SENTINEL
  BY DEF Pending
<1>5. engines_down' = engines_down \ Pending
  BY <1>0 DEF Enabled
<1>6. /\ asic' \in [ASICS -> [good : SUBSET ENGINES, freq_hw : Freqs, wanted : Int]]
      /\ \A a \in ASICS : /\ asic'[a].good = asic[a].good /\ asic'[a].freq_hw = asic[a].freq_hw
                          /\ asic'[a].wanted = 0
  <2>1. asic' = [a \in ASICS |-> [asic[a] EXCEPT !.wanted = 0]]
    BY <1>0 DEF Enabled
  <2>2. ASSUME NEW a \in ASICS
        PROVE  /\ asic'[a] \in [good : SUBSET ENGINES, freq_hw : Freqs, wanted : Int]
               /\ asic'[a].good = asic[a].good /\ asic'[a].freq_hw = asic[a].freq_hw
               /\ asic'[a].wanted = 0
    <3>1. asic[a] \in [good : SUBSET ENGINES, freq_hw : Freqs, wanted : Int]
      BY <1>3
    <3> QED BY <2>1, <3>1
  <2> QED BY <2>1, <2>2
<1>7. /\ enable' \in [ASICS -> SUBSET ENGINES]
      /\ \A a \in ASICS : enable'[a] = IF a \in Pending THEN asic[a].good ELSE enable[a]
  <2>1. \A a \in ASICS : asic[a].good \in SUBSET ENGINES
    BY <1>3
  <2> QED BY <1>0, <1>3, <2>1 DEF Enabled
<1> HIDE DEF h, t, D
<1>8. /\ Carries(todo', asics) /\ Over(todo', t) /\ ~ Has(todo', {"restart"})
      /\ \A a \in D : HasFor(todo', {"disable"}, a)
      /\ todo' \in Seq(Calls)
  <2>1. ~ Has(t, {"restart"})
    BY <1>2 DEF Carries, Has
  <2>2. D \cap ASICS = D
    BY <1>3, <1>4 DEF D
  <2> QED BY <1>1, <1>2, <2>1, <2>2, ThoseFront DEF ThoseNames, Carries
<1>9. Types'
  BY <1>1, <1>3, <1>5, <1>6, <1>7, <1>8 DEF PInv, Types
<1>10. Stage'
  <2>1. h[1] \notin {"restarted", "disable"}
    BY <1>1
  <2> QED BY <1>1, <1>8, <2>1, StageKept DEF h, t
<1>11. ASSUME NEW a \in ASICS PROVE Mended(a)' /\ Clocked(a)' /\ Asked(a)'
  <2>1. Mended(a) /\ Clocked(a)
    BY DEF PInv
  <2>2. /\ h[1] \notin Mends \cup {"restart", "restart pll", "enable", "disable"}
        /\ \A N : Has(t, N) => Has(todo', N)
        /\ \A N : HasFor(t, N, a) => HasFor(todo', N, a)
    BY <1>1, <1>8 DEF Mends, Over
  <2>3. Mended(a)'
    <3>1. CASE a \in Pending /\ asic[a].good # {}
      BY <1>1, <1>4, <1>5, <1>6, <1>7, <3>1 DEF Mended
    <3>2. CASE a \in Pending /\ asic[a].good = {}
      <4>1. HasFor(todo', {"disable"}, a)
        BY <1>8, <3>2 DEF D
      <4>2. HasFor(todo', {"enable", "disable"}, a)
        BY <4>1 DEF HasFor
      <4> QED BY <1>1, <1>4, <3>2, <4>2 DEF Mended, Unmended
    <3>3. CASE a \notin Pending
      <4>1. a \in present => asic[a].wanted # SENTINEL
        BY <1>4, <3>3
      <4>2. CASE a \in present
        BY <1>1, <1>2, <1>5, <1>6, <1>7, <2>1, <2>2, <3>3, <4>1, <4>2 DEF Mended, Unmended
      <4>3. CASE a \notin present
        BY <1>1, <1>2, <1>5, <1>7, <2>1, <2>2, <3>3, <4>3 DEF Mended
      <4> QED BY <4>2, <4>3
    <3> QED BY <3>1, <3>2, <3>3
  <2>4. Clocked(a)'
    BY <1>1, <1>2, <1>6, <2>1, <2>2 DEF Clocked
  <2>5. Asked(a)'
    BY <1>6 DEF Asked, SENTINEL
  <2> QED BY <2>3, <2>4, <2>5
<1>12. OutOfRangeIsKnown' /\ InOrder(todo, asics)' /\ ended' = <<>>
  BY <1>1, <1>8, Runs DEF Carries
<1> QED BY <1>9, <1>10, <1>11, <1>12 DEF IInv, PInv

(* One PLL is set, or set again by a restart.                              *)
LEMMA SetPllPreserves ==
  ASSUME PInv, ended = <<>>, SetPll
  PROVE  IInv'
<1> DEFINE h == Head(todo)
           t == Tail(todo)
           b == h[2]
           freq == IF At("set_pll") THEN h[3] ELSE asic[b].freq_hw
           x == <<"wait once", b>>
           y == <<"wait", b>>
           z == <<"enable", b>>
<1>1. /\ todo # <<>> /\ h[1] \in {"set_pll", "restart pll"} /\ asics' = asics /\ ended' = ended
      /\ present' = present /\ vm' = vm /\ todo' = (<<x, y>> \o <<z>>) \o t
      /\ b \in present /\ InRange(freq)
      /\ asic' = [asic EXCEPT ![b].freq_hw = freq]
      /\ Program([a \in {b} |-> freq])
  BY DEF SetPll, At, Proceed, enable_engines_asic, Arg
<1>2. /\ h \in Calls /\ t \in Seq(Calls) /\ todo = Cons(h, t) /\ Carries(t, asics)
      /\ Counts(h, t, asics)
      /\ \A N : Has(todo, N) <=> h[1] \in N \/ Has(t, N)
      /\ \A N, a : HasFor(todo, N, a) <=> (h[1] \in N /\ h[2] = a) \/ HasFor(t, N, a)
  BY <1>1, Rest
<1>3. /\ asic \in [ASICS -> [good : SUBSET ENGINES, freq_hw : Freqs, wanted : Int]]
      /\ enable \in [ASICS -> SUBSET ENGINES] /\ pll \in [ASICS -> Int]
      /\ present \subseteq ASICS /\ engines_down \subseteq ASICS
  BY DEF PInv, Types
<1>4. freq \in Freqs /\ (h[1] = "restart pll" => freq = asic[b].freq_hw)
  <2>1. CASE h[1] = "set_pll"
    <3>1. freq = h[3] /\ h[3] \in Int /\ h[3] % 5 = 0
      BY <1>1, <1>2, <2>1, CallFacts DEF At
    <3>2. ASIC_FREQ_MIN \in Nat /\ ASIC_FREQ_MAX \in Nat
      BY PllsAssumption
    <3>3. InRange(h[3])
      BY <1>1, <3>1
    <3>4. h[3] \in Freqs
      BY <3>1, <3>2, <3>3 DEF InRange, Freqs
    <3> QED BY <2>1, <3>1, <3>4
  <2>2. CASE h[1] = "restart pll"
    <3>1. freq = asic[b].freq_hw
      BY <2>2 DEF At
    <3> QED BY <1>1, <1>3, <3>1
  <2> QED BY <1>1, <2>1, <2>2
<1>5. h[1] = "set_pll" => Len(t) = 0 /\ b \in asics
  BY <1>2 DEF Counts
<1> HIDE DEF h, t, freq, b
<1>6. /\ x \in Calls /\ y \in Calls /\ z \in Calls
      /\ x[1] = "wait once" /\ y[1] = "wait" /\ z[1] = "enable" /\ z[2] = b
  BY <1>1, <1>3, CallTypes DEF OfAsic
<1> HIDE DEF x, y, z
<1>7. <<x, y>> = <<x>> \o <<y>>
  BY <1>6, Pair
<1>8. todo' = Cons(x, Cons(y, Cons(z, t)))
  <2>1. /\ <<x>> \in Seq(Calls) /\ <<y>> \in Seq(Calls) /\ <<z>> \in Seq(Calls)
        /\ <<x>> \o <<y>> \in Seq(Calls) /\ Cons(z, t) \in Seq(Calls)
    BY <1>2, <1>6, Conses
  <2>2. ((<<x>> \o <<y>>) \o <<z>>) \o t = (<<x>> \o <<y>>) \o Cons(z, t)
    <3>1. z \in Calls /\ <<x>> \o <<y>> \in Seq(Calls) /\ t \in Seq(Calls)
      BY <1>2, <1>6, <2>1
    <3> QED BY <3>1, Conses
  <2>3. (<<x>> \o <<y>>) \o Cons(z, t) = Cons(x, Cons(y, Cons(z, t)))
    BY <1>6, <2>1, TwoConses
  <2> QED BY <1>1, <1>7, <2>2, <2>3
<1>9. Counts(z, t, asics)
  <2>1. h[1] = "restart pll" => Has(t, Settles)
    BY <1>2 DEF Counts
  <2>2. h[1] = "set_pll" => b \in asics /\ ~ Has(t, {"restarted"})
    BY <1>5 DEF Has
  <2> QED BY <1>1, <1>6, <2>1, <2>2 DEF Counts
<1>10. /\ Carries(Cons(z, t), asics) /\ Over(Cons(z, t), t)
       /\ HasFor(Cons(z, t), {"enable", "disable"}, b)
       /\ Guarded(t) => Guarded(Cons(z, t))
  <2>1. z[1] \notin {"restart", "set_pll", "restarted"} \cup Sets
    BY <1>6 DEF Sets
  <2> QED BY <1>2, <1>6, <1>9, <2>1, InFront, ConsHas
<1>11. /\ Carries(Cons(y, Cons(z, t)), asics) /\ Over(Cons(y, Cons(z, t)), Cons(z, t))
       /\ Guarded(Cons(z, t)) => Guarded(Cons(y, Cons(z, t)))
  <2>1. /\ y[1] \notin {"restart", "set_pll", "restarted"} \cup Sets
        /\ Counts(y, Cons(z, t), asics)
    BY <1>6 DEF Sets, Counts
  <2> QED BY <1>6, <1>10, <2>1, InFront
<1>12. /\ Carries(todo', asics) /\ Over(todo', Cons(y, Cons(z, t)))
       /\ Guarded(Cons(y, Cons(z, t))) => Guarded(todo')
  <2>1. /\ x[1] \notin {"restart", "set_pll", "restarted"} \cup Sets
        /\ Counts(x, Cons(y, Cons(z, t)), asics)
    BY <1>6 DEF Sets, Counts
  <2> QED BY <1>6, <1>8, <1>11, <2>1, InFront
<1>13. /\ Over(todo', t) /\ HasFor(todo', {"enable", "disable"}, b)
       /\ Guarded(todo) => Guarded(todo')
       /\ ~ Has(todo', {"restart"})
  <2>1. Over(todo', Cons(z, t))
    BY <1>11, <1>12, OverOver
  <2>2. Over(todo', t)
    BY <1>10, <2>1, OverOver
  <2>3. HasFor(todo', {"enable", "disable"}, b)
    BY <1>10, <2>1 DEF Over
  <2>4. Guarded(todo) => Guarded(t)
    BY <1>1, <1>2, ConsGuarded DEF Marked
  <2>5. ~ Has(todo', {"restart"})
    BY <1>12 DEF Carries, Has
  <2> QED BY <1>10, <1>11, <1>12, <2>2, <2>3, <2>4, <2>5
<1>14. /\ asic' \in [ASICS -> [good : SUBSET ENGINES, freq_hw : Freqs, wanted : Int]]
       /\ asic'[b].freq_hw = freq
       /\ \A a \in ASICS : /\ asic'[a].good = asic[a].good /\ asic'[a].wanted = asic[a].wanted
                           /\ a # b => asic'[a].freq_hw = asic[a].freq_hw
  BY <1>1, <1>3, <1>4
<1>15. /\ enable' \in [ASICS -> SUBSET ENGINES] /\ pll' \in [ASICS -> Int]
       /\ enable'[b] = {} /\ pll'[b] = freq /\ engines_down' = engines_down \cup {b}
       /\ \A a \in ASICS : a # b => enable'[a] = enable[a] /\ pll'[a] = pll[a]
  <2>1. DOMAIN [a \in {b} |-> freq] = {b} /\ [a \in {b} |-> freq][b] = freq
    OBVIOUS
  <2>2. /\ enable' = [a \in ASICS |-> IF a \in {b} THEN {} ELSE enable[a]]
        /\ pll' = [a \in ASICS |-> IF a \in {b} THEN freq ELSE pll[a]]
        /\ engines_down' = engines_down \cup {b}
    BY <1>1, <2>1 DEF Program
  <2>3. freq \in Int /\ b \in ASICS
    <3>1. Freqs \subseteq Int
      BY DEF Freqs
    <3> QED BY <1>1, <1>3, <1>4, <3>1
  <2>4. enable' \in [ASICS -> SUBSET ENGINES] /\ pll' \in [ASICS -> Int]
    BY <1>3, <2>2, <2>3
  <2> QED BY <2>2, <2>3, <2>4
<1>16. Types'
  <2>1. engines_down' \subseteq ASICS /\ todo' \in Seq(Calls)
    BY <1>1, <1>3, <1>12, <1>15 DEF Carries
  <2> QED BY <1>1, <1>3, <1>14, <1>15, <2>1 DEF PInv, Types
<1>17. Stage'
  <2>1. h[1] \notin {"restarted", "disable"}
    BY <1>1
  <2> QED BY <1>1, <1>13, <2>1, StageKept DEF h, t
<1>18. ASSUME NEW a \in ASICS PROVE Mended(a)' /\ Clocked(a)' /\ Asked(a)'
  <2>1. Mended(a) /\ Clocked(a) /\ Asked(a)
    BY DEF PInv
  <2>2. /\ h[1] \notin Mends \cup Marked \cup {"program", "restart", "enable", "disable"}
        /\ \A N : Has(t, N) => Has(todo', N)
        /\ \A N : HasFor(t, N, a) => HasFor(todo', N, a)
    BY <1>1, <1>13 DEF Mends, Marked, Over
  <2>3. Mended(a)'
    <3>1. CASE a = b
      BY <1>1, <1>13, <3>1 DEF Mended, Unmended
    <3>2. CASE a # b
      <4>1. CASE a \in present
        BY <1>1, <1>2, <1>14, <1>15, <2>1, <2>2, <3>2, <4>1 DEF Mended, Unmended
      <4>2. CASE a \notin present
        BY <1>1, <1>2, <1>15, <2>1, <2>2, <3>2, <4>2 DEF Mended
      <4> QED BY <4>1, <4>2
    <3> QED BY <3>1, <3>2
  <2>4. Clocked(a)'
    <3>1. CASE a = b
      BY <1>14, <1>15, <3>1 DEF Clocked
    <3>2. CASE a # b
      <4>1. HasFor(todo, {"restart pll"}, a) => HasFor(todo', {"restart pll"}, a)
        BY <1>2, <2>2, <3>2 DEF b
      <4>2. Has(todo, {"restart"}) => Has(todo', {"restart"})
        BY <1>2, <2>2
      <4> QED BY <1>1, <1>14, <1>15, <2>1, <3>2, <4>1, <4>2 DEF Clocked
    <3> QED BY <3>1, <3>2
  <2>5. Asked(a)'
    <3>1. CASE h[1] = "set_pll"
      <4>1. ~ Has(todo, {"program"} \cup Marked)
        <5>1. ~ Has(t, {"program"} \cup Marked)
          BY <1>5, <3>1 DEF Has
        <5> QED BY <1>2, <2>2, <5>1
      <4>2. asic'[a].wanted = 0
        BY <1>14, <2>1, <4>1 DEF Asked
      <4> QED BY <4>2 DEF Asked, SENTINEL
    <3>2. CASE h[1] = "restart pll"
      <4>1. asic'[a].freq_hw = asic[a].freq_hw
        BY <1>4, <1>14, <3>2
      <4>2. Has(todo, {"program"} \cup Marked) => Has(todo', {"program"} \cup Marked)
        BY <1>2, <2>2
      <4> QED BY <1>13, <1>14, <2>1, <4>1, <4>2 DEF Asked
    <3> QED BY <1>1, <3>1, <3>2
  <2> QED BY <2>3, <2>4, <2>5
<1>19. OutOfRangeIsKnown' /\ InOrder(todo, asics)' /\ ended' = <<>>
  BY <1>1, <1>12, Runs DEF Carries
<1> QED BY <1>16, <1>17, <1>18, <1>19 DEF IInv, PInv

(* The engines of an ASIC are enabled.                                     *)
LEMMA EnablePreserves ==
  ASSUME PInv, ended = <<>>, EnableEngines
  PROVE  IInv'
<1> DEFINE h == Head(todo)
           t == Tail(todo)
           b == h[2]
           d == <<"disable", b>>
<1>1. /\ todo # <<>> /\ h[1] = "enable" /\ asics' = asics /\ ended' = ended
      /\ present' = present /\ vm' = vm /\ asic' = asic /\ pll' = pll
      /\ engines_down' = engines_down \ {b} /\ enable' = [enable EXCEPT ![b] = asic[b].good]
      /\ todo' = (IF asic[b].good = {} THEN <<d>> ELSE <<>>) \o t
  BY DEF EnableEngines, At, Proceed, disable_asic_forever, Arg
<1>2. /\ h \in Calls /\ t \in Seq(Calls) /\ todo = Cons(h, t) /\ Carries(t, asics)
      /\ Counts(h, t, asics) /\ <<>> \o t = t
      /\ \A N : Has(todo, N) <=> h[1] \in N \/ Has(t, N)
      /\ \A N, a : HasFor(todo, N, a) <=> (h[1] \in N /\ h[2] = a) \/ HasFor(t, N, a)
  BY <1>1, Rest
<1>3. /\ asic \in [ASICS -> [good : SUBSET ENGINES, freq_hw : Freqs, wanted : Int]]
      /\ enable \in [ASICS -> SUBSET ENGINES] /\ pll \in [ASICS -> Int]
      /\ present \subseteq ASICS /\ engines_down \subseteq ASICS
  BY DEF PInv, Types
<1>4. b \in ASICS
  BY <1>1, <1>2, CallFacts DEF OfAsic
<1>5. (b \in asics /\ ~ Has(t, {"restarted"})) \/ Has(t, Settles)
  BY <1>1, <1>2 DEF Counts
<1>6. /\ d \in Calls /\ d[1] = "disable" /\ d[2] = b
  BY <1>4, CallTypes DEF OfAsic
<1> HIDE DEF h, t, b, d
<1>7. b \in present \/ Has(t, Settles)
  <2>1. CASE b \in asics /\ ~ Has(t, {"restarted"})
    <3>1. h[1] # "restarted"
      BY <1>1
    <3>2. ~ One(todo)
      <4>1. ~ One(t)
        BY <2>1 DEF One, Has
      <4> QED BY <1>2, <3>1, <4>1, ConsOne
    <3> QED BY <2>1, <3>2 DEF PInv, Stage
  <2> QED BY <1>5, <2>1
<1>8. /\ Carries(todo', asics) /\ Over(todo', t) /\ (Guarded(todo) => Guarded(todo'))
      /\ asic[b].good = {} => HasFor(todo', {"enable", "disable"}, b)
  <2>1. Guarded(todo) => Guarded(t)
    BY <1>1, <1>2, ConsGuarded DEF Marked
  <2>2. CASE asic[b].good = {}
    <3>1. todo' = Cons(d, t)
      BY <1>1, <2>2 DEF Cons
    <3>2. /\ Counts(d, t, asics) /\ d[1] \notin {"restart", "set_pll", "restarted"} \cup Sets
      BY <1>6 DEF Counts, Sets
    <3> QED BY <1>2, <1>6, <2>1, <3>1, <3>2, InFront, ConsHas
  <2>3. CASE asic[b].good # {}
    BY <1>1, <1>2, <2>1, <2>3, OverItself
  <2> QED BY <2>2, <2>3
<1>9. /\ enable' \in [ASICS -> SUBSET ENGINES] /\ enable'[b] = asic[b].good
      /\ \A a \in ASICS : a # b => enable'[a] = enable[a]
  <2>1. asic[b].good \in SUBSET ENGINES
    BY <1>3, <1>4
  <2> QED BY <1>1, <1>3, <1>4, <2>1
<1>10. Types'
  <2>1. todo' \in Seq(Calls)
    BY <1>8 DEF Carries
  <2> QED BY <1>1, <1>9, <2>1 DEF PInv, Types
<1>11. Stage'
  <2>1. ~ Has(todo', {"restart"}) /\ h[1] \notin {"restarted", "disable"}
    BY <1>1, <1>8 DEF Carries, Has
  <2> QED BY <1>1, <1>8, <2>1, StageKept DEF h, t
<1>12. ASSUME NEW a \in ASICS PROVE Mended(a)' /\ Clocked(a)' /\ Asked(a)'
  <2>1. Mended(a) /\ Clocked(a) /\ Asked(a)
    BY DEF PInv
  <2>2. /\ h[1] \notin Mends \cup Marked \cup {"program", "restart", "restart pll"}
        /\ \A N : Has(t, N) => Has(todo', N)
        /\ \A N : HasFor(t, N, a) => HasFor(todo', N, a)
    BY <1>1, <1>8 DEF Mends, Marked, Over
  <2>3. Has(t, Settles) => Has(todo', Mends)
    <3>1. Has(t, Settles) => Has(t, Mends)
      BY DEF Has, Settles, Mends
    <3> QED BY <2>2, <3>1
  <2>4. Mended(a)'
    <3>1. CASE a = b /\ a \in present
      <4>1. CASE asic[b].good = {}
        BY <1>1, <1>8, <3>1, <4>1 DEF Mended, Unmended
      <4>2. CASE asic[b].good # {}
        BY <1>1, <1>9, <3>1, <4>2 DEF Mended
      <4> QED BY <4>1, <4>2
    <3>2. CASE a = b /\ a \notin present
      BY <1>1, <1>7, <2>3, <3>2 DEF Mended
    <3>3. CASE a # b
      <4>1. HasFor(todo, {"enable", "disable"}, a) => HasFor(todo', {"enable", "disable"}, a)
        BY <1>2, <2>2, <3>3 DEF b
      <4>2. \A N : Has(todo, N) /\ h[1] \notin N => Has(todo', N)
        BY <1>2, <2>2
      <4>3. enable'[a] = enable[a] /\ (a \in engines_down' <=> a \in engines_down)
        BY <1>1, <1>9, <3>3
      <4>4. /\ Has(todo, Mends) => Has(todo', Mends)
            /\ Has(todo, Marked) => Has(todo', Marked)
        BY <2>2, <4>2
      <4> QED BY <1>1, <2>1, <4>1, <4>3, <4>4 DEF Mended, Unmended
    <3> QED BY <3>1, <3>2, <3>3
  <2>5. Clocked(a)'
    BY <1>1, <1>2, <2>1, <2>2 DEF Clocked
  <2>6. Asked(a)'
    <3>1. Has(todo, {"program"} \cup Marked) => Has(todo', {"program"} \cup Marked)
      BY <1>2, <2>2
    <3> QED BY <1>1, <1>8, <2>1, <3>1 DEF Asked
  <2> QED BY <2>4, <2>5, <2>6
<1>13. OutOfRangeIsKnown' /\ InOrder(todo, asics)' /\ ended' = <<>>
  BY <1>1, <1>8, Runs DEF Carries
<1> QED BY <1>10, <1>11, <1>12, <1>13 DEF IInv, PInv

(* In a restart an ASIC is disabled for ever.                              *)
LEMMA ForeverPreserves ==
  ASSUME PInv, ended = <<>>, DisableForever
  PROVE  IInv'
<1> DEFINE h == Head(todo)
           t == Tail(todo)
           b == h[2]
<1>1. /\ todo # <<>> /\ h[1] = "disable" /\ asics' = asics /\ ended' = ended
      /\ present' = present \ {b} /\ vm' = [vm EXCEPT !.disasics = @ + 1] /\ pll' = pll
      /\ asic' = [asic EXCEPT ![b] = Unknown]
      /\ engines_down' = engines_down \cup {b} /\ enable' = [enable EXCEPT ![b] = {}]
      /\ b \in present /\ vm.in_asic_reset = 2
  BY DEF DisableForever, Disasic, At, Proceed, Arg
<1>2. /\ h \in Calls /\ t \in Seq(Calls) /\ todo = Cons(h, t) /\ Carries(t, asics)
      /\ \A N : Has(todo, N) <=> h[1] \in N \/ Has(t, N)
      /\ \A N, a : HasFor(todo, N, a) <=> (h[1] \in N /\ h[2] = a) \/ HasFor(t, N, a)
  BY <1>1, Rest
<1>3. todo' = t
  BY <1>1, Rest DEF DisableForever, Proceed
<1>4. /\ asic \in [ASICS -> [good : SUBSET ENGINES, freq_hw : Freqs, wanted : Int]]
      /\ enable \in [ASICS -> SUBSET ENGINES] /\ pll \in [ASICS -> Int]
      /\ present \subseteq ASICS /\ engines_down \subseteq ASICS
      /\ vm \in [in_asic_reset : {0, 2}, did_asic_reset : BOOLEAN, disasics : Nat, working : Nat]
  BY DEF PInv, Types
<1>5. Unknown \in [good : SUBSET ENGINES, freq_hw : Freqs, wanted : Int] /\ Unknown.wanted = 0
  BY UnknownType
<1> HIDE DEF h, t, b
<1>6. Types'
  <2>1. asic' \in [ASICS -> [good : SUBSET ENGINES, freq_hw : Freqs, wanted : Int]]
    BY <1>1, <1>4, <1>5
  <2>2. enable' \in [ASICS -> SUBSET ENGINES]
    BY <1>1, <1>4
  <2>3. vm' \in [in_asic_reset : {0, 2}, did_asic_reset : BOOLEAN, disasics : Nat, working : Nat]
    <3>1. vm' = [vm EXCEPT !.disasics = @ + 1]
      BY <1>1
    <3>2. vm \in [in_asic_reset : {0, 2}, did_asic_reset : BOOLEAN, disasics : Nat, working : Nat]
      BY <1>4
    <3> QED BY <3>1, <3>2
  <2>4. engines_down' \subseteq ASICS /\ present' \subseteq ASICS
    BY <1>1, <1>4
  <2> QED BY <1>1, <1>2, <1>3, <2>1, <2>2, <2>3, <2>4 DEF PInv, Types
<1>7. Stage'
  <2>1. ~ Has(t, {"restart"}) /\ h[1] # "restarted"
    BY <1>1, <1>2 DEF Carries, Has
  <2>2. vm'.in_asic_reset = vm.in_asic_reset /\ vm'.working = vm.working
    BY <1>1, <1>4
  <2>3. /\ present' \subseteq present /\ b \notin present'
        /\ vm.in_asic_reset # 0
    BY <1>1
  <2> QED BY <1>1, <1>3, <2>1, <2>2, <2>3, OverItself, StageKept DEF h, t, b
<1>8. ASSUME NEW a \in ASICS PROVE Mended(a)' /\ Clocked(a)' /\ Asked(a)'
  <2>1. Mended(a) /\ Clocked(a) /\ Asked(a)
    BY DEF PInv
  <2>2. h[1] \notin Mends \cup Marked \cup {"program", "restart", "restart pll"}
    BY <1>1 DEF Mends, Marked
  <2>3. CASE a = b
    <3>1. a \notin present' /\ a \in engines_down' /\ enable'[a] = {} /\ asic'[a].wanted = 0
      BY <1>1, <1>4, <1>5, <2>3
    <3>2. Mended(a)' /\ Clocked(a)'
      BY <3>1 DEF Mended, Clocked
    <3>3. Asked(a)'
      BY <3>1 DEF Asked, SENTINEL
    <3> QED BY <3>2, <3>3
  <2>4. CASE a # b
    <3>1. /\ asic'[a] = asic[a] /\ enable'[a] = enable[a]
          /\ a \in engines_down' <=> a \in engines_down
          /\ a \in present' <=> a \in present
      BY <1>1, <1>4, <2>4
    <3>2. \A N : HasFor(todo, N, a) => HasFor(todo', N, a)
      BY <1>2, <1>3, <2>4 DEF b
    <3>3. /\ Has(todo, Mends) => Has(todo', Mends)
          /\ Has(todo, Marked) => Has(todo', Marked)
          /\ Has(todo, {"restart"}) => Has(todo', {"restart"})
          /\ Has(todo, {"program"} \cup Marked) => Has(todo', {"program"} \cup Marked)
      BY <1>2, <1>3, <2>2
    <3>4. Guarded(todo) => Guarded(todo')
      BY <1>2, <1>3, <2>2, ConsGuarded
    <3>5. Mended(a)'
      BY <2>1, <3>1, <3>2, <3>3 DEF Mended, Unmended
    <3>6. Clocked(a)'
      BY <1>1, <2>1, <3>1, <3>2, <3>3 DEF Clocked
    <3>7. Asked(a)'
      BY <2>1, <3>1, <3>3, <3>4 DEF Asked
    <3> QED BY <3>5, <3>6, <3>7
  <2> QED BY <2>3, <2>4
<1>9. OutOfRangeIsKnown' /\ InOrder(todo, asics)' /\ ended' = <<>>
  BY <1>1, <1>2, <1>3, Runs DEF Carries
<1> QED BY <1>6, <1>7, <1>8, <1>9 DEF IInv, PInv

(* An ASIC that fails its BIST is to be slower.                            *)
LEMMA SlowerPreserves ==
  ASSUME PInv, ended = <<>>, FailedSlower
  PROVE  IInv'
<1> DEFINE h == Head(todo)
           t == Tail(todo)
           b == h[2]
           w == <<"squid wait">>
<1>1. /\ todo # <<>> /\ h[1] = "judge" /\ asics' = asics /\ ended' = ended
      /\ present' = present /\ engines_down' = engines_down /\ enable' = enable /\ pll' = pll
      /\ vm' = vm /\ todo' = Cons(w, t)
      /\ asic[b].freq_hw > ASIC_FREQ_MIN
      /\ asic' = [asic EXCEPT ![b].wanted = asic[b].freq_hw - 10]
  BY DEF FailedSlower, JudgeFailed, At, Proceed, squid_wait, Arg, hw, Cons
<1>2. /\ h \in Calls /\ t \in Seq(Calls) /\ todo = Cons(h, t) /\ Carries(t, asics)
      /\ Has(t, Settles) /\ Has(t, {"program"})
      /\ \A N : Has(todo, N) <=> h[1] \in N \/ Has(t, N)
      /\ \A N, a : HasFor(todo, N, a) <=> (h[1] \in N /\ h[2] = a) \/ HasFor(t, N, a)
  BY <1>1, Rest DEF Counts
<1>3. b \in ASICS
  BY <1>1, <1>2, CallFacts
<1>4. /\ asic \in [ASICS -> [good : SUBSET ENGINES, freq_hw : Freqs, wanted : Int]]
      /\ Freqs \subseteq Int
  BY DEF PInv, Types, Freqs
<1>5. /\ w \in Calls /\ \A s : Counts(w, s, asics)
      /\ w[1] \notin {"restart", "set_pll", "restarted"} \cup Sets
  BY CallTypes DEF Bare, Counts, Sets
<1> HIDE DEF h, t, b, w
<1>6. /\ Carries(todo', asics) /\ Over(todo', t) /\ (Guarded(todo) => Guarded(todo'))
  <2>1. Guarded(todo) => Guarded(t)
    BY <1>1, <1>2, ConsGuarded DEF Marked
  <2> QED BY <1>1, <1>2, <1>5, <2>1, InFront
<1>7. /\ asic' \in [ASICS -> [good : SUBSET ENGINES, freq_hw : Freqs, wanted : Int]]
      /\ asic'[b].wanted = asic[b].freq_hw - 10
      /\ \A a \in ASICS : /\ asic'[a].good = asic[a].good /\ asic'[a].freq_hw = asic[a].freq_hw
                          /\ a # b => asic'[a].wanted = asic[a].wanted
  <2>1. asic[b].freq_hw - 10 \in Int
    <3>1. asic[b].freq_hw \in Freqs
      BY <1>3, <1>4
    <3>2. asic[b].freq_hw \in Int
      BY <1>4, <3>1
    <3> QED BY <3>2
  <2> QED BY <1>1, <1>3, <1>4, <2>1
<1>8. Types'
  <2>1. todo' \in Seq(Calls)
    BY <1>6 DEF Carries
  <2> QED BY <1>1, <1>7, <2>1 DEF PInv, Types
<1>9. Stage'
  <2>1. ~ Has(todo', {"restart"}) /\ h[1] \notin {"restarted", "disable"}
    BY <1>1, <1>6 DEF Carries, Has
  <2> QED BY <1>1, <1>6, <2>1, StageKept DEF h, t
<1>10. ASSUME NEW a \in ASICS PROVE Mended(a)' /\ Clocked(a)' /\ Asked(a)'
  <2>1. Mended(a) /\ Clocked(a) /\ Asked(a)
    BY DEF PInv
  <2>2. /\ \A N : Has(t, N) => Has(todo', N)
        /\ \A N : HasFor(t, N, a) => HasFor(todo', N, a)
        /\ h[1] \notin {"restart", "restart pll"}
    BY <1>1, <1>6 DEF Over
  <2>3. Has(todo', Mends) /\ Has(todo', {"program"} \cup Marked)
    <3>1. Has(t, Mends) /\ Has(t, {"program"} \cup Marked)
      BY <1>2 DEF Has, Settles, Mends
    <3> QED BY <2>2, <3>1
  <2>4. Mended(a)'
    BY <2>3 DEF Mended, Unmended
  <2>5. Clocked(a)'
    BY <1>1, <1>2, <1>7, <2>1, <2>2 DEF Clocked
  <2>6. Asked(a)'
    <3>1. CASE a # b
      BY <1>6, <1>7, <2>1, <2>3, <3>1 DEF Asked
    <3>2. CASE a = b
      <4>1. asic'[a].freq_hw > ASIC_FREQ_MIN /\ asic'[a].wanted = asic'[a].freq_hw - 10
        BY <1>1, <1>7, <3>2
      <4>2. asic'[a].wanted # SENTINEL
        <5>1. ASIC_FREQ_MIN \in Nat /\ asic'[a].freq_hw \in Int
          BY <1>4, <1>7, PllsAssumption
        <5> QED BY <4>1, <5>1 DEF SENTINEL
      <4> QED BY <2>3, <4>1, <4>2 DEF Asked
    <3> QED BY <3>1, <3>2
  <2> QED BY <2>4, <2>5, <2>6
<1>11. OutOfRangeIsKnown' /\ InOrder(todo, asics)' /\ ended' = <<>>
  BY <1>1, <1>6, Runs DEF Carries
<1> QED BY <1>8, <1>9, <1>10, <1>11 DEF IInv, PInv

(* Of an ASIC at the lowest frequency the failing engines are dropped.     *)
LEMMA DropPreserves ==
  ASSUME PInv, ended = <<>>, DropEngines
  PROVE  IInv'
<1> DEFINE h == Head(todo)
           t == Tail(todo)
           b == h[2]
           d == <<"disable", b>>
<1>1. /\ todo # <<>> /\ h[1] = "drop engines"
      /\ present' = present /\ pll' = pll /\ vm' = vm
  BY DEF DropEngines, At
<1>2. /\ h \in Calls /\ t \in Seq(Calls) /\ todo = Cons(h, t) /\ Carries(t, asics)
      /\ Has(t, Settles) /\ <<>> \o t = t
      /\ \A N : Has(todo, N) <=> h[1] \in N \/ Has(t, N)
      /\ \A N, a : HasFor(todo, N, a) <=> (h[1] \in N /\ h[2] = a) \/ HasFor(t, N, a)
  BY <1>1, Rest DEF Counts
<1>3. b \in ASICS
  BY <1>1, <1>2, CallFacts DEF OfAsic
<1>4. /\ asic \in [ASICS -> [good : SUBSET ENGINES, freq_hw : Freqs, wanted : Int]]
      /\ enable \in [ASICS -> SUBSET ENGINES] /\ engines_down \subseteq ASICS
  BY DEF PInv, Types
<1>5. PICK E \in SUBSET ENGINES :
        /\ asic' = [asic EXCEPT ![b].good = E]
        /\ \/ Proceed(<<d>>) /\ UNCHANGED <<engines_down, enable>>
           \/ /\ engines_down' = engines_down \ {b}
              /\ enable' = [enable EXCEPT ![b] = ENGINES \ E]
              /\ Proceed(<<>>)
  <2>1. PICK E \in IF vm.did_asic_reset THEN SUBSET ENGINES
                                         ELSE SUBSET enable[b] \ {asic[b].good} :
          /\ asic' = [asic EXCEPT ![b].good = E]
          /\ IF Cardinality(E) < MIN_ENGINES
             THEN Proceed(<<d>>) /\ UNCHANGED <<engines_down, enable>>
             ELSE /\ engines_down' = engines_down \ {b}
                  /\ enable' = [enable EXCEPT ![b] = ENGINES \ E]
                  /\ Proceed(<<>>)
    BY DEF DropEngines, disable_asic_forever, Arg
  <2>2. E \in SUBSET ENGINES
    BY <1>3, <1>4, <2>1
  <2> QED BY <2>1, <2>2
<1>6. /\ d \in Calls /\ \A s : Counts(d, s, asics)
      /\ d[1] \notin {"restart", "set_pll", "restarted"} \cup Sets
  BY <1>3, CallTypes DEF OfAsic, Counts, Sets
<1>7. asics' = asics /\ ended' = ended /\ (todo' = <<d>> \o t \/ todo' = <<>> \o t)
  BY <1>5 DEF Proceed
<1> HIDE DEF h, t, b, d
<1>8. Carries(todo', asics) /\ Over(todo', t) /\ (Guarded(todo) => Guarded(todo'))
  <2>1. Guarded(todo) => Guarded(t)
    BY <1>1, <1>2, ConsGuarded DEF Marked
  <2>2. CASE todo' = <<d>> \o t
    <3>1. todo' = Cons(d, t)
      BY <2>2 DEF Cons
    <3> QED BY <1>2, <1>6, <2>1, <3>1, InFront
  <2>3. CASE todo' = <<>> \o t
    BY <1>2, <2>1, <2>3, OverItself
  <2> QED BY <1>7, <2>2, <2>3
<1>9. /\ asic' \in [ASICS -> [good : SUBSET ENGINES, freq_hw : Freqs, wanted : Int]]
      /\ \A a \in ASICS : /\ asic'[a].freq_hw = asic[a].freq_hw
                          /\ asic'[a].wanted = asic[a].wanted
  BY <1>3, <1>4, <1>5
<1>10. Types'
  <2>1. todo' \in Seq(Calls)
    BY <1>8 DEF Carries
  <2>2. enable' \in [ASICS -> SUBSET ENGINES] /\ engines_down' \subseteq ASICS
    <3>1. enable' = enable \/ enable' = [enable EXCEPT ![b] = ENGINES \ E]
      BY <1>5
    <3>2. engines_down' = engines_down \/ engines_down' = engines_down \ {b}
      BY <1>5
    <3>3. ENGINES \ E \in SUBSET ENGINES
      OBVIOUS
    <3> QED BY <1>3, <1>4, <3>1, <3>2, <3>3
  <2> QED BY <1>1, <1>7, <1>9, <2>1, <2>2 DEF PInv, Types
<1>11. Stage'
  <2>1. ~ Has(todo', {"restart"}) /\ h[1] \notin {"restarted", "disable"}
    BY <1>1, <1>8 DEF Carries, Has
  <2> QED BY <1>1, <1>7, <1>8, <2>1, StageKept DEF h, t
<1>12. ASSUME NEW a \in ASICS PROVE Mended(a)' /\ Clocked(a)' /\ Asked(a)'
  <2>1. Clocked(a) /\ Asked(a)
    BY DEF PInv
  <2>2. /\ \A N : Has(t, N) => Has(todo', N)
        /\ \A N : HasFor(t, N, a) => HasFor(todo', N, a)
        /\ h[1] \notin {"restart", "restart pll", "program"} \cup Marked
    BY <1>1, <1>8 DEF Over, Marked
  <2>3. Has(todo', Mends)
    <3>1. Has(t, Mends)
      BY <1>2 DEF Has, Settles, Mends
    <3> QED BY <2>2, <3>1
  <2>4. Mended(a)'
    BY <2>3 DEF Mended, Unmended
  <2>5. Clocked(a)'
    BY <1>1, <1>2, <1>9, <2>1, <2>2 DEF Clocked
  <2>6. Has(todo, {"program"} \cup Marked) => Has(todo', {"program"} \cup Marked)
    BY <1>2, <2>2
  <2>7. Asked(a)'
    BY <1>8, <1>9, <2>1, <2>6 DEF Asked
  <2> QED BY <2>4, <2>5, <2>7
<1>13. OutOfRangeIsKnown' /\ InOrder(todo, asics)' /\ ended' = <<>>
  BY <1>7, <1>8, Runs DEF Carries
<1> QED BY <1>10, <1>11, <1>12, <1>13 DEF IInv, PInv

(* The engines of all ASICs are enabled.                                   *)
LEMMA GoodReadyPreserves ==
  ASSUME PInv, ended = <<>>, GoodReady
  PROVE  IInv'
<1> DEFINE h == Head(todo)
           t == Tail(todo)
           D == {a \in present : asic[a].good = {}}
<1>1. /\ todo # <<>> /\ h[1] = "good" /\ asics' = asics /\ ended' = ended
      /\ present' = present /\ vm' = vm /\ pll' = pll /\ asic' = asic
      /\ engines_down' = ASICS \ present
      /\ enable' = [a \in ASICS |-> IF a \in present THEN asic[a].good ELSE {}]
      /\ todo' = Those("disable", D) \o t
  BY DEF GoodReady, At, Proceed, Disabling
<1>2. /\ h \in Calls /\ t \in Seq(Calls) /\ todo = Cons(h, t) /\ Carries(t, asics)
      /\ \A N : Has(todo, N) <=> h[1] \in N \/ Has(t, N)
      /\ \A N, a : HasFor(todo, N, a) <=> (h[1] \in N /\ h[2] = a) \/ HasFor(t, N, a)
  BY <1>1, Rest
<1>3. /\ asic \in [ASICS -> [good : SUBSET ENGINES, freq_hw : Freqs, wanted : Int]]
      /\ present \subseteq ASICS
  BY DEF PInv, Types
<1> HIDE DEF h, t, D
<1>4. /\ Carries(todo', asics) /\ Over(todo', t) /\ ~ Has(todo', {"restart"})
      /\ Guarded(todo) => Guarded(todo')
      /\ \A a \in D : HasFor(todo', {"disable"}, a)
      /\ todo' \in Seq(Calls)
  <2>1. ~ Has(t, {"restart"})
    BY <1>2 DEF Carries, Has
  <2>2. D \cap ASICS = D
    BY <1>3 DEF D
  <2>3. Guarded(todo) => Guarded(t)
    BY <1>1, <1>2, ConsGuarded DEF Marked
  <2> QED BY <1>1, <1>2, <2>1, <2>2, <2>3, ThoseFront DEF ThoseNames, Carries
<1>5. enable' \in [ASICS -> SUBSET ENGINES]
  BY <1>1, <1>3
<1>6. Types'
  BY <1>1, <1>4, <1>5 DEF PInv, Types
<1>7. Stage'
  <2>1. h[1] \notin {"restarted", "disable"}
    BY <1>1
  <2> QED BY <1>1, <1>4, <2>1, StageKept DEF h, t
<1>8. ASSUME NEW a \in ASICS PROVE Mended(a)' /\ Clocked(a)' /\ Asked(a)'
  <2>1. Clocked(a) /\ Asked(a)
    BY DEF PInv
  <2>2. /\ h[1] \notin Marked \cup {"program", "restart", "restart pll"}
        /\ \A N : Has(t, N) => Has(todo', N)
        /\ \A N : HasFor(t, N, a) => HasFor(todo', N, a)
    BY <1>1, <1>4 DEF Marked, Over
  <2>3. Mended(a)'
    <3>1. CASE a \in present /\ asic[a].good = {}
      <4>1. HasFor(todo', {"disable"}, a)
        BY <1>4, <3>1 DEF D
      <4>2. HasFor(todo', {"enable", "disable"}, a)
        BY <4>1 DEF HasFor
      <4> QED BY <1>1, <3>1, <4>2 DEF Mended, Unmended
    <3>2. CASE a \in present /\ asic[a].good # {}
      BY <1>1, <3>2 DEF Mended
    <3>3. CASE a \notin present
      BY <1>1, <3>3 DEF Mended
    <3> QED BY <3>1, <3>2, <3>3
  <2>4. Clocked(a)'
    BY <1>1, <1>2, <2>1, <2>2 DEF Clocked
  <2>5. Has(todo, {"program"} \cup Marked) => Has(todo', {"program"} \cup Marked)
    BY <1>2, <2>2
  <2>6. Asked(a)'
    BY <1>1, <1>4, <2>1, <2>5 DEF Asked
  <2> QED BY <2>3, <2>4, <2>6
<1>9. OutOfRangeIsKnown' /\ InOrder(todo, asics)' /\ ended' = <<>>
  BY <1>1, <1>4, Runs DEF Carries
<1> QED BY <1>6, <1>7, <1>8, <1>9 DEF IInv, PInv

(* All ASICs are reset.                                                    *)
LEMMA RestartPreserves ==
  ASSUME PInv, ended = <<>>, Restart
  PROVE  IInv'
<1> DEFINE h == Head(todo)
           t == Tail(todo)
<1>1. /\ todo # <<>> /\ h[1] = "restart" /\ engines_down' = engines_down
      /\ vm' = [vm EXCEPT !.in_asic_reset = 2, !.working = Cardinality(present), !.disasics = 0]
      /\ enable' = [a \in ASICS |-> ENGINES] /\ pll' = [a \in ASICS |-> 0]
  BY DEF Restart, At
<1>2. /\ h \in Calls /\ t \in Seq(Calls) /\ todo = Cons(h, t) /\ Carries(t, asics)
      /\ \A N : Has(todo, N) <=> h[1] \in N \/ Has(t, N)
      /\ \A N, a : HasFor(todo, N, a) <=> (h[1] \in N /\ h[2] = a) \/ HasFor(t, N, a)
  BY <1>1, Rest
<1>3. PICK lost \in SUBSET present, found \in SUBSET (ASICS \ present) :
        /\ present' = (present \ lost) \cup found
        /\ asic' = [a \in ASICS |-> IF a \in lost THEN Unknown ELSE asic[a]]
        /\ Proceed(Disabling(found) \o set_initial_freq_on_restart)
  BY DEF Restart
<1>4. /\ todo' = (Disabling(found) \o set_initial_freq_on_restart) \o t
      /\ asics' = asics /\ ended' = ended
  BY <1>3 DEF Proceed
<1>5. /\ asic \in [ASICS -> [good : SUBSET ENGINES, freq_hw : Freqs, wanted : Int]]
      /\ asics \subseteq ASICS /\ present \subseteq ASICS /\ engines_down \subseteq ASICS
      /\ vm \in [in_asic_reset : {0, 2}, did_asic_reset : BOOLEAN, disasics : Nat, working : Nat]
  BY DEF PInv, Types
<1> HIDE DEF h, t
<1>6. vm.in_asic_reset = 0 /\ present = asics /\ ~ Has(t, {"restarted"})
  <2>1. Has(todo, {"restart"})
    BY <1>1, <1>2
  <2>2. vm.in_asic_reset = 0 /\ present = asics /\ ~ Has(todo, {"restarted"})
    BY <2>1 DEF PInv, Stage
  <2> QED BY <1>2, <2>2
<1>7. /\ Carries(todo', asics) /\ One(todo') /\ Has(todo', Settles)
      /\ \A N : Has(t, N) => Has(todo', N)
      /\ \A a \in found : First(todo', a)
      /\ \A a \in ASICS : HasFor(todo', {"restart pll"}, a)
      /\ Guarded(t) => Guarded(todo')
  <2>1. found \cap ASICS = found
    OBVIOUS
  <2> QED BY <1>2, <1>4, <1>6, <2>1, RestartFront
<1>8. /\ Unknown \in [good : SUBSET ENGINES, freq_hw : Freqs, wanted : Int]
      /\ Unknown.wanted = 0
  BY UnknownType
<1>9. Types'
  <2>1. asic' \in [ASICS -> [good : SUBSET ENGINES, freq_hw : Freqs, wanted : Int]]
    BY <1>3, <1>5, <1>8
  <2>2. vm' \in [in_asic_reset : {0, 2}, did_asic_reset : BOOLEAN, disasics : Nat, working : Nat]
    <3>1. Cardinality(present) \in Nat
      BY <1>5, Finite
    <3> QED BY <1>1, <1>5, <3>1
  <2>3. enable' \in [ASICS -> SUBSET ENGINES] /\ pll' \in [ASICS -> Int]
    BY <1>1
  <2>4. todo' \in Seq(Calls)
    BY <1>7 DEF Carries
  <2>5. present' \subseteq ASICS /\ asics' \subseteq ASICS /\ engines_down' \subseteq ASICS
    BY <1>1, <1>3, <1>4, <1>5
  <2> QED BY <2>1, <2>2, <2>3, <2>4, <2>5 DEF Types
<1>10. Stage'
  <2>1. vm'.in_asic_reset = 2 /\ vm'.working = Cardinality(asics)
    BY <1>1, <1>5, <1>6
  <2>2. ~ Has(todo', {"restart"})
    BY <1>7 DEF Carries, Has
  <2>3. present' \ asics \subseteq found
    BY <1>3, <1>6
  <2> QED BY <1>4, <1>7, <2>1, <2>2, <2>3 DEF Stage
<1>11. ASSUME NEW a \in ASICS PROVE Mended(a)' /\ Clocked(a)' /\ Asked(a)'
  <2>1. Asked(a)
    BY DEF PInv
  <2>2. Has(todo', Mends)
    BY <1>7 DEF Has, Settles, Mends
  <2>3. Mended(a)'
    BY <2>2 DEF Mended, Unmended
  <2>4. Clocked(a)'
    BY <1>7 DEF Clocked
  <2>5. Asked(a)'
    <3>1. CASE a \in lost
      <4>1. asic'[a].wanted = 0
        BY <1>3, <1>8, <3>1
      <4> QED BY <4>1 DEF Asked, SENTINEL
    <3>2. CASE a \notin lost
      <4>1. asic'[a] = asic[a]
        BY <1>3, <3>2
      <4>2. h[1] \notin {"program"} \cup Marked \cup Sets
        BY <1>1 DEF Marked, Sets
      <4>3. Has(todo, {"program"} \cup Marked) => Has(todo', {"program"} \cup Marked)
        BY <1>2, <1>7, <4>2
      <4>4. Guarded(todo) => Guarded(todo')
        BY <1>2, <1>7, <4>2, ConsGuarded
      <4> QED BY <2>1, <4>1, <4>3, <4>4 DEF Asked
    <3> QED BY <3>1, <3>2
  <2> QED BY <2>3, <2>4, <2>5
<1>12. OutOfRangeIsKnown' /\ InOrder(todo, asics)' /\ ended' = <<>>
  BY <1>4, <1>7, Runs DEF Carries
<1> QED BY <1>9, <1>10, <1>11, <1>12 DEF IInv, PInv

(* The ASICs mine again: the ones that did when mining began, for none is  *)
(* left that the restart only found, and they are as many.                 *)
LEMMA RestartedPreserves ==
  ASSUME PInv, ended = <<>>, Restarted
  PROVE  IInv'
<1> DEFINE h == Head(todo)
           t == Tail(todo)
<1>1. /\ todo # <<>> /\ h[1] = "restarted" /\ todo' = t /\ asics' = asics /\ ended' = ended
      /\ present' = present /\ engines_down' = engines_down /\ asic' = asic
      /\ enable' = enable /\ pll' = pll
      /\ vm' = [vm EXCEPT !.in_asic_reset = 0, !.did_asic_reset = TRUE, !.working = 0]
      /\ Cardinality(present) >= vm.working
  BY Rest DEF Restarted, At, Proceed, soft, hw
<1>2. /\ h \in Calls /\ t \in Seq(Calls) /\ todo = Cons(h, t) /\ Carries(t, asics)
      /\ \A N : Has(todo, N) <=> h[1] \in N \/ Has(t, N)
      /\ \A N, a : HasFor(todo, N, a) <=> (h[1] \in N /\ h[2] = a) \/ HasFor(t, N, a)
  BY <1>1, Rest
<1>3. /\ vm \in [in_asic_reset : {0, 2}, did_asic_reset : BOOLEAN, disasics : Nat, working : Nat]
      /\ asics \subseteq ASICS /\ present \subseteq ASICS
  BY DEF PInv, Types
<1> HIDE DEF h, t
<1>4. /\ vm.working = Cardinality(asics) /\ One(todo)
      /\ \A a \in present \ asics : First(todo, a)
  <2>1. Has(todo, {"restarted"})
    BY <1>1, <1>2
  <2> QED BY <2>1 DEF PInv, Stage
<1>5. present \subseteq asics
  BY <1>1, <1>2, <1>4, ConsFirst
<1>6. present = asics
  BY <1>1, <1>3, <1>4, <1>5, Finite
<1>7. Types'
  <2>1. vm' \in [in_asic_reset : {0, 2}, did_asic_reset : BOOLEAN, disasics : Nat, working : Nat]
    BY <1>1, <1>3
  <2> QED BY <1>1, <1>2, <2>1 DEF PInv, Types
<1>8. Stage'
  <2>1. vm'.in_asic_reset = 0
    BY <1>1, <1>3
  <2>2. ~ Has(t, {"restarted"})
    BY <1>1, <1>2, <1>4, ConsOne
  <2> QED BY <1>1, <1>6, <2>1, <2>2 DEF Stage
<1>9. ASSUME NEW a \in ASICS PROVE Mended(a)' /\ Clocked(a)' /\ Asked(a)'
  <2>1. Mended(a) /\ Clocked(a) /\ Asked(a)
    BY DEF PInv
  <2>2. h[1] \notin Mends \cup Marked \cup Sets
                    \cup {"program", "enable", "disable", "restart", "restart pll"}
    BY <1>1 DEF Mends, Marked, Sets
  <2>3. Mended(a)'
    BY <1>1, <1>2, <2>1, <2>2 DEF Mended, Unmended
  <2>4. Clocked(a)'
    BY <1>1, <1>2, <2>1, <2>2 DEF Clocked
  <2>5. Guarded(todo) => Guarded(t)
    BY <1>2, <2>2, ConsGuarded
  <2>6. Asked(a)'
    BY <1>1, <1>2, <2>1, <2>2, <2>5 DEF Asked
  <2> QED BY <2>3, <2>4, <2>6
<1>10. OutOfRangeIsKnown' /\ InOrder(todo, asics)' /\ ended' = <<>>
  BY <1>1, <1>2, Runs DEF Carries
<1> QED BY <1>7, <1>8, <1>9, <1>10 DEF IInv, PInv

(* The ways a call ends the process, other than by a frequency.            *)
LEMMA EndsPreserve ==
  ASSUME GoodSerialFails \/ DisableEnds \/ WaitAnyEnds \/ NotRestarted
  PROVE  IInv'
<1>1. ASSUME NEW text, Stop(<<text>>) PROVE IInv'
  <2>1. <<text>> # <<>> /\ Len(<<text>>) # 4
    OBVIOUS
  <2> QED BY <1>1, <2>1, Ends
<1>2. CASE GoodSerialFails
  BY <1>1, <1>2 DEF GoodSerialFails
<1>3. CASE DisableEnds
  BY <1>1, <1>3 DEF DisableEnds
<1>4. CASE WaitAnyEnds
  BY <1>1, <1>4 DEF WaitAnyEnds
<1>5. CASE NotRestarted
  BY <1>1, <1>5 DEF NotRestarted
<1> QED BY <1>2, <1>3, <1>4, <1>5

(* What only the hardware does, or counts, leaves the calls alone.         *)
LEMMA UnmovedPreserves ==
  ASSUME PInv, ended = <<>>, WaitAnyStuck \/ (\E a \in ASICS : LoseLock(a))
  PROVE  IInv'
<1>1. UNCHANGED <<asics, present, engines_down, asic, enable, pll, todo, ended>>
  BY DEF WaitAnyStuck, LoseLock, soft, hw
<1>2. /\ vm' \in [in_asic_reset : {0, 2}, did_asic_reset : BOOLEAN, disasics : Nat, working : Nat]
      /\ vm'.in_asic_reset = vm.in_asic_reset /\ vm'.working = vm.working
  <2>1. vm \in [in_asic_reset : {0, 2}, did_asic_reset : BOOLEAN, disasics : Nat, working : Nat]
    BY DEF PInv, Types
  <2>2. vm' = vm \/ vm' = [vm EXCEPT !.disasics = @ + 1]
    BY DEF WaitAnyStuck, LoseLock
  <2> QED BY <2>1, <2>2
<1>3. Types' /\ InOrder(todo, asics)' /\ Stage'
  <2>1. Types /\ InOrder(todo, asics) /\ Stage
    BY DEF PInv
  <2>2. Types'
    BY <1>1, <1>2, <2>1 DEF Types
  <2>3. InOrder(todo, asics)'
    BY <1>1, <2>1
  <2>4. Stage'
    BY <1>1, <1>2, <2>1 DEF Stage
  <2> QED BY <2>2, <2>3, <2>4
<1>4. ASSUME NEW a \in ASICS PROVE Mended(a)' /\ Clocked(a)' /\ Asked(a)'
  <2>1. Mended(a) /\ Clocked(a) /\ Asked(a)
    BY DEF PInv
  <2> QED BY <1>1, <2>1 DEF Mended, Clocked, Asked
<1>5. OutOfRangeIsKnown' /\ ended' = <<>>
  BY <1>1, Runs
<1> QED BY <1>3, <1>4, <1>5 DEF IInv, PInv

(* Between two calls the ASICs mine, and nothing is asked for.             *)
LEMMA Idle ==
  ASSUME PInv, todo = <<>>
  PROVE  /\ vm.in_asic_reset = 0 /\ present = asics
         /\ \A a \in ASICS :
              /\ a \in present => enable[a] = asic[a].good /\ a \notin engines_down
                                  /\ asic[a].good # {} /\ pll[a] = asic[a].freq_hw
              /\ a \notin present => enable[a] = {} /\ a \in engines_down
              /\ asic[a].wanted = 0
<1>1. \A N : ~ Has(todo, N)
  BY EmptyTodo
<1>2. \A N, a : ~ HasFor(todo, N, a)
  BY EmptyTodo
<1>3. vm.in_asic_reset = 0 /\ present = asics
  <2>1. ~ One(todo)
    BY EmptyTodo
  <2> QED BY <2>1 DEF PInv, Stage
<1>4. ASSUME NEW a \in ASICS
      PROVE  /\ a \in present => enable[a] = asic[a].good /\ a \notin engines_down
                                 /\ asic[a].good # {} /\ pll[a] = asic[a].freq_hw
             /\ a \notin present => enable[a] = {} /\ a \in engines_down
             /\ asic[a].wanted = 0
  <2>1. Mended(a) /\ Clocked(a) /\ Asked(a)
    BY DEF PInv
  <2>2. a \in present => enable[a] = asic[a].good /\ a \notin engines_down /\ asic[a].good # {}
    BY <1>1, <1>2, <2>1 DEF Mended, Unmended
  <2>3. a \in present => pll[a] = asic[a].freq_hw
    BY <1>1, <1>2, <2>1 DEF Clocked
  <2>4. a \notin present => enable[a] = {} /\ a \in engines_down
    BY <1>1, <2>1 DEF Mended
  <2>5. asic[a].wanted = 0
    BY <1>1, <2>1 DEF Asked
  <2> QED BY <2>2, <2>3, <2>4, <2>5
<1> QED BY <1>3, <1>4

(* A call alone.                                                           *)
LEMMA OneCall ==
  ASSUME NEW c \in Calls, NEW A, Counts(c, <<>>, A)
  PROVE  /\ <<c>> \in Seq(Calls) /\ InOrder(<<c>>, A)
         /\ \A N : Has(<<c>>, N) <=> c[1] \in N
         /\ \A N, a : HasFor(<<c>>, N, a) <=> c[1] \in N /\ c[2] = a
<1>1. <<>> \in Seq(Calls)
  BY EmptyTodo
<1>2. <<c>> \in Seq(Calls) /\ Cons(c, <<>>) = <<c>>
  <2>1. <<c>> \in Seq(Calls)
    OBVIOUS
  <2> QED BY <2>1, ConcatEmptySeq DEF Cons
<1>3. InOrder(Cons(c, <<>>), A)
  <2>1. InOrder(<<>>, A) /\ ~ Has(<<>>, {"restart", "set_pll"})
    BY EmptyTodo
  <2> QED BY <1>1, <2>1, ConsInOrder
<1>4. \A N : Has(Cons(c, <<>>), N) <=> c[1] \in N
  BY <1>1, ConsHas, EmptyTodo
<1>5. \A N, a : HasFor(Cons(c, <<>>), N, a) <=> c[1] \in N /\ c[2] = a
  BY <1>1, ConsHas, EmptyTodo
<1> QED BY <1>2, <1>3, <1>4, <1>5

(* What a tick may begin with.                                             *)
LEMMA Starts ==
  ASSUME PInv, NEW s \in Seq(Calls), Tick(s), InOrder(s, asics), ~ Has(s, {"restarted"}),
         asic' \in [ASICS -> [good : SUBSET ENGINES, freq_hw : Freqs, wanted : Int]],
         \A a \in ASICS :
           /\ asic'[a].freq_hw = asic[a].freq_hw
           /\ \/ asic'[a].good = asic[a].good
              \/ a \in present /\ HasFor(s, {"enable", "disable"}, a)
           /\ asic'[a].wanted = 0 \/ (asic'[a].wanted \in Freqs /\ Has(s, {"program"}))
  PROVE  IInv'
<1>1. /\ todo = <<>> /\ ended = <<>> /\ todo' = s /\ asics' = asics /\ ended' = ended
      /\ present' = present /\ engines_down' = engines_down /\ enable' = enable /\ pll' = pll
      /\ vm' = [vm EXCEPT !.did_asic_reset = FALSE]
  BY DEF Tick, hw
<1>2. /\ vm.in_asic_reset = 0 /\ present = asics
      /\ \A a \in ASICS :
           /\ a \in present => enable[a] = asic[a].good /\ a \notin engines_down
                               /\ asic[a].good # {} /\ pll[a] = asic[a].freq_hw
           /\ a \notin present => enable[a] = {} /\ a \in engines_down
  BY <1>1, Idle
<1>3. /\ vm' \in [in_asic_reset : {0, 2}, did_asic_reset : BOOLEAN, disasics : Nat, working : Nat]
      /\ vm'.in_asic_reset = vm.in_asic_reset
  <2>1. vm \in [in_asic_reset : {0, 2}, did_asic_reset : BOOLEAN, disasics : Nat, working : Nat]
    BY DEF PInv, Types
  <2> QED BY <1>1, <2>1
<1>4. Types'
  BY <1>1, <1>3 DEF PInv, Types
<1>5. Stage'
  BY <1>1, <1>2, <1>3 DEF Stage
<1>6. ASSUME NEW a \in ASICS PROVE Mended(a)' /\ Clocked(a)' /\ Asked(a)'
  <2>1. Mended(a)'
    BY <1>1, <1>2 DEF Mended, Unmended
  <2>2. Clocked(a)'
    BY <1>1, <1>2 DEF Clocked
  <2>3. asic'[a].wanted # SENTINEL
    <3>1. ASIC_FREQ_MIN \in Nat /\ ASIC_FREQ_MAX \in Nat
      BY PllsAssumption
    <3>2. \A f \in Freqs \cup {0} : f # SENTINEL
      BY <3>1 DEF Freqs, SENTINEL
    <3> QED BY <3>2
  <2>4. asic'[a].wanted # 0 => Has(s, {"program"} \cup Marked)
    <3>1. Has(s, {"program"}) => Has(s, {"program"} \cup Marked)
      BY DEF Has
    <3> QED BY <3>1
  <2>5. Asked(a)'
    BY <1>1, <2>3, <2>4 DEF Asked
  <2> QED BY <2>1, <2>2, <2>5
<1>7. OutOfRangeIsKnown' /\ InOrder(todo, asics)' /\ ended' = <<>>
  BY <1>1, Runs
<1> QED BY <1>4, <1>5, <1>6, <1>7 DEF IInv, PInv

(* The scaling asks for frequencies, and may have the BIST run.            *)
LEMMA AskedPreserves ==
  ASSUME PInv, TickBist \/ TickCooled
  PROVE  IInv'
<1> DEFINE p == <<"program">>
           b == <<"bist", TRUE>>
           g == <<"again">>
<1>1. /\ p \in Calls /\ b \in Calls /\ g \in Calls
      /\ p[1] = "program" /\ b[1] = "bist" /\ g[1] = "again"
  BY CallTypes DEF Bare
<1>2. PICK f \in Freqs, A \in SUBSET present :
        Want(A, f) /\ (Tick(<<p>> \o (<<b>> \o <<g>>)) \/ Tick(<<p>>))
  <2>1. CASE TickBist
    BY <2>1 DEF TickBist, set_plls_to_wanted, do_bist_loop, do_bist_ok
  <2>2. CASE TickCooled
    <3>1. PICK f \in Freqs, a \in present : Tick(<<p>>) /\ Want({a}, f)
      BY <2>2 DEF TickCooled, set_plls_to_wanted
    <3> QED BY <3>1
  <2> QED BY <2>1, <2>2
<1>3. /\ asic' \in [ASICS -> [good : SUBSET ENGINES, freq_hw : Freqs, wanted : Int]]
      /\ \A a \in ASICS : /\ asic'[a].freq_hw = asic[a].freq_hw /\ asic'[a].good = asic[a].good
                          /\ asic'[a].wanted = asic[a].wanted \/ asic'[a].wanted = f
  <2>1. /\ asic \in [ASICS -> [good : SUBSET ENGINES, freq_hw : Freqs, wanted : Int]]
    BY DEF PInv, Types
  <2>2. f \in Int
    BY DEF Freqs
  <2>3. asic' = [a \in ASICS |-> IF a \in A THEN [asic[a] EXCEPT !.wanted = f] ELSE asic[a]]
    BY <1>2 DEF Want
  <2> QED BY <2>1, <2>2, <2>3
<1>4. /\ todo = <<>> /\ \A a \in ASICS : asic[a].wanted = 0
  <2>1. todo = <<>>
    BY <1>2 DEF Tick
  <2> QED BY <2>1, Idle
<1>5. \A s : Counts(p, s, asics) /\ Counts(b, s, asics) /\ Counts(g, s, asics)
  BY <1>1 DEF Counts
<1> HIDE DEF p, b, g
<1>6. ASSUME NEW s \in Seq(Calls), Tick(s), InOrder(s, asics), ~ Has(s, {"restarted"}),
             Has(s, {"program"})
      PROVE  IInv'
  BY <1>3, <1>4, <1>6, Starts
<1>7. CASE Tick(<<p>>)
  <2>1. <<p>> \in Seq(Calls) /\ InOrder(<<p>>, asics) /\ \A N : Has(<<p>>, N) <=> p[1] \in N
    BY <1>1, <1>5, OneCall
  <2>2. Has(<<p>>, {"program"}) /\ ~ Has(<<p>>, {"restarted"})
    BY <1>1, <2>1
  <2> QED BY <1>6, <1>7, <2>1, <2>2
<1>8. CASE Tick(<<p>> \o (<<b>> \o <<g>>))
  <2> DEFINE r == Cons(b, <<g>>)
             s == Cons(p, r)
  <2>1. Tick(s)
    BY <1>8 DEF Cons
  <2>2. <<g>> \in Seq(Calls) /\ InOrder(<<g>>, asics) /\ \A N : Has(<<g>>, N) <=> g[1] \in N
    BY <1>1, <1>5, OneCall
  <2>3. /\ r \in Seq(Calls) /\ InOrder(r, asics)
        /\ \A N : Has(r, N) <=> b[1] \in N \/ g[1] \in N
    <3>1. ~ Has(<<g>>, {"restart", "set_pll"})
      BY <1>1, <2>2
    <3> QED BY <1>1, <1>5, <2>2, <3>1, ConsSeq, ConsHas, ConsInOrder
  <2> HIDE DEF r
  <2>4. /\ s \in Seq(Calls) /\ InOrder(s, asics)
        /\ \A N : Has(s, N) <=> p[1] \in N \/ Has(r, N)
    <3>1. ~ Has(r, {"restart", "set_pll"})
      BY <1>1, <2>3
    <3> QED BY <1>1, <1>5, <2>3, <3>1, ConsSeq, ConsHas, ConsInOrder
  <2> HIDE DEF s
  <2>5. Has(s, {"program"}) /\ ~ Has(s, {"restarted"})
    BY <1>1, <2>3, <2>4
  <2> QED BY <1>6, <2>1, <2>4, <2>5
<1> QED BY <1>2, <1>7, <1>8

(* A tick that begins with one call about an ASIC that mines, or with a    *)
(* restart.                                                                *)
LEMMA OneCallPreserves ==
  ASSUME PInv, TickTooHot \/ TickUp \/ TickLazy \/ TickBadEngine \/ TickRestart
  PROVE  IInv'
<1>1. asic \in [ASICS -> [good : SUBSET ENGINES, freq_hw : Freqs, wanted : Int]]
  BY DEF PInv, Types
<1>2. todo = <<>>
  BY DEF TickTooHot, TickUp, TickLazy, TickBadEngine, TickRestart, Tick
<1>3. present = asics /\ present \subseteq ASICS /\ \A a \in ASICS : asic[a].wanted = 0
  BY <1>2, Idle DEF PInv, Types
<1>4. ASSUME NEW c \in Calls, Tick(<<c>>), c[1] # "restarted", Counts(c, <<>>, asics),
             \/ asic' = asic
             \/ \E e \in ENGINES : /\ asic' = [asic EXCEPT ![c[2]].good = @ \ {e}]
                                   /\ c[1] = "enable" /\ c[2] \in present
      PROVE  IInv'
  <2>1. /\ <<c>> \in Seq(Calls) /\ InOrder(<<c>>, asics)
        /\ \A N : Has(<<c>>, N) <=> c[1] \in N
        /\ \A N, a : HasFor(<<c>>, N, a) <=> c[1] \in N /\ c[2] = a
    BY <1>4, OneCall
  <2>2. ~ Has(<<c>>, {"restarted"})
    BY <1>4, <2>1
  <2>3. /\ asic' \in [ASICS -> [good : SUBSET ENGINES, freq_hw : Freqs, wanted : Int]]
        /\ \A a \in ASICS :
             /\ asic'[a].freq_hw = asic[a].freq_hw /\ asic'[a].wanted = asic[a].wanted
             /\ asic'[a].good = asic[a].good
                \/ (a \in present /\ c[1] = "enable" /\ c[2] = a)
    <3>1. CASE asic' = asic
      BY <1>1, <3>1
    <3>2. CASE \E e \in ENGINES : /\ asic' = [asic EXCEPT ![c[2]].good = @ \ {e}]
                                  /\ c[1] = "enable" /\ c[2] \in present
      <4>1. PICK e \in ENGINES : asic' = [asic EXCEPT ![c[2]].good = @ \ {e}]
        BY <3>2
      <4>2. c[1] = "enable" /\ c[2] \in present
        BY <3>2
      <4> QED BY <1>1, <1>3, <4>1, <4>2
    <3> QED BY <1>4, <3>1, <3>2
  <2>4. \A a \in ASICS :
          asic'[a].good = asic[a].good
          \/ (a \in present /\ HasFor(<<c>>, {"enable", "disable"}, a))
    BY <2>1, <2>3
  <2> QED BY ZenonT(40), <1>3, <1>4, <2>1, <2>2, <2>3, <2>4, Starts
<1>5. ASSUME NEW a \in present, NEW f \in Int, f % 5 = 0, Tick(<<<<"set_pll", a, f>>>>),
             asic' = asic
      PROVE  IInv'
  <2> DEFINE c == <<"set_pll", a, f>>
  <2>1. c \in Calls /\ c[1] = "set_pll" /\ c[2] = a
    BY <1>3, <1>5, CallTypes
  <2>2. Len(<<>>) = 0
    OBVIOUS
  <2>3. Counts(c, <<>>, asics)
    BY <1>3, <2>1, <2>2 DEF Counts
  <2> HIDE DEF c
  <2>4. Tick(<<c>>)
    BY <1>5 DEF c
  <2> QED BY <1>4, <1>5, <2>1, <2>3, <2>4
<1>6. CASE TickTooHot
  <2>1. ASIC_FREQ_MIN \in Int /\ ASIC_FREQ_MIN % 5 = 0
    BY PllsAssumption
  <2> QED BY <1>5, <1>6, <2>1 DEF TickTooHot, set_pll
<1>7. CASE TickUp
  <2>1. PICK a \in present : Tick(<<<<"set_pll", a, asic[a].freq_hw + 5>>>>) /\ asic' = asic
    BY <1>7 DEF TickUp, set_pll
  <2>2. asic[a].freq_hw + 5 \in Int /\ (asic[a].freq_hw + 5) % 5 = 0
    <3>1. asic[a].freq_hw \in Freqs
      BY <1>1, <1>3
    <3>2. asic[a].freq_hw \in Int /\ asic[a].freq_hw % 5 = 0
      BY <3>1 DEF Freqs
    <3> QED BY <3>2
  <2> QED BY <1>5, <2>1, <2>2
<1>8. CASE TickLazy
  <2>1. PICK a \in present : Tick(<<<<"disable", a>>>>) /\ asic' = asic
    BY <1>8 DEF TickLazy, disable_asic_forever
  <2> DEFINE c == <<"disable", a>>
  <2>2. c \in Calls /\ c[1] = "disable"
    BY <1>3, CallTypes DEF OfAsic
  <2>3. Counts(c, <<>>, asics)
    BY <2>2 DEF Counts
  <2> HIDE DEF c
  <2>4. Tick(<<c>>)
    BY <2>1 DEF c
  <2> QED BY <1>4, <2>1, <2>2, <2>3, <2>4
<1>9. CASE TickBadEngine
  <2>1. PICK a \in present, e \in ENGINES :
          Tick(<<<<"enable", a>>>>) /\ asic' = [asic EXCEPT ![a].good = @ \ {e}]
    BY <1>9 DEF TickBadEngine, enable_engines_asic
  <2> DEFINE c == <<"enable", a>>
  <2>2. c \in Calls /\ c[1] = "enable" /\ c[2] = a
    BY <1>3, CallTypes DEF OfAsic
  <2>3. Counts(c, <<>>, asics)
    BY <1>3, <2>2, EmptyTodo DEF Counts
  <2> HIDE DEF c
  <2>4. Tick(<<c>>)
    BY <2>1 DEF c
  <2>5. asic' = [asic EXCEPT ![c[2]].good = @ \ {e}]
    BY <2>1, <2>2
  <2> QED BY <1>4, <2>2, <2>3, <2>4, <2>5
<1>10. CASE TickRestart
  <2> DEFINE c == <<"restart">>
  <2>1. c \in Calls /\ c[1] = "restart"
    BY CallTypes DEF Bare
  <2>2. Counts(c, <<>>, asics)
    BY <2>1 DEF Counts
  <2> HIDE DEF c
  <2>3. Tick(<<c>>) /\ asic' = asic
    BY <1>10 DEF TickRestart, restart_asics_full, c
  <2> QED BY <1>4, <2>1, <2>2, <2>3
<1> QED BY <1>6, <1>7, <1>8, <1>9, <1>10

(* Once the process has ended, nothing moves.                              *)
LEMMA EndedPreserves ==
  ASSUME IInv, ended # <<>>, Next
  PROVE  FALSE
<1>1. todo = <<>>
  BY DEF IInv
<1>2. \A name : ~ At(name)
  BY <1>1 DEF At
<1>3. ~ Step
  <2>1. ~ (None \/ SquidWait \/ GoodReady \/ GoodTries \/ GoodDisables \/ GoodRestarts
           \/ GoodSerialFails \/ JudgePassed \/ JudgeEvil \/ FailedSlower \/ FailedDropsEngines)
    BY <1>2 DEF None, SquidWait, GoodReady, GoodTries, GoodDisables, GoodRestarts, GoodNotReady,
         GoodSerialFails, JudgePassed, JudgeEvil, FailedSlower, FailedDropsEngines, JudgeFailed
  <2>2. ~ (DropEngines \/ BistStart \/ BistAgain \/ DisableAbsent \/ DisableMining
           \/ DisableForever \/ DisableEnds \/ WaitReady \/ WaitStuck \/ WaitLostAddress)
    BY <1>2 DEF DropEngines, BistStart, BistAgain, DisableAbsent, DisableMining, DisableForever,
         DisableEnds, Disasic, WaitReady, WaitStuck, WaitLostAddress, Waiting
  <2>3. ~ (WaitAnyReady \/ WaitAnyStuck \/ WaitAnyEnds \/ WaitAnyLostAddress \/ SetNothing
           \/ SetWanted \/ WantedOutOfRange \/ PollPlls \/ WaitWanted \/ EnableWanted)
    BY <1>2 DEF WaitAnyReady, WaitAnyStuck, WaitAnyEnds, WaitAnyLostAddress, AnyStuck, SetNothing,
         SetWanted, WantedOutOfRange, PollPlls, WaitWanted, EnableWanted, Enabled
  <2>4. ~ (SetPll \/ RestartPllAbsent \/ EnableEngines \/ Restart \/ Restarted \/ NotRestarted)
    BY <1>2 DEF SetPll, RestartPllAbsent, EnableEngines, Restart, Restarted, NotRestarted
  <2> QED BY <2>1, <2>2, <2>3, <2>4 DEF Step
<1>4. \A s : ~ Tick(s)
  BY DEF Tick
<1>5. ~ (TickBist \/ TickCooled \/ TickTooHot \/ TickUp \/ TickLazy \/ TickBadEngine
         \/ TickRestart)
  BY <1>4 DEF TickBist, TickCooled, TickTooHot, TickUp, TickLazy, TickBadEngine, TickRestart
<1>6. \A a \in ASICS : ~ LoseLock(a)
  BY <1>2 DEF LoseLock, Waiting
<1> QED BY <1>3, <1>5, <1>6 DEF Next

(* Every step keeps the invariant.                                         *)
LEMMA NextIInv == IInv /\ [Next]_vars => IInv'
<1> SUFFICES ASSUME IInv, [Next]_vars PROVE IInv'
  OBVIOUS
<1>1. CASE UNCHANGED vars
  <2>1. /\ asics' = asics /\ present' = present /\ engines_down' = engines_down /\ asic' = asic
        /\ enable' = enable /\ pll' = pll /\ vm' = vm /\ todo' = todo /\ ended' = ended
    BY <1>1 DEF vars, hw
  <2>2. OutOfRangeIsKnown'
    BY <2>1 DEF IInv, OutOfRangeIsKnown
  <2>3. ASSUME PInv PROVE PInv'
    <3>1. Types' /\ InOrder(todo, asics)' /\ Stage'
      BY <2>1, <2>3 DEF PInv, Types, Stage
    <3>2. ASSUME NEW a \in ASICS PROVE Mended(a)' /\ Clocked(a)' /\ Asked(a)'
      <4>1. Mended(a) /\ Clocked(a) /\ Asked(a)
        BY <2>3 DEF PInv
      <4> QED BY <2>1, <4>1 DEF Mended, Clocked, Asked
    <3> QED BY <3>1, <3>2 DEF PInv
  <2> QED BY <2>1, <2>2, <2>3 DEF IInv
<1>2. CASE Next
  <2>1. ended = <<>> /\ PInv
    BY <1>2, EndedPreserves DEF IInv
  <2>2. CASE Step
    <3>1. CASE SquidWait
      <4>1. CASE At("squid wait") /\ Proceed(<<>>) /\ UNCHANGED <<soft, hw, vm, failed>>
        BY <2>1, <4>1, EndingPreserves
      <4>2. CASE At("squid wait") /\ CallRestart(<<>>)
        BY <2>1, <4>2, RestartingPreserves
      <4> QED BY <3>1, <4>1, <4>2 DEF SquidWait
    <3>2. CASE None \/ WaitReady \/ WaitAnyReady \/ JudgePassed \/ RestartPllAbsent
      BY <2>1, <3>2, EndingPreserves
    <3>3. CASE WaitLostAddress \/ WaitAnyLostAddress \/ GoodRestarts
      <4>1. \E rest : rest = <<>>
        OBVIOUS
      <4> QED BY <2>1, <3>3, <4>1, RestartingPreserves
    <3>4. CASE \/ JudgeEvil \/ WaitWanted \/ WaitStuck \/ GoodTries \/ GoodDisables
               \/ FailedDropsEngines \/ BistAgain
      BY <2>1, <3>4, LeadingPreserves
    <3>5. CASE GoodSerialFails \/ DisableEnds \/ WaitAnyEnds \/ NotRestarted
      BY <3>5, EndsPreserve
    <3>6. CASE DisableAbsent \/ DisableMining
      BY <2>1, <3>6, DisablePreserves
    <3>7. CASE SetNothing \/ SetWanted \/ WantedOutOfRange \/ PollPlls \/ EnableWanted \/ SetPll
      BY <2>1, <3>7, NothingPreserves, WantedPreserves, OutOfRangePreserves, PollPreserves,
         EnableWantedPreserves, SetPllPreserves
    <3>8. CASE \/ GoodReady \/ FailedSlower \/ DropEngines \/ BistStart \/ DisableForever
               \/ EnableEngines \/ Restart \/ Restarted
      BY <2>1, <3>8, GoodReadyPreserves, SlowerPreserves, DropPreserves, BistPreserves,
         ForeverPreserves, EnablePreserves, RestartPreserves, RestartedPreserves
    <3>9. CASE WaitAnyStuck
      BY <2>1, <3>9, UnmovedPreserves
    <3> QED BY <2>2, <3>1, <3>2, <3>3, <3>4, <3>5, <3>6, <3>7, <3>8, <3>9 DEF Step
  <2>3. CASE TickBist \/ TickCooled
    BY <2>1, <2>3, AskedPreserves
  <2>4. CASE TickTooHot \/ TickUp \/ TickLazy \/ TickBadEngine \/ TickRestart
    BY <2>1, <2>4, OneCallPreserves
  <2>5. CASE \E a \in ASICS : LoseLock(a)
    BY <2>1, <2>5, UnmovedPreserves
  <2> QED BY <1>2, <2>2, <2>3, <2>4, <2>5 DEF Next
<1> QED BY <1>1, <1>2

(* Whatever a call ran into, between two calls the ASICs of the beginning  *)
(* mine with their good engines on the noted frequency (pll.c, and         *)
(* miner_gate.c:1594 for the restart).                                     *)
THEOREM MiningEnginesHold == Spec => []MiningEngines
<1>1. IInv => MiningEngines
  BY IInvImplies
<1> QED BY <1>1, InitIInv, NextIInv, PTL DEF Spec

(* The passert on the frequency (pll.c:504) fails in the two known ways    *)
(* only.                                                                   *)
THEOREM OutOfRangeIsKnownHolds == Spec => []OutOfRangeIsKnown
<1>1. IInv => OutOfRangeIsKnown
  BY IInvImplies
<1> QED BY <1>1, InitIInv, NextIInv, PTL DEF Spec
=============================================================================
