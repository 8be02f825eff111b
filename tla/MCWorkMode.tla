----------------------------- MODULE MCWorkMode -----------------------------
(* WorkMode with a few files of a user: limits at both ends, between the   *)
(* ranges and above the caps of the supplies, start voltages on both sides *)
(* of 660; and a few pairs of supplies, one of them hidden by the flag.    *)
EXTENDS WorkMode

File(top, bottom, start_top, start_bottom) ==
  [limit |-> <<top, bottom>>, start |-> <<start_top, start_bottom>>]
Pair(s) == [p \in 0 .. 1 |-> s[p + 1]]
MCUserFiles ==
  {[limit |-> Pair(f.limit), start |-> Pair(f.start), max |-> 797] :
     f \in {File(1565, 70, 690, 640), File(1275, 1305, 640, 700),
            File(800, 1275, 700, 690)}}
MCMachines ==
  {[fitted |-> Pair(<<"EMERSON_1_6", bottom>>),
    generic |-> [p \in 0 .. 1 |-> p = 0 /\ bottom = "EMERSON_1_2"]] :
     bottom \in {"MURATA_NEW", "EMERSON_1_2"}}
=============================================================================
