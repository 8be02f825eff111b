----------------------------- MODULE JobWindow -----------------------------
(***************************************************************************)
(* What the real-time queue promises its callers: a window on the most     *)
(* recent Size jobs, in the order they were added.  Adding to a full       *)
(* window hands back its oldest job; releasing hands back the oldest job.  *)
(***************************************************************************)
EXTENDS Naturals, Sequences

CONSTANTS Size, Jobs, NoJob

VARIABLES
  window,   \* the jobs in the window, oldest first
  out       \* the job the last operation handed back, or NoJob

Init == window = <<>> /\ out = NoJob

(* The window has room: nothing leaves it.                                 *)
Accept(j) ==
  /\ Len(window) < Size
  /\ window' = Append(window, j)
  /\ out' = NoJob

(* The window is full: the oldest job makes room.                          *)
Displace(j) ==
  /\ Len(window) = Size
  /\ window' = Append(Tail(window), j)
  /\ out' = Head(window)

Release ==
  /\ window # <<>>
  /\ window' = Tail(window)
  /\ out' = Head(window)

Next == (\E j \in Jobs : Accept(j) \/ Displace(j)) \/ Release

Spec == Init /\ [][Next]_<<window, out>>
=============================================================================
