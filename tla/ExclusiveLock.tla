--------------------------- MODULE ExclusiveLock ---------------------------
(***************************************************************************)
(* What opkg_cmd.h:37 promises of a privileged command: "command requires  *)
(* exclusive lock".  A process gets in while nobody is, is turned away     *)
(* only while somebody is, and leaves for good.                            *)
(***************************************************************************)
CONSTANT Proc

VARIABLE phase

Occupied == \E q \in Proc : phase[q] = "in"

Init == phase = [p \in Proc |-> "out"]

Move(p, from, to) == phase[p] = from /\ phase' = [phase EXCEPT ![p] = to]

Enter(p)  == ~Occupied /\ Move(p, "out", "in")
Refuse(p) == Occupied /\ Move(p, "out", "refused")
Leave(p)  == Move(p, "in", "gone")
GiveUp(p) == Move(p, "out", "gone")

Next == \E p \in Proc : Enter(p) \/ Refuse(p) \/ Leave(p) \/ GiveUp(p)

Spec == Init /\ [][Next]_phase
=============================================================================
