----------------------------- MODULE PkgRecords -----------------------------
(***************************************************************************)
(* What the package database promises of the packages it has on record: a  *)
(* command changes the records of the packages it is about and no others,  *)
(* at most one version of a name is in place, what a command has written   *)
(* is what the next one finds, and one that dies changes nothing.          *)
(***************************************************************************)
CONSTANTS Names

VARIABLES
  current,  \* the records as the running command, or the next one, sees them
  saved     \* the records as the last command that ended well left them

Of(records, n) == {r \in records : r.name = n}

InPlaceOf(records, n) == {r \in Of(records, n) : r.status \in {"installed", "unpacked"}}

Init == current = saved

OnlyOf(n, before, after) ==
  /\ \A m \in Names \ {n} : Of(after, m) = Of(before, m)
  /\ \A r, s \in InPlaceOf(after, n) : r = s

Change == LET before == current
              after  == current'
          IN  (\E n \in Names : OnlyOf(n, before, after)) /\ UNCHANGED saved

Save == saved' = current /\ UNCHANGED current

Die == current' = saved /\ UNCHANGED saved

Next == Change \/ Save \/ Die

Spec == Init /\ [][Next]_<<current, saved>>
=============================================================================
