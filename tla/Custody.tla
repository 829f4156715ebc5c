------------------------------- MODULE Custody -------------------------------
(***************************************************************************)
(* What a stable-value wrapper promises its users: whatever form their     *)
(* value is in (wrapped, waiting to be paid out, or outside), it is theirs *)
(* until they transfer it to one another.                                  *)
(***************************************************************************)
EXTENDS Integers

CONSTANTS
  Users,
  Deposits    \* what each user starts with

VARIABLE value

Init == value = Deposits

\* One user gives another some of what it has.
Transfer(from, to, x) ==
  value' = [value EXCEPT ![from] = @ - x, ![to] = @ + x]

Next ==
  \E from, to \in Users : from # to /\ \E x \in 0 .. value[from] : Transfer(from, to, x)

Spec == Init /\ [][Next]_value
=============================================================================
