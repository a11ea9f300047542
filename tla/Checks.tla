---------------------------------- MODULE Checks ----------------------------------
(***************************************************************************)
(* A function that returns a Result runs its checks in order and leaves    *)
(* with the error of the first one that fails: checks is the sequence of   *)
(* <<condition, error>>.                                                   *)
(***************************************************************************)
EXTENDS Naturals

Verdict(checks) ==
  LET failed == {i \in DOMAIN checks : ~checks[i][1]} IN
  IF failed = {}
  THEN "Ok"
  ELSE checks[CHOOSE i \in failed : \A j \in failed : i <= j][2]
===================================================================================
