------------------------------ MODULE MCScramLogin ------------------------------
(***************************************************************************)
(* Values of the constants of ScramLogin for TLC: an int has 16 values,    *)
(* -8 to 7, and the least iteration count is 4.                            *)
(***************************************************************************)
EXTENDS ScramLogin

ScramOnly == {"SCRAM"}
Salty == {"A", "short"}
OnePassword == {"pencil"}
TwoPasswords == {"pencil", "crayon"}
StepFaults == {"step"}

(* The least count, one less, and two that become the least one as an int. *)
SomeCounts == {-12, 3, 4, 20}
GoodCounts == {4, 5}
================================================================================
