-------------------------- MODULE MCJsonDataToMysql --------------------------
(* Small instances of JsonDataToMysql for TLC. *)
EXTENDS JsonDataToMysql, TLC

CONSTANTS m1, m2

Report(i, c, d) == [kind |-> "report", id |-> i, cpus |-> c, nets |-> TRUE,
                    dockers |-> d]

\* Two machines; a container of the first one comes or goes.
TwoMachines == {Report(m1, 1, 1), Report(m1, 1, 0), Report(m2, 1, 0)}

\* One machine's reports, with every way a body can fail to be stored.
OneMachine ==
  {Report(m1, 2, 0), [Report(m1, 0, 1) EXCEPT !.nets = FALSE],
   [Report(m1, 1, 0) EXCEPT !.kind = "malformed"],
   [Report(m1, 1, 0) EXCEPT !.kind = "empty"]}

Symmetry == Permutations(Request)
=============================================================================
