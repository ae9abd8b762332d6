--------------------------- MODULE MCSearchServlet ---------------------------
(* Small instances of SearchServlet for TLC. *)
EXTENDS SearchServlet, MCJsonDataToMysql

CONSTANTS img1, img2

\* A report, one without the sections insertData needs, a body cut short.
Bodies ==
  LET report == [kind |-> "report", id |-> m1, cpus |-> 1, nets |-> TRUE,
                 dockers |-> 0]
  IN  {report, [report EXCEPT !.cpus = 0], [report EXCEPT !.kind = "malformed"]}

To(i, response, x) == [id |-> i, response |-> response, address |-> x]
Contents(entries) == [kind |-> "whole", entries |-> entries]

\* The machine is directed, after a withdrawn entry of its own and another's;
\* only id 0 is; entries with members missing; no file.
SomeFiles ==
  {Contents(<<To(m2, 1, img2), To(m1, 0, img2), To(m1, 1, img1), To(m1, 1, img2)>>),
   Contents(<<To(NoId, 1, img2)>>),
   Contents(<<To(m1, 1, Absent), To(Absent, 0, img1)>>),
   [kind |-> "missing", entries |-> <<>>]}

\* A file that directs the machine, and none.
TwoFiles ==
  {Contents(<<To(m1, 1, img1)>>), [kind |-> "missing", entries |-> <<>>]}

TwoImages == {img1, img2}
OneImage  == {img1}
=============================================================================
