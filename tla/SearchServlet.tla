---------------------------- MODULE SearchServlet ----------------------------
(***************************************************************************)
(* The server's doPost(): store the report (JsonDataToMysql, statement by  *)
(* statement), look the machine up in the directive file, answer.  The     *)
(* file is opened for every reply, and rewritten meanwhile by whoever      *)
(* directs the machines, who is no part of the program.                    *)
(*                                                                         *)
(* Abstracted: the text around the directive.  The file is read at once:   *)
(* it is shorter than the 8192 bytes an InputStreamReader asks for.        *)
(***************************************************************************)
EXTENDS JsonDataToMysql, SequencesExt

CONSTANTS
  Image,      \* the docker addresses that are directed
  Null,       \* the answer "null"
  Absent,     \* a member that an entry lacks
  Files,      \* the contents the directive file is given
  MaxWrites   \* bound: rewritings of the file

(***************************************************************************)
(* The file: its entries, or one whose JSON is cut short, or none at all.  *)
(* An entry without "server id" (or "response") has the id Absent.         *)
(***************************************************************************)
Entry == [id : Id \cup {NoId, Absent}, response : {0, 1},
          address : Image \cup {Absent}]
File  == [kind : {"whole", "torn", "missing"}, entries : Seq(Entry)]
Torn  == [kind |-> "torn", entries |-> <<>>]

Directive == Image \cup {Null}
Pending   == "pending"     \* not answered yet
Error     == "error page"  \* what Jetty answers for a handler that throws

ASSUME ServletAssumption ==
  /\ Files \subseteq File
  /\ MaxWrites \in Nat
  /\ {Null, Absent, Pending, Error} \cap Image = {}
  /\ Null \notin {Absent, Pending, Error}
  /\ Absent \notin {Pending, Error}

VARIABLES
  file,      \* dockerResponse.json
  writes,    \* rewritings so far
  result,    \* result[r]: the directive in r's `result', once there is one
  reply,     \* reply[r]: Pending, Error or a directive
  since      \* history: contents of the file from r's receipt to its result

servlet == <<file, writes, result, reply, since>>
allvars == <<vars, servlet>>

ServletTypeOK ==
  /\ file \in Files \cup {Torn}
  /\ writes \in 0 .. MaxWrites
  /\ result \in [Request -> Directive \cup {Pending}]
  /\ reply \in [Request -> Directive \cup {Pending, Error}]
  /\ since \in [Request -> SUBSET (Files \cup {Torn})]

ServletInit ==
  /\ Init
  /\ file \in Files
  /\ writes = 0
  /\ result = [r \in Request |-> Pending]
  /\ reply = [r \in Request |-> Pending]
  /\ since = [r \in Request |-> {}]

-----------------------------------------------------------------------------
\* Mutants: `serverId == macId' is left out; a missing address is passed on.
ChosenForAll(e, i) == e.id # Absent /\ e.response = 1
LacksId(e)         == e.id = Absent

\* The entry that ends the loop for the machine i.
Chosen(e, i) == e.id = i /\ e.response = 1

\* get(...) is null, and getAs...() raises a NullPointerException.
Lacks(e) == Absent \in {e.id, e.address}

\* getDockerResponse on the contents f: the address of the first entry that
\* is chosen; Error where the file cannot be parsed, an entry before it lacks
\* a member, or it has no address itself.
DockerResponse(f, i) ==
  LET stops == {k \in DOMAIN f.entries :
                  f.entries[k].id = Absent \/ Chosen(f.entries[k], i)}
      e == f.entries[CHOOSE k \in stops : \A j \in stops : k <= j]
  IN  CASE f.kind # "whole" -> Error
        [] f.kind = "whole" /\ stops = {} -> Null
        [] OTHER -> IF Lacks(e) THEN Error ELSE e.address

\* A request reaches doPost.
DoPost(r) ==
  /\ Receive(r)
  /\ since' = [since EXCEPT ![r] = {file}]
  /\ UNCHANGED <<file, writes, result, reply>>

\* Mutants of StoreReturns: a handler that throws goes on; one whose insert
\* failed does not.
StoreEnds(r)     == pc[r] \in Finished
StoreSucceeds(r) == pc[r] = "stored"

\* jsonToMysql(data) returns, with whatever came of the report.
StoreReturns(r) == pc[r] \in {"stored", "caught"}

\* result += "\n" + getDockerResponse(macId).
GetDockerResponse(r) ==
  /\ StoreReturns(r)
  /\ result[r] = Pending /\ reply[r] = Pending
  /\ LET x == DockerResponse(file, macId[r])
     IN  IF x = Error
           THEN reply' = [reply EXCEPT ![r] = Error] /\ UNCHANGED result
           ELSE result' = [result EXCEPT ![r] = x] /\ UNCHANGED reply
  /\ UNCHANGED <<vars, file, writes, since>>

\* Tools.printToJson(result, response).
PrintToJson(r) ==
  /\ result[r] # Pending /\ reply[r] = Pending
  /\ reply' = [reply EXCEPT ![r] = result[r]]
  /\ UNCHANGED <<vars, file, writes, result, since>>

\* What jsonToMysql throws, doPost throws.
StoreThrows(r) ==
  /\ pc[r] = "thrown" /\ reply[r] = Pending /\ result[r] = Pending
  /\ reply' = [reply EXCEPT ![r] = Error]
  /\ UNCHANGED <<vars, file, writes, result, since>>

\* The file is written, truncated first or, by a careful writer, replaced.
WriteFile ==
  /\ \/ /\ writes < MaxWrites
        /\ writes' = writes + 1
        /\ file' \in (Files \cup {Torn}) \ {file}
     \/ /\ file = Torn
        /\ file' \in Files
        /\ UNCHANGED writes
  /\ since' = [r \in Request |->
                 IF pc[r] # "idle" /\ result[r] = Pending /\ reply[r] = Pending
                   THEN since[r] \cup {file'} ELSE since[r]]
  /\ UNCHANGED <<vars, result, reply>>

\* One step of the Jetty thread that handles r.
Handle(r) ==
  \/ JsonToMysql(r) /\ UNCHANGED servlet
  \/ GetDockerResponse(r)
  \/ PrintToJson(r)
  \/ StoreThrows(r)

ServletNext ==
  \/ \E r \in Request : DoPost(r) \/ Handle(r)
  \/ \E c \in Conn : DropConnection(c) /\ UNCHANGED servlet
  \/ WriteFile

ServletSpec == ServletInit /\ [][ServletNext]_allvars

\* Jetty's threads are scheduled, JDBC calls and file reads come back.
ServletFairSpec ==
  ServletSpec /\ \A r \in Request : WF_allvars(Handle(r))

-----------------------------------------------------------------------------
\* The id under which r is looked up: a body that is no JSON leaves macId 0.
AskedFor(r) == IF data[r].kind = "report" THEN data[r].id ELSE NoId

Directs(f, i, x) ==
  \E k \in DOMAIN f.entries :
    f.entries[k] = [id |-> i, response |-> 1, address |-> x]

\* An answer tells a machine what the file directed for that very machine at
\* some moment since its report came in, however long the statements took and
\* however the file was rewritten meanwhile; "null" only if at some moment
\* nothing was.
AnswerCurrent ==
  \A r \in Request :
    /\ reply[r] \in Image => \E f \in since[r] : Directs(f, AskedFor(r), reply[r])
    /\ reply[r] = Null =>
         \E f \in since[r] : f.kind = "whole" /\
           ~\E x \in Image : Directs(f, AskedFor(r), x)

\* The client takes any answer for "stored".  That is so as long as no
\* statement is refused and no connection dropped: what insertData throws, and
\* a server that is out of connections, never end in an answer.
AnswerVouches ==
  \A r \in Request :
    reply[r] \in Directive /\ data[r].kind = "report" /\ faults = 0 =>
      Succeeded(r)

\* Every POST gets an answer or an error page.
EveryPostAnswered ==
  \A r \in Request : pc[r] = "getConnect" ~> reply[r] # Pending
=============================================================================
