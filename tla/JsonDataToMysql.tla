--------------------------- MODULE JsonDataToMysql ---------------------------
(***************************************************************************)
(* The server's store: SearchServlet.jsonToMysql(), which every POST runs  *)
(* on a Jetty thread of its own, and the class JsonDataToMysql it calls.   *)
(*                                                                         *)
(* Nothing serialises the handlers.  They share the static field `con' and *)
(* the three MySQL tables; no connection turns auto-commit off, so every   *)
(* JDBC statement is a transaction, and a step here, of its own.           *)
(*                                                                         *)
(* Abstracted: the columns.  A row is the id it is stored under, the       *)
(* request that wrote it and its place in that request's JSON array.       *)
(***************************************************************************)
EXTENDS Integers, FiniteSets

CONSTANTS
  Request,    \* the POSTs, each handled by one call of jsonToMysql
  Id,         \* machine ids ("mac address info"[0].id)
  NoId,       \* the 0 that insertData returns when it read no id
  Payloads,   \* the bodies that are sent, see Payload
  MaxConn,    \* bound: connections MySQL grants (none is ever closed)
  MaxFaults   \* bound: statements refused and connections dropped by MySQL

Table == {"serverinfo", "dockerinfo", "cpuinfo"}

(***************************************************************************)
(* What getBodyData hands over.  A "report" is the client's data_to_json:  *)
(* memory, disk, mac, location and timestamp sections always have one      *)
(* element; "cpu info" is missing when cpus = 0, "network info" when nets  *)
(* is FALSE, "docker info" when dockers = 0.  A "malformed" body is one    *)
(* that was cut short; an "empty" one is "" or null.                       *)
(***************************************************************************)
Payload == [kind : {"report", "malformed", "empty"}, id : Id,
            cpus : Nat, nets : BOOLEAN, dockers : Nat]

ASSUME StoreAssumption ==
  /\ NoId \notin Id
  /\ Payloads \subseteq Payload
  /\ MaxConn \in Nat
  /\ MaxFaults \in Nat

NoConn == 0
Conn == 1 .. MaxConn
Row == [id : Id, by : Request, n : Nat]

Finished == {"stored", "caught", "thrown"}
Stage == {"idle", "getConnect", "assignCon", "gotConnect", "parse",
          "deleteServer", "deleteDocker", "deleteCpu", "sections",
          "insertServer", "insertCpu", "insertDocker"} \cup Finished

VARIABLES
  con,      \* static Connection con
  opened,   \* connections granted so far; they are numbered in that order
  alive,    \* connections MySQL still serves
  table,    \* the three tables
  faults,   \* faults injected so far
  data,     \* data[r]: the body of r
  pc,       \* pc[r]: where the handler of r stands
  conn,     \* conn[r]: the parameter con of its insertData
  idx,      \* idx[r][t]: loop variable i of the insert loop of t
  macId,    \* macId[r]: local variable, and result, of insertData
  granted,  \* granted[r]: what r's own getConnection returned
  wiped,    \* history: tables in which r's delete statement succeeded
  before    \* history: requests that had finished when r was received

shared  == <<con, opened, alive, table, faults>>
handler == <<data, pc, conn, idx, macId, granted, wiped, before>>
vars    == <<con, opened, alive, table, faults,
             data, pc, conn, idx, macId, granted, wiped, before>>

\* Rows of the table t that the whole report of r consists of.
Count(r, t) == CASE t = "serverinfo" -> 1
                 [] t = "cpuinfo"    -> data[r].cpus
                 [] t = "dockerinfo" -> data[r].dockers

TypeOK ==
  /\ con \in {NoConn} \cup Conn
  /\ opened \in 0 .. MaxConn
  /\ alive \subseteq 1 .. opened
  /\ table \in [Table -> SUBSET Row]
  /\ faults \in 0 .. MaxFaults
  /\ data \in [Request -> Payloads]
  /\ pc \in [Request -> Stage]
  /\ conn \in [Request -> {NoConn} \cup Conn]
  /\ idx \in [Request -> [Table -> Nat]]
  /\ \A r \in Request : \A t \in Table : idx[r][t] <= Count(r, t)
  /\ macId \in [Request -> Id \cup {NoId}]
  /\ granted \in [Request -> {NoConn} \cup Conn]
  /\ wiped \in [Request -> SUBSET Table]
  /\ before \in [Request -> SUBSET Request]

Init ==
  /\ con = NoConn
  /\ opened = 0
  /\ alive = {}
  /\ table = [t \in Table |-> {}]
  /\ faults = 0
  /\ data \in [Request -> Payloads]
  /\ pc = [r \in Request |-> "idle"]
  /\ conn = [r \in Request |-> NoConn]
  /\ idx = [r \in Request |-> [t \in Table |-> 0]]
  /\ macId = [r \in Request |-> NoId]
  /\ granted = [r \in Request |-> NoConn]
  /\ wiped = [r \in Request |-> {}]
  /\ before = [r \in Request |-> {}]

-----------------------------------------------------------------------------
Goto(r, stage) == pc' = [pc EXCEPT ![r] = stage]

RowOf(r, n) == [id |-> data[r].id, by |-> r, n |-> n]

\* A statement fails when its connection is gone, or by a fault of MySQL.
SQLException(r) ==
  /\ conn[r] # NoConn
  /\ \/ conn[r] \notin alive /\ UNCHANGED faults
     \/ faults < MaxFaults /\ faults' = faults + 1

\* doPost reaches jsonToMysql(data).
Receive(r) ==
  /\ pc[r] = "idle"
  /\ Goto(r, "getConnect")
  /\ before' = [before EXCEPT ![r] = {q \in Request : pc[q] \in Finished}]
  /\ UNCHANGED <<shared, data, conn, idx, macId, granted, wiped>>

\* DriverManager.getConnection(...) returns a connection, or throws: then con
\* keeps the value some earlier call gave it.
GetConnect(r) ==
  /\ pc[r] = "getConnect"
  /\ \/ /\ opened < MaxConn
        /\ opened' = opened + 1
        /\ alive' = alive \cup {opened + 1}
        /\ granted' = [granted EXCEPT ![r] = opened + 1]
        /\ Goto(r, "assignCon")
        /\ UNCHANGED faults
     \/ /\ \/ opened = MaxConn /\ UNCHANGED faults
           \/ faults < MaxFaults /\ faults' = faults + 1
        /\ Goto(r, "gotConnect")
        /\ UNCHANGED <<opened, alive, granted>>
  /\ UNCHANGED <<con, table, data, conn, idx, macId, wiped, before>>

\* Mutant of Assigned: a connection that is there is used again.
AssignedOnce(r) == IF con = NoConn THEN granted[r] ELSE con

\* What the assignment to con leaves in it.
Assigned(r) == granted[r]

\* con = ...: the static field is written after the call has returned, in
\* whatever order the handlers get there.
AssignCon(r) ==
  /\ pc[r] = "assignCon"
  /\ con' = Assigned(r)
  /\ Goto(r, "gotConnect")
  /\ UNCHANGED <<opened, alive, table, faults,
                 data, conn, idx, macId, granted, wiped, before>>

\* `return con' reads the static field again: another handler may have
\* replaced it since.
ReturnConnect(r) ==
  /\ pc[r] = "gotConnect"
  /\ conn' = [conn EXCEPT ![r] = con]
  /\ Goto(r, "parse")
  /\ UNCHANGED <<shared, data, idx, macId, granted, wiped, before>>

\* parser.parse(data).getAsJsonObject(): a JsonSyntaxException is caught,
\* what an empty body raises is not.
ParseData(r) ==
  /\ pc[r] = "parse"
  /\ \/ data[r].kind = "report"    /\ Goto(r, "deleteServer")
     \/ data[r].kind = "malformed" /\ Goto(r, "caught")
     \/ data[r].kind = "empty"     /\ Goto(r, "thrown")
  /\ macId' = [macId EXCEPT
                 ![r] = IF data[r].kind = "report" THEN data[r].id ELSE @]
  /\ UNCHANGED <<shared, data, conn, idx, granted, wiped, before>>

\* Mutants of Kept: no delete in a table the report brings no rows for; no
\* `where id ='.
KeptLazily(r, t) == {x \in table[t] : x.id # data[r].id \/ Count(r, t) = 0}
KeptNone(r, t)   == {}

\* The rows that "delete from t where id = ..." leaves.
Kept(r, t) == {x \in table[t] : x.id # data[r].id}

\* deleteTable(con, t, macAddress).  It swallows its own SQLException; a null
\* connection raises a NullPointerException, which nothing catches.
DeleteTable(r, here, t, next) ==
  /\ pc[r] = here
  /\ \/ /\ conn[r] \in alive
        /\ table' = [table EXCEPT ![t] = Kept(r, t)]
        /\ wiped' = [wiped EXCEPT ![r] = @ \cup {t}]
        /\ Goto(r, next)
        /\ UNCHANGED faults
     \/ /\ SQLException(r)
        /\ Goto(r, next)
        /\ UNCHANGED <<table, wiped>>
     \/ /\ conn[r] = NoConn
        /\ Goto(r, "thrown")
        /\ UNCHANGED <<table, wiped, faults>>
  /\ UNCHANGED <<con, opened, alive, data, conn, idx, macId, granted, before>>

\* object.get("cpu info") and the others: a missing section is null, and the
\* NullPointerException is raised after the three deletes.
ReadSections(r) ==
  /\ pc[r] = "sections"
  /\ IF data[r].cpus > 0 /\ data[r].nets
       THEN Goto(r, "insertServer")
       ELSE Goto(r, "thrown")
  /\ UNCHANGED <<shared, data, conn, idx, macId, granted, wiped, before>>

\* Mutant of More: `i <= size()'.
MorePastEnd(r, t) == idx[r][t] <= Count(r, t)

\* i < size().
More(r, t) == idx[r][t] < Count(r, t)

\* Mutant of InsertFails: the next row is tried.
InsertFailsSkipping(r, t) ==
  idx' = [idx EXCEPT ![r][t] = @ + 1] /\ UNCHANGED pc

\* The SQLException of an insert is caught by insertData, past all the loops.
InsertFails(r, t) == Goto(r, "caught") /\ UNCHANGED idx

\* One turn, or the end, of the loop that inserts into t.
InsertLoop(r, here, t, next) ==
  /\ pc[r] = here
  /\ \/ /\ More(r, t)
        /\ conn[r] \in alive
        /\ table' = [table EXCEPT ![t] = @ \cup {RowOf(r, idx[r][t])}]
        /\ idx' = [idx EXCEPT ![r][t] = @ + 1]
        /\ UNCHANGED <<pc, faults>>
     \/ /\ More(r, t)
        /\ SQLException(r)
        /\ InsertFails(r, t)
        /\ UNCHANGED table
     \/ /\ ~More(r, t)
        /\ Goto(r, next)
        /\ UNCHANGED <<table, idx, faults>>
  /\ UNCHANGED <<con, opened, alive, data, conn, macId, granted, wiped, before>>

\* insertData's statements, in the order of the code.
InsertData(r) ==
  \/ ParseData(r)
  \/ DeleteTable(r, "deleteServer", "serverinfo", "deleteDocker")
  \/ DeleteTable(r, "deleteDocker", "dockerinfo", "deleteCpu")
  \/ DeleteTable(r, "deleteCpu", "cpuinfo", "sections")
  \/ ReadSections(r)
  \/ InsertLoop(r, "insertServer", "serverinfo", "insertCpu")
  \/ InsertLoop(r, "insertCpu", "cpuinfo", "insertDocker")
  \/ InsertLoop(r, "insertDocker", "dockerinfo", "stored")

\* MySQL closes a connection: wait_timeout, restart, KILL.
DropConnection(c) ==
  /\ c \in alive
  /\ faults < MaxFaults
  /\ faults' = faults + 1
  /\ alive' = alive \ {c}
  /\ UNCHANGED <<con, opened, table, handler>>

JsonToMysql(r) ==
  GetConnect(r) \/ AssignCon(r) \/ ReturnConnect(r) \/ InsertData(r)

Next ==
  \/ \E r \in Request : Receive(r) \/ JsonToMysql(r)
  \/ \E c \in Conn : DropConnection(c)

Spec == Init /\ [][Next]_vars

-----------------------------------------------------------------------------
\* r got as far as its first delete statement.
Begun(r) == pc[r] \in {"deleteDocker", "deleteCpu", "sections", "insertServer",
                       "insertCpu", "insertDocker"} \cup Finished

Inserted(r, t) == {RowOf(r, n) : n \in 0 .. idx[r][t] - 1}
Whole(r, t)    == {RowOf(r, n) : n \in 0 .. Count(r, t) - 1}
Stored(t, i)   == {x \in table[t] : x.id = i}

\* r ran to the end and none of its statements failed.
Succeeded(r) == pc[r] = "stored" /\ wiped[r] = Table

\* No handler of the same id ran beside r, and none has begun since.
Undisturbed(r) ==
  \A q \in Request \ {r} :
    data[q].id = data[r].id /\ Begun(q) => q \in before[r]

\* A report stored with no other handler of its id beside it is, in each of
\* the three tables, all there is for that id: the delete-then-insert of
\* insertData replaces, whatever the interleaving with other ids, the
\* failures of earlier reports, or the connection the handler was given.
ExactSnapshot ==
  \A r \in Request : Succeeded(r) /\ Undisturbed(r) =>
    \A t \in Table : Stored(t, data[r].id) = Whole(r, t)

\* Real-time order survives overlapping handlers: once r's delete has gone
\* through, no row of a report that had been answered before r arrived is
\* left, and none can come back.
NoStaleRow ==
  \A r \in Request : \A q \in before[r] : \A t \in wiped[r] :
    data[q].id = data[r].id => \A x \in Stored(t, data[r].id) : x.by # q

\* Overlapping handlers of one id can mix their rows but cannot delete each
\* other's reports altogether: when all that began have succeeded, each table
\* holds every row of at least one of them.
SomeReportSurvives ==
  \A i \in Id : \A t \in Table :
    LET begun == {r \in Request : data[r].id = i /\ Begun(r)}
    IN  begun # {} /\ (\A r \in begun : Succeeded(r)) =>
          \E r \in begun : Whole(r, t) \subseteq table[t]

\* The race on the static field can give a handler whose own getConnection
\* succeeded another handler's connection, an older one too, but only one that
\* was opened by a handler still at work when this one was received: never
\* null, and never what an answered POST left in the field.
RecentConnection ==
  \A r \in Request :
    granted[r] # NoConn /\ pc[r] \notin {"assignCon", "gotConnect"} =>
      conn[r] \in {granted[q] : q \in Request \ before[r]} \ {NoConn}

\* The handlers as a reader of the tables sees them.
ReportOf(r) == [id |-> data[r].id, content |-> [t \in Table |-> Whole(r, t)]]
StateOf(r)  == CASE pc[r] = "idle" -> "new"
                 [] Succeeded(r)   -> "stored"
                 [] pc[r] \in Finished /\ ~Succeeded(r) -> "failed"
                 [] OTHER -> "open"
Working(r)  == pc[r] \notin {"idle"} \cup Finished
Alone(r)    == \A q \in Request \ {r} :
                 data[q].id = data[r].id => pc[q] = "idle" \/ q \in before[r]
ShownOf(i)  == [t \in Table |-> Stored(t, i)]

Store == INSTANCE ReportStore WITH
  Content <- [Table -> SUBSET Row],
  body    <- [r \in Request |-> ReportOf(r)],
  state   <- [r \in Request |-> StateOf(r)],
  alone   <- {r \in Request : Working(r) /\ Alone(r)},
  shown   <- [i \in Id |-> ShownOf(i)]

\* insertData and deleteTable, statement by statement, keep what ReportStore
\* promises: handlers of other machines never touch a machine's rows, nothing
\* changes behind the back of a closed report, and a report stored alone is
\* shown whole, whichever connection its statements went through.
ImplementsReportStore == Store!Spec
=============================================================================
