------------------------- MODULE SearchServletProofs -------------------------
(***************************************************************************)
(* Machine-checked proofs about SearchServlet: doPost runs the store as it *)
(* is, so all that JsonDataToMysqlProofs proves holds of the server; and   *)
(* what an answer tells the client, for any requests, ids, payloads and    *)
(* directive files, and any bounds.                                        *)
(***************************************************************************)
EXTENDS SearchServlet, JsonDataToMysqlProofs, FiniteOrder

-----------------------------------------------------------------------------
(***************************************************************************)
(* doPost and the store.                                                   *)
(***************************************************************************)

\* Each step of the server is a step of the store or leaves the store alone.
LEMMA StepOfStore == [ServletNext]_allvars => [Next]_vars
<1> SUFFICES ASSUME [ServletNext]_allvars PROVE [Next]_vars
  OBVIOUS
<1> HIDE DEF vars
<1>1. ASSUME NEW r \in Request, DoPost(r) PROVE Next
  BY <1>1 DEF DoPost, Next
<1>2. ASSUME NEW r \in Request, JsonToMysql(r) PROVE Next
  BY <1>2 DEF Next
<1>3. ASSUME NEW r \in Request,
             GetDockerResponse(r) \/ PrintToJson(r) \/ StoreThrows(r)
      PROVE  UNCHANGED vars
  BY <1>3 DEF GetDockerResponse, PrintToJson, StoreThrows
<1>4. ASSUME NEW c \in Conn, DropConnection(c) PROVE Next
  BY <1>4 DEF Next
<1>5. CASE WriteFile
  BY <1>5 DEF WriteFile
<1>6. CASE UNCHANGED allvars
  BY <1>6 DEF allvars
<1>7. QED
  BY <1>1, <1>2, <1>3, <1>4, <1>5, <1>6 DEF ServletNext, Handle

\* doPost neither adds to nor takes from what jsonToMysql does: whatever is
\* proved of the store holds of the server.
THEOREM ServletRunsStore == ServletSpec => Spec
<1>1. ServletInit => Init
  BY DEF ServletInit
<1>2. QED
  BY <1>1, StepOfStore, PTL DEF ServletSpec, Spec

\* The server's tables keep what ReportStore promises.
THEOREM ServletImplementsStore == ServletSpec => ImplementsReportStore
BY ServletRunsStore, StoreImplemented, PTL

-----------------------------------------------------------------------------
(***************************************************************************)
(* getDockerResponse.                                                      *)
(***************************************************************************)

\* An answer is an address that the file directs to the machine, or "null" of
\* a whole file that directs nothing to it, or the error page.
LEMMA DirectiveRead ==
  ASSUME NEW f \in Files \cup {Torn}, NEW i, DockerResponse(f, i) # Error
  PROVE  /\ DockerResponse(f, i) \in Directive
         /\ DockerResponse(f, i) \in Image =>
              Directs(f, i, DockerResponse(f, i))
         /\ DockerResponse(f, i) = Null =>
              f.kind = "whole" /\ ~\E x \in Image : Directs(f, i, x)
<1> DEFINE stops == {k \in DOMAIN f.entries :
                       f.entries[k].id = Absent \/ Chosen(f.entries[k], i)}
           first == CHOOSE k \in stops : \A j \in stops : k <= j
           e == f.entries[first]
<1>1. f.kind = "whole"
  BY DEF DockerResponse
<1>2. f \in File
  BY <1>1, ServletAssumption DEF Torn
<1>3. DOMAIN f.entries \subseteq Nat /\ \A k \in DOMAIN f.entries : f.entries[k] \in Entry
  BY <1>2 DEF File
<1>4. CASE stops = {}
  <2>1. DockerResponse(f, i) = Null
    BY <1>1, <1>4, Zenon DEF DockerResponse
  <2>2. ASSUME NEW x \in Image, NEW k \in DOMAIN f.entries,
               f.entries[k] = [id |-> i, response |-> 1, address |-> x]
        PROVE  FALSE
    <3>1. Chosen(f.entries[k], i)
      BY <2>2 DEF Chosen
    <3>2. QED
      BY <1>4, <3>1
  <2>3. QED
    BY <1>1, <2>1, <2>2, ServletAssumption DEF Directive, Directs
<1>5. CASE stops # {}
  <2>1. first \in stops
    <3>1. stops \subseteq Nat
      BY <1>3
    <3> HIDE DEF stops
    <3>2. \E k \in stops : \A j \in stops : k <= j
      BY <1>5, <3>1, LeastNatural
    <3>3. QED
      BY <3>2
  <2>2. DockerResponse(f, i) = IF Lacks(e) THEN Error ELSE e.address
    BY <1>1, <1>5, Zenon DEF DockerResponse
  <2>3. ~Lacks(e) /\ DockerResponse(f, i) = e.address
    BY <2>2
  <2>4. e \in Entry /\ Chosen(e, i) /\ e.address # Absent
    BY <1>3, <2>1, <2>3 DEF Lacks
  <2>5. e = [id |-> i, response |-> 1, address |-> e.address]
    BY <2>4 DEF Chosen, Entry
  <2>6. e.address \in Image
    BY <2>4 DEF Entry
  <2>7. first \in DOMAIN f.entries
    BY <2>1
  <2>8. QED
    BY <2>3, <2>5, <2>6, <2>7, ServletAssumption DEF Directs, Directive
<1>6. QED
  BY <1>4, <1>5

-----------------------------------------------------------------------------
(***************************************************************************)
(* Type correctness of the servlet's own state.                            *)
(***************************************************************************)

\* The state of the store and of the servlet has its types.
ServletTypeInv == TypeOK /\ ServletTypeOK

LEMMA ServletInitType == ServletInit => ServletTypeInv
<1> SUFFICES ASSUME ServletInit PROVE ServletTypeInv
  OBVIOUS
<1>1. TypeOK
  BY InitTypeOK DEF ServletInit
<1>2. QED
  BY <1>1, ServletAssumption DEF ServletInit, ServletTypeInv, ServletTypeOK

\* What getDockerResponse puts into result, or makes of the reply.
LEMMA ResponseStep ==
  ASSUME ServletTypeInv, NEW r \in Request, GetDockerResponse(r)
  PROVE  \/ /\ DockerResponse(file, macId[r]) = Error
            /\ reply' = [reply EXCEPT ![r] = Error]
            /\ result' = result
         \/ /\ DockerResponse(file, macId[r]) # Error
            /\ DockerResponse(file, macId[r]) \in Directive
            /\ result' = [result EXCEPT ![r] = DockerResponse(file, macId[r])]
            /\ reply' = reply
BY DirectiveRead DEF GetDockerResponse, ServletTypeInv, ServletTypeOK

LEMMA ServletNextType ==
  ServletTypeInv /\ [ServletNext]_allvars => ServletTypeInv'
<1> SUFFICES ASSUME ServletTypeInv, [ServletNext]_allvars PROVE ServletTypeInv'
  OBVIOUS
<1>1. TypeOK'
  BY StepOfStore, NextTypeOK DEF ServletTypeInv
<1>2. ASSUME UNCHANGED servlet PROVE ServletTypeOK'
  BY <1>2 DEF servlet, ServletTypeInv, ServletTypeOK
<1>3. ASSUME NEW r \in Request, DoPost(r) PROVE ServletTypeOK'
  BY <1>3 DEF DoPost, ServletTypeInv, ServletTypeOK
<1>4. ASSUME NEW r \in Request, GetDockerResponse(r) PROVE ServletTypeOK'
  BY <1>4, ResponseStep DEF GetDockerResponse, ServletTypeInv, ServletTypeOK
<1>5. ASSUME NEW r \in Request, PrintToJson(r) PROVE ServletTypeOK'
  BY <1>5 DEF PrintToJson, ServletTypeInv, ServletTypeOK
<1>6. ASSUME NEW r \in Request, StoreThrows(r) PROVE ServletTypeOK'
  BY <1>6 DEF StoreThrows, ServletTypeInv, ServletTypeOK
<1>7. ASSUME WriteFile PROVE ServletTypeOK'
  <2>1. since' \in [Request -> SUBSET (Files \cup {Torn})]
    BY <1>7 DEF WriteFile, ServletTypeInv, ServletTypeOK
  <2>2. QED
    BY <1>7, <2>1, ServletAssumption DEF WriteFile, ServletTypeInv, ServletTypeOK
<1>8. ServletTypeOK'
  BY <1>2, <1>3, <1>4, <1>5, <1>6, <1>7
     DEF ServletNext, Handle, allvars, ServletTypeInv
<1>9. QED
  BY <1>1, <1>8 DEF ServletTypeInv

LEMMA ServletTyped == ServletSpec => []ServletTypeInv
BY ServletInitType, ServletNextType, PTL DEF ServletSpec

\* Results, replies and the contents the file is given keep their kinds.
THEOREM ServletTypeCorrect == ServletSpec => []ServletTypeOK
<1>1. ServletTypeInv => ServletTypeOK
  BY DEF ServletTypeInv
<1>2. QED
  BY <1>1, ServletTyped, PTL

-----------------------------------------------------------------------------
(***************************************************************************)
(* What an answer says of the directive file.                              *)
(***************************************************************************)

\* x is no stale directive: it was in the file, for the machine of r, at some
\* moment since r was received.
Warranted(r, x) ==
  /\ x \in Image => \E f \in since[r] : Directs(f, AskedFor(r), x)
  /\ x = Null => \E f \in since[r] : f.kind = "whole" /\
                   ~\E y \in Image : Directs(f, AskedFor(r), y)

\* insertData has not read the id of r yet.
Unread(r) ==
  pc[r] \in {"idle", "getConnect", "assignCon", "gotConnect", "parse"}

\* Neither the result nor the reply is decided.
Open(r) == result[r] = Pending /\ reply[r] = Pending

\* The id the answer is looked up for is that of the report; the file as it is
\* counts for every request without a result; the result is warranted, comes
\* after the store has returned, and is what is replied.
AnswerOK(r) ==
  /\ macId[r] = IF Unread(r) THEN NoId ELSE AskedFor(r)
  /\ pc[r] = "idle" => Open(r)
  /\ pc[r] # "idle" /\ Open(r) => file \in since[r]
  /\ result[r] # Pending => pc[r] \in {"stored", "caught"}
  /\ Warranted(r, result[r])
  /\ reply[r] \in Directive => reply[r] = result[r]

AnswerInv == ServletTypeInv /\ \A r \in Request : AnswerOK(r)

LEMMA ServletInitAnswer == ServletInit => AnswerInv
<1> SUFFICES ASSUME ServletInit PROVE AnswerInv
  OBVIOUS
<1>1. ServletTypeInv
  BY ServletInitType
<1>2. ASSUME NEW r \in Request PROVE AnswerOK(r)
  BY ServletAssumption
     DEF ServletInit, Init, AnswerOK, Unread, Open, Warranted, Directive
<1>3. QED
  BY <1>1, <1>2 DEF AnswerInv

\* A step of the store leaves the answers as they are, and reads the id.
LEMMA StoreStepAnswer ==
  ASSUME AnswerInv, NEW p \in Request, JsonToMysql(p), UNCHANGED servlet,
         NEW r \in Request
  PROVE  AnswerOK(r)'
<1>1. /\ UNCHANGED data
      /\ pc[p] \notin {"idle"} \cup Finished
      /\ pc'[p] # "idle"
      /\ \A q \in Request \ {p} : pc'[q] = pc[q] /\ macId'[q] = macId[q]
  BY DEF JsonToMysql, InsertData, GetConnect, AssignCon, ReturnConnect,
         ParseData, ReadSections, DeleteTable, InsertLoop, InsertFails, Goto, Finished,
         AnswerInv, ServletTypeInv, TypeOK
<1>2. macId'[p] = IF Unread(p)' THEN NoId ELSE AskedFor(p)
  BY DEF JsonToMysql, InsertData, GetConnect, AssignCon, ReturnConnect,
         ParseData, ReadSections, DeleteTable, InsertLoop, InsertFails, Goto, Finished,
         AnswerInv, AnswerOK, AskedFor, Unread, ServletTypeInv, TypeOK
<1>3. AskedFor(r)' = AskedFor(r)
  BY <1>1 DEF AskedFor
<1>4. QED
  BY <1>1, <1>2, <1>3
     DEF AnswerInv, AnswerOK, Warranted, Unread, Open, servlet, Finished

LEMMA ServletNextAnswer ==
  AnswerInv /\ [ServletNext]_allvars => AnswerInv'
<1> SUFFICES ASSUME AnswerInv, [ServletNext]_allvars PROVE AnswerInv'
  OBVIOUS
<1>1. ServletTypeInv /\ ServletTypeInv'
  BY ServletNextType DEF AnswerInv
<1>2. ASSUME NEW r \in Request PROVE AnswerOK(r)'
  <2>1. ASSUME NEW p \in Request, DoPost(p) PROVE AnswerOK(r)'
    <3>1. /\ pc[p] = "idle" /\ pc'[p] = "getConnect" /\ since'[p] = {file}
          /\ \A q \in Request \ {p} : pc'[q] = pc[q] /\ since'[q] = since[q]
          /\ UNCHANGED <<data, macId, file, result, reply>>
      BY <1>1, <2>1
         DEF DoPost, Receive, Goto, ServletTypeInv, ServletTypeOK, TypeOK
    <3>2. AskedFor(r)' = AskedFor(r)
      BY <3>1 DEF AskedFor
    <3>3. CASE r # p
      BY <3>1, <3>2, <3>3 DEF AnswerInv, AnswerOK, Warranted, Unread, Open
    <3>4. CASE r = p
      BY <3>1, <3>2, <3>4, ServletAssumption
         DEF AnswerInv, AnswerOK, Warranted, Unread, Open, Directive
    <3>5. QED
      BY <3>3, <3>4
  <2>2. ASSUME NEW p \in Request, JsonToMysql(p), UNCHANGED servlet
        PROVE  AnswerOK(r)'
    BY <2>2, StoreStepAnswer
  <2>3. ASSUME NEW p \in Request, GetDockerResponse(p) PROVE AnswerOK(r)'
    <3>1. macId[p] = AskedFor(p) /\ pc[p] # "idle" /\ file \in since[p]
      BY <2>3
         DEF GetDockerResponse, StoreReturns, AnswerInv, AnswerOK, Unread, Open
    <3>2. DockerResponse(file, macId[p]) # Error =>
            Warranted(p, DockerResponse(file, macId[p]))
      BY <1>1, <3>1, DirectiveRead DEF Warranted, ServletTypeInv, ServletTypeOK
    <3>3. AskedFor(r)' = AskedFor(r) /\ UNCHANGED <<pc, macId, file, since>>
      BY <2>3 DEF GetDockerResponse, AskedFor, vars
    <3>4. \A x : Warranted(r, x)' <=> Warranted(r, x)
      BY <3>3 DEF Warranted
    <3>5. CASE r # p
      BY <1>1, <2>3, <3>3, <3>5, ResponseStep
         DEF AnswerInv, AnswerOK, Warranted, Unread, Open, ServletTypeInv,
             ServletTypeOK
    <3>6. CASE r = p
      BY <1>1, <2>3, <3>1, <3>2, <3>3, <3>6, ResponseStep, ServletAssumption
         DEF AnswerInv, AnswerOK, Warranted, Unread, Open, ServletTypeInv,
             ServletTypeOK, GetDockerResponse, StoreReturns, Directive
    <3>7. QED
      BY <3>5, <3>6
  <2>4. ASSUME NEW p \in Request, PrintToJson(p) \/ StoreThrows(p)
        PROVE  AnswerOK(r)'
    BY <1>1, <2>4, ServletAssumption
       DEF PrintToJson, StoreThrows, AnswerInv, AnswerOK, Warranted, Unread,
           Open, AskedFor, ServletTypeInv, ServletTypeOK, vars, Directive
  <2>5. CASE WriteFile
    BY <1>1, <2>5
       DEF WriteFile, AnswerInv, AnswerOK, Warranted, Unread, Open, AskedFor,
           ServletTypeInv, ServletTypeOK, vars
  <2>6. CASE (\E c \in Conn : DropConnection(c)) /\ UNCHANGED servlet
    BY <2>6 DEF DropConnection, handler, servlet, AnswerInv, AnswerOK,
                Warranted, Unread, Open, AskedFor
  <2>7. CASE UNCHANGED allvars
    BY <2>7 DEF allvars, vars, servlet, AnswerInv, AnswerOK, Warranted, Unread,
                Open, AskedFor
  <2>8. QED
    BY <2>1, <2>2, <2>3, <2>4, <2>5, <2>6, <2>7 DEF ServletNext, Handle
<1>3. QED
  BY <1>1, <1>2 DEF AnswerInv

LEMMA AnswersInvariant == ServletSpec => []AnswerInv
BY ServletInitAnswer, ServletNextAnswer, PTL DEF ServletSpec

\* A machine is told what the file directed for that machine at some moment
\* since its report came in, never another's directive, a withdrawn one or one
\* replaced before; and "null" only when at some moment nothing was directed.
THEOREM AnswersAreCurrent == ServletSpec => []AnswerCurrent
<1>1. AnswerInv => AnswerCurrent
  BY DEF AnswerInv, AnswerOK, Warranted, AnswerCurrent, Directive
<1>2. QED
  BY <1>1, AnswersInvariant, PTL

-----------------------------------------------------------------------------
(***************************************************************************)
(* What an answer says of the tables.                                      *)
(***************************************************************************)

\* The tables whose delete statement lies behind a handler at this stage.
Passed(stage) ==
  CASE stage = "deleteDocker" -> {"serverinfo"}
    [] stage = "deleteCpu"    -> {"serverinfo", "dockerinfo"}
    [] stage \in {"sections", "insertServer", "insertCpu", "insertDocker",
                  "stored"}   -> Table
    [] OTHER                  -> {}

\* As long as MySQL refuses and drops nothing, every connection granted is
\* served, every delete passed has succeeded, and no report is caught.
Unharmed ==
  faults = 0 =>
    /\ alive = 1 .. opened
    /\ con \in 0 .. opened
    /\ \A r \in Request :
         /\ conn[r] \in 0 .. opened
         /\ granted[r] \in 0 .. opened
         /\ Passed(pc[r]) \subseteq wiped[r]
         /\ pc[r] = "caught" => data[r].kind # "report"

LEMMA InitUnharmed == Init => Unharmed
BY DEF Init, Unharmed, NoConn, Passed

LEMMA NextUnharmed == TypeOK /\ [Next]_vars /\ Unharmed => Unharmed'
<1> SUFFICES ASSUME TypeOK, [Next]_vars, Unharmed, faults' = 0 PROVE Unharmed'
  BY DEF Unharmed
<1>1. faults = 0
  BY DEF Next, JsonToMysql, InsertData, Receive, GetConnect, AssignCon,
         ReturnConnect, ParseData, ReadSections, DeleteTable, InsertLoop, SQLException,
         DropConnection, shared, vars, TypeOK
<1>2. ASSUME NEW r \in Request, Receive(r) PROVE Unharmed'
  BY <1>1, <1>2 DEF Receive, Goto, Unharmed, Passed, shared, TypeOK
<1>3. ASSUME NEW r \in Request, GetConnect(r) \/ AssignCon(r) PROVE Unharmed'
  <2>1. /\ \E s \in {"assignCon", "gotConnect"} : pc' = [pc EXCEPT ![r] = s]
        /\ UNCHANGED <<data, conn, wiped>>
    BY <1>3 DEF GetConnect, AssignCon, Goto
  <2>2. /\ opened \in Nat /\ opened' \in Nat /\ opened <= opened'
        /\ alive' = 1 .. opened' /\ con' \in 0 .. opened'
        /\ \A q \in Request : granted'[q] \in 0 .. opened'
    <3>1. /\ opened \in Nat /\ alive = 1 .. opened /\ con \in 0 .. opened
          /\ \A q \in Request : granted[q] \in 0 .. opened
      BY <1>1, StoreAssumption DEF Unharmed, TypeOK
    <3>2. CASE /\ opened' = opened + 1 /\ alive' = alive \cup {opened + 1}
               /\ granted' = [granted EXCEPT ![r] = opened + 1]
               /\ UNCHANGED con
      BY <3>1, <3>2 DEF TypeOK
    <3>3. CASE UNCHANGED <<opened, alive, con, granted>>
      BY <3>1, <3>3
    <3>4. CASE con' = granted[r] /\ UNCHANGED <<opened, alive, granted>>
      BY <3>1, <3>4
    <3>5. QED
      BY <1>3, <3>2, <3>3, <3>4 DEF GetConnect, AssignCon, Assigned
  <2>3. \A q \in Request : Passed(pc'[q]) \subseteq wiped'[q]
    BY <1>1, <1>3, <2>1 DEF Unharmed, Passed, TypeOK
  <2>4. \A q \in Request : pc'[q] = "caught" => data'[q].kind # "report"
    BY <1>1, <1>3, <2>1 DEF Unharmed, TypeOK
  <2>5. QED
    BY <1>1, <2>1, <2>2, <2>3, <2>4 DEF Unharmed
<1>4. ASSUME NEW r \in Request, ReturnConnect(r) PROVE Unharmed'
  BY <1>1, <1>4 DEF ReturnConnect, Goto, Unharmed, Passed, shared, TypeOK
<1>5. ASSUME NEW r \in Request, ParseData(r) PROVE Unharmed'
  BY <1>1, <1>5, ZenonT(60)
     DEF ParseData, Goto, Unharmed, Passed, shared, TypeOK
<1>6. ASSUME NEW r \in Request, NEW u \in DeleteUses,
             DeleteTable(r, u[1], u[2], u[3])
      PROVE  Unharmed'
  <2>1. UNCHANGED <<con, opened, alive, data, conn, granted>>
    BY <1>6 DEF DeleteTable
  <2>2. CASE /\ wiped' = [wiped EXCEPT ![r] = wiped[r] \cup {u[2]}]
             /\ pc' = [pc EXCEPT ![r] = u[3]]
    <3>1. Passed(u[3]) \subseteq Passed(u[1]) \cup {u[2]} /\ u[3] # "caught"
      BY DEF DeleteUses, Passed, Table
    <3>2. Passed(u[1]) \subseteq wiped[r]
      BY <1>1, <1>6 DEF DeleteTable, Unharmed
    <3>3. \A q \in Request : Passed(pc'[q]) \subseteq wiped'[q]
      BY <1>1, <2>2, <3>1, <3>2 DEF Unharmed, TypeOK
    <3>4. QED
      BY <1>1, <2>1, <2>2, <3>1, <3>3 DEF Unharmed, TypeOK
  <2>3. CASE pc' = [pc EXCEPT ![r] = "thrown"] /\ UNCHANGED wiped
    BY <1>1, <2>1, <2>3 DEF Unharmed, Passed, TypeOK
  <2>4. ~SQLException(r)
    BY <1>1 DEF SQLException, Unharmed, NoConn, TypeOK
  <2>5. QED
    BY <1>6, <2>2, <2>3, <2>4 DEF DeleteTable, Goto
<1>7. ASSUME NEW r \in Request, ReadSections(r) PROVE Unharmed'
  BY <1>1, <1>7, ZenonT(60)
     DEF ReadSections, Goto, Unharmed, Passed, shared, TypeOK
<1>8. ASSUME NEW r \in Request, NEW u \in InsertUses,
             InsertLoop(r, u[1], u[2], u[3])
      PROVE  Unharmed'
  <2>1. ~SQLException(r)
    BY <1>1 DEF SQLException, Unharmed, NoConn, TypeOK
  <2>2. /\ UNCHANGED <<con, opened, alive, data, conn, granted, wiped>>
        /\ pc[r] = u[1]
        /\ pc' = pc \/ pc' = [pc EXCEPT ![r] = u[3]]
    BY <1>8, <2>1 DEF InsertLoop, Goto
  <2>3. Passed(u[3]) = Passed(u[1]) /\ u[3] # "caught"
    BY DEF InsertUses, Passed
  <2>4. QED
    BY <1>1, <2>2, <2>3 DEF Unharmed, TypeOK
<1>9. ASSUME NEW c \in Conn, DropConnection(c) PROVE FALSE
  BY <1>1, <1>9 DEF DropConnection
<1>10. CASE UNCHANGED vars
  BY <1>1, <1>10 DEF vars, Unharmed
<1>11. QED
  BY <1>2, <1>3, <1>4, <1>5, <1>6, <1>7, <1>8, <1>9, <1>10, InsertDataCases
     DEF Next, JsonToMysql

\* The client takes any answer for "stored", and rightly so as long as MySQL
\* refuses no statement and drops no connection: whatever the handlers' race on
\* the static connection, a report that is answered is all in the tables.
THEOREM AnswersVouch == ServletSpec => []AnswerVouches
<1>1. AnswerInv /\ Unharmed => AnswerVouches
  <2> SUFFICES ASSUME AnswerInv, Unharmed, NEW r \in Request,
                      reply[r] \in Directive, data[r].kind = "report", faults = 0
               PROVE  Succeeded(r)
    BY DEF AnswerVouches
  <2>1. result[r] # Pending
    BY ServletAssumption DEF AnswerInv, AnswerOK, Directive
  <2>2. pc[r] = "stored"
    BY <2>1 DEF AnswerInv, AnswerOK, Unharmed
  <2>3. wiped[r] = Table
    BY <2>2 DEF Unharmed, Passed, AnswerInv, ServletTypeInv, TypeOK
  <2>4. QED
    BY <2>2, <2>3 DEF Succeeded
<1>2. Spec => []Unharmed
  BY TypeCorrect, InitUnharmed, NextUnharmed, PTL DEF Spec
<1>3. QED
  BY <1>1, <1>2, AnswersInvariant, ServletRunsStore, PTL

=============================================================================
