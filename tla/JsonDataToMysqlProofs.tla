------------------------ MODULE JsonDataToMysqlProofs ------------------------
(* Machine-checked proofs about JsonDataToMysql, for any set of requests,  *)
(* any ids and payloads, and any bounds.                                    *)
EXTENDS JsonDataToMysql, TLAPS

\* The three uses of DeleteTable, and of InsertLoop, in InsertData.
DeleteUses == {<<"deleteServer", "serverinfo", "deleteDocker">>,
               <<"deleteDocker", "dockerinfo", "deleteCpu">>,
               <<"deleteCpu", "cpuinfo", "sections">>}

InsertUses == {<<"insertServer", "serverinfo", "insertCpu">>,
               <<"insertCpu", "cpuinfo", "insertDocker">>,
               <<"insertDocker", "dockerinfo", "stored">>}

-----------------------------------------------------------------------------
\* The number of rows of a report is a natural number.
LEMMA CountNat ==
  ASSUME data \in [Request -> Payloads], NEW r \in Request, NEW t \in Table
  PROVE  Count(r, t) \in Nat
BY StoreAssumption DEF Count, Table, Payload

\* Every statement of insertData is one of six kinds of step.
LEMMA InsertDataCases ==
  ASSUME NEW r \in Request, InsertData(r)
  PROVE  \/ ParseData(r)
         \/ ReadSections(r)
         \/ \E u \in DeleteUses : DeleteTable(r, u[1], u[2], u[3])
         \/ \E u \in InsertUses : InsertLoop(r, u[1], u[2], u[3])
<1> DEFINE D1 == <<"deleteServer", "serverinfo", "deleteDocker">>
           D2 == <<"deleteDocker", "dockerinfo", "deleteCpu">>
           D3 == <<"deleteCpu", "cpuinfo", "sections">>
           I1 == <<"insertServer", "serverinfo", "insertCpu">>
           I2 == <<"insertCpu", "cpuinfo", "insertDocker">>
           I3 == <<"insertDocker", "dockerinfo", "stored">>
<1>1. D1 \in DeleteUses /\ D2 \in DeleteUses /\ D3 \in DeleteUses
  BY DEF DeleteUses
<1>2. I1 \in InsertUses /\ I2 \in InsertUses /\ I3 \in InsertUses
  BY DEF InsertUses
<1>3. CASE DeleteTable(r, D1[1], D1[2], D1[3])
  BY <1>1, <1>3
<1>4. CASE DeleteTable(r, D2[1], D2[2], D2[3])
  BY <1>1, <1>4
<1>5. CASE DeleteTable(r, D3[1], D3[2], D3[3])
  BY <1>1, <1>5
<1>6. CASE InsertLoop(r, I1[1], I1[2], I1[3])
  BY <1>2, <1>6
<1>7. CASE InsertLoop(r, I2[1], I2[2], I2[3])
  BY <1>2, <1>7
<1>8. CASE InsertLoop(r, I3[1], I3[2], I3[3])
  BY <1>2, <1>8
<1>9. QED
  BY <1>3, <1>4, <1>5, <1>6, <1>7, <1>8 DEF InsertData

-----------------------------------------------------------------------------
LEMMA InitTypeOK == Init => TypeOK
<1> SUFFICES ASSUME Init PROVE TypeOK
  OBVIOUS
<1>1. \A r \in Request : \A t \in Table : idx[r][t] <= Count(r, t)
  BY CountNat DEF Init
<1>2. QED
  BY <1>1, StoreAssumption DEF Init, TypeOK, Conn, NoConn, Stage

LEMMA DeleteTypeOK ==
  ASSUME TypeOK, NEW r \in Request, NEW u \in DeleteUses,
         DeleteTable(r, u[1], u[2], u[3])
  PROVE  TypeOK'
<1>1. u[2] \in Table /\ u[3] \in Stage
  BY DEF DeleteUses, Table, Stage
<1>2. table' \in [Table -> SUBSET Row] /\ wiped' \in [Request -> SUBSET Table]
  <2> DEFINE kept == {x \in table[u[2]] : x.id # data[r].id}
  <2>1. kept \in SUBSET Row /\ wiped[r] \cup {u[2]} \in SUBSET Table
    BY <1>1 DEF TypeOK
  <2>2. CASE /\ table' = [table EXCEPT ![u[2]] = kept]
             /\ wiped' = [wiped EXCEPT ![r] = @ \cup {u[2]}]
    <3> HIDE DEF kept
    <3>1. QED
      BY <1>1, <2>1, <2>2 DEF TypeOK
  <2>3. CASE UNCHANGED <<table, wiped>>
    BY <2>3 DEF TypeOK
  <2>4. QED
    BY <2>2, <2>3 DEF DeleteTable, Kept
<1>3. pc' \in [Request -> Stage]
  BY <1>1 DEF DeleteTable, TypeOK, Goto, Stage, Finished
<1>4. faults' \in 0 .. MaxFaults
  BY StoreAssumption DEF DeleteTable, SQLException, TypeOK
<1>5. \A q \in Request : \A t \in Table : idx'[q][t] <= Count(q, t)'
  BY DEF DeleteTable, TypeOK, Count
<1>6. QED
  BY <1>2, <1>3, <1>4, <1>5 DEF DeleteTable, TypeOK

LEMMA InsertTypeOK ==
  ASSUME TypeOK, NEW r \in Request, NEW u \in InsertUses,
         InsertLoop(r, u[1], u[2], u[3])
  PROVE  TypeOK'
<1>1. u[2] \in Table /\ u[3] \in Stage
  BY DEF InsertUses, Table, Stage, Finished
<1>2. data[r].id \in Id /\ idx[r][u[2]] \in Nat /\ Count(r, u[2]) \in Nat
  BY <1>1, CountNat, StoreAssumption DEF TypeOK, Payload
<1>3. table' \in [Table -> SUBSET Row]
  <2>1. RowOf(r, idx[r][u[2]]) \in Row
    BY <1>2 DEF RowOf, Row
  <2>2. QED
    BY <1>1, <2>1 DEF InsertLoop, TypeOK
<1>4. pc' \in [Request -> Stage]
  BY <1>1 DEF InsertLoop, InsertFails, TypeOK, Goto, Stage, Finished
<1>5. faults' \in 0 .. MaxFaults
  BY StoreAssumption DEF InsertLoop, SQLException, TypeOK
<1>6. \/ idx' = idx
      \/ /\ idx[r][u[2]] < Count(r, u[2])
         /\ idx' = [idx EXCEPT ![r] = [idx[r] EXCEPT
                                          ![u[2]] = idx[r][u[2]] + 1]]
  BY DEF InsertLoop, InsertFails, More
<1>7. idx' \in [Request -> [Table -> Nat]]
  <2>1. [idx[r] EXCEPT ![u[2]] = idx[r][u[2]] + 1] \in [Table -> Nat]
    BY <1>1, <1>2 DEF TypeOK
  <2>2. QED
    BY <1>6, <2>1 DEF TypeOK
<1>8. ASSUME NEW q \in Request, NEW t \in Table
      PROVE  idx'[q][t] <= Count(q, t)'
  <2>1. Count(q, t)' = Count(q, t)
    BY DEF InsertLoop, Count
  <2>2. idx[q][t] \in Nat /\ idx[q][t] <= Count(q, t) /\ Count(q, t) \in Nat
    BY CountNat DEF TypeOK
  <2>3. CASE q = r /\ t = u[2]
    BY <1>1, <1>6, <2>1, <2>2, <2>3 DEF TypeOK
  <2>4. CASE ~(q = r /\ t = u[2])
    <3>1. idx'[q][t] = idx[q][t]
      BY <1>1, <1>6, <2>4 DEF TypeOK
    <3>2. QED
      BY <2>1, <2>2, <3>1
  <2>5. QED
    BY <2>3, <2>4
<1>9. QED
  BY <1>3, <1>4, <1>5, <1>7, <1>8 DEF InsertLoop, TypeOK

LEMMA NextTypeOK == TypeOK /\ [Next]_vars => TypeOK'
<1> SUFFICES ASSUME TypeOK, [Next]_vars PROVE TypeOK'
  OBVIOUS
<1>1. ASSUME NEW r \in Request, Receive(r) PROVE TypeOK'
  BY <1>1 DEF Receive, Goto, Stage, TypeOK, shared, Count
<1>2. ASSUME NEW r \in Request, GetConnect(r) \/ AssignCon(r) PROVE TypeOK'
  <2>1. \A q \in Request : \A t \in Table : idx'[q][t] <= Count(q, t)'
    BY <1>2 DEF GetConnect, AssignCon, TypeOK, Count
  <2>2. /\ con' \in {NoConn} \cup Conn /\ opened' \in 0 .. MaxConn
        /\ alive' \subseteq 1 .. opened'
        /\ granted' \in [Request -> {NoConn} \cup Conn]
    <3>1. CASE UNCHANGED <<con, opened, alive, granted>>
      BY <3>1 DEF TypeOK
    <3>2. CASE /\ opened < MaxConn
               /\ opened' = opened + 1
               /\ alive' = alive \cup {opened + 1}
               /\ granted' = [granted EXCEPT ![r] = opened + 1]
               /\ UNCHANGED con
      <4>1. opened + 1 \in Conn /\ opened \in Nat
        BY <3>2, StoreAssumption DEF TypeOK, Conn
      <4>2. alive' \subseteq 1 .. opened'
        BY <3>2, <4>1 DEF TypeOK
      <4>3. opened' \in 0 .. MaxConn
        BY <3>2, <4>1 DEF Conn
      <4>4. QED
        BY <3>2, <4>1, <4>2, <4>3 DEF TypeOK
    <3>3. CASE con' = granted[r] /\ UNCHANGED <<opened, alive, granted>>
      BY <3>3 DEF TypeOK
    <3>4. QED
      BY <1>2, <3>1, <3>2, <3>3 DEF GetConnect, AssignCon, Assigned
  <2>3. faults' \in 0 .. MaxFaults
    BY <1>2, StoreAssumption DEF GetConnect, AssignCon, TypeOK
  <2>4. pc' \in [Request -> Stage]
    BY <1>2 DEF GetConnect, AssignCon, TypeOK, Goto, Stage
  <2>5. QED
    BY <1>2, <2>1, <2>2, <2>3, <2>4 DEF GetConnect, AssignCon, TypeOK
<1>3. ASSUME NEW r \in Request, ReturnConnect(r) PROVE TypeOK'
  BY <1>3 DEF ReturnConnect, Goto, Stage, TypeOK, shared, Count
<1>4. ASSUME NEW r \in Request, InsertData(r) PROVE TypeOK'
  <2>1. CASE ParseData(r)
    <3>1. data[r].id \in Id
      BY StoreAssumption DEF TypeOK, Payload
    <3>2. QED
      BY <2>1, <3>1
         DEF ParseData, Goto, Stage, Finished, TypeOK, shared, Count
  <2>2. CASE ReadSections(r)
    BY <2>2 DEF ReadSections, Goto, Stage, Finished, TypeOK, shared, Count
  <2>3. QED
    BY <1>4, <2>1, <2>2, InsertDataCases, DeleteTypeOK, InsertTypeOK
<1>5. ASSUME NEW c \in Conn, DropConnection(c) PROVE TypeOK'
  <2>1. faults' \in 0 .. MaxFaults
    BY <1>5, StoreAssumption DEF DropConnection, TypeOK
  <2>2. QED
    BY <1>5, <2>1 DEF DropConnection, TypeOK, handler, Count
<1>6. CASE UNCHANGED vars
  BY <1>6 DEF vars, TypeOK, Count
<1>7. QED
  BY <1>1, <1>2, <1>3, <1>4, <1>5, <1>6 DEF Next, JsonToMysql

\* The variables keep their types, loop indices never pass the end of their
\* array, and live connections are ones MySQL has granted.
THEOREM TypeCorrect == Spec => []TypeOK
BY InitTypeOK, NextTypeOK, PTL DEF Spec

-----------------------------------------------------------------------------
(***************************************************************************)
(* The inductive invariant behind the safety theorems.                     *)
(***************************************************************************)

\* A row carries the id of the report it came from.
RowsKeyed == \A t \in Table : \A x \in table[t] : x.id = data[x.by].id

\* A request counts as answered before r only when it really had finished.
BeforeFinished ==
  \A r \in Request : \A q \in before[r] : q \in Request /\ pc[q] \in Finished

\* What a handler's place says of its deletes and of its loop variables.
PlaceOK(r) ==
  /\ ~Begun(r) => wiped[r] = {}
  /\ ~Begun(r) \/ pc[r] \in {"deleteDocker", "deleteCpu", "sections"} =>
       \A t \in Table : idx[r][t] = 0
  /\ pc[r] \in {"insertCpu", "insertDocker", "stored"} =>
       idx[r]["serverinfo"] = Count(r, "serverinfo")
  /\ pc[r] \in {"insertDocker", "stored"} =>
       idx[r]["cpuinfo"] = Count(r, "cpuinfo")
  /\ pc[r] = "stored" => idx[r]["dockerinfo"] = Count(r, "dockerinfo")

\* ExactSnapshot while the handler is still at work.
Replaced ==
  \A r \in Request : \A t \in wiped[r] : Undisturbed(r) =>
    Stored(t, data[r].id) = Inserted(r, t)

IInv ==
  /\ TypeOK
  /\ RowsKeyed
  /\ BeforeFinished
  /\ \A r \in Request : PlaceOK(r)
  /\ NoStaleRow
  /\ Replaced

LEMMA InitIInv == Init => IInv
<1> SUFFICES ASSUME Init PROVE IInv
  OBVIOUS
<1>1. TypeOK
  BY InitTypeOK
<1>2. RowsKeyed /\ BeforeFinished /\ NoStaleRow /\ Replaced
  BY DEF Init, RowsKeyed, BeforeFinished, NoStaleRow, Replaced
<1>3. \A r \in Request : PlaceOK(r)
  BY DEF Init, PlaceOK, Begun
<1>4. QED
  BY <1>1, <1>2, <1>3 DEF IInv

\* Steps that leave the tables alone: it is enough that no handler goes back
\* and that `before' is only set where nothing has been wiped yet.
LEMMA QuietStep ==
  ASSUME IInv, TypeOK', UNCHANGED <<table, data, idx, wiped>>,
         \A q \in Request : Begun(q) => Begun(q)',
         \A q \in Request : wiped[q] # {} => before'[q] = before[q],
         BeforeFinished', \A q \in Request : PlaceOK(q)'
  PROVE  IInv'
<1>1. RowsKeyed'
  BY DEF IInv, RowsKeyed
<1>2. NoStaleRow'
  BY DEF IInv, NoStaleRow, Stored
<1>3. Replaced'
  <2> SUFFICES ASSUME NEW r \in Request, NEW t \in wiped[r], Undisturbed(r)'
               PROVE  Stored(t, data[r].id)' = Inserted(r, t)'
    BY DEF Replaced
  <2>1. Undisturbed(r)
    BY DEF Undisturbed
  <2>2. Stored(t, data[r].id)' = Stored(t, data[r].id)
    BY DEF Stored
  <2>3. Inserted(r, t)' = Inserted(r, t)
    BY DEF Inserted, RowOf
  <2>4. QED
    BY <2>1, <2>2, <2>3 DEF IInv, Replaced
<1>4. QED
  BY <1>1, <1>2, <1>3 DEF IInv

LEMMA DeleteIInv ==
  ASSUME IInv, NEW p \in Request, NEW u \in DeleteUses,
         DeleteTable(p, u[1], u[2], u[3])
  PROVE  IInv'
<1>1. TypeOK /\ TypeOK'
  BY DeleteTypeOK DEF IInv
<1>2. /\ u[2] \in Table
      /\ u[1] \in {"deleteServer", "deleteDocker", "deleteCpu"}
      /\ u[3] \in {"deleteDocker", "deleteCpu", "sections"}
  BY DEF DeleteUses, Table
<1>3. /\ pc[p] = u[1]
      /\ pc' = [pc EXCEPT ![p] = u[3]] \/ pc' = [pc EXCEPT ![p] = "thrown"]
      /\ UNCHANGED <<data, idx, before>>
  BY DEF DeleteTable, Goto
<1>4. Begun(p)' /\ \A q \in Request : Begun(q) => Begun(q)'
  BY <1>1, <1>2, <1>3 DEF Begun, Finished, TypeOK
<1>5. BeforeFinished'
  BY <1>1, <1>2, <1>3 DEF IInv, BeforeFinished, Finished, TypeOK
<1>6. \A q \in Request : PlaceOK(q)'
  <2> SUFFICES ASSUME NEW q \in Request PROVE PlaceOK(q)'
    OBVIOUS
  <2>1. \A t \in Table : Count(q, t)' = Count(q, t)
    BY <1>3 DEF Count
  <2>2. CASE q = p
    <3>1. \A t \in Table : idx'[p][t] = 0
      BY <1>2, <1>3 DEF IInv, PlaceOK, Begun, Finished
    <3>2. pc'[p] \in {"deleteDocker", "deleteCpu", "sections", "thrown"}
      BY <1>1, <1>2, <1>3 DEF TypeOK
    <3>3. QED
      BY <2>2, <3>1, <3>2, <1>4 DEF PlaceOK
  <2>3. CASE q # p
    <3>1. pc'[q] = pc[q] /\ wiped'[q] = wiped[q] /\ idx'[q] = idx[q]
      BY <2>3, <1>1, <1>3 DEF TypeOK, DeleteTable
    <3>2. "serverinfo" \in Table /\ "cpuinfo" \in Table /\ "dockerinfo" \in Table
      BY DEF Table
    <3>3. QED
      BY <2>1, <3>1, <3>2 DEF IInv, PlaceOK, Begun
  <2>4. QED
    BY <2>2, <2>3
<1>7. CASE UNCHANGED <<table, wiped>>
  BY <1>1, <1>3, <1>4, <1>5, <1>6, <1>7, QuietStep
<1>8. CASE /\ table' = [table EXCEPT ![u[2]] =
                           {x \in @ : x.id # data[p].id}]
           /\ wiped' = [wiped EXCEPT ![p] = @ \cup {u[2]}]
  <2>1. /\ table'[u[2]] = {x \in table[u[2]] : x.id # data[p].id}
        /\ \A t \in Table : t # u[2] => table'[t] = table[t]
        /\ \A t \in Table : table'[t] \subseteq table[t]
    BY <1>1, <1>2, <1>8 DEF TypeOK
  <2>2. /\ wiped'[p] = wiped[p] \cup {u[2]}
        /\ \A q \in Request : q # p => wiped'[q] = wiped[q]
    BY <1>1, <1>8 DEF TypeOK
  <2>3. RowsKeyed'
    BY <1>3, <2>1 DEF IInv, RowsKeyed
  <2>4. NoStaleRow'
    <3> SUFFICES ASSUME NEW r \in Request, NEW q \in before'[r],
                        NEW t \in wiped'[r], data'[q].id = data'[r].id,
                        NEW x \in Stored(t, data[r].id)'
                 PROVE  x.by # q
      BY DEF NoStaleRow
    <3>1. t \in Table
      BY <1>1 DEF TypeOK
    <3>2. x \in table[t] /\ x \in table'[t] /\ x.id = data[r].id
      BY <1>3, <2>1, <3>1 DEF Stored
    <3>3. CASE t \in wiped[r]
      BY <1>3, <3>2, <3>3 DEF IInv, NoStaleRow, Stored
    <3>4. CASE t \notin wiped[r]
      <4>1. r = p /\ t = u[2]
        BY <2>2, <3>4
      <4>2. QED
        BY <2>1, <3>2, <4>1
    <3>5. QED
      BY <3>3, <3>4
  <2>5. Replaced'
    <3> SUFFICES ASSUME NEW r \in Request, NEW t \in wiped'[r],
                        Undisturbed(r)'
                 PROVE  Stored(t, data[r].id)' = Inserted(r, t)'
      BY DEF Replaced
    <3>1. t \in Table
      BY <1>1 DEF TypeOK
    <3>2. Undisturbed(r)
      BY <1>3, <1>4 DEF Undisturbed
    <3>3. Inserted(r, t)' = Inserted(r, t)
      BY <1>3 DEF Inserted, RowOf
    <3>4. CASE r = p /\ t = u[2]
      <4>1. Stored(t, data[r].id)' = {}
        BY <1>3, <2>1, <3>4 DEF Stored
      <4>2. idx[p][t] = 0
        BY <1>2, <1>3, <3>1 DEF IInv, PlaceOK, Begun, Finished
      <4>3. Inserted(r, t) = {}
        BY <3>4, <4>2 DEF Inserted
      <4>4. QED
        BY <3>3, <4>1, <4>3
    <3>5. CASE ~(r = p /\ t = u[2])
      <4>1. t \in wiped[r]
        BY <2>2, <3>5
      <4>2. Stored(t, data[r].id) = Inserted(r, t)
        BY <3>2, <4>1 DEF IInv, Replaced
      <4>3. Stored(t, data[r].id)' = Stored(t, data[r].id)
        <5>1. CASE t # u[2]
          BY <1>3, <2>1, <3>1, <5>1 DEF Stored
        <5>2. CASE t = u[2]
          <6>1. r # p
            BY <3>5, <5>2
          <6>2. data[p].id # data[r].id
            \* p has not finished, so it cannot be in before[r].
            <7>1. p \notin before[r]
              BY <1>2, <1>3 DEF IInv, BeforeFinished, Finished
            <7>2. QED
              BY <1>3, <1>4, <6>1, <7>1 DEF Undisturbed
          <6>3. QED
            BY <1>3, <2>1, <5>2, <6>2 DEF Stored
        <5>3. QED
          BY <5>1, <5>2
      <4>4. QED
        BY <3>3, <4>2, <4>3
    <3>6. QED
      BY <3>4, <3>5
  <2>6. QED
    BY <1>1, <1>5, <1>6, <2>3, <2>4, <2>5 DEF IInv
<1>9. QED
  BY <1>7, <1>8 DEF DeleteTable, Kept

LEMMA InsertIInv ==
  ASSUME IInv, NEW p \in Request, NEW u \in InsertUses,
         InsertLoop(p, u[1], u[2], u[3])
  PROVE  IInv'
<1>1. TypeOK /\ TypeOK'
  BY InsertTypeOK DEF IInv
<1>2. /\ u[2] \in Table
      /\ u[1] \in {"insertServer", "insertCpu", "insertDocker"}
      /\ u[3] \in {"insertCpu", "insertDocker", "stored"}
  BY DEF InsertUses, Table
<1>3. /\ pc[p] = u[1]
      /\ UNCHANGED <<data, before, wiped>>
      /\ \/ UNCHANGED pc
         \/ pc' = [pc EXCEPT ![p] = u[3]]
         \/ pc' = [pc EXCEPT ![p] = "caught"]
  BY DEF InsertLoop, InsertFails, Goto
<1>4. Begun(p) /\ Begun(p)' /\ \A q \in Request : Begun(q) <=> Begun(q)'
  BY <1>1, <1>2, <1>3 DEF Begun, Finished, TypeOK
<1>5. BeforeFinished'
  BY <1>1, <1>2, <1>3 DEF IInv, BeforeFinished, Finished, TypeOK
<1>6. \/ /\ UNCHANGED <<table, idx>>
         /\ pc' = [pc EXCEPT ![p] = "caught"]
      \/ /\ UNCHANGED <<table, idx>>
         /\ idx[p][u[2]] = Count(p, u[2])
         /\ pc' = [pc EXCEPT ![p] = u[3]]
      \/ /\ UNCHANGED pc
         /\ table' = [table EXCEPT ![u[2]] =
                         table[u[2]] \cup {RowOf(p, idx[p][u[2]])}]
         /\ idx' = [idx EXCEPT ![p] = [idx[p] EXCEPT
                                          ![u[2]] = idx[p][u[2]] + 1]]
  <2>1. /\ idx[p][u[2]] \in Nat /\ Count(p, u[2]) \in Nat
        /\ idx[p][u[2]] <= Count(p, u[2])
    BY <1>1, <1>2, CountNat DEF TypeOK
  <2>2. ~More(p, u[2]) => idx[p][u[2]] = Count(p, u[2])
    BY <2>1 DEF More
  <2>3. QED
    BY <2>2 DEF InsertLoop, InsertFails, Goto
<1>7. \A q \in Request : PlaceOK(q)'
  <2> SUFFICES ASSUME NEW q \in Request PROVE PlaceOK(q)'
    OBVIOUS
  <2>1. \A t \in Table : Count(q, t)' = Count(q, t)
    BY <1>3 DEF Count
  <2>2. "serverinfo" \in Table /\ "cpuinfo" \in Table /\ "dockerinfo" \in Table
    BY DEF Table
  <2>3. CASE q = p
    <3>1. CASE /\ UNCHANGED <<table, idx>>
               /\ pc' = [pc EXCEPT ![p] = "caught"]
      <4>1. pc'[p] = "caught"
        BY <1>1, <3>1 DEF TypeOK
      <4>2. QED
        BY <2>3, <4>1, <1>4 DEF PlaceOK
    <3>3. CASE /\ UNCHANGED <<table, idx>>
               /\ idx[p][u[2]] = Count(p, u[2])
               /\ pc' = [pc EXCEPT ![p] = u[3]]
      <4>1. pc'[p] = u[3] /\ idx'[p] = idx[p]
        BY <1>1, <3>3 DEF TypeOK
      <4>2. CASE u = <<"insertServer", "serverinfo", "insertCpu">>
        BY <2>1, <2>2, <2>3, <3>3, <4>1, <4>2, <1>4 DEF PlaceOK
      <4>3. CASE u = <<"insertCpu", "cpuinfo", "insertDocker">>
        BY <1>3, <2>1, <2>2, <2>3, <3>3, <4>1, <4>3, <1>4 DEF IInv, PlaceOK
      <4>4. CASE u = <<"insertDocker", "dockerinfo", "stored">>
        BY <1>3, <2>1, <2>2, <2>3, <3>3, <4>1, <4>4, <1>4 DEF IInv, PlaceOK
      <4>5. QED
        BY <4>2, <4>3, <4>4 DEF InsertUses
    <3>2. CASE /\ UNCHANGED pc
               /\ idx' = [idx EXCEPT ![p] = [idx[p] EXCEPT
                                               ![u[2]] = idx[p][u[2]] + 1]]
      <4>1. \A t \in Table : t # u[2] => idx'[p][t] = idx[p][t]
        BY <1>1, <3>2 DEF TypeOK
      <4>2. pc'[p] = u[1]
        BY <1>3, <3>2
      <4>3. PlaceOK(p)
        BY DEF IInv
      <4>4. CASE u[1] = "insertServer"
        BY <1>4, <2>3, <4>2, <4>4 DEF PlaceOK
      <4>5. CASE u[1] = "insertCpu"
        <5>1. u[2] # "serverinfo"
          BY <4>5 DEF InsertUses
        <5>2. QED
          BY <1>3, <1>4, <2>1, <2>2, <2>3, <4>1, <4>2, <4>3, <4>5, <5>1
             DEF PlaceOK
      <4>6. CASE u[1] = "insertDocker"
        <5>1. u[2] # "serverinfo" /\ u[2] # "cpuinfo"
          BY <4>6 DEF InsertUses
        <5>2. QED
          BY <1>3, <1>4, <2>1, <2>2, <2>3, <4>1, <4>2, <4>3, <4>6, <5>1
             DEF PlaceOK
      <4>7. QED
        BY <1>2, <4>4, <4>5, <4>6
    <3>4. QED
      BY <1>6, <3>1, <3>2, <3>3
  <2>4. CASE q # p
    <3>1. pc'[q] = pc[q] /\ wiped'[q] = wiped[q] /\ idx'[q] = idx[q]
      BY <2>4, <1>1, <1>3, <1>6 DEF TypeOK
    <3>2. QED
      BY <2>1, <2>2, <3>1 DEF IInv, PlaceOK, Begun
  <2>5. QED
    BY <2>3, <2>4
<1>8. CASE UNCHANGED <<table, idx>>
  BY <1>1, <1>3, <1>4, <1>5, <1>7, <1>8, QuietStep
<1>9. CASE /\ UNCHANGED pc
           /\ table' = [table EXCEPT ![u[2]] =
                           table[u[2]] \cup {RowOf(p, idx[p][u[2]])}]
           /\ idx' = [idx EXCEPT ![p] = [idx[p] EXCEPT
                                            ![u[2]] = idx[p][u[2]] + 1]]
  <2> DEFINE new == RowOf(p, idx[p][u[2]])
  <2>1. new.id = data[p].id /\ new.by = p
    BY DEF RowOf
  <2>2. /\ table'[u[2]] = table[u[2]] \cup {new}
        /\ \A t \in Table : t # u[2] => table'[t] = table[t]
    BY <1>1, <1>2, <1>9 DEF TypeOK
  <2>3. p \notin UNION {before[q] : q \in Request}
    BY <1>2, <1>3 DEF IInv, BeforeFinished, Finished
  <2>4. RowsKeyed'
    <3> SUFFICES ASSUME NEW t \in Table, NEW x \in table'[t]
                 PROVE  x.id = data[x.by].id
      BY <1>3 DEF RowsKeyed
    <3>1. CASE x \in table[t]
      BY <3>1 DEF IInv, RowsKeyed
    <3>2. CASE x = new
      BY <2>1, <3>2
    <3>3. QED
      BY <2>2, <3>1, <3>2
  <2>5. NoStaleRow'
    <3> SUFFICES ASSUME NEW r \in Request, NEW q \in before[r],
                        NEW t \in wiped[r], data[q].id = data[r].id,
                        NEW x \in table'[t], x.id = data[r].id
                 PROVE  x.by # q
      BY <1>3 DEF NoStaleRow, Stored
    <3>1. t \in Table
      BY <1>1 DEF TypeOK
    <3>2. CASE x \in table[t]
      BY <3>2 DEF IInv, NoStaleRow, Stored
    <3>3. CASE x = new
      BY <2>1, <2>3, <3>3
    <3>4. QED
      BY <2>2, <3>1, <3>2, <3>3
  <2>6. Replaced'
    <3> SUFFICES ASSUME NEW r \in Request, NEW t \in wiped[r],
                        Undisturbed(r)'
                 PROVE  Stored(t, data[r].id)' = Inserted(r, t)'
      BY <1>3 DEF Replaced
    <3>1. t \in Table
      BY <1>1 DEF TypeOK
    <3>2. Undisturbed(r)
      BY <1>3, <1>4 DEF Undisturbed
    <3>3. Stored(t, data[r].id) = Inserted(r, t)
      BY <3>2 DEF IInv, Replaced
    <3>4. CASE r = p /\ t = u[2]
      <4>1. Stored(t, data[r].id)' = Stored(t, data[r].id) \cup {new}
        BY <1>3, <2>1, <2>2, <3>4 DEF Stored
      <4>2. idx[p][t] \in Nat /\ idx'[p][t] = idx[p][t] + 1
        BY <1>1, <1>9, <3>1, <3>4 DEF TypeOK
      <4>3. \A n : n \in 0 .. idx'[p][t] - 1
                     <=> n \in 0 .. idx[p][t] - 1 \/ n = idx[p][t]
        BY <4>2
      <4>4. \A n : RowOf(p, n)' = RowOf(p, n)
        BY <1>3 DEF RowOf
      <4>5. Inserted(p, t)' = Inserted(p, t) \cup {RowOf(p, idx[p][t])}
        BY <4>3, <4>4 DEF Inserted
      <4>6. QED
        BY <3>3, <3>4, <4>1, <4>5
    <3>5. CASE ~(r = p /\ t = u[2])
      <4>1. idx'[r][t] = idx[r][t]
        BY <1>1, <1>9, <3>1, <3>5 DEF TypeOK
      <4>2. Inserted(r, t)' = Inserted(r, t)
        BY <1>3, <4>1 DEF Inserted, RowOf
      <4>3. Stored(t, data[r].id)' = Stored(t, data[r].id)
        <5>1. CASE t # u[2]
          BY <1>3, <2>2, <3>1, <5>1 DEF Stored
        <5>2. CASE t = u[2]
          <6>1. data[p].id # data[r].id
            \* p is at work, so r is not Undisturbed beside it.
            BY <1>4, <2>3, <3>2, <3>5, <5>2 DEF Undisturbed
          <6>2. QED
            BY <1>3, <2>1, <2>2, <5>2, <6>1 DEF Stored
        <5>3. QED
          BY <5>1, <5>2
      <4>4. QED
        BY <3>3, <4>2, <4>3
    <3>6. QED
      BY <3>4, <3>5
  <2>7. QED
    BY <1>1, <1>5, <1>7, <2>4, <2>5, <2>6 DEF IInv
<1>10. QED
  BY <1>6, <1>8, <1>9

LEMMA NextIInv == IInv /\ [Next]_vars => IInv'
<1> SUFFICES ASSUME IInv, [Next]_vars PROVE IInv'
  OBVIOUS
<1>1. TypeOK /\ TypeOK'
  BY NextTypeOK DEF IInv
<1>2. ASSUME NEW r \in Request, Receive(r) PROVE IInv'
  <2>1. /\ pc[r] = "idle" /\ pc' = [pc EXCEPT ![r] = "getConnect"]
        /\ before' = [before EXCEPT ![r] = {q \in Request : pc[q] \in Finished}]
        /\ UNCHANGED <<table, data, idx, wiped>>
    BY <1>2 DEF Receive, Goto, shared
  <2>2. pc'[r] = "getConnect" /\ \A q \in Request : q # r => pc'[q] = pc[q]
    BY <1>1, <2>1 DEF TypeOK
  <2>3. \A q \in Request : Begun(q) => Begun(q)'
    BY <2>1, <2>2 DEF Begun, Finished
  <2>4. wiped[r] = {} /\ \A t \in Table : idx[r][t] = 0
    BY <2>1 DEF IInv, PlaceOK, Begun, Finished
  <2>5. \A q \in Request : wiped[q] # {} => before'[q] = before[q]
    BY <1>1, <2>1, <2>4 DEF TypeOK
  <2>6. BeforeFinished'
    BY <1>1, <2>1, <2>2 DEF IInv, BeforeFinished, Finished, TypeOK
  <2>7. \A q \in Request : PlaceOK(q)'
    BY <2>1, <2>2, <2>4 DEF IInv, PlaceOK, Begun, Finished, Count
  <2>8. QED
    BY <1>1, <2>1, <2>3, <2>5, <2>6, <2>7, QuietStep
<1>3. ASSUME NEW r \in Request, NEW here \in Stage, NEW there \in Stage,
             pc[r] = here, pc' = [pc EXCEPT ![r] = there],
             UNCHANGED <<table, data, idx, wiped, before>>,
             \/ /\ here \in {"getConnect", "assignCon", "gotConnect"}
                /\ there \in {"assignCon", "gotConnect", "parse"}
             \/ here = "parse" /\ there \in {"deleteServer", "caught", "thrown"}
             \/ here = "sections" /\ there \in {"insertServer", "thrown"}
      PROVE  IInv'
  <2>1. pc'[r] = there /\ \A q \in Request : q # r => pc'[q] = pc[q]
    BY <1>1, <1>3 DEF TypeOK
  <2>2. \A q \in Request : Begun(q) => Begun(q)'
    BY <1>3, <2>1 DEF Begun, Finished
  <2>3. BeforeFinished'
    BY <1>1, <1>3, <2>1 DEF IInv, BeforeFinished, Finished, TypeOK
  <2>4. \A q \in Request : PlaceOK(q)'
    BY <1>3, <2>1 DEF IInv, PlaceOK, Begun, Finished, Count
  <2>5. QED
    BY <1>1, <1>3, <2>2, <2>3, <2>4, QuietStep
<1>4. ASSUME NEW r \in Request, GetConnect(r) \/ AssignCon(r) PROVE IInv'
  BY <1>3, <1>4 DEF GetConnect, AssignCon, Goto, Stage
<1>5. ASSUME NEW r \in Request, ReturnConnect(r) PROVE IInv'
  BY <1>3, <1>5 DEF ReturnConnect, Goto, Stage, shared
<1>6. ASSUME NEW r \in Request, InsertData(r) PROVE IInv'
  <2>1. CASE ParseData(r)
    BY <1>3, <2>1 DEF ParseData, Goto, Stage, Finished, shared
  <2>2. CASE ReadSections(r)
    BY <1>3, <2>2 DEF ReadSections, Goto, Stage, Finished, shared
  <2>3. QED
    BY <1>6, <2>1, <2>2, InsertDataCases, DeleteIInv, InsertIInv
<1>7. CASE UNCHANGED <<pc, table, data, idx, wiped, before>>
  <2>1. \A q \in Request : Begun(q) => Begun(q)'
    BY <1>7 DEF Begun
  <2>2. BeforeFinished' /\ \A q \in Request : PlaceOK(q)'
    BY <1>7 DEF IInv, BeforeFinished, PlaceOK, Begun, Count
  <2>3. QED
    BY <1>1, <1>7, <2>1, <2>2, QuietStep
<1>8. QED
  BY <1>2, <1>4, <1>5, <1>6, <1>7
     DEF Next, JsonToMysql, DropConnection, handler, vars

LEMMA IInvCorrect == Spec => []IInv
BY InitIInv, NextIInv, PTL DEF Spec

\* Once a report's delete has gone through, no row of a report answered before
\* it arrived is left or can come back, however the handlers overlap.
THEOREM StaleRowsNeverReturn == Spec => []NoStaleRow
<1>1. IInv => NoStaleRow
  BY DEF IInv
<1>2. QED
  BY <1>1, IInvCorrect, PTL

\* insertData's delete-then-insert replaces all that is stored for an id when
\* no handler of the same id runs beside it, whatever the other handlers do.
THEOREM ReplacesExactly == Spec => []ExactSnapshot
<1>1. IInv => ExactSnapshot
  <2> SUFFICES ASSUME IInv, NEW r \in Request, Succeeded(r), Undisturbed(r),
                      NEW t \in Table
               PROVE  Stored(t, data[r].id) = Whole(r, t)
    BY DEF ExactSnapshot
  <2>1. idx[r][t] = Count(r, t)
    BY DEF Succeeded, IInv, PlaceOK, Table
  <2>2. Stored(t, data[r].id) = Inserted(r, t)
    BY DEF Succeeded, IInv, Replaced
  <2>3. QED
    BY <2>1, <2>2 DEF Inserted, Whole
<1>2. QED
  BY <1>1, IInvCorrect, PTL

-----------------------------------------------------------------------------
\* In each table, one of the reports that cleared it still has every row it
\* has inserted so far: the one whose delete came last.
Survivor ==
  \A i \in Id : \A t \in Table :
    LET cleared == {r \in Request : data[r].id = i /\ t \in wiped[r]}
    IN  cleared # {} => \E r \in cleared : Inserted(r, t) \subseteq table[t]

\* A step after which no cleared table has lost a row keeps Survivor.
LEMMA SurvivorKept ==
  ASSUME Survivor, UNCHANGED data, wiped' = wiped,
         \A r \in Request : \A t \in Table :
           Inserted(r, t) \subseteq table[t] => Inserted(r, t)' \subseteq table'[t]
  PROVE  Survivor'
<1> SUFFICES ASSUME NEW i \in Id, NEW t \in Table, NEW q \in Request,
                    data[q].id = i, t \in wiped[q]
             PROVE  \E r \in {s \in Request : data[s].id = i /\ t \in wiped[s]} :
                      Inserted(r, t)' \subseteq table'[t]
  BY DEF Survivor
<1>1. PICK r \in {s \in Request : data[s].id = i /\ t \in wiped[s]} :
        Inserted(r, t) \subseteq table[t]
  BY DEF Survivor
<1>2. QED
  BY <1>1

LEMMA SurvivorStep == IInv /\ [Next]_vars /\ Survivor => Survivor'
<1> SUFFICES ASSUME IInv, [Next]_vars, Survivor PROVE Survivor'
  OBVIOUS
<1>1. TypeOK
  BY DEF IInv
<1>2. CASE UNCHANGED <<table, data, idx, wiped>>
  <2>1. \A r \in Request : \A t \in Table : Inserted(r, t)' = Inserted(r, t)
    BY <1>2 DEF Inserted, RowOf
  <2>2. QED
    BY <1>1, <1>2, <2>1, SurvivorKept
<1>3. ASSUME NEW p \in Request, NEW u \in DeleteUses,
             DeleteTable(p, u[1], u[2], u[3])
      PROVE  Survivor'
  <2>1. /\ pc[p] = u[1]
        /\ u[1] \in {"deleteServer", "deleteDocker", "deleteCpu"}
        /\ u[2] \in Table
        /\ UNCHANGED <<data, idx>>
    BY <1>3 DEF DeleteTable, DeleteUses, Table
  <2>2. \A r \in Request : \A t \in Table : Inserted(r, t)' = Inserted(r, t)
    BY <2>1 DEF Inserted, RowOf
  <2>3. CASE UNCHANGED <<table, wiped>>
    BY <1>2, <2>1, <2>3
  <2>4. CASE /\ table' = [table EXCEPT ![u[2]] =
                             {x \in table[u[2]] : x.id # data[p].id}]
             /\ wiped' = [wiped EXCEPT ![p] = wiped[p] \cup {u[2]}]
    <3>1. /\ table'[u[2]] = {x \in table[u[2]] : x.id # data[p].id}
          /\ \A t \in Table : t # u[2] => table'[t] = table[t]
          /\ wiped'[p] = wiped[p] \cup {u[2]}
          /\ \A r \in Request : r # p => wiped'[r] = wiped[r]
      BY <1>1, <2>1, <2>4 DEF TypeOK
    <3> SUFFICES ASSUME NEW i \in Id, NEW t \in Table, NEW q \in Request,
                        data[q].id = i, t \in wiped'[q]
                 PROVE  \E r \in Request :
                          /\ data[r].id = i /\ t \in wiped'[r]
                          /\ Inserted(r, t) \subseteq table'[t]
      BY <2>1, <2>2 DEF Survivor
    <3>2. CASE t = u[2] /\ data[p].id = i
      <4>1. idx[p][t] = 0
        BY <2>1 DEF IInv, PlaceOK, Begun, Finished
      <4>2. Inserted(p, t) = {}
        BY <4>1 DEF Inserted
      <4>3. QED
        BY <3>1, <3>2, <4>2
    <3>3. CASE ~(t = u[2] /\ data[p].id = i)
      <4>1. t \in wiped[q]
        BY <3>1, <3>3
      <4>2. PICK r \in Request : /\ data[r].id = i /\ t \in wiped[r]
                                 /\ Inserted(r, t) \subseteq table[t]
        BY <4>1 DEF Survivor
      <4>3. \A x \in Inserted(r, t) : x.id = i
        BY <4>2 DEF Inserted, RowOf
      <4>4. Inserted(r, t) \subseteq table'[t]
        BY <3>1, <3>3, <4>2, <4>3
      <4>5. QED
        BY <3>1, <4>2, <4>4
    <3>4. QED
      BY <3>2, <3>3
  <2>5. QED
    BY <1>3, <2>3, <2>4 DEF DeleteTable, Kept
<1>4. ASSUME NEW p \in Request, NEW u \in InsertUses,
             InsertLoop(p, u[1], u[2], u[3])
      PROVE  Survivor'
  <2>1. u[2] \in Table /\ UNCHANGED <<data, wiped>>
    BY <1>4 DEF InsertLoop, InsertUses, Table
  <2>2. CASE UNCHANGED <<table, idx>>
    BY <1>2, <2>1, <2>2
  <2>3. CASE /\ table' = [table EXCEPT ![u[2]] =
                             table[u[2]] \cup {RowOf(p, idx[p][u[2]])}]
             /\ idx' = [idx EXCEPT ![p] = [idx[p] EXCEPT
                                              ![u[2]] = idx[p][u[2]] + 1]]
    <3> SUFFICES ASSUME NEW r \in Request, NEW t \in Table,
                        Inserted(r, t) \subseteq table[t]
                 PROVE  Inserted(r, t)' \subseteq table'[t]
      BY <1>1, <2>1, SurvivorKept
    <3>1. \A n : RowOf(r, n)' = RowOf(r, n)
      BY <2>1 DEF RowOf
    <3>2. table[t] \subseteq table'[t]
      BY <1>1, <2>1, <2>3 DEF TypeOK
    <3>3. CASE r = p /\ t = u[2]
      <4>1. idx[p][t] \in Nat /\ idx'[p][t] = idx[p][t] + 1
        BY <1>1, <2>3, <3>3 DEF TypeOK
      <4>2. \A n : n \in 0 .. idx'[p][t] - 1
                     => n \in 0 .. idx[p][t] - 1 \/ n = idx[p][t]
        BY <4>1
      <4>3. RowOf(p, idx[p][t]) \in table'[t]
        BY <1>1, <2>1, <2>3, <3>3 DEF TypeOK
      <4>4. QED
        BY <3>1, <3>2, <3>3, <4>2, <4>3 DEF Inserted
    <3>4. CASE ~(r = p /\ t = u[2])
      <4>1. idx'[r][t] = idx[r][t]
        BY <1>1, <2>1, <2>3, <3>4 DEF TypeOK
      <4>2. QED
        BY <3>1, <3>2, <4>1 DEF Inserted
    <3>5. QED
      BY <3>3, <3>4
  <2>4. QED
    BY <1>4, <2>2, <2>3 DEF InsertLoop, InsertFails
<1>5. ASSUME NEW r \in Request, InsertData(r) PROVE Survivor'
  <2>1. CASE ParseData(r) \/ ReadSections(r)
    BY <1>2, <2>1 DEF ParseData, ReadSections, shared
  <2>2. QED
    BY <1>3, <1>4, <1>5, <2>1, InsertDataCases
<1>6. QED
  BY <1>2, <1>5 DEF Next, JsonToMysql, Receive, GetConnect, AssignCon,
                    ReturnConnect, DropConnection, handler, shared, vars

\* Overlapping handlers of one machine may mix their rows, but they cannot
\* erase each other: if all that began have succeeded, every table holds the
\* whole of one of their reports.
THEOREM OneReportSurvives == Spec => []SomeReportSurvives
<1>1. Init => Survivor
  BY DEF Init, Survivor
<1>2. IInv /\ Survivor => SomeReportSurvives
  <2> SUFFICES ASSUME IInv, Survivor, NEW i \in Id, NEW t \in Table,
                      NEW q \in Request, data[q].id = i, Begun(q),
                      \A r \in Request :
                        data[r].id = i /\ Begun(r) => Succeeded(r)
               PROVE  \E r \in Request : /\ data[r].id = i /\ Begun(r)
                                         /\ Whole(r, t) \subseteq table[t]
    BY DEF SomeReportSurvives
  <2>1. PICK r \in Request : /\ data[r].id = i /\ t \in wiped[r]
                             /\ Inserted(r, t) \subseteq table[t]
    BY DEF Succeeded, Survivor
  <2>2. Begun(r) /\ Succeeded(r)
    BY <2>1 DEF IInv, PlaceOK
  <2>3. idx[r][t] = Count(r, t)
    BY <2>2 DEF Succeeded, IInv, PlaceOK, Table
  <2>4. QED
    BY <2>1, <2>2, <2>3 DEF Inserted, Whole
<1>3. QED
  BY <1>1, <1>2, IInvCorrect, SurvivorStep, PTL DEF Spec

-----------------------------------------------------------------------------
\* The connections opened by handlers that had not finished when r arrived.
Recent(r) == {granted[q] : q \in Request \ before[r]} \ {NoConn}

\* A handler holds a connection only once its call has returned one; and while
\* it is about to read the field, the field holds a recent one.
FieldOK ==
  \A r \in Request :
    /\ pc[r] \in {"idle", "getConnect"} => granted[r] = NoConn
    /\ pc[r] = "assignCon" => granted[r] # NoConn
    /\ pc[r] = "gotConnect" /\ granted[r] # NoConn => con \in Recent(r)

\* A connection stays recent: `before' is fixed when a POST arrives, and
\* what a handler was granted is not taken back.
LEMMA RecentStays ==
  ASSUME NEW r \in Request, before'[r] = before[r],
         \A q \in Request : granted'[q] = granted[q] \/ granted[q] = NoConn
  PROVE  Recent(r) \subseteq Recent(r)'
BY DEF Recent

\* Steps that leave the connections alone.
LEMMA FieldKept ==
  ASSUME FieldOK, RecentConnection, UNCHANGED <<con, conn, granted>>,
         \A q \in Request :
           \/ pc'[q] = pc[q]
           \/ pc[q] = "idle" /\ pc'[q] = "getConnect"
           \/ {pc[q], pc'[q]} \cap
                {"idle", "getConnect", "assignCon", "gotConnect"} = {},
         \A q \in Request : before'[q] = before[q] \/ pc[q] = "idle"
  PROVE  FieldOK' /\ RecentConnection'
<1> SUFFICES ASSUME NEW r \in Request
             PROVE  /\ pc'[r] \in {"idle", "getConnect"} => granted[r] = NoConn
                    /\ pc'[r] = "assignCon" => granted[r] # NoConn
                    /\ granted[r] # NoConn =>
                         /\ pc'[r] = "gotConnect" => con \in Recent(r)'
                         /\ pc'[r] \notin {"assignCon", "gotConnect"} =>
                              conn[r] \in Recent(r)'
  BY DEF FieldOK, RecentConnection, Recent
<1>1. granted[r] # NoConn => Recent(r)' = Recent(r)
  BY DEF FieldOK, Recent
<1>2. QED
  BY <1>1 DEF FieldOK, RecentConnection, Recent

\* The three steps that move a connection.
LEMMA FieldMoved ==
  ASSUME TypeOK, BeforeFinished, FieldOK, RecentConnection, NEW r \in Request,
         GetConnect(r) \/ AssignCon(r) \/ ReturnConnect(r)
  PROVE  FieldOK' /\ RecentConnection'
<1>1. UNCHANGED before /\ \A q \in Request \ {r} :
        pc'[q] = pc[q] /\ conn'[q] = conn[q] /\ granted'[q] = granted[q]
  BY DEF GetConnect, AssignCon, ReturnConnect, Goto, shared, TypeOK
<1>2. granted'[r] = granted[r] \/ granted[r] = NoConn
  BY DEF GetConnect, AssignCon, ReturnConnect, shared, FieldOK
<1>3. \A q \in Request : Recent(q) \subseteq Recent(q)'
  BY <1>1, <1>2, RecentStays
<1>4. con' # con => \A q \in Request : con' \in Recent(q)
  <2>1. CASE AssignCon(r)
    <3>1. con' = granted[r] /\ granted[r] # NoConn /\ pc[r] \notin Finished
      BY <2>1 DEF AssignCon, Assigned, FieldOK, Finished
    <3>2. \A q \in Request : r \notin before[q]
      BY <3>1 DEF BeforeFinished
    <3>3. QED
      BY <3>1, <3>2 DEF Recent
  <2>2. CASE GetConnect(r) \/ ReturnConnect(r)
    BY <2>2 DEF GetConnect, ReturnConnect, shared
  <2>3. QED
    BY <2>1, <2>2
<1>5. ASSUME NEW q \in Request \ {r}
      PROVE  /\ pc'[q] \in {"idle", "getConnect"} => granted'[q] = NoConn
             /\ pc'[q] = "assignCon" => granted'[q] # NoConn
             /\ granted'[q] # NoConn =>
                  /\ pc'[q] = "gotConnect" => con' \in Recent(q)'
                  /\ pc'[q] \notin {"assignCon", "gotConnect"} =>
                       conn'[q] \in Recent(q)'
  BY <1>1, <1>3, <1>4 DEF FieldOK, RecentConnection, Recent
<1>6. /\ pc'[r] \in {"idle", "getConnect"} => granted'[r] = NoConn
      /\ pc'[r] = "assignCon" => granted'[r] # NoConn
      /\ granted'[r] # NoConn =>
           /\ pc'[r] = "gotConnect" => con' \in Recent(r)'
           /\ pc'[r] \notin {"assignCon", "gotConnect"} =>
                conn'[r] \in Recent(r)'
  <2>1. CASE GetConnect(r)
    <3>1. granted[r] = NoConn
      BY <2>1 DEF GetConnect, FieldOK
    <3>2. \/ pc'[r] = "assignCon" /\ granted'[r] # NoConn
          \/ pc'[r] = "gotConnect" /\ granted'[r] = granted[r]
      BY <2>1, StoreAssumption DEF GetConnect, Goto, TypeOK, NoConn
    <3>3. QED
      BY <3>1, <3>2
  <2>2. CASE AssignCon(r)
    <3>1. /\ pc'[r] = "gotConnect" /\ con' = granted[r] /\ granted[r] # NoConn
          /\ r \notin before[r]
      BY <2>2 DEF AssignCon, Assigned, Goto, FieldOK, BeforeFinished, Finished,
                  TypeOK
    <3>2. con' \in Recent(r)
      BY <3>1 DEF Recent
    <3>3. QED
      BY <1>3, <2>2, <3>1, <3>2 DEF AssignCon
  <2>3. CASE ReturnConnect(r)
    <3>1. pc'[r] = "parse" /\ conn'[r] = con /\ granted'[r] = granted[r]
      BY <2>3 DEF ReturnConnect, Goto, shared, TypeOK
    <3>2. granted[r] # NoConn => con \in Recent(r)
      BY <2>3 DEF ReturnConnect, FieldOK
    <3>3. QED
      BY <1>3, <3>1, <3>2
  <2>4. QED
    BY <2>1, <2>2, <2>3
<1>7. QED
  BY <1>5, <1>6 DEF FieldOK, RecentConnection, Recent

\* A handler whose own getConnection succeeded may be given the connection of
\* another one, but never null, and never one of a handler that had finished
\* before its POST arrived.
THEOREM ConnectionIsRecent == Spec => []RecentConnection
<1>1. Init => FieldOK /\ RecentConnection
  BY DEF Init, FieldOK, RecentConnection
<1>2. ASSUME IInv, FieldOK, RecentConnection, [Next]_vars
      PROVE  FieldOK' /\ RecentConnection'
  <2>1. TypeOK /\ BeforeFinished
    BY <1>2 DEF IInv
  <2>2. ASSUME NEW r \in Request, Receive(r)
        PROVE  FieldOK' /\ RecentConnection'
    <3>1. UNCHANGED <<con, conn, granted>>
      BY <2>2 DEF Receive, shared
    <3>2. pc[r] = "idle" /\ pc'[r] = "getConnect"
      BY <2>1, <2>2 DEF Receive, Goto, TypeOK
    <3>3. \A q \in Request \ {r} : pc'[q] = pc[q] /\ before'[q] = before[q]
      BY <2>1, <2>2 DEF Receive, Goto, TypeOK
    <3>4. QED
      BY <1>2, <3>1, <3>2, <3>3, FieldKept
  <2>3. ASSUME NEW r \in Request, InsertData(r)
        PROVE  FieldOK' /\ RecentConnection'
    <3>1. /\ UNCHANGED <<con, conn, granted, before>>
          /\ pc[r] \notin {"idle", "getConnect", "assignCon", "gotConnect"}
          /\ \/ pc' = pc
             \/ \E s \in Stage : /\ pc' = [pc EXCEPT ![r] = s]
                                 /\ s \notin {"idle", "getConnect", "assignCon",
                                              "gotConnect"}
      <4>1. CASE ParseData(r)
        BY <4>1 DEF ParseData, Goto, shared, Stage, Finished
      <4>2. CASE ReadSections(r)
        BY <4>2 DEF ReadSections, Goto, shared, Stage, Finished
      <4>3. ASSUME NEW u \in DeleteUses, DeleteTable(r, u[1], u[2], u[3])
            PROVE  <3>1!:
        BY <4>3 DEF DeleteTable, DeleteUses, Goto, Stage, Finished
      <4>4. ASSUME NEW u \in InsertUses, InsertLoop(r, u[1], u[2], u[3])
            PROVE  <3>1!:
        BY <4>4 DEF InsertLoop, InsertFails, InsertUses, Goto, Stage, Finished
      <4>5. QED
        BY <2>3, <4>1, <4>2, <4>3, <4>4, InsertDataCases
    <3>2. \A q \in Request : \/ pc'[q] = pc[q]
                             \/ {pc[q], pc'[q]} \cap {"idle", "getConnect",
                                    "assignCon", "gotConnect"} = {}
      BY <2>1, <3>1 DEF TypeOK
    <3>3. QED
      BY <1>2, <3>1, <3>2, FieldKept
  <2>4. CASE UNCHANGED <<con, conn, granted, pc, before>>
    BY <1>2, <2>4, FieldKept
  <2>5. QED
    BY <1>2, <2>1, <2>2, <2>3, <2>4, FieldMoved
       DEF Next, JsonToMysql, DropConnection, handler, vars
<1>3. QED
  BY <1>1, <1>2, IInvCorrect, PTL DEF Spec

-----------------------------------------------------------------------------
(***************************************************************************)
(* The refinement: the handlers keep what ReportStore promises.            *)
(***************************************************************************)

\* The initial state of the handlers is one of the store.
LEMMA StoreInit == Init => Store!Init
<1> SUFFICES ASSUME Init PROVE Store!Init
  OBVIOUS
<1>1. ASSUME NEW r \in Request
      PROVE  ReportOf(r) \in [id : Id, content : [Table -> SUBSET Row]]
  <2>1. TypeOK
    BY InitTypeOK
  <2>2. data[r].id \in Id
    BY <2>1, StoreAssumption DEF TypeOK, Payload
  <2>3. \A t \in Table : Whole(r, t) \in SUBSET Row
    BY <2>1, <2>2, CountNat DEF Whole, RowOf, Row, TypeOK
  <2>4. QED
    BY <2>2, <2>3 DEF ReportOf
<1>2. \A r \in Request : StateOf(r) = "new" /\ ~Working(r)
  BY DEF Init, StateOf, Working, Finished, Succeeded
<1>3. ASSUME NEW i \in Id PROVE ShownOf(i) \in [Table -> SUBSET Row]
  BY DEF Init, ShownOf, Stored
<1>4. QED
  BY <1>1, <1>2, <1>3 DEF Store!Init

\* What a step leaves of the view when no handler is received or finishes.
LEMMA ViewKept ==
  ASSUME UNCHANGED <<data, before>>,
         \A q \in Request : \/ pc'[q] = pc[q] /\ wiped'[q] = wiped[q]
                            \/ Working(q) /\ Working(q)'
  PROVE  \A r \in Request :
           /\ ReportOf(r)' = ReportOf(r)
           /\ StateOf(r)' = StateOf(r)
           /\ Working(r)' = Working(r)
           /\ Alone(r)' = Alone(r)
<1> TAKE r \in Request
<1>1. ReportOf(r)' = ReportOf(r)
  BY DEF ReportOf, Whole, RowOf, Count
<1>2. CASE pc'[r] = pc[r] /\ wiped'[r] = wiped[r]
  <2>1. StateOf(r)' = StateOf(r) /\ Working(r)' = Working(r)
    BY <1>2 DEF StateOf, Succeeded, Working
  <2>2. QED
    BY <1>1, <2>1 DEF Alone, Working
<1>3. CASE Working(r) /\ Working(r)'
  <2>1. StateOf(r)' = "open" /\ StateOf(r) = "open"
    BY <1>3 DEF StateOf, Succeeded, Working, Finished
  <2>2. QED
    BY <1>1, <1>3, <2>1 DEF Alone, Working
<1>4. QED
  BY <1>2, <1>3

\* A statement changes the rows of its own machine only.
LEMMA StatementChanges ==
  ASSUME TypeOK, TypeOK', NEW p \in Request, Working(p), Working(p)',
         UNCHANGED <<data, before>>,
         \A q \in Request \ {p} : pc'[q] = pc[q] /\ wiped'[q] = wiped[q],
         \A t \in Table : \A x : x.id # data[p].id =>
           (x \in table'[t] <=> x \in table[t])
  PROVE  Store!Change(data[p].id)
<1> DEFINE i == data[p].id
<1>1. i \in Id
  BY StoreAssumption DEF TypeOK, Payload
<1>2. \A r \in Request :
        /\ ReportOf(r)' = ReportOf(r) /\ StateOf(r)' = StateOf(r)
        /\ Working(r)' = Working(r) /\ Alone(r)' = Alone(r)
  BY ViewKept
<1>3. StateOf(p) = "open" /\ ReportOf(p).id = i
  BY DEF StateOf, Working, Succeeded, Finished, ReportOf
<1>4. ShownOf(i)' \in [Table -> SUBSET Row]
  BY DEF ShownOf, Stored, TypeOK
<1>5. \A j \in Id : j # i => ShownOf(j)' = ShownOf(j)
  <2> SUFFICES ASSUME NEW j \in Id, j # i, NEW t \in Table
               PROVE  Stored(t, j)' = Stored(t, j)
    BY DEF ShownOf
  <2>1. QED
    BY DEF Stored
<1>6. QED
  BY <1>1, <1>2, <1>3, <1>4, <1>5 DEF Store!Change, Store!Open

\* A handler that returns closes its report, whole if it was alone.
LEMMA ReturnCloses ==
  ASSUME IInv, ExactSnapshot', NEW p \in Request, NEW s \in Finished,
         Working(p), pc' = [pc EXCEPT ![p] = s],
         UNCHANGED <<data, table, before, wiped>>
  PROVE  Store!CloseReport(p)
<1>1. pc'[p] = s /\ \A q \in Request \ {p} : pc'[q] = pc[q]
  BY DEF IInv, TypeOK
<1>2. \A r \in Request : ReportOf(r)' = ReportOf(r)
  BY DEF ReportOf, Whole, RowOf, Count
<1>3. \A j \in Id : ShownOf(j)' = ShownOf(j)
  BY DEF ShownOf, Stored
<1>4. StateOf(p) = "open" /\ Working(p) /\ ~Working(p)'
  BY <1>1 DEF StateOf, Working, Succeeded, Finished
<1>5. StateOf(p)' = IF Succeeded(p)' THEN "stored" ELSE "failed"
  BY <1>1 DEF StateOf, Succeeded, Finished
<1>6. \A q \in Request \ {p} : StateOf(q)' = StateOf(q)
  BY <1>1 DEF StateOf, Succeeded
<1>7. \A q \in Request \ {p} :
        Working(q)' = Working(q) /\ Alone(q)' = Alone(q)
  <2> SUFFICES ASSUME NEW q \in Request \ {p}
               PROVE  Working(q)' = Working(q) /\ Alone(q)' = Alone(q)
    OBVIOUS
  <2>1. Working(q)' = Working(q)
    BY <1>1 DEF Working
  <2>2. pc[p] # "idle" /\ pc'[p] # "idle"
    BY <1>1 DEF Working, Finished
  <2>3. QED
    BY <1>1, <2>1, <2>2 DEF Alone
<1>8. ASSUME Succeeded(p)', Alone(p)
      PROVE  ShownOf(data[p].id) = ReportOf(p).content
  <2>1. Undisturbed(p)'
    BY <1>1, <1>8 DEF Alone, Undisturbed, Begun, Finished
  <2>2. \A t \in Table : Stored(t, data[p].id) = Whole(p, t)
    <3> TAKE t \in Table
    <3>1. Stored(t, data[p].id)' = Whole(p, t)'
      BY <1>8, <2>1 DEF ExactSnapshot
    <3>2. Stored(t, data[p].id)' = Stored(t, data[p].id)
      BY DEF Stored
    <3>3. Whole(p, t)' = Whole(p, t)
      BY DEF Whole, RowOf, Count
    <3>4. QED
      BY <3>1, <3>2, <3>3
  <2>3. QED
    BY <2>2 DEF ShownOf, ReportOf
<1>9. data[p].id \in Id
  BY StoreAssumption DEF IInv, TypeOK, Payload
<1>10. ReportOf(p).id = data[p].id
  BY DEF ReportOf
<1>11. QED
  BY <1>2, <1>3, <1>4, <1>5, <1>6, <1>7, <1>8, <1>9, <1>10
     DEF Store!CloseReport

\* A request that is received opens its report.
LEMMA ReceiveOpens ==
  ASSUME IInv, NEW p \in Request, Receive(p)
  PROVE  Store!OpenReport(p)
<1>1. /\ pc[p] = "idle" /\ pc' = [pc EXCEPT ![p] = "getConnect"]
      /\ before' = [before EXCEPT ![p] = {q \in Request : pc[q] \in Finished}]
      /\ UNCHANGED <<table, data, wiped>>
  BY DEF Receive, Goto, shared
<1>2. pc'[p] = "getConnect" /\ \A q \in Request \ {p} : pc'[q] = pc[q]
  BY <1>1 DEF IInv, TypeOK
<1>3. /\ before'[p] = {q \in Request : pc[q] \in Finished}
      /\ \A q \in Request \ {p} : before'[q] = before[q]
  BY <1>1 DEF IInv, TypeOK
<1>4. \A r \in Request : ReportOf(r)' = ReportOf(r)
  BY <1>1 DEF ReportOf, Whole, RowOf, Count
<1>5. \A j \in Id : ShownOf(j)' = ShownOf(j)
  BY <1>1 DEF ShownOf, Stored
<1>6. /\ StateOf(p) = "new" /\ StateOf(p)' = "open"
      /\ \A q \in Request \ {p} : StateOf(q)' = StateOf(q)
  BY <1>1, <1>2 DEF StateOf, Succeeded, Finished
<1>7. /\ ~Working(p) /\ Working(p)'
      /\ \A q \in Request \ {p} : Working(q)' = Working(q)
  BY <1>1, <1>2 DEF Working, Finished
<1>8. \A q \in Request : Working(q) <=> StateOf(q) = "open"
  BY DEF Working, StateOf, Succeeded, Finished
<1>9. Alone(p)' <=> \A q \in Request : data[q].id = data[p].id => ~Working(q)
  BY <1>1, <1>2, <1>3, <1>7 DEF Alone, Working
<1>10. ASSUME NEW q \in Request \ {p}, Working(q)
       PROVE  Alone(q)' <=> Alone(q) /\ data[q].id # data[p].id
  <2>1. p \notin before[q]
    BY <1>1 DEF IInv, BeforeFinished, Finished
  <2>2. QED
    BY <1>1, <1>2, <1>3, <2>1 DEF Alone
<1>11. \A q \in Request : ReportOf(q).id = data[q].id
  BY DEF ReportOf
<1>12. Store!Open(data[p].id) =
         {q \in Request : Working(q) /\ data[q].id = data[p].id}
  BY <1>8, <1>11 DEF Store!Open
<1> DEFINE A  == {r \in Request : Working(r) /\ Alone(r)}
           A2 == {r \in Request : Working(r)' /\ Alone(r)'}
           O  == {q \in Request : Working(q) /\ data[q].id = data[p].id}
<1>13. A2 = IF O = {} THEN A \cup {p} ELSE A \ O
  <2>1. p \in A2 <=> O = {}
    BY <1>7, <1>9
  <2>2. p \notin A
    BY <1>7
  <2>3. \A q \in Request \ {p} : q \in A2 <=> q \in A /\ q \notin O
    BY <1>7, <1>10
  <2> HIDE DEF O
  <2>4. QED
    BY <2>1, <2>2, <2>3
<1>14. QED
  BY <1>4, <1>5, <1>6, <1>11, <1>12, <1>13 DEF Store!OpenReport

\* Every step of the handlers is one of the store, or does not show.
LEMMA StoreNext ==
  ASSUME IInv, TypeOK', ExactSnapshot', [Next]_vars
  PROVE  [Store!Next]_(Store!store)
<1>1. TypeOK
  BY DEF IInv
<1>2. ASSUME NEW p \in Request, Receive(p) PROVE Store!Next
  BY <1>2, ReceiveOpens DEF Store!Next
<1>3. ASSUME NEW p \in Request, NEW s \in Finished, Working(p),
             pc' = [pc EXCEPT ![p] = s], UNCHANGED <<data, table, before, wiped>>
      PROVE  Store!Next
  BY <1>3, ReturnCloses DEF Store!Next
<1>4. ASSUME NEW p \in Request, Working(p), Working(p)',
             UNCHANGED <<data, before>>,
             \A q \in Request \ {p} : pc'[q] = pc[q] /\ wiped'[q] = wiped[q],
             \A t \in Table : \A x : x.id # data[p].id =>
               (x \in table'[t] <=> x \in table[t])
      PROVE  Store!Next
  <2>1. data[p].id \in Id
    BY <1>1, StoreAssumption DEF TypeOK, Payload
  <2>2. QED
    BY <1>1, <1>4, <2>1, StatementChanges DEF Store!Next
<1>5. CASE /\ UNCHANGED <<data, before, table>>
           /\ \A q \in Request : \/ pc'[q] = pc[q] /\ wiped'[q] = wiped[q]
                                 \/ Working(q) /\ Working(q)'
  <2>1. \A j \in Id : ShownOf(j)' = ShownOf(j)
    BY <1>5 DEF ShownOf, Stored
  <2>2. \A r \in Request :
          /\ ReportOf(r)' = ReportOf(r) /\ StateOf(r)' = StateOf(r)
          /\ Working(r)' = Working(r) /\ Alone(r)' = Alone(r)
    BY <1>5, ViewKept
  <2>3. UNCHANGED Store!store
    BY <2>1, <2>2 DEF Store!store
  <2>4. QED
    BY <2>3
<1>6. ASSUME NEW p \in Request, NEW here \in Stage, NEW there \in Stage,
             pc[p] = here, pc' = [pc EXCEPT ![p] = there],
             here \notin {"idle"} \cup Finished, there # "idle",
             UNCHANGED <<data, before, table, wiped>>
      PROVE  [Store!Next]_(Store!store)
  <2>1. Working(p) /\ pc'[p] = there /\ \A q \in Request \ {p} : pc'[q] = pc[q]
    BY <1>1, <1>6 DEF Working, TypeOK
  <2>2. CASE there \in Finished
    BY <1>3, <1>6, <2>1, <2>2
  <2>3. CASE there \notin Finished
    <3>1. Working(p)'
      BY <1>6, <2>1, <2>3 DEF Working
    <3>2. QED
      BY <1>5, <1>6, <2>1, <3>1
  <2>4. QED
    BY <2>2, <2>3
<1>7. ASSUME NEW p \in Request, GetConnect(p) \/ AssignCon(p) \/ ReturnConnect(p)
      PROVE  [Store!Next]_(Store!store)
  BY <1>6, <1>7 DEF GetConnect, AssignCon, ReturnConnect, Goto, shared, Stage, Finished
<1>8. ASSUME NEW p \in Request, ParseData(p) \/ ReadSections(p)
      PROVE  [Store!Next]_(Store!store)
  <2>1. CASE ParseData(p)
    BY <1>6, <2>1 DEF ParseData, Goto, shared, Stage, Finished
  <2>2. CASE ReadSections(p)
    BY <1>6, <2>2 DEF ReadSections, Goto, shared, Stage, Finished
  <2>3. QED
    BY <1>8, <2>1, <2>2
<1>9. ASSUME NEW p \in Request, NEW u \in DeleteUses,
             DeleteTable(p, u[1], u[2], u[3])
      PROVE  [Store!Next]_(Store!store)
  <2>1. /\ u[1] \in Stage \ ({"idle"} \cup Finished)
        /\ u[2] \in Table
        /\ u[3] \in Stage \ ({"idle"} \cup Finished)
    BY DEF DeleteUses, Stage, Finished, Table
  <2>2. pc[p] = u[1] /\ UNCHANGED <<data, before>>
    BY <1>9 DEF DeleteTable
  <2>3. CASE pc' = [pc EXCEPT ![p] = "thrown"] /\ UNCHANGED <<table, wiped>>
    BY <1>6, <2>1, <2>2, <2>3 DEF Stage, Finished
  <2>4. CASE pc' = [pc EXCEPT ![p] = u[3]] /\ UNCHANGED <<table, wiped>>
    BY <1>6, <2>1, <2>2, <2>4
  <2>5. CASE /\ pc' = [pc EXCEPT ![p] = u[3]]
             /\ table' = [table EXCEPT ![u[2]] = Kept(p, u[2])]
             /\ wiped' = [wiped EXCEPT ![p] = wiped[p] \cup {u[2]}]
    <3>1. Working(p) /\ Working(p)'
      BY <1>1, <2>1, <2>2, <2>5 DEF Working, TypeOK
    <3>2. \A q \in Request \ {p} : pc'[q] = pc[q] /\ wiped'[q] = wiped[q]
      BY <1>1, <2>5 DEF TypeOK
    <3>3. \A t \in Table : \A x : x.id # data[p].id =>
            (x \in table'[t] <=> x \in table[t])
      BY <1>1, <2>1, <2>5 DEF TypeOK, Kept
    <3>4. QED
      BY <1>4, <2>2, <3>1, <3>2, <3>3
  <2>6. QED
    BY <1>9, <2>3, <2>4, <2>5 DEF DeleteTable, Goto
<1>10. ASSUME NEW p \in Request, NEW u \in InsertUses,
              InsertLoop(p, u[1], u[2], u[3])
       PROVE  [Store!Next]_(Store!store)
  <2>1. /\ u[1] \in Stage \ ({"idle"} \cup Finished)
        /\ u[2] \in Table
        /\ u[3] \in Stage \ {"idle"}
    BY DEF InsertUses, Stage, Finished, Table
  <2>2. pc[p] = u[1] /\ UNCHANGED <<data, before, wiped>>
    BY <1>10 DEF InsertLoop
  <2>3. CASE \E s \in {"caught", u[3]} :
               pc' = [pc EXCEPT ![p] = s] /\ table' = table
    BY <1>6, <2>1, <2>2, <2>3 DEF Stage, Finished
  <2>4. CASE /\ pc' = pc
             /\ table' = [table EXCEPT ![u[2]] =
                            table[u[2]] \cup {RowOf(p, idx[p][u[2]])}]
    <3>1. Working(p) /\ Working(p)'
      BY <2>1, <2>2, <2>4 DEF Working
    <3>2. \A t \in Table : \A x : x.id # data[p].id =>
            (x \in table'[t] <=> x \in table[t])
      BY <1>1, <2>1, <2>4 DEF TypeOK, RowOf
    <3>3. QED
      BY <1>4, <2>2, <2>4, <3>1, <3>2
  <2>5. QED
    BY <1>10, <2>3, <2>4 DEF InsertLoop, InsertFails, Goto
<1>11. ASSUME NEW p \in Request, InsertData(p)
       PROVE  [Store!Next]_(Store!store)
  BY <1>8, <1>9, <1>10, <1>11, InsertDataCases
<1>12. CASE UNCHANGED <<pc, table, data, wiped, before>>
  BY <1>5, <1>12
<1>13. QED
  BY <1>2, <1>7, <1>11, <1>12
     DEF Next, JsonToMysql, DropConnection, handler, vars

\* The handlers of jsonToMysql, with the connections they share and the
\* statements that can fail, implement the store a reader relies on.
THEOREM StoreImplemented == Spec => ImplementsReportStore
<1>1. IInv => TypeOK
  BY DEF IInv
<1>2. QED
  BY <1>1, StoreInit, StoreNext, IInvCorrect, ReplacesExactly, PTL
     DEF Spec, ImplementsReportStore, Store!Spec
=============================================================================
