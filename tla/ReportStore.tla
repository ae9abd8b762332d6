----------------------------- MODULE ReportStore -----------------------------
(***************************************************************************)
(* What the server's store promises to whoever reads its tables, machine   *)
(* by machine, with no word on connections, statements or threads:         *)
(*   - what is shown of a machine changes only while a report of that very *)
(*     machine is open;                                                    *)
(*   - a report that is closed as "stored", and was alone while it was     *)
(*     open, is then exactly what is shown.                                *)
(* Nothing is promised of reports of one machine that are open at the same *)
(* time, nor of one that fails.                                            *)
(***************************************************************************)
CONSTANTS Request, Id, Content

VARIABLES
  body,    \* body[r]: the machine r reports on, and what it wants shown
  state,   \* state[r]: "new", "open", "stored" or "failed"
  alone,   \* open reports beside which none of their machine has been open
  shown    \* shown[i]: what the tables hold of machine i

store == <<body, state, alone, shown>>

Open(i) == {r \in Request : state[r] = "open" /\ body[r].id = i}

Init ==
  /\ body \in [Request -> [id : Id, content : Content]]
  /\ state = [r \in Request |-> "new"]
  /\ alone = {}
  /\ shown \in [Id -> Content]

OpenReport(r) ==
  /\ state[r] = "new"
  /\ state' = [state EXCEPT ![r] = "open"]
  /\ alone' = IF Open(body[r].id) = {} THEN alone \cup {r}
                                      ELSE alone \ Open(body[r].id)
  /\ UNCHANGED <<body, shown>>

\* shown'[i] is any content: its rows come and go one by one.
Change(i) ==
  /\ Open(i) # {}
  /\ shown'[i] \in Content
  /\ shown' = [shown EXCEPT ![i] = shown'[i]]
  /\ UNCHANGED <<body, state, alone>>

CloseReport(r) ==
  /\ state[r] = "open"
  /\ \/ state' = [state EXCEPT ![r] = "failed"]
     \/ /\ state' = [state EXCEPT ![r] = "stored"]
        /\ r \in alone => shown[body[r].id] = body[r].content
  /\ alone' = alone \ {r}
  /\ UNCHANGED <<body, shown>>

Next ==
  \/ \E r \in Request : OpenReport(r) \/ CloseReport(r)
  \/ \E i \in Id : Change(i)

Spec == Init /\ [][Next]_store
=============================================================================
