--------------------------- MODULE TimeControlProofs ---------------------------
(***************************************************************************)
(* Proofs about the client's loop, for any sets of threads, images and     *)
(* values: its types, and that no change is lost as long as it lives.      *)
(***************************************************************************)
EXTENDS TimeControl, TLAPS

\* A deploy thread's step keeps the types of the daemon's and the threads'
\* state: a text read out of freed memory never becomes an image.
LEMMA DeployStepType ==
  ASSUME TypeOK, NEW t \in Thread, DeployStep(t)
  PROVE  DeployTypeOK'
<1> USE DEF TypeOK, DeployTypeOK
<1>1. CASE Pull(t)
  <2>1. stage' \in [Thread -> {"none", "pull", "downloaded", "running"}]
    BY <1>1 DEF Pull
  <2>2. local' \subseteq Image
    BY <1>1 DEF Pull, Command
  <2> QED
    BY <2>1, <2>2, <1>1 DEF Pull
<1>2. CASE Run(t)
  <2>1. stage' \in [Thread -> {"none", "pull", "downloaded", "running"}]
    BY <1>2 DEF Run
  <2>2. local' \subseteq Image
    BY <1>2 DEF Run, Command
  <2>3. containers' \in 0 .. MaxContainers
    BY <1>2, DeployAssumption DEF Run
  <2> QED
    BY <2>1, <2>2, <2>3, <1>2 DEF Run
<1>3. CASE RunReturns(t)
  <2>1. stage' \in [Thread -> {"none", "pull", "downloaded", "running"}]
    BY <1>3 DEF RunReturns
  <2>2. containers' \in 0 .. MaxContainers
    BY <1>3, DeployAssumption DEF RunReturns
  <2> QED
    BY <2>1, <2>2, <1>3 DEF RunReturns
<1>4. CASE PopenFails(t)
  BY <1>4 DEF PopenFails, deploy
<1> QED
  BY <1>1, <1>2, <1>3, <1>4 DEF DeployStep

\* A deploy thread starts with an image, or with what was taken for one.
LEMMA SpawnType ==
  ASSUME TypeOK, NEW x \in Image \cup {Junk}, Spawn(x), pc = "parse"
  PROVE  DeployTypeOK' /\ pc' \in {"sleep", "parse"}
<1> USE DEF TypeOK, DeployTypeOK
<1>1. CASE FreeThread = {}
  <2>1. Uncaught
    BY <1>1 DEF Spawn
  <2> QED
    BY <2>1 DEF Uncaught, deploy
<1>2. CASE FreeThread # {}
  <2>1. PICK t \in FreeThread : StartDeploy(t, x)
    BY <1>2 DEF Spawn
  <2>2. stage' \in [Thread -> {"none", "pull", "downloaded", "running"}]
    BY <2>1 DEF StartDeploy, FreeThread
  <2>3. dockerImage' \in [Thread -> Image \cup {Junk}]
    BY <2>1 DEF StartDeploy, FreeThread
  <2> QED
    BY <1>2, <2>2, <2>3 DEF Spawn
<1> QED
  BY <1>1, <1>2

\* The answer that is parsed gives Spawn an image or Junk, never Null.
LEMMA ParseType ==
  ASSUME TypeOK, ParseResponse
  PROVE  DeployTypeOK' /\ pc' \in {"sleep", "parse"}
<1> USE DEF At, ParseResponse
<1>1. pc = "parse"
  OBVIOUS
<1>2. CASE Spawn(Junk)
  BY <1>1, <1>2, SpawnType
<1>3. CASE response.directive # Null /\ Spawn(response.directive)
  <2>1. response.directive \in Image \cup {Junk}
    BY <1>3 DEF TypeOK, Response, Directive
  <2> QED
    BY <1>1, <1>3, <2>1, SpawnType
<1>4. CASE pc' = "sleep" /\ UNCHANGED <<deploy, ended>>
  BY <1>4 DEF TypeOK, DeployTypeOK, deploy
<1>5. CASE Uncaught
  BY <1>1, <1>5 DEF Uncaught, TypeOK, DeployTypeOK, deploy
<1> QED
  BY <1>2, <1>3, <1>4, <1>5

LEMMA NoResponseType == NoResponse \in Response
  BY DEF NoResponse, Response, Directive

LEMMA InitType == Init => TypeOK
<1>1. NoSample \in Sample
  BY DeployAssumption DEF NoSample, Sample, Section
<1> QED
  BY <1>1, NoResponseType DEF Init, DeployInit, TypeOK, DeployTypeOK, Section

\* Every step keeps the types.
LEMMA NextType ==
  ASSUME TypeOK, [Next]_vars
  PROVE  TypeOK'
<1> USE DEF TypeOK
<1>1. CASE SampleMemory
  <2>1. root' \in Sample
    BY <1>1 DEF SampleMemory, Sample, Section
  <2> QED
    BY <1>1, <2>1 DEF SampleMemory, DeployTypeOK, deploy, machine, stores
<1>2. CASE SampleDisk
  <2>1. root' \in Sample
    BY <1>2 DEF SampleDisk, Sample, Section
  <2> QED
    BY <1>2, <2>1 DEF SampleDisk, DeployTypeOK, deploy, machine, stores
<1>3. CASE SampleDocker
  <2>1. root' \in Sample
    BY <1>3 DEF SampleDocker, Sample, DeployTypeOK
  <2> QED
    BY <1>3, <2>1 DEF SampleDocker, DeployTypeOK, deploy, machine, stores
<1>4. CASE SampleFails
  BY <1>4 DEF SampleFails, DeployTypeOK, deploy, machine, loop
<1>5. CASE Compare
  <2>1. root.disk \in Section /\ root.memory \in Section
    BY DEF Sample
  <2>2. root.docker \in 0 .. MaxContainers
    BY DEF Sample
  <2>3. HasDocker => root.docker \in 1 .. MaxContainers
    BY <2>2, DeployAssumption DEF HasDocker
  <2> QED
    BY <1>5, <2>1, <2>3 DEF Compare, StoreUsage, DeployTypeOK, deploy, machine, stores
<1>6. CASE HttpPost
  <2>1. CASE response' = NoResponse
    BY <2>1, <1>6, NoResponseType DEF HttpPost, DeployTypeOK, deploy, machine, stores
  <2>2. ASSUME NEW k \in {"short", "other"}, answered' = root,
               response' = [NoResponse EXCEPT !.kind = k]
        PROVE  TypeOK'
    <3>1. response' = [kind |-> k, directive |-> Null, exact |-> TRUE]
      BY <2>2 DEF NoResponse
    <3>2. response' \in Response
      BY <3>1 DEF Response, Directive
    <3> QED
      BY <2>2, <1>6, <3>2 DEF HttpPost, DeployTypeOK, deploy, machine, stores
  <2>3. ASSUME NEW exact \in BOOLEAN, answered' = root,
               response' = [kind |-> "marked", directive |-> directive, exact |-> exact]
        PROVE  TypeOK'
    <3>1. response' \in Response
      BY <2>3 DEF Response
    <3> QED
      BY <2>3, <1>6, <3>1 DEF HttpPost, DeployTypeOK, deploy, machine, stores
  <2> QED
    BY <2>1, <2>2, <2>3, <1>6 DEF HttpPost
<1>7. CASE HttpPostOverflows
  BY <1>7 DEF HttpPostOverflows, DeployTypeOK, deploy, machine, loop
<1>8. CASE ParseResponse
  BY <1>8, ParseType DEF ParseResponse, machine, stores
<1>9. CASE Sleep
  BY <1>9 DEF Sleep, DeployTypeOK, deploy, machine, stores
<1>10. ASSUME NEW t \in Thread, DeployStep(t), UNCHANGED <<machine, directive, loop>>
       PROVE  TypeOK'
  BY <1>10, DeployStepType DEF machine, loop
<1>11. CASE OtherContainers /\ UNCHANGED <<machine, directive, loop>>
  BY <1>11 DEF OtherContainers, DeployTypeOK, machine, loop
<1>12. CASE MachineChanges
  BY <1>12 DEF MachineChanges, DeployTypeOK, deploy, loop
<1>13. CASE ServerDirects
  BY <1>13 DEF ServerDirects, DeployTypeOK, deploy, machine, loop
<1>14. CASE UNCHANGED vars
  BY <1>14 DEF vars, DeployTypeOK
<1> QED
  BY <1>1, <1>2, <1>3, <1>4, <1>5, <1>6, <1>7, <1>8, <1>9, <1>10, <1>11,
     <1>12, <1>13, <1>14 DEF Next, TimerControl

\* Every variable of the loop and of the deploy threads keeps its type, for any
\* number of threads, images, values and containers: an image that is deployed
\* is one a registry knows, or Junk, and a stored docker section is never 0.
THEOREM LoopTypeCorrect == Spec => []TypeOK
<1>1. TypeOK /\ [Next]_vars => TypeOK'
  BY NextType
<1> QED
  BY InitType, <1>1, PTL DEF Spec

-----------------------------------------------------------------------------
StoredAnswered == diskStore = answered.disk /\ memoryStore = answered.memory

\* The stores run ahead of what is answered in one place only: from Compare
\* until an answer comes, or the empty one ends the process.
LoopInv ==
  ~ended =>
    /\ pc \in {"sleep", "memory", "disk", "docker", "compare"} => StoredAnswered
    /\ pc = "post" => diskStore = root.disk /\ memoryStore = root.memory
    /\ pc = "parse" /\ response.kind # "empty" => StoredAnswered

LEMMA InitLoopInv == Init => LoopInv
  BY DEF Init, NoSample, LoopInv, StoredAnswered

\* Every step keeps LoopInv.
LEMMA NextLoopInv ==
  ASSUME TypeOK, LoopInv, [Next]_vars
  PROVE  LoopInv'
<1> USE DEF LoopInv, StoredAnswered
<1>1. CASE SampleMemory
  BY <1>1 DEF SampleMemory, At, stores
<1>2. CASE SampleDisk
  BY <1>2 DEF SampleDisk, At, stores
<1>3. CASE SampleDocker
  BY <1>3 DEF SampleDocker, At, stores
<1>4. CASE SampleFails
  BY <1>4 DEF SampleFails
<1>5. CASE Compare
  BY <1>5 DEF Compare, At, StoreUsage, stores
<1>6. CASE HttpPost
  BY <1>6 DEF HttpPost, At, NoResponse, stores
<1>7. CASE HttpPostOverflows
  BY <1>7 DEF HttpPostOverflows
<1>8. CASE ParseResponse
  <2>1. CASE ended'
    BY <2>1
  <2>2. CASE ~ended'
    <3>1. response.kind # "empty"
      BY <1>8, <2>2 DEF ParseResponse, Uncaught
    <3>2. pc = "parse" /\ ~ended
      BY <1>8 DEF ParseResponse, At
    <3>3. pc' = "sleep"
      BY <1>8, <2>2 DEF ParseResponse, Uncaught, Spawn
    <3> QED
      BY <1>8, <3>1, <3>2, <3>3 DEF ParseResponse, stores
  <2> QED
    BY <2>1, <2>2
<1>9. CASE Sleep
  BY <1>9 DEF Sleep, At, stores
<1>10. ASSUME NEW t \in Thread, DeployStep(t), UNCHANGED <<machine, directive, loop>>
       PROVE  LoopInv'
  <2>1. ended' \/ (ended' = ended)
    BY <1>10 DEF DeployStep, Pull, Run, RunReturns, PopenFails
  <2> QED
    BY <1>10, <2>1 DEF loop
<1>11. CASE OtherContainers /\ UNCHANGED <<machine, directive, loop>>
  BY <1>11 DEF OtherContainers, loop
<1>12. CASE MachineChanges
  BY <1>12 DEF MachineChanges, loop
<1>13. CASE ServerDirects
  BY <1>13 DEF ServerDirects, loop
<1>14. CASE UNCHANGED vars
  BY <1>14 DEF vars
<1> QED
  BY <1>1, <1>2, <1>3, <1>4, <1>5, <1>6, <1>7, <1>8, <1>9, <1>10, <1>11,
     <1>12, <1>13, <1>14 DEF Next, TimerControl

\* A client that is alive compares its samples with what the server has answered
\* for, although it updates its stores before it posts, any post may fail, and
\* deploy threads may end the process at any moment: for any set of values.
THEOREM NoReportIsLost == Spec => []NoLostReport
<1>1. TypeOK /\ LoopInv /\ [Next]_vars => LoopInv'
  BY NextLoopInv
<1>2. LoopInv => NoLostReport
  BY DEF LoopInv, NoLostReport, StoredAnswered
<1> QED
  BY LoopTypeCorrect, InitLoopInv, <1>1, <1>2, PTL DEF Spec
=============================================================================
