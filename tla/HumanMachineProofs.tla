-------------------------- MODULE HumanMachineProofs --------------------------
(***************************************************************************)
(* Proofs about the whole system: its types, that it implements            *)
(* TimeControl, and when an answer can be trusted; for any sets of values, *)
(* images and threads.                                                     *)
(***************************************************************************)
EXTENDS HumanMachine, TimeControlProofs

\* What HumanTypeOK says of the variables TimeControl does not have.
PartsTypeOK ==
  /\ attempt \in {"none", "kept", "new"}
  /\ kept \in BOOLEAN
  /\ inbox \in Inbox
  /\ read \in Directive
  /\ handler \in [Handler -> Task]
  /\ shown \in Sample \cup {Mixed}
  /\ changes \in 0 .. MaxChanges
  /\ verdict \in Verdict
  /\ trusted \in BOOLEAN
  /\ since \subseteq Directive

LEMMA Parts == HumanTypeOK <=> TypeOK /\ PartsTypeOK
  BY DEF HumanTypeOK, PartsTypeOK

\* Another verdict on what is there, or another kind of it.
LEMMA InboxExcept ==
  ASSUME NEW i \in Inbox, NEW v \in Verdict
  PROVE  /\ [i EXCEPT !.verdict = v] = [kind |-> i.kind, exact |-> i.exact, verdict |-> v]
         /\ [i EXCEPT !.kind = "other"] =
              [kind |-> "other", exact |-> i.exact, verdict |-> i.verdict]
         /\ [i EXCEPT !.verdict = v] \in Inbox
         /\ [i EXCEPT !.kind = "other"] \in Inbox
<1>1. i = [kind |-> i.kind, exact |-> i.exact, verdict |-> i.verdict]
  BY DEF Inbox
<1>2. [i EXCEPT !.verdict = v] = [kind |-> i.kind, exact |-> i.exact, verdict |-> v]
  BY DEF Inbox
<1>3. [i EXCEPT !.kind = "other"] =
        [kind |-> "other", exact |-> i.exact, verdict |-> i.verdict]
  BY DEF Inbox
<1> QED
  BY <1>2, <1>3 DEF Inbox

LEMMA InboxTypes ==
  /\ Nothing \in Inbox /\ Nothing.verdict = "foreign" /\ Nothing.kind = "none"
  /\ ErrorPage \in Inbox /\ ErrorPage.verdict = "foreign"
<1>1. Nothing \in Inbox
  BY DEF Nothing, Inbox, Verdict
<1>2. "foreign" \in Verdict
  BY DEF Verdict
<1>3. ErrorPage = [kind |-> "other", exact |-> Nothing.exact, verdict |-> Nothing.verdict]
  BY <1>1, <1>2, InboxExcept DEF ErrorPage
<1>4. ErrorPage \in Inbox
  BY <1>1, <1>2, InboxExcept DEF ErrorPage
<1> QED
  BY <1>1, <1>3, <1>4 DEF Nothing

LEMMA NothingForeign == Nothing.verdict = "foreign" /\ "foreign" \in Verdict
  BY DEF Nothing, Verdict

-----------------------------------------------------------------------------
Tasks == [Handler -> Task]
States == {"idle", "received", "open", "stored", "caught", "thrown"}

LEMMA TaskTypes ==
  ASSUME NEW t \in Task
  PROVE  /\ t.state \in States /\ t.sample \in Sample
         /\ t.mine \in BOOLEAN /\ t.current \in BOOLEAN /\ t.alone \in BOOLEAN
  BY DEF Task, States

\* One part of a task is replaced.
LEMMA TaskExcept ==
  ASSUME NEW t \in Task, NEW s \in States, NEW b \in BOOLEAN
  PROVE  /\ [t EXCEPT !.state = s] \in Task
         /\ [t EXCEPT !.mine = b] \in Task
         /\ [t EXCEPT !.current = b] \in Task
         /\ [t EXCEPT !.alone = b] \in Task
  BY DEF Task, States

\* Giving up a connection leaves all of a task but `mine' as it is.
LEMMA AbandonedTasks ==
  ASSUME NEW tasks \in Tasks
  PROVE  /\ Abandoned(tasks) \in Tasks
         /\ \A h \in Handler :
              /\ Abandoned(tasks)[h].state = tasks[h].state
              /\ Abandoned(tasks)[h].sample = tasks[h].sample
              /\ Abandoned(tasks)[h].current = tasks[h].current
              /\ Abandoned(tasks)[h].alone = tasks[h].alone
<1>1. ASSUME NEW h \in Handler
      PROVE  /\ [tasks[h] EXCEPT !.mine = FALSE] \in Task
             /\ [tasks[h] EXCEPT !.mine = FALSE].state = tasks[h].state
             /\ [tasks[h] EXCEPT !.mine = FALSE].sample = tasks[h].sample
             /\ [tasks[h] EXCEPT !.mine = FALSE].current = tasks[h].current
             /\ [tasks[h] EXCEPT !.mine = FALSE].alone = tasks[h].alone
  <2>1. tasks[h] \in Task
    BY DEF Tasks
  <2>2. [tasks[h] EXCEPT !.mine = FALSE] \in Task
    BY <2>1 DEF Task
  <2> QED
    BY <2>1, <2>2 DEF Task
<1> QED
  BY <1>1 DEF Abandoned, Tasks

\* A new post leaves all of a task but `current' as it is.
LEMMA OutdatedTasks ==
  ASSUME NEW tasks \in Tasks
  PROVE  /\ Outdated(tasks) \in Tasks
         /\ \A h \in Handler :
              /\ Outdated(tasks)[h].state = tasks[h].state
              /\ Outdated(tasks)[h].sample = tasks[h].sample
              /\ Outdated(tasks)[h].current = FALSE
              /\ Outdated(tasks)[h].alone = tasks[h].alone
<1>1. ASSUME NEW h \in Handler
      PROVE  /\ [tasks[h] EXCEPT !.current = FALSE] \in Task
             /\ [tasks[h] EXCEPT !.current = FALSE].state = tasks[h].state
             /\ [tasks[h] EXCEPT !.current = FALSE].sample = tasks[h].sample
             /\ [tasks[h] EXCEPT !.current = FALSE].current = FALSE
             /\ [tasks[h] EXCEPT !.current = FALSE].alone = tasks[h].alone
  <2>1. tasks[h] \in Task
    BY DEF Tasks
  <2>2. [tasks[h] EXCEPT !.current = FALSE] \in Task
    BY <2>1 DEF Task
  <2> QED
    BY <2>1, <2>2 DEF Task
<1> QED
  BY <1>1 DEF Outdated, Tasks

\* A copy that is sent becomes a task that has been received.
LEMMA TransmitTasks ==
  ASSUME NEW tasks \in Tasks, root \in Sample, Transmit(tasks)
  PROVE  /\ handler' \in Tasks
         /\ \A h \in Handler :
              \/ handler'[h] = tasks[h]
              \/ /\ handler'[h].state = "received"
                 /\ handler'[h].sample = root
                 /\ ~handler'[h].alone
<1>1. CASE handler' = tasks
  BY <1>1
<1>2. ASSUME NEW h \in Handler,
             handler' = [tasks EXCEPT ![h] = [state |-> "received", sample |-> root,
                           mine |-> TRUE, current |-> TRUE, alone |-> FALSE,
                           after |-> {g \in Handler : tasks[g].mine}]]
      PROVE  /\ handler' \in Tasks
             /\ \A g \in Handler :
                  \/ handler'[g] = tasks[g]
                  \/ /\ handler'[g].state = "received"
                     /\ handler'[g].sample = root
                     /\ ~handler'[g].alone
  <2> DEFINE new == [state |-> "received", sample |-> root, mine |-> TRUE,
                     current |-> TRUE, alone |-> FALSE,
                     after |-> {g \in Handler : tasks[g].mine}]
  <2>1. new \in Task
    BY DEF Task
  <2>2. new.state = "received" /\ new.sample = root /\ ~new.alone
    OBVIOUS
  <2>3. handler' = [tasks EXCEPT ![h] = new]
    BY <1>2
  <2> HIDE DEF new
  <2> QED
    BY <2>1, <2>2, <2>3 DEF Tasks
<1> QED
  BY <1>1, <1>2 DEF Transmit

-----------------------------------------------------------------------------
OtherAnswer(k) == [kind |-> k, directive |-> Null, exact |-> TRUE]
MarkedAnswer(e) == [kind |-> "marked", directive |-> read, exact |-> e]

LEMMA ResponseExcept ==
  ASSUME NEW r \in Response, NEW k \in {"short", "other"}, NEW b \in BOOLEAN
  PROVE  /\ [r EXCEPT !.kind = k] =
              [kind |-> k, directive |-> r.directive, exact |-> r.exact]
         /\ [r EXCEPT !.exact = b] =
              [kind |-> r.kind, directive |-> r.directive, exact |-> b]
<1>1. r \in [kind : {"empty", "short", "other", "marked"}, directive : Directive,
             exact : BOOLEAN]
  BY DEF Response
<1>2. [r EXCEPT !.kind = k] =
        [kind |-> k, directive |-> r.directive, exact |-> r.exact]
  BY <1>1
<1>3. [r EXCEPT !.exact = b] =
        [kind |-> r.kind, directive |-> r.directive, exact |-> b]
  BY <1>1
<1> QED
  BY <1>2, <1>3

LEMMA AnswerTypes ==
  ASSUME PartsTypeOK
  PROVE  /\ \A k \in {"short", "other"} :
              /\ OtherAnswer(k) \in Response
              /\ OtherAnswer(k) = [NoResponse EXCEPT !.kind = k]
         /\ \A e \in BOOLEAN :
              /\ MarkedAnswer(e) \in Response
              /\ MarkedAnswer(FALSE) = [MarkedAnswer(e) EXCEPT !.exact = FALSE]
<1>1. ASSUME NEW k \in {"short", "other"}
      PROVE  OtherAnswer(k) = [NoResponse EXCEPT !.kind = k]
  <2>1. [NoResponse EXCEPT !.kind = k] =
          [kind |-> k, directive |-> NoResponse.directive, exact |-> NoResponse.exact]
    BY NoResponseType, ResponseExcept
  <2>2. NoResponse.directive = Null /\ NoResponse.exact = TRUE
    BY DEF NoResponse
  <2> QED
    BY <2>1, <2>2 DEF OtherAnswer
<1>2. ASSUME NEW k \in {"short", "other"} PROVE OtherAnswer(k) \in Response
  BY DEF OtherAnswer, Response, Directive
<1>3. ASSUME NEW e \in BOOLEAN PROVE MarkedAnswer(e) \in Response
  BY DEF MarkedAnswer, Response, PartsTypeOK
<1>4. ASSUME NEW e \in BOOLEAN
      PROVE  MarkedAnswer(FALSE) = [MarkedAnswer(e) EXCEPT !.exact = FALSE]
  <2>1. [MarkedAnswer(e) EXCEPT !.exact = FALSE] =
          [kind |-> MarkedAnswer(e).kind, directive |-> MarkedAnswer(e).directive,
           exact |-> FALSE]
    BY <1>3, ResponseExcept
  <2>2. MarkedAnswer(e).kind = "marked" /\ MarkedAnswer(e).directive = read
    BY DEF MarkedAnswer
  <2> QED
    BY <2>1, <2>2 DEF MarkedAnswer
<1> QED
  BY <1>1, <1>2, <1>3, <1>4

\* What TakeAnswer returns: an answer without the marker, or the directive of
\* the newest reply, exact only if nothing else had come with it.
LEMMA Taken ==
  ASSUME PartsTypeOK, TakeAnswer
  PROVE  \E y \in Inbox :
           \/ \E k \in {"short", "other"} : Take(OtherAnswer(k), y)
           \/ \E e \in BOOLEAN :
                /\ Take(MarkedAnswer(e), y)
                /\ inbox.kind = "marked"
                /\ e => inbox.exact
<1> DEFINE rest == [inbox EXCEPT !.kind = "other"]
           all  == [kind |-> inbox.kind, directive |-> read, exact |-> inbox.exact]
<1>1. inbox \in Inbox /\ inbox.exact \in BOOLEAN
      /\ inbox.kind \in {"none", "other", "marked"}
  BY DEF PartsTypeOK, Inbox
<1>2. rest \in Inbox
  BY <1>1, InboxExcept, NothingForeign
<1>3. inbox.kind # "none"
  BY DEF TakeAnswer
<1>4. \A k \in {"short", "other"} : [NoResponse EXCEPT !.kind = k] = OtherAnswer(k)
  BY AnswerTypes
<1>5. inbox.kind = "marked" => all = MarkedAnswer(inbox.exact)
  BY DEF MarkedAnswer
<1>6. inbox.kind = "marked" => [all EXCEPT !.exact = FALSE] = MarkedAnswer(FALSE)
  BY <1>1, <1>5, AnswerTypes
<1>7. \/ \E y \in {Nothing, ErrorPage} :
           Take(IF inbox.kind = "other" THEN [NoResponse EXCEPT !.kind = "other"]
                                        ELSE all, y)
      \/ \E k \in {"short", "other"}, y \in {inbox, rest} :
           Take([NoResponse EXCEPT !.kind = k], y)
      \/ /\ inbox.kind = "marked"
         /\ Take([all EXCEPT !.exact = FALSE], rest)
  BY DEF TakeAnswer
<1> HIDE DEF rest, all
<1>8. ASSUME NEW y \in {Nothing, ErrorPage},
             Take(IF inbox.kind = "other" THEN [NoResponse EXCEPT !.kind = "other"]
                                          ELSE all, y)
      PROVE  /\ y \in Inbox
             /\ \/ Take(OtherAnswer("other"), y)
                \/ inbox.kind = "marked" /\ Take(MarkedAnswer(inbox.exact), y)
  <2>1. y \in Inbox
    BY InboxTypes
  <2>2. CASE inbox.kind = "other"
    BY <1>4, <1>8, <2>1, <2>2
  <2>3. CASE inbox.kind = "marked"
    BY <1>5, <1>8, <2>1, <2>3
  <2> QED
    BY <1>1, <1>3, <2>2, <2>3
<1>9. ASSUME NEW k \in {"short", "other"}, NEW y \in {inbox, rest},
             Take([NoResponse EXCEPT !.kind = k], y)
      PROVE  y \in Inbox /\ Take(OtherAnswer(k), y)
  BY <1>1, <1>2, <1>4, <1>9
<1>10. ASSUME inbox.kind = "marked", Take([all EXCEPT !.exact = FALSE], rest)
       PROVE  Take(MarkedAnswer(FALSE), rest)
  BY <1>6, <1>10
<1> QED
  BY <1>1, <1>2, <1>7, <1>8, <1>9, <1>10

-----------------------------------------------------------------------------
LEMMA IdleType == Idle \in Task
<1>1. NoSample \in Sample
  BY DeployAssumption DEF NoSample, Sample, Section
<1> QED
  BY <1>1 DEF Idle, Task

LEMMA HumanInitial == HumanInit => HumanTypeOK /\ Client!Init
<1> SUFFICES ASSUME HumanInit PROVE HumanTypeOK /\ Client!Init
  OBVIOUS
<1>1. TypeOK
  BY InitType DEF HumanInit
<1>2. Idle \in Task
  BY IdleType
<1>3. handler \in [Handler -> Task]
  BY <1>2 DEF HumanInit
<1>4. PartsTypeOK
  <2>1. changes \in 0 .. MaxChanges
    BY HumanAssumption DEF HumanInit
  <2>2. attempt = "none" /\ kept = FALSE /\ inbox = Nothing /\ shown = Mixed
        /\ verdict = "foreign" /\ trusted = FALSE /\ since = {}
    BY DEF HumanInit
  <2>3. read \in Directive
    BY <1>1 DEF HumanInit, TypeOK
  <2> QED
    BY <1>3, <2>1, <2>2, <2>3, InboxTypes DEF PartsTypeOK, Verdict
<1>5. Client!Init
  BY DEF HumanInit, Init, DeployInit, Client!Init, Client!DeployInit, NoSample,
         Client!NoSample, NoResponse, Client!NoResponse, Directive,
         Client!Directive
<1> QED
  BY <1>1, <1>4, <1>5, Parts

\* A step of the loop is one of TimeControl's, whatever directive it sees.
LEMMA LoopImplements ==
  ASSUME Loop
  PROVE  Client!Next
<1> USE DEF At, Client!At, deploy, Client!deploy, machine, Client!machine, stores,
            Client!stores, loop, Client!loop, human, Client!Next, Client!TimerControl
<1>1. CASE SampleMemory
  BY <1>1 DEF Loop, SampleMemory, Client!SampleMemory
<1>2. CASE SampleDisk
  BY <1>2 DEF Loop, SampleDisk, Client!SampleDisk
<1>3. CASE SampleDocker
  BY <1>3 DEF Loop, SampleDocker, Client!SampleDocker
<1>4. CASE SampleFails
  BY <1>4 DEF Loop, SampleFails, Client!SampleFails
<1>5. CASE Compare
  BY <1>5 DEF Loop, Compare, Client!Compare, Unchanged, Client!Unchanged, HasDocker,
              Client!HasDocker, StoreUsage, Client!StoreUsage
<1>6. CASE ParseResponse
  BY <1>6 DEF Loop, ParseResponse, Client!ParseResponse, Spawn, Client!Spawn,
              Uncaught, Client!Uncaught, FreeThread, Client!FreeThread,
              StartDeploy, Client!StartDeploy
<1>7. CASE Sleep
  BY <1>7 DEF Loop, Sleep, Client!Sleep
<1> QED
  BY <1>1, <1>2, <1>3, <1>4, <1>5, <1>6, <1>7 DEF Loop

\* HttpPost as a whole: the last of its steps brings an answer, with the
\* directive of the newest reply, or none; the others are not seen.
LEMMA PostImplements ==
  ASSUME PartsTypeOK, StartPost \/ TakeAnswer \/ TakeTooMuch \/ Resend \/ PostFails
  PROVE  [Client!Next]_(Client!vars)
<1> USE DEF At, Client!At, deploy, Client!deploy, machine, Client!machine, stores,
            Client!stores, Client!Next, Client!TimerControl
<1>1. CASE StartPost
  BY <1>1 DEF StartPost, vars, Client!vars
<1>2. CASE TakeAnswer
  <2>1. At("post")
    BY <1>2 DEF TakeAnswer
  <2>2. ASSUME NEW y \in Inbox, NEW k \in {"short", "other"}, Take(OtherAnswer(k), y)
        PROVE  Client!HttpPost
    <3>1. response' = [Client!NoResponse EXCEPT !.kind = k]
      BY <2>2, AnswerTypes DEF Take, NoResponse, Client!NoResponse
    <3> QED
      BY <2>1, <2>2, <3>1 DEF Take, Client!HttpPost
  <2>3. ASSUME NEW y \in Inbox, NEW e \in BOOLEAN, Take(MarkedAnswer(e), y)
        PROVE  Client!HttpPost
    BY <2>1, <2>3 DEF Take, MarkedAnswer, Client!HttpPost
  <2> QED
    BY <1>2, <2>2, <2>3, Taken
<1>3. CASE TakeTooMuch
  BY <1>3 DEF TakeTooMuch, HttpPostOverflows, Client!HttpPostOverflows, human, loop,
              Client!loop
<1>4. CASE Resend
  <2>1. CASE UNCHANGED ended
    BY <1>4, <2>1 DEF Resend, loop, Client!vars
  <2>2. CASE ended' = TRUE
    <3>1. Client!HttpPostOverflows
      BY <1>4, <2>2 DEF Resend, loop, Client!HttpPostOverflows, Client!loop
    <3> QED
      BY <3>1
  <2> QED
    BY <1>4, <2>1, <2>2 DEF Resend
<1>5. CASE PostFails
  <2>1. Client!HttpPost
    BY <1>5 DEF PostFails, Failed, NoResponse, Client!NoResponse, Client!HttpPost
  <2> QED
    BY <2>1
<1> QED
  BY <1>1, <1>2, <1>3, <1>4, <1>5

\* The server's steps are not seen, but for a reply that carries a directive.
LEMMA HandleImplements ==
  ASSUME PartsTypeOK, TypeOK, NEW h \in Handler, Handle(h)
  PROVE  [Client!Next]_(Client!vars)
<1>1. CASE OpenReport(h)
  BY <1>1 DEF OpenReport, vars, Client!vars
<1>2. CASE CloseReport(h)
  BY <1>2 DEF CloseReport, vars, Client!vars
<1>3. CASE Reply(h)
  <2>1. UNCHANGED vars
    BY <1>3 DEF Reply
  <2>2. CASE UNCHANGED read
    BY <2>1, <2>2 DEF vars, Client!vars
  <2>3. CASE ~ended /\ read' = directive /\ read' # read
    <3>1. directive \in Directive
      BY DEF TypeOK
    <3>2. Client!ServerDirects
      BY <2>1, <2>3, <3>1 DEF vars, Client!ServerDirects, Client!Directive, Directive,
         Client!deploy, Client!machine, Client!loop
    <3> QED
      BY <3>2 DEF Client!Next
  <2> QED
    BY <1>3, <2>2, <2>3 DEF Reply, Answer
<1> QED
  BY <1>1, <1>2, <1>3 DEF Handle

\* The deploy threads and the world outside; the directive that changes is not
\* the one TimeControl sees.
LEMMA OthersImplement ==
  /\ \A t \in Thread : DeployStep(t) /\ UNCHANGED <<machine, directive, loop, human>>
       => Client!Next
  /\ WorldChanges => [Client!Next]_(Client!vars)
<1> USE DEF Client!Next, machine, Client!machine, loop, Client!loop, deploy, Client!deploy
<1>1. ASSUME NEW t \in Thread, DeployStep(t), UNCHANGED <<machine, directive, loop, human>>
      PROVE  Client!Next
  <2>1. Client!DeployStep(t)
    BY <1>1 DEF DeployStep, Client!DeployStep, Pull, Client!Pull, Run, Client!Run,
       RunReturns, Client!RunReturns, PopenFails, Client!PopenFails, Command,
       Client!Command
  <2> QED
    BY <1>1, <2>1 DEF human
<1>2. CASE OtherContainers /\ UNCHANGED <<machine, directive, loop, since>> /\ read' = read
  BY <1>2 DEF OtherContainers, Client!OtherContainers
<1>3. CASE MachineChanges /\ read' = read
  BY <1>3 DEF MachineChanges, Client!MachineChanges
<1>4. CASE ServerDirects /\ read' = read
  BY <1>4 DEF ServerDirects, Client!vars
<1> QED
  BY <1>1, <1>2, <1>3, <1>4 DEF WorldChanges

LEMMA StepImplements ==
  ASSUME HumanTypeOK, [HumanNext]_allvars
  PROVE  [Client!Next]_(Client!vars)
<1>1. CASE UNCHANGED allvars
  BY <1>1 DEF allvars, vars, human, Client!vars
<1>2. CASE HumanNext
  BY <1>2, Parts, LoopImplements, PostImplements, HandleImplements, OthersImplement
     DEF HumanNext, HumanTimerControl
<1> QED
  BY <1>1, <1>2

-----------------------------------------------------------------------------
\* The variables of TimeControl keep their types in the steps that are not
\* TimeControl's as they stand.
LEMMA PostKeepsLoopTypes ==
  ASSUME TypeOK, PartsTypeOK, TakeAnswer \/ Resend \/ PostFails
  PROVE  TypeOK'
<1> USE DEF TypeOK, DeployTypeOK, deploy, machine, stores
<1>1. CASE TakeAnswer
  <2>1. ASSUME NEW y \in Inbox, NEW x \in Response, Take(x, y)
        PROVE  TypeOK'
    BY <2>1 DEF Take
  <2> QED
    BY <1>1, <2>1, Taken, AnswerTypes
<1>2. CASE Resend
  <2>1. ended' \in BOOLEAN
    BY <1>2 DEF Resend
  <2> QED
    BY <1>2, <2>1 DEF Resend, loop
<1>3. CASE PostFails
  BY <1>3, NoResponseType DEF PostFails, Failed
<1> QED
  BY <1>1, <1>2, <1>3

LEMMA NextLoopTypes ==
  ASSUME HumanTypeOK, [HumanNext]_allvars
  PROVE  TypeOK'
<1>1. TypeOK /\ PartsTypeOK
  BY Parts
<1>2. CASE UNCHANGED vars
  BY <1>1, <1>2, NextType
<1>3. CASE Next
  BY <1>1, <1>3, NextType
<1>4. CASE Loop
  BY <1>3, <1>4 DEF Loop, Next, TimerControl
<1>5. CASE TakeTooMuch
  BY <1>3, <1>5 DEF TakeTooMuch, Next, TimerControl
<1>6. CASE \E t \in Thread : DeployStep(t) /\ UNCHANGED <<machine, directive, loop, human>>
  BY <1>3, <1>6 DEF Next
<1>7. CASE WorldChanges
  BY <1>3, <1>7 DEF WorldChanges, Next
<1>8. CASE StartPost
  BY <1>2, <1>8 DEF StartPost
<1>9. CASE TakeAnswer \/ Resend \/ PostFails
  BY <1>1, <1>9, PostKeepsLoopTypes
<1>10. CASE \E h \in Handler : Handle(h)
  BY <1>2, <1>10 DEF Handle, OpenReport, CloseReport, Reply
<1>11. CASE UNCHANGED allvars
  BY <1>2, <1>11 DEF allvars
<1> QED
  BY <1>4, <1>5, <1>6, <1>7, <1>8, <1>9, <1>10, <1>11 DEF HumanNext, HumanTimerControl

\* What a handler's step makes of the tasks.
LEMMA OpenTasks ==
  ASSUME PartsTypeOK, NEW h \in Handler, OpenReport(h)
  PROVE  /\ handler' \in Tasks
         /\ handler'[h].state = "open"
         /\ handler'[h].alone => \A f \in Handler : handler[f].state # "open"
         /\ \A g \in Handler \ {h} :
              /\ handler'[g].state = handler[g].state
              /\ handler'[g].alone = FALSE
         /\ \A g \in Handler :
              /\ handler'[g].sample = handler[g].sample
              /\ handler'[g].current = handler[g].current
<1> DEFINE only == \A f \in Handler : handler[f].state # "open"
           mine == [handler[h] EXCEPT !.state = "open", !.alone = only]
<1>1. only \in BOOLEAN
  OBVIOUS
<1>2. handler' = [g \in Handler |->
        IF g = h THEN mine ELSE [handler[g] EXCEPT !.alone = FALSE]]
  BY DEF OpenReport
<1>3. ASSUME NEW g \in Handler PROVE handler[g] \in Task
  BY DEF PartsTypeOK
<1> HIDE DEF only
<1>4. /\ mine \in Task /\ mine.state = "open" /\ mine.alone = only
      /\ mine.sample = handler[h].sample /\ mine.current = handler[h].current
  <2>1. mine = [[handler[h] EXCEPT !.state = "open"] EXCEPT !.alone = only]
    OBVIOUS
  <2>2. [handler[h] EXCEPT !.state = "open"] \in Task
    BY <1>3 DEF Task
  <2>3. mine \in Task /\ mine.alone = only
    BY <1>1, <2>1, <2>2 DEF Task
  <2>4. /\ mine.state = "open" /\ mine.sample = handler[h].sample
        /\ mine.current = handler[h].current
    BY <1>3 DEF Task
  <2> QED
    BY <2>3, <2>4
<1> HIDE DEF mine
<1>5. ASSUME NEW g \in Handler
      PROVE  LET other == [handler[g] EXCEPT !.alone = FALSE]
             IN  /\ other \in Task /\ other.state = handler[g].state
                 /\ other.alone = FALSE /\ other.sample = handler[g].sample
                 /\ other.current = handler[g].current
  BY <1>3 DEF Task
<1>6. handler' \in Tasks
  BY <1>2, <1>4, <1>5 DEF Tasks
<1>7. handler'[h] = mine
  BY <1>2
<1>8. \A g \in Handler \ {h} : handler'[g] = [handler[g] EXCEPT !.alone = FALSE]
  BY <1>2
<1> QED
  BY <1>4, <1>5, <1>6, <1>7, <1>8 DEF only

LEMMA CloseTasks ==
  ASSUME PartsTypeOK, NEW h \in Handler, CloseReport(h)
  PROVE  /\ handler' \in Tasks
         /\ \A g \in Handler \ {h} : handler'[g] = handler[g]
         /\ handler'[h].state \in {"stored", "caught", "thrown"}
         /\ handler'[h].sample = handler[h].sample
         /\ handler'[h].current = handler[h].current
         /\ handler'[h].alone = handler[h].alone
         /\ \/ /\ handler'[h].state = "stored"
               /\ shown' = IF handler[h].alone THEN handler[h].sample ELSE Mixed
            \/ /\ handler'[h].state # "stored"
               /\ shown' = shown
<1>1. handler[h] \in Task
  BY DEF PartsTypeOK
<1>2. ASSUME NEW s \in {"stored", "caught", "thrown"},
             handler' = [handler EXCEPT ![h].state = s]
      PROVE  /\ handler' \in Tasks
             /\ \A g \in Handler \ {h} : handler'[g] = handler[g]
             /\ handler'[h].state = s
             /\ handler'[h].sample = handler[h].sample
             /\ handler'[h].current = handler[h].current
             /\ handler'[h].alone = handler[h].alone
  <2> DEFINE done == [handler[h] EXCEPT !.state = s]
  <2>1. /\ done \in Task /\ done.state = s /\ done.sample = handler[h].sample
        /\ done.current = handler[h].current /\ done.alone = handler[h].alone
    BY <1>1 DEF Task
  <2>2. handler' = [handler EXCEPT ![h] = done]
    BY <1>2
  <2> HIDE DEF done
  <2> QED
    BY <2>1, <2>2 DEF Tasks, PartsTypeOK
<1> QED
  BY <1>2 DEF CloseReport

LEMMA ReplyTasks ==
  ASSUME PartsTypeOK, NEW h \in Handler, Reply(h)
  PROVE  /\ handler' \in Tasks
         /\ \A g \in Handler \ {h} :
              /\ handler'[g].state = handler[g].state
              /\ handler'[g].sample = handler[g].sample
              /\ handler'[g].current = handler[g].current
              /\ handler'[g].alone = handler[g].alone
         /\ handler'[h].state = "idle" /\ ~handler'[h].alone
<1>1. Idle \in Task /\ Idle.state = "idle" /\ ~Idle.alone
  BY IdleType DEF Idle
<1>2. handler' = [g \in Handler |->
        IF g = h THEN Idle ELSE [handler[g] EXCEPT !.after = @ \ {h}]]
  BY DEF Reply
<1>3. ASSUME NEW g \in Handler
      PROVE  LET other == [handler[g] EXCEPT !.after = @ \ {h}]
             IN  /\ other \in Task /\ other.state = handler[g].state
                 /\ other.sample = handler[g].sample
                 /\ other.current = handler[g].current
                 /\ other.alone = handler[g].alone
  <2>1. handler[g] \in Task
    BY DEF PartsTypeOK
  <2> QED
    BY <2>1 DEF Task
<1>4. handler' \in Tasks
  BY <1>1, <1>2, <1>3 DEF Tasks
<1> QED
  BY <1>1, <1>2, <1>3, <1>4

\* What is there to be read when a reply comes in.
LEMMA MergedType ==
  ASSUME PartsTypeOK, NEW h \in Handler, NEW k \in {"other", "marked"}
  PROVE  /\ Merged(k, h) \in Inbox
         /\ Merged(k, h).kind = IF "marked" \in {inbox.kind, k} THEN "marked" ELSE "other"
         /\ Merged(k, h).exact = (inbox.kind # "marked")
         /\ Merged(k, h).verdict = "good" =>
              /\ handler[h].current /\ handler[h].alone
              /\ handler[h].state \notin {"caught", "thrown"}
<1> DEFINE kd == IF "marked" \in {inbox.kind, k} THEN "marked" ELSE "other"
           ex == inbox.kind # "marked"
           vd == IF ~handler[h].current THEN "foreign"
                 ELSE IF handler[h].alone /\ handler[h].state \notin {"caught", "thrown"}
                        THEN "good" ELSE "own"
<1>1. kd \in {"none", "other", "marked"} /\ ex \in BOOLEAN /\ vd \in Verdict
  BY DEF Verdict
<1>2. vd = "good" => /\ handler[h].current /\ handler[h].alone
                     /\ handler[h].state \notin {"caught", "thrown"}
  OBVIOUS
<1>3. Merged(k, h) = [kind |-> kd, exact |-> ex, verdict |-> vd]
  BY DEF Merged
<1>4. kd = IF "marked" \in {inbox.kind, k} THEN "marked" ELSE "other"
  OBVIOUS
<1>5. ex = (inbox.kind # "marked")
  OBVIOUS
<1> HIDE DEF kd, ex, vd
<1>6. /\ Merged(k, h) \in Inbox /\ Merged(k, h).kind = kd
      /\ Merged(k, h).exact = ex /\ Merged(k, h).verdict = vd
  BY <1>1, <1>3 DEF Inbox
<1> QED
  BY <1>2, <1>4, <1>5, <1>6

LEMMA NextParts ==
  ASSUME HumanTypeOK, [HumanNext]_allvars
  PROVE  PartsTypeOK'
<1> USE Parts
<1>1. /\ TypeOK /\ PartsTypeOK /\ handler \in Tasks /\ inbox \in Inbox
      /\ root \in Sample /\ directive \in Directive
  BY DEF PartsTypeOK, Tasks, TypeOK
<1>2. CASE UNCHANGED human
  BY <1>2 DEF human, post, server, past, PartsTypeOK
<1>3. CASE StartPost
  <2>1. [inbox EXCEPT !.verdict = "foreign"] \in Inbox /\ Nothing \in Inbox
    BY <1>1, InboxExcept, NothingForeign, InboxTypes
  <2>2. handler' \in Tasks
    BY <1>1, <1>3, OutdatedTasks, AbandonedTasks, TransmitTasks DEF StartPost
  <2> QED
    BY <1>1, <1>3, <2>1, <2>2 DEF StartPost, PartsTypeOK, Tasks
<1>4. CASE TakeAnswer
  <2>1. ASSUME NEW y \in Inbox, NEW x, Take(x, y)
        PROVE  PartsTypeOK'
    <3>1. inbox.verdict \in Verdict
      BY <1>1 DEF Inbox
    <3>2. trusted' \in BOOLEAN
      BY <2>1 DEF Take
    <3> QED
      BY <2>1, <3>1, <3>2 DEF Take, PartsTypeOK, server
  <2> QED
    BY <1>1, <1>4, <2>1, Taken
<1>5. CASE Resend
  <2>1. handler' \in Tasks
    BY <1>1, <1>5, AbandonedTasks, TransmitTasks DEF Resend
  <2> QED
    BY <1>5, <2>1, InboxTypes DEF Resend, PartsTypeOK, Tasks, past
<1>6. CASE PostFails
  <2>1. handler' \in Tasks
    BY <1>1, <1>6, AbandonedTasks DEF PostFails
  <2> QED
    BY <1>6, <2>1, InboxTypes DEF PostFails, PartsTypeOK, Tasks, past
<1>7. ASSUME NEW h \in Handler, OpenReport(h) PROVE PartsTypeOK'
  <2>1. inbox' \in Inbox
    <3>1. inbox' = [inbox EXCEPT !.verdict =
                      IF inbox.verdict = "good" THEN "own" ELSE inbox.verdict]
      BY <1>7 DEF OpenReport
    <3>2. (IF inbox.verdict = "good" THEN "own" ELSE inbox.verdict) \in Verdict
      BY <1>1 DEF Inbox, Verdict
    <3> QED
      BY <1>1, <3>1, <3>2, InboxExcept
  <2> QED
    BY <1>7, <1>1, <2>1, OpenTasks DEF OpenReport, PartsTypeOK, Tasks
<1>8. ASSUME NEW h \in Handler, CloseReport(h) PROVE PartsTypeOK'
  <2>1. handler[h].sample \in Sample
    BY <1>1, TaskTypes DEF Tasks
  <2>2. shown' \in Sample \cup {Mixed}
    BY <1>1, <1>8, <2>1, CloseTasks DEF PartsTypeOK
  <2> QED
    BY <1>1, <1>8, <2>2, CloseTasks DEF CloseReport, PartsTypeOK, Tasks, post, past
<1>9. ASSUME NEW h \in Handler, Reply(h) PROVE PartsTypeOK'
  <2>1. inbox' \in Inbox /\ read' \in Directive
    BY <1>1, <1>9, MergedType DEF Reply, Answer, PartsTypeOK
  <2> QED
    BY <1>1, <1>9, <2>1, ReplyTasks DEF Reply, PartsTypeOK, Tasks, past
<1>10. CASE WorldChanges
  <2>1. changes' \in 0 .. MaxChanges
    BY <1>1, <1>10, HumanAssumption DEF WorldChanges, PartsTypeOK
  <2>2. since' \subseteq Directive
    BY <1>1, <1>10 DEF WorldChanges, ServerDirects, PartsTypeOK
  <2> QED
    BY <1>10, <2>1, <2>2 DEF WorldChanges, PartsTypeOK, post, server
<1> QED
  BY <1>2, <1>3, <1>4, <1>5, <1>6, <1>7, <1>8, <1>9, <1>10
     DEF HumanNext, HumanTimerControl, Loop, TakeTooMuch, Handle, allvars

\* Every variable of the whole system keeps its type, for any sets of values,
\* images and threads and any number of changes.
THEOREM HumanTypeCorrect == HumanSpec => []HumanTypeOK
<1>1. HumanTypeOK /\ [HumanNext]_allvars => HumanTypeOK'
  BY NextLoopTypes, NextParts DEF HumanTypeOK, PartsTypeOK
<1> QED
  BY HumanInitial, <1>1, PTL DEF HumanSpec

\* Client, connection and handlers together do what TimeControl says of the
\* loop: HttpPost, with its lost, resent and leftover messages, is one step that
\* brings an answer to this sample, or none.
THEOREM HumanImplementsTimeControl == HumanSpec => ImplementsTimeControl
<1>1. HumanTypeOK /\ [HumanNext]_allvars => [Client!Next]_(Client!vars)
  BY StepImplements
<1> QED
  BY HumanTypeCorrect, HumanInitial, <1>1, PTL DEF HumanSpec, ImplementsTimeControl, Client!Spec

-----------------------------------------------------------------------------
NoneOpen == \A h \in Handler : handler[h].state # "open"

\* A post is under way only where the loop waits for it.
Waiting == attempt # "none" => pc = "post"

\* A report that is alone is the only one open, and shown once it is stored.
AloneInv ==
  \A h \in Handler : handler[h].alone =>
    /\ handler[h].state \in {"open", "stored"} =>
         \A g \in Handler \ {h} : handler[g].state # "open"
    /\ handler[h].state = "stored" => shown = handler[h].sample

\* A report of the post under way is the sample the loop has taken last.
CurrentInv ==
  attempt # "none" => \A h \in Handler :
    handler[h].current /\ handler[h].state # "idle" => handler[h].sample = root

\* A good answer that waits to be read, and one that has been read.
GoodInv ==
  /\ attempt # "none" /\ inbox.verdict = "good" => shown = root /\ NoneOpen
  /\ trusted => shown = answered /\ NoneOpen

TrustInv == Waiting /\ AloneInv /\ CurrentInv /\ GoodInv

LEMMA InitTrust == HumanInit => TrustInv
<1> SUFFICES ASSUME HumanInit PROVE TrustInv
  OBVIOUS
<1>1. \A h \in Handler : handler[h].state = "idle" /\ ~handler[h].alone
  BY DEF HumanInit, Idle
<1> QED
  BY <1>1 DEF HumanInit, TrustInv, Waiting, AloneInv, CurrentInv, GoodInv

\* The loop's own steps, and those of the world, do not concern the server.
LEMMA OutsideKeepsTrust ==
  ASSUME TrustInv, UNCHANGED <<post, server, trusted, answered>>,
         attempt # "none" => UNCHANGED <<pc, root>>
  PROVE  TrustInv'
  BY DEF TrustInv, Waiting, AloneInv, CurrentInv, GoodInv, NoneOpen, post, server

LEMMA StartKeepsTrust ==
  ASSUME TypeOK, PartsTypeOK, TrustInv, StartPost
  PROVE  TrustInv'
<1>1. handler \in Tasks /\ root \in Sample /\ inbox \in Inbox
  BY DEF PartsTypeOK, Tasks, TypeOK
<1>2. PICK tasks \in Tasks :
        /\ Transmit(tasks)
        /\ \A h \in Handler :
             /\ tasks[h].state = handler[h].state /\ tasks[h].sample = handler[h].sample
             /\ tasks[h].current = FALSE /\ tasks[h].alone = handler[h].alone
  <2>1. /\ Outdated(handler) \in Tasks
        /\ \A h \in Handler :
             /\ Outdated(handler)[h].state = handler[h].state
             /\ Outdated(handler)[h].sample = handler[h].sample
             /\ Outdated(handler)[h].current = FALSE
             /\ Outdated(handler)[h].alone = handler[h].alone
    BY <1>1, OutdatedTasks
  <2>2. CASE Transmit(Outdated(handler))
    BY <2>1, <2>2
  <2>3. CASE Transmit(Abandoned(Outdated(handler)))
    BY <2>1, <2>3, AbandonedTasks
  <2> QED
    BY <2>2, <2>3 DEF StartPost
<1>3. /\ handler' \in Tasks
      /\ \A h \in Handler :
           \/ handler'[h] = tasks[h]
           \/ /\ handler'[h].state = "received"
              /\ handler'[h].sample = root
              /\ ~handler'[h].alone
  BY <1>1, <1>2, TransmitTasks
<1>4. inbox'.verdict = "foreign"
  <2>1. [inbox EXCEPT !.verdict = "foreign"].verdict = "foreign"
    <3>1. [inbox EXCEPT !.verdict = "foreign"] =
            [kind |-> inbox.kind, exact |-> inbox.exact, verdict |-> "foreign"]
      BY <1>1, InboxExcept, NothingForeign
    <3> QED
      BY <3>1
  <2> QED
    BY <2>1, NothingForeign DEF StartPost
<1>5. /\ pc = "post" /\ UNCHANGED <<pc, root, shown, answered, trusted>>
  BY DEF StartPost, At, vars
<1>6. AloneInv'
  BY <1>2, <1>3, <1>5 DEF TrustInv, AloneInv
<1>7. CurrentInv'
  BY <1>2, <1>3, <1>5 DEF CurrentInv
<1>8. GoodInv'
  BY <1>2, <1>3, <1>4, <1>5 DEF TrustInv, GoodInv, NoneOpen
<1> QED
  BY <1>5, <1>6, <1>7, <1>8 DEF TrustInv, Waiting

LEMMA ResendKeepsTrust ==
  ASSUME TypeOK, PartsTypeOK, TrustInv, Resend \/ PostFails
  PROVE  TrustInv'
<1>1. handler \in Tasks /\ root \in Sample
  BY DEF PartsTypeOK, Tasks, TypeOK
<1>2. /\ Abandoned(handler) \in Tasks
      /\ \A h \in Handler :
           /\ Abandoned(handler)[h].state = handler[h].state
           /\ Abandoned(handler)[h].sample = handler[h].sample
           /\ Abandoned(handler)[h].current = handler[h].current
           /\ Abandoned(handler)[h].alone = handler[h].alone
  BY <1>1, AbandonedTasks
<1>3. \A h \in Handler :
        \/ handler'[h] = Abandoned(handler)[h]
        \/ /\ handler'[h].state = "received"
           /\ handler'[h].sample = root
           /\ ~handler'[h].alone
  BY <1>1, <1>2, TransmitTasks DEF Resend, PostFails
<1>4. inbox'.verdict = "foreign"
  BY InboxTypes DEF Resend, PostFails
<1>5. /\ pc = "post" /\ UNCHANGED <<root, shown, answered, trusted>>
      /\ attempt' # "none" => pc' = "post" /\ attempt # "none"
  BY DEF Resend, PostFails, At, loop, past
<1>6. AloneInv'
  BY <1>2, <1>3, <1>5 DEF TrustInv, AloneInv
<1>7. CurrentInv'
  BY <1>2, <1>3, <1>5 DEF TrustInv, CurrentInv
<1>8. GoodInv'
  BY <1>2, <1>3, <1>4, <1>5 DEF TrustInv, GoodInv, NoneOpen
<1> QED
  BY <1>5, <1>6, <1>7, <1>8 DEF TrustInv, Waiting

\* The verdict on the answer becomes the trust in it.
LEMMA TakeKeepsTrust ==
  ASSUME PartsTypeOK, TrustInv, TakeAnswer
  PROVE  TrustInv'
<1>1. ASSUME NEW y \in Inbox, NEW x, Take(x, y)
      PROVE  TrustInv'
  <2>1. /\ attempt # "none" /\ attempt' = "none" /\ UNCHANGED <<handler, shown, root>>
        /\ answered' = root /\ trusted' = (inbox.verdict = "good")
    BY <1>1 DEF TakeAnswer, Take, server
  <2> QED
    BY <2>1 DEF TrustInv, Waiting, AloneInv, CurrentInv, GoodInv, NoneOpen
<1> QED
  BY <1>1, Taken

LEMMA OpenKeepsTrust ==
  ASSUME PartsTypeOK, TrustInv, NEW h \in Handler, OpenReport(h)
  PROVE  TrustInv'
<1>1. inbox \in Inbox
  BY DEF PartsTypeOK
<1>2. inbox'.verdict # "good"
  <2>1. inbox' = [inbox EXCEPT !.verdict =
                    IF inbox.verdict = "good" THEN "own" ELSE inbox.verdict]
    BY DEF OpenReport
  <2>2. (IF inbox.verdict = "good" THEN "own" ELSE inbox.verdict) \in Verdict
    BY <1>1 DEF Inbox, Verdict
  <2> QED
    BY <1>1, <2>1, <2>2, InboxExcept
<1>3. /\ ~trusted' /\ UNCHANGED <<attempt, pc, root, answered>>
      /\ handler[h].state = "received"
  BY DEF OpenReport, vars
<1>4. AloneInv'
  BY OpenTasks DEF AloneInv
<1>5. CurrentInv'
  BY <1>3, OpenTasks DEF TrustInv, CurrentInv
<1> QED
  BY <1>2, <1>3, <1>4, <1>5 DEF TrustInv, Waiting, GoodInv

LEMMA CloseKeepsTrust ==
  ASSUME PartsTypeOK, TrustInv, NEW h \in Handler, CloseReport(h)
  PROVE  TrustInv'
<1>1. /\ handler[h].state = "open"
      /\ UNCHANGED <<attempt, pc, root, answered, trusted, inbox>>
  BY DEF CloseReport, vars, post, past
<1>2. AloneInv'
  BY <1>1, CloseTasks DEF TrustInv, AloneInv
<1>3. CurrentInv'
  BY <1>1, CloseTasks DEF TrustInv, CurrentInv
<1>4. GoodInv'
  BY <1>1 DEF TrustInv, GoodInv, NoneOpen
<1> QED
  BY <1>1, <1>2, <1>3, <1>4 DEF TrustInv, Waiting

LEMMA ReplyKeepsTrust ==
  ASSUME PartsTypeOK, TrustInv, NEW h \in Handler, Reply(h)
  PROVE  TrustInv'
<1>1. /\ handler[h].state \in {"stored", "caught", "thrown"}
      /\ UNCHANGED <<attempt, pc, root, answered, trusted, shown>>
  BY DEF Reply, Answering, vars, past
<1>2. AloneInv'
  BY <1>1, ReplyTasks DEF TrustInv, AloneInv
<1>3. CurrentInv'
  BY <1>1, ReplyTasks DEF TrustInv, CurrentInv
<1>4. NoneOpen => NoneOpen'
  BY ReplyTasks DEF NoneOpen
<1>5. ASSUME attempt # "none", inbox'.verdict = "good"
      PROVE  shown = root /\ NoneOpen
  <2>1. CASE UNCHANGED inbox
    BY <1>5, <2>1 DEF TrustInv, GoodInv
  <2>2. CASE \E k \in {"other", "marked"} : inbox' = Merged(k, h)
    <3>1. handler[h].current /\ handler[h].alone /\ handler[h].state = "stored"
      BY <1>1, <1>5, <2>2, MergedType
    <3> QED
      BY <1>5, <3>1 DEF TrustInv, AloneInv, CurrentInv, NoneOpen
  <2> QED
    BY <2>1, <2>2 DEF Reply
<1>6. GoodInv'
  BY <1>1, <1>4, <1>5 DEF TrustInv, GoodInv
<1> QED
  BY <1>1, <1>2, <1>3, <1>6 DEF TrustInv, Waiting

\* Every step keeps TrustInv.
LEMMA NextTrust ==
  ASSUME HumanTypeOK, TrustInv, [HumanNext]_allvars
  PROVE  TrustInv'
<1>1. TypeOK /\ PartsTypeOK
  BY Parts
<1>2. CASE Loop
  <2>1. UNCHANGED <<post, server, trusted, answered>>
    BY <1>2 DEF Loop, human, past, SampleMemory, SampleDisk, SampleDocker, SampleFails,
       Compare, ParseResponse, Sleep, loop
  <2>2. attempt # "none" => UNCHANGED <<pc, root>>
    BY <1>2 DEF TrustInv, Waiting, Loop, At, SampleMemory, SampleDisk, SampleDocker,
       SampleFails, Compare, ParseResponse, Sleep, loop
  <2> QED
    BY <2>1, <2>2, OutsideKeepsTrust
<1>3. CASE TakeTooMuch
  BY <1>3, OutsideKeepsTrust DEF TakeTooMuch, HttpPostOverflows, human, loop, past
<1>4. CASE \E t \in Thread : DeployStep(t) /\ UNCHANGED <<machine, directive, loop, human>>
  BY <1>4, OutsideKeepsTrust DEF human, loop, past
<1>5. CASE WorldChanges
  BY <1>5, OutsideKeepsTrust DEF WorldChanges, MachineChanges, ServerDirects, loop
<1>6. CASE UNCHANGED allvars
  BY <1>6, OutsideKeepsTrust DEF allvars, vars, human, past
<1> QED
  BY <1>1, <1>2, <1>3, <1>4, <1>5, <1>6, StartKeepsTrust, TakeKeepsTrust,
     ResendKeepsTrust, OpenKeepsTrust, CloseKeepsTrust, ReplyKeepsTrust
     DEF HumanNext, HumanTimerControl, Handle

\* An answer that can be trusted means that the tables show the sample it was
\* given for, through lost, resent and late copies of reports: for any values.
THEOREM TrustIsJustified == HumanSpec => []TrustedAnswerIsShown
<1>1. HumanTypeOK /\ TrustInv /\ [HumanNext]_allvars => TrustInv'
  BY NextTrust
<1>2. TrustInv => TrustedAnswerIsShown
  BY DEF TrustInv, GoodInv, TrustedAnswerIsShown
<1> QED
  BY HumanTypeCorrect, InitTrust, <1>1, <1>2, PTL DEF HumanSpec

-----------------------------------------------------------------------------
\* While a post is under way, the directive there is, and the one in an exact
\* answer to it, are among those there were since it began.
ForceInv ==
  /\ attempt # "none" =>
       /\ directive \in since
       /\ inbox.kind = "marked" /\ inbox.exact /\ inbox.verdict # "foreign"
            => read \in since
  /\ DirectiveInForce

\* Only a post and a change of the directive concern it.
LEMMA OutsideKeepsForce ==
  ASSUME ForceInv, UNCHANGED <<post, read, verdict, since, directive>>,
         pc' = "parse" => UNCHANGED <<pc, response>>
  PROVE  ForceInv'
  BY DEF ForceInv, DirectiveInForce, post

LEMMA PostKeepsForce ==
  ASSUME PartsTypeOK, ForceInv, StartPost \/ TakeAnswer \/ Resend \/ PostFails
  PROVE  ForceInv'
<1>1. CASE StartPost
  <2>1. inbox'.verdict = "foreign"
    <3>1. [inbox EXCEPT !.verdict = "foreign"] =
            [kind |-> inbox.kind, exact |-> inbox.exact, verdict |-> "foreign"]
      BY InboxExcept, NothingForeign DEF PartsTypeOK
    <3>2. [inbox EXCEPT !.verdict = "foreign"].verdict = "foreign"
      BY <3>1
    <3> QED
      BY <1>1, <3>2, NothingForeign DEF StartPost
  <2>2. pc' = "post" /\ directive' \in since'
    BY <1>1 DEF StartPost, At, vars
  <2> QED
    BY <2>1, <2>2 DEF ForceInv, DirectiveInForce
<1>2. CASE TakeAnswer
  <2>1. ASSUME NEW y \in Inbox, NEW k \in {"short", "other"}, Take(OtherAnswer(k), y)
        PROVE  ForceInv'
    BY <2>1 DEF Take, OtherAnswer, ForceInv, DirectiveInForce
  <2>2. ASSUME NEW y \in Inbox, NEW e \in BOOLEAN, Take(MarkedAnswer(e), y),
               inbox.kind = "marked", e => inbox.exact
        PROVE  ForceInv'
    <3>1. /\ attempt # "none" /\ attempt' = "none" /\ verdict' = inbox.verdict
          /\ since' = since /\ response'.directive = read /\ response'.exact = e
      BY <1>2, <2>2 DEF TakeAnswer, Take, MarkedAnswer
    <3> QED
      BY <2>2, <3>1 DEF ForceInv, DirectiveInForce
  <2> QED
    BY <1>2, <2>1, <2>2, Taken
<1>3. CASE Resend
  <2>1. inbox'.verdict = "foreign"
    BY <1>3, InboxTypes DEF Resend
  <2>2. pc' = "post" /\ attempt # "none" /\ UNCHANGED <<directive, since>>
    BY <1>3 DEF Resend, At, loop, past
  <2> QED
    BY <2>1, <2>2 DEF ForceInv, DirectiveInForce
<1>4. CASE PostFails
  <2>1. response'.kind = "empty" /\ attempt' = "none"
    BY <1>4 DEF PostFails, Failed, NoResponse
  <2> QED
    BY <2>1 DEF ForceInv, DirectiveInForce
<1> QED
  BY <1>1, <1>2, <1>3, <1>4

LEMMA HandleKeepsForce ==
  ASSUME PartsTypeOK, ForceInv, NEW h \in Handler, Handle(h)
  PROVE  ForceInv'
<1>1. CASE OpenReport(h)
  <2> DEFINE v == IF inbox.verdict = "good" THEN "own" ELSE inbox.verdict
  <2>1. inbox \in Inbox /\ inbox' = [inbox EXCEPT !.verdict = v]
    BY <1>1 DEF OpenReport, PartsTypeOK
  <2>2. v \in Verdict /\ (v # "foreign" => inbox.verdict # "foreign")
    BY <2>1 DEF Inbox, Verdict
  <2> HIDE DEF v
  <2>3. inbox' = [kind |-> inbox.kind, exact |-> inbox.exact, verdict |-> v]
    BY <2>1, <2>2, InboxExcept
  <2>4. inbox'.kind = inbox.kind /\ inbox'.exact = inbox.exact /\ inbox'.verdict = v
    BY <2>3
  <2>5. UNCHANGED <<attempt, read, directive, since, verdict, pc, response>>
    BY <1>1 DEF OpenReport, vars
  <2> QED
    BY <2>2, <2>4, <2>5 DEF ForceInv, DirectiveInForce
<1>2. CASE CloseReport(h)
  BY <1>2, OutsideKeepsForce DEF CloseReport, vars, past
<1>3. CASE Reply(h)
  <2>1. UNCHANGED <<attempt, directive, since, verdict, pc, response>>
    BY <1>3 DEF Reply, vars, past
  <2>2. CASE UNCHANGED <<inbox, read>>
    BY <2>1, <2>2 DEF ForceInv, DirectiveInForce
  <2>3. CASE inbox' = Merged("marked", h) /\ read' = directive
    BY <2>1, <2>3 DEF ForceInv, DirectiveInForce
  <2>4. CASE inbox' = Merged("other", h)
    <3>1. inbox'.kind = "marked" => ~inbox'.exact
      BY <2>4, MergedType
    <3> QED
      BY <2>1, <3>1 DEF ForceInv, DirectiveInForce
  <2> QED
    BY <1>3, <2>2, <2>3, <2>4 DEF Reply, Answer
<1> QED
  BY <1>1, <1>2, <1>3 DEF Handle

\* Every step keeps ForceInv.
LEMMA NextForce ==
  ASSUME HumanTypeOK, ForceInv, [HumanNext]_allvars
  PROVE  ForceInv'
<1>1. PartsTypeOK
  BY Parts
<1>2. CASE Loop
  <2>1. UNCHANGED <<post, read, verdict, since, directive>>
    BY <1>2 DEF Loop, human, past, SampleMemory, SampleDisk, SampleDocker, SampleFails,
       Compare, ParseResponse, Sleep
  <2>2. pc' = "parse" => UNCHANGED <<pc, response>>
    BY <1>2 DEF Loop, At, SampleMemory, SampleDisk, SampleDocker, SampleFails, Compare,
       ParseResponse, Spawn, Uncaught, Sleep, loop
  <2> QED
    BY <2>1, <2>2, OutsideKeepsForce
<1>3. CASE TakeTooMuch
  BY <1>3, OutsideKeepsForce DEF TakeTooMuch, HttpPostOverflows, human, loop, past
<1>4. CASE \E t \in Thread : DeployStep(t) /\ UNCHANGED <<machine, directive, loop, human>>
  BY <1>4, OutsideKeepsForce DEF human, loop, past
<1>5. CASE WorldChanges
  <2>1. UNCHANGED <<post, read, verdict, pc, response>>
    BY <1>5 DEF WorldChanges, MachineChanges, ServerDirects, loop
  <2>2. since \subseteq since' /\ (directive' = directive \/ directive' \in since')
    BY <1>5 DEF WorldChanges, MachineChanges, ServerDirects
  <2> QED
    BY <2>1, <2>2 DEF ForceInv, DirectiveInForce, post
<1>6. CASE UNCHANGED allvars
  BY <1>6, OutsideKeepsForce DEF allvars, vars, human, past
<1> QED
  BY <1>1, <1>2, <1>3, <1>4, <1>5, <1>6, PostKeepsForce, HandleKeepsForce
     DEF HumanNext, HumanTimerControl

\* What the client is about to deploy was in force since it began the post that
\* fetched it, however the directive changes, unless a leftover was read.
THEOREM DirectiveWasInForce == HumanSpec => []DirectiveInForce
<1>1. HumanInit => ForceInv
  BY DEF HumanInit, Init, ForceInv, DirectiveInForce
<1>2. HumanTypeOK /\ ForceInv /\ [HumanNext]_allvars => ForceInv'
  BY NextForce
<1>3. ForceInv => DirectiveInForce
  BY DEF ForceInv
<1> QED
  BY HumanTypeCorrect, <1>1, <1>2, <1>3, PTL DEF HumanSpec
=============================================================================
