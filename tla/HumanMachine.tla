----------------------------- MODULE HumanMachine -----------------------------
(***************************************************************************)
(* The whole system, for one machine: the client's loop and its deploy     *)
(* threads (TimeControl), with HttpPost taken apart, the connection to the *)
(* server, and the servlet's handlers that replace what MySQL holds of the *)
(* machine and answer with its directive.                                  *)
(*                                                                         *)
(* Each part is taken at what its own module shows of it: a handler does   *)
(* to the tables what ReportStore allows, and a call of HttpPost is what   *)
(* HttpRequest leaves of it once descriptors and system calls are gone.    *)
(* The module shows in turn that TimeControl is true to all this together. *)
(***************************************************************************)
EXTENDS TimeControl

CONSTANTS
  Handler,    \* the server's threads, as many copies as can be under way
  Mixed,      \* rows that are no report's, or not all of a report's
  MaxChanges  \* bound: changes of usage, containers and directive

ASSUME HumanAssumption ==
  Mixed \notin Sample /\ MaxChanges \in Nat

VARIABLES
  attempt,   \* HttpPost waits for an answer on the "kept" or on a "new" socket
  kept,      \* m_iSocketFd is a connection
  inbox,     \* what the server has sent on it and has not been read
  read,      \* the directive in the newest reply
  handler,   \* handler[h]: the report h is at work on
  shown,     \* what the tables hold of the machine
  changes,   \* those changes so far
  verdict,   \* history: what the last answer was worth, see Verdict
  trusted,   \* history: it was "good", and no report has been opened since
  since      \* history: directives there were since the post began

post   == <<attempt, kept, inbox>>
server == <<handler, shown>>
past   == <<verdict, trusted, since>>
human  == <<post, read, server, changes, past>>
allvars == <<vars, human>>

(***************************************************************************)
(* An answer is "own" if it is that of the post it is taken for; "good" if *)
(* it is also that of a handler which has stored the report while no other *)
(* was at work on one of this machine; "foreign" otherwise.                *)
(***************************************************************************)
Verdict == {"foreign", "own", "good"}

Inbox   == [kind : {"none", "other", "marked"}, exact : BOOLEAN,
            verdict : Verdict]
Nothing == [kind |-> "none", exact |-> TRUE, verdict |-> "foreign"]
ErrorPage == [Nothing EXCEPT !.kind = "other"]

\* mine: its connection is still the client's; current: its report is that of
\* the post under way; alone: no other report has been open beside it; after:
\* the handlers of earlier requests on its connection.
Task == [state : {"idle", "received", "open", "stored", "caught", "thrown"},
         sample : Sample, mine : BOOLEAN, current : BOOLEAN, alone : BOOLEAN,
         after : SUBSET Handler]
Idle == [state |-> "idle", sample |-> NoSample, mine |-> FALSE,
         current |-> FALSE, alone |-> FALSE, after |-> {}]

HumanTypeOK ==
  /\ TypeOK
  /\ attempt \in {"none", "kept", "new"}
  /\ kept \in BOOLEAN
  /\ inbox \in Inbox
  /\ read \in Directive
  /\ handler \in [Handler -> Task]
  /\ shown \in Sample \cup {Mixed}
  /\ changes \in 0 .. MaxChanges
  /\ verdict \in Verdict
  /\ trusted \in BOOLEAN
  /\ since \subseteq Directive

HumanInit ==
  /\ Init
  /\ attempt = "none"
  /\ kept = FALSE
  /\ inbox = Nothing
  /\ read = directive
  /\ handler = [h \in Handler |-> Idle]
  /\ shown = Mixed
  /\ changes = 0
  /\ verdict = "foreign"
  /\ trusted = FALSE
  /\ since = {}

-----------------------------------------------------------------------------
\* The tasks, when the connection they came in on is given up.
Abandoned(tasks) == [h \in Handler |-> [tasks[h] EXCEPT !.mine = FALSE]]

\* The tasks, when a new post begins.
Outdated(tasks) == [h \in Handler |-> [tasks[h] EXCEPT !.current = FALSE]]

\* A copy of the report is sent: it reaches a handler, or is lost.
Transmit(tasks) ==
  \/ \E h \in Handler :
       /\ tasks[h].state = "idle"
       /\ handler' = [tasks EXCEPT ![h] = [state |-> "received", sample |-> root,
                        mine |-> TRUE, current |-> TRUE, alone |-> FALSE,
                        after |-> {g \in Handler : tasks[g].mine}]]
  \/ handler' = tasks

\* HttpRequestExec: on the kept socket, if there is one and it passes its check,
\* or else on a new one.  What of an earlier reply has arrived fails the check;
\* what has not is still to come.
StartPost ==
  /\ At("post") /\ attempt = "none"
  /\ since' = {directive}
  /\ \/ /\ kept
        /\ attempt' = "kept"
        /\ inbox' = [inbox EXCEPT !.verdict = "foreign"]
        /\ Transmit(Outdated(handler))
     \/ /\ attempt' = "new"
        /\ inbox' = Nothing
        /\ Transmit(Abandoned(Outdated(handler)))
  /\ UNCHANGED <<vars, kept, read, shown, changes, verdict, trusted>>

\* HttpPost returns 1 with the answer x, and leaves y to be read.
Take(x, y) ==
  /\ response' = x
  /\ inbox' = y
  /\ answered' = root
  /\ pc' = "parse"
  /\ attempt' = "none"
  /\ kept' = TRUE
  /\ verdict' = inbox.verdict
  /\ trusted' = (inbox.verdict = "good")
  /\ UNCHANGED <<deploy, ended, machine, directive, stores, root, slept, read,
                 server, changes, since>>

\* The first recv() that brings anything: all that has arrived, or a beginning
\* of it, the rest of which is left to the next call, as the error page is that
\* answers the bytes behind the body.
TakeAnswer ==
  /\ At("post") /\ attempt # "none" /\ inbox.kind # "none"
  /\ LET all == [kind |-> inbox.kind, directive |-> read, exact |-> inbox.exact]
         rest == [inbox EXCEPT !.kind = "other"]
     IN  \/ \E y \in {Nothing, ErrorPage} :
              Take(IF inbox.kind = "other" THEN [NoResponse EXCEPT !.kind = "other"]
                                           ELSE all, y)
         \/ \E k \in {"short", "other"}, y \in {inbox, rest} :
              Take([NoResponse EXCEPT !.kind = k], y)
         \/ /\ inbox.kind = "marked"
            /\ Take([all EXCEPT !.exact = FALSE], rest)

\* An error page that is longer than http_return.
TakeTooMuch ==
  /\ attempt # "none" /\ inbox.kind = "other"
  /\ HttpPostOverflows
  /\ UNCHANGED human

\* The kept connection is closed or reset before an answer is read: the report
\* is sent again on a new one, from memory that has been freed.  That may be
\* the report, a text the server answers by an error page, or the end.
Resend ==
  /\ At("post") /\ attempt = "kept"
  /\ attempt' = "new"
  /\ kept' = FALSE
  /\ \/ Transmit(Abandoned(handler)) /\ inbox' = Nothing /\ UNCHANGED ended
     \/ /\ handler' = Abandoned(handler)
        /\ inbox' = ErrorPage
        /\ UNCHANGED ended
     \/ /\ handler' = Abandoned(handler)
        /\ inbox' = Nothing
        /\ ended' = TRUE
  /\ UNCHANGED <<deploy, machine, directive, loop, read, shown, changes, past>>

\* Mutant of Failed: the loop does not look at the answer of a failed post.
FailedQuietly == pc' = "sleep" /\ response' = NoResponse

\* HttpPost returns 0, and http_return stays empty.
Failed == pc' = "parse" /\ response' = NoResponse

\* No connection, or the new one is closed or reset before an answer is read.
PostFails ==
  /\ At("post") /\ attempt = "new"
  /\ Failed
  /\ attempt' = "none"
  /\ inbox' = Nothing
  /\ kept' = FALSE
  /\ handler' = Abandoned(handler)
  /\ UNCHANGED <<deploy, ended, machine, directive, stores, root, answered, slept,
                 read, shown, changes, past>>

-----------------------------------------------------------------------------
\* jsonToMysql(data) begins.  The requests of one connection are served one
\* after the other.
OpenReport(h) ==
  /\ handler[h].state = "received"
  /\ handler[h].after = {}
  /\ handler' = [g \in Handler |->
       IF g = h
         THEN [handler[h] EXCEPT !.state = "open",
                 !.alone = \A f \in Handler : handler[f].state # "open"]
         ELSE [handler[g] EXCEPT !.alone = FALSE]]
  /\ shown' = Mixed
  /\ trusted' = FALSE
  /\ inbox' = [inbox EXCEPT !.verdict = IF @ = "good" THEN "own" ELSE @]
  /\ UNCHANGED <<vars, attempt, kept, read, changes, verdict, since>>

\* It ends: ReportStore promises something of a report that was alone.  A
\* failed insert is "caught", other failures are "thrown".
CloseReport(h) ==
  /\ handler[h].state = "open"
  /\ \/ /\ handler' = [handler EXCEPT ![h].state = "stored"]
        /\ shown' = IF handler[h].alone THEN handler[h].sample ELSE Mixed
     \/ /\ \E s \in {"caught", "thrown"} :
             handler' = [handler EXCEPT ![h].state = s]
        /\ UNCHANGED shown
  /\ UNCHANGED <<vars, post, read, changes, past>>

\* Mutants: the answer goes out before the report is stored; a handler that
\* throws sends none; the directive is kept from the reply before, or is what
\* stands in another machine's entry.
AnsweringEarly == {"open", "stored", "caught", "thrown"}
AnsweringNoError == {"stored", "caught"}
AnswerCached == read
AnswerOther == Junk

\* Where a handler stands when it answers.
Answering == {"stored", "caught", "thrown"}

\* getDockerResponse(macId).
Answer == directive

\* What is there to be read when a reply comes in as well.
Merged(kind, h) ==
  [kind    |-> IF "marked" \in {inbox.kind, kind} THEN "marked" ELSE "other",
   exact   |-> inbox.kind # "marked",
   verdict |-> IF ~handler[h].current THEN "foreign"
               ELSE IF handler[h].alone /\ handler[h].state \notin {"caught", "thrown"}
                      THEN "good" ELSE "own"]

\* The handler's reply reaches the client, unless its connection has gone: the
\* servlet's answer, or an error page where something was thrown, be it for
\* the directive file.
Reply(h) ==
  /\ handler[h].state \in Answering
  /\ handler' = [g \in Handler |->
       IF g = h THEN Idle ELSE [handler[g] EXCEPT !.after = @ \ {h}]]
  /\ IF handler[h].mine /\ ~ended
       THEN \/ /\ handler[h].state # "thrown"
               /\ inbox' = Merged("marked", h)
               /\ read' = Answer
            \/ /\ inbox' = Merged("other", h)
               /\ UNCHANGED read
       ELSE UNCHANGED <<inbox, read>>
  /\ UNCHANGED <<vars, attempt, kept, shown, changes, past>>

Handle(h) == OpenReport(h) \/ CloseReport(h) \/ Reply(h)

-----------------------------------------------------------------------------
\* What timerControl does on its own.
Loop ==
  /\ SampleMemory \/ SampleDisk \/ SampleDocker \/ SampleFails
     \/ Compare \/ ParseResponse \/ Sleep
  /\ UNCHANGED human

HumanTimerControl == Loop \/ StartPost \/ TakeAnswer \/ TakeTooMuch

\* A connection on which no answer will come: nothing holds its post.
Lost ==
  /\ inbox.kind = "none"
  /\ \A h \in Handler : ~(handler[h].mine /\ handler[h].state # "idle")
  /\ Resend \/ PostFails

\* Containers of others, the machine's usage, the directive change.
WorldChanges ==
  /\ changes < MaxChanges /\ changes' = changes + 1
  /\ \/ /\ OtherContainers
        /\ UNCHANGED <<machine, directive, loop, since>>
     \/ /\ MachineChanges
        /\ UNCHANGED since
     \/ /\ ServerDirects
        /\ since' = since \cup {directive'}
  /\ UNCHANGED <<post, read, server, verdict, trusted>>

HumanNext ==
  \/ HumanTimerControl \/ Resend \/ PostFails
  \/ \E h \in Handler : Handle(h)
  \/ /\ \E t \in Thread : DeployStep(t)
     /\ UNCHANGED <<machine, directive, loop, human>>
  \/ WorldChanges

HumanSpec == HumanInit /\ [][HumanNext]_allvars

\* The loop's thread and Jetty's run, and a connection on which nothing moves
\* is closed by Jetty, or by TCP.
HumanFairSpec ==
  /\ HumanSpec
  /\ WF_allvars(HumanTimerControl)
  /\ WF_allvars(Lost)
  /\ \A h \in Handler : WF_allvars(Handle(h))

-----------------------------------------------------------------------------
\* An answer of the post's own handler, which stored the report while no stray
\* copy was at work, means that the tables show the very sample the client has
\* compared since; until a stray copy is opened, which may be much later.
TrustedAnswerIsShown == trusted => shown = answered

\* The directive the client is about to deploy was in force at some moment
\* since it began the post that fetched it, through copies, resent posts and
\* error pages: unless it is a leftover of an earlier one's reply.
DirectiveInForce ==
  pc = "parse" /\ response.kind = "marked" /\ response.exact /\ verdict # "foreign"
    => response.directive \in since

\* TimeControl tells the truth about HttpPost: one step that fails, or that
\* brings an answer to this sample, with the directive of the newest reply.
Client == INSTANCE TimeControl WITH directive <- read
ImplementsTimeControl == Client!Spec

\* Usage that settles comes to be shown again and again, unless the client has
\* ended or holds an answer that cannot be trusted: it takes any answer for
\* "stored", and repeats no report, neither one that failed nor one that a
\* stray copy has covered since.
SettledUsageIsShown ==
  \A d, m \in Value :
    <>[](disk = d /\ memory = m)
      => []<>(ended \/ (attempt = "none" /\ ~trusted)
              \/ (shown # Mixed /\ shown.disk = d /\ shown.memory = m))
=============================================================================
