----------------------------- MODULE TimeControl -----------------------------
(***************************************************************************)
(* The client's loop, timerControl(), the only thread main() starts: take  *)
(* a sample, compare it with the last one reported, post it, deploy what   *)
(* the reply says, sleep.  It runs beside the deploy threads it starts.    *)
(*                                                                         *)
(* Abstracted: HttpPost is one step here (HttpRequest has its insides), a  *)
(* disk or memory section is one value of a small set, the docker section  *)
(* is the number of containers, and is missing when that is 0.             *)
(***************************************************************************)
EXTENDS DockerDeploy

CONSTANTS
  Value,    \* values of the disk, and of the memory, section
  Null      \* a Json::Value() no section equals; also docker image "null"

ASSUME LoopAssumption == Null \notin Value \cup Image \cup {Junk} \cup Nat

Section == Value \cup {Null}
Directive == Image \cup {Null}

(***************************************************************************)
(* What HttpPost leaves in http_return.  "empty" is its failure; "short"   *)
(* and "other" are an answer without "POST request.\n", of less and of at  *)
(* least 13 characters; in a "marked" one the directive follows it, and    *)
(* nothing more if it is exact.                                            *)
(***************************************************************************)
Response == [kind : {"empty", "short", "other", "marked"},
             directive : Directive, exact : BOOLEAN]
NoResponse == [kind |-> "empty", directive |-> Null, exact |-> TRUE]

VARIABLES
  disk, memory,             \* the machine's disk and memory usage
  directive,                \* what the server answers this machine
  diskStore, memoryStore, dockerStore,
  root,                     \* the sample under way, or the last one
  response,                 \* http_return
  pc,                       \* where timerControl stands
  answered,                 \* history: the last sample HttpPost returned 1 for
  slept                     \* history: has it slept since the last sample?

machine == <<disk, memory>>
stores  == <<diskStore, memoryStore, dockerStore>>
loop    == <<diskStore, memoryStore, dockerStore, root, response, pc,
             answered, slept>>
vars    == <<stage, dockerImage, local, containers, ended, disk, memory,
             directive, diskStore, memoryStore, dockerStore, root, response,
             pc, answered, slept>>

Sample == [disk : Section, memory : Section, docker : 0 .. MaxContainers]
NoSample == [disk |-> Null, memory |-> Null, docker |-> 0]

TypeOK ==
  /\ DeployTypeOK
  /\ disk \in Value /\ memory \in Value
  /\ directive \in Directive
  /\ diskStore \in Section /\ memoryStore \in Section
  /\ dockerStore \in (1 .. MaxContainers) \cup {Null}
  /\ root \in Sample
  /\ response \in Response
  /\ pc \in {"memory", "disk", "docker", "compare", "post", "parse", "sleep"}
  /\ answered \in Sample
  /\ slept \in BOOLEAN

Init ==
  /\ DeployInit
  /\ disk \in Value /\ memory \in Value
  /\ directive \in Directive
  /\ diskStore = Null /\ memoryStore = Null /\ dockerStore = Null
  /\ root = NoSample
  /\ response = NoResponse
  /\ pc = "memory"
  /\ answered = NoSample
  /\ slept = TRUE

-----------------------------------------------------------------------------
At(place) == ~ended /\ pc = place

\* linux_command(): the commands run one after the other, and what they
\* measure may change between them.
SampleMemory ==
  /\ At("memory")
  /\ pc' = "disk"
  /\ root' = [root EXCEPT !.memory = memory]
  /\ slept' = FALSE
  /\ UNCHANGED <<deploy, ended, machine, directive, stores, response, answered>>

SampleDisk ==
  /\ At("disk")
  /\ pc' = "docker"
  /\ root' = [root EXCEPT !.disk = disk]
  /\ UNCHANGED <<deploy, ended, machine, directive, stores, response, answered,
                 slept>>

SampleDocker ==
  /\ At("docker")
  /\ pc' = "compare"
  /\ root' = [root EXCEPT !.docker = containers]
  /\ UNCHANGED <<deploy, ended, machine, directive, stores, response, answered,
                 slept>>

\* exec_command's popen() fails while a sample is taken.
SampleFails ==
  /\ At("memory") \/ At("disk") \/ At("docker")
  /\ ended' = TRUE
  /\ UNCHANGED <<deploy, machine, directive, loop>>

\* Mutants: isMember("docker info") is not asked; `||' for `&&'; memoryStore is
\* not updated.
HasDockerAlways == TRUE
UnchangedEither == diskStore = root.disk \/ memoryStore = root.memory
StoreUsageForgetful == diskStore' = root.disk /\ UNCHANGED memoryStore

HasDocker  == root.docker # 0
Unchanged  == diskStore = root.disk /\ memoryStore = root.memory
StoreUsage == diskStore' = root.disk /\ memoryStore' = root.memory

\* The four branches.  The second one makes the first one's comparison of the
\* docker sections of no effect, and `continue' goes past the sleep.
Compare ==
  /\ At("compare")
  /\ \/ /\ Unchanged /\ HasDocker
        /\ pc' = "memory"
        /\ UNCHANGED stores
     \/ /\ ~Unchanged /\ HasDocker
        /\ pc' = "post"
        /\ StoreUsage
        /\ dockerStore' = root.docker
     \/ /\ ~HasDocker
        /\ pc' = "post"
        /\ StoreUsage
        /\ UNCHANGED dockerStore
  /\ UNCHANGED <<deploy, ended, machine, directive, root, response, answered,
                 slept>>

\* HttpPost: it fails, or it returns the beginning of an answer, an error
\* page, or the servlet's answer with or without bytes after it.
HttpPost ==
  /\ At("post")
  /\ pc' = "parse"
  /\ \/ response' = NoResponse /\ UNCHANGED answered
     \/ /\ \/ \E k \in {"short", "other"} :
                response' = [NoResponse EXCEPT !.kind = k]
           \/ \E exact \in BOOLEAN :
                response' = [kind |-> "marked", directive |-> directive,
                             exact |-> exact]
        /\ answered' = root
  /\ UNCHANGED <<deploy, ended, machine, directive, stores, root, slept>>

\* An answer of more than the 4096 bytes of http_return, as an error page with
\* a stack trace can be, is copied over what lies behind it.
HttpPostOverflows ==
  /\ At("post")
  /\ ended' = TRUE
  /\ UNCHANGED <<deploy, machine, directive, loop>>

\* Mutant of Uncaught: the exception is caught, and the loop goes on.
UncaughtPassed == pc' = "sleep" /\ UNCHANGED <<deploy, ended>>

\* An exception nothing catches: std::terminate.
Uncaught == ended' = TRUE /\ UNCHANGED <<deploy, pc>>

\* A new thread, or std::system_error where the process can have no more.
Spawn(x) ==
  \/ /\ \E t \in FreeThread : StartDeploy(t, x)
     /\ pc' = "sleep"
     /\ UNCHANGED <<local, containers, ended>>
  \/ /\ FreeThread = {}
     /\ Uncaught

\* find() starts at an uninitialized index, so that it may miss the marker.
\* Where there is none, substr(13) throws on a short answer, and else takes
\* what stands there for the image.
ParseResponse ==
  /\ At("parse")
  /\ \/ /\ response.kind = "marked" /\ response.exact     \* found
        /\ response.directive = Null
        /\ pc' = "sleep"
        /\ UNCHANGED <<deploy, ended>>
     \/ /\ response.kind = "marked" /\ response.exact     \* found
        /\ response.directive # Null
        /\ Spawn(response.directive)
     \/ /\ response.kind = "marked" /\ ~response.exact    \* found, and more
        /\ Spawn(Junk)
     \/ /\ response.kind \in {"other", "marked"}          \* not found
        /\ Spawn(Junk)
     \/ /\ response.kind \in {"empty", "short"}           \* std::out_of_range
        /\ Uncaught
  /\ UNCHANGED <<machine, directive, stores, root, response, answered, slept>>

Sleep ==
  /\ At("sleep")
  /\ pc' = "memory"
  /\ slept' = TRUE
  /\ UNCHANGED <<deploy, ended, machine, directive, stores, root, response,
                 answered>>

TimerControl ==
  \/ SampleMemory \/ SampleDisk \/ SampleDocker \/ SampleFails
  \/ Compare \/ HttpPost \/ HttpPostOverflows \/ ParseResponse \/ Sleep

-----------------------------------------------------------------------------
\* The machine's usage changes, and containers of others come and go.
MachineChanges ==
  /\ ~ended
  /\ \/ disk' \in Value \ {disk} /\ UNCHANGED memory
     \/ memory' \in Value \ {memory} /\ UNCHANGED disk
  /\ UNCHANGED <<deploy, ended, directive, loop>>

\* The server's directive for this machine is changed.
ServerDirects ==
  /\ ~ended
  /\ directive' \in Directive \ {directive}
  /\ UNCHANGED <<deploy, ended, machine, loop>>

Next ==
  \/ TimerControl
  \/ /\ (\E t \in Thread : DeployStep(t)) \/ OtherContainers
     /\ UNCHANGED <<machine, directive, loop>>
  \/ MachineChanges
  \/ ServerDirects

Spec == Init /\ [][Next]_vars

\* The loop's thread runs: its commands and HttpPost come back.
FairSpec == Spec /\ WF_vars(TimerControl)

-----------------------------------------------------------------------------
\* The stores are updated before the report is posted, and HttpPost may fail.
\* Nevertheless, whenever the loop comes round, what it compares with is what
\* the server has answered for: a client that could not deliver is dead.
NoLostReport ==
  ~ended /\ pc \in {"sleep", "memory", "disk", "docker", "compare"} =>
    /\ diskStore = answered.disk
    /\ memoryStore = answered.memory

\* Usage that settles gets reported, however it changed before, and in
\* whatever order disk, memory and containers changed during the sampling.
SettledUsageIsReported ==
  \A d, m \in Value :
    <>[](disk = d /\ memory = m)
      => <>(ended \/ (answered.disk = d /\ answered.memory = m))

\* While disk and memory stay what they are and there are containers, the
\* client ends up silent, and then learns of no new directive either.
QuietWhenUnchanged ==
  (\E d, m \in Value : <>[](disk = d /\ memory = m /\ containers # 0))
    => <>[](pc # "post" \/ ended)

\* "control the monitor interval": between two samples lies a sleep.
MonitorInterval ==
  [][pc = "memory" /\ pc' = "disk" => slept]_vars
=============================================================================
