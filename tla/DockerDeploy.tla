----------------------------- MODULE DockerDeploy -----------------------------
(***************************************************************************)
(* The client's detached deploy threads: dockerDeploy() pulls an image and *)
(* runs it, each by a shell command of exec_command().  The docker daemon  *)
(* is external: the images it has, the containers that run.                *)
(***************************************************************************)
EXTENDS Integers, FiniteSets

CONSTANTS
  Thread,         \* bound: threads the process can have at a time
  Image,          \* the images a registry knows
  Junk,           \* any other text dockerDeploy may be called with
  MaxContainers   \* bound: containers the machine runs at a time

ASSUME DeployAssumption == Junk \notin Image /\ MaxContainers \in Nat

VARIABLES
  stage,        \* stage[t]: where the dockerDeploy() of thread t stands
  dockerImage,  \* dockerImage[t]: its argument
  local,        \* images the docker daemon has
  containers,   \* containers that run
  ended         \* the process is gone: exit(), or an uncaught exception

deploy == <<stage, dockerImage, local, containers>>

DeployTypeOK ==
  /\ stage \in [Thread -> {"none", "pull", "downloaded", "running"}]
  /\ dockerImage \in [Thread -> Image \cup {Junk}]
  /\ local \subseteq Image
  /\ containers \in 0 .. MaxContainers
  /\ ended \in BOOLEAN

DeployInit ==
  /\ stage = [t \in Thread |-> "none"]
  /\ dockerImage = [t \in Thread |-> Junk]
  /\ local = {}
  /\ containers \in 0 .. MaxContainers
  /\ ended = FALSE

FreeThread == {t \in Thread : stage[t] = "none"}

\* thread dockerRun(dockerDeploy, x); dockerRun.detach();
StartDeploy(t, x) ==
  /\ stage[t] = "none"
  /\ stage' = [stage EXCEPT ![t] = "pull"]
  /\ dockerImage' = [dockerImage EXCEPT ![t] = x]

\* The command is read out of a string that is gone: it may be the one that
\* was put together, or another text.
Command(t) == {dockerImage[t], Junk}

\* "docker pull": the exit status pclose() returns is not looked at, and
\* "docker download success" is printed.
Pull(t) ==
  /\ ~ended
  /\ stage[t] = "pull"
  /\ stage' = [stage EXCEPT ![t] = "downloaded"]
  /\ \/ \E x \in Command(t) \cap Image : local' = local \cup {x}
     \/ UNCHANGED local
  /\ UNCHANGED <<dockerImage, containers, ended>>

\* "docker run" pulls the image itself if it has to, and comes back when the
\* container has ended, or could not be started.
Run(t) ==
  /\ ~ended
  /\ stage[t] = "downloaded"
  /\ \/ \E x \in Command(t) \cap Image :
          /\ containers < MaxContainers
          /\ containers' = containers + 1
          /\ local' = local \cup {x}
          /\ stage' = [stage EXCEPT ![t] = "running"]
     \/ /\ stage' = [stage EXCEPT ![t] = "none"]
        /\ UNCHANGED <<containers, local>>
  /\ UNCHANGED <<dockerImage, ended>>

RunReturns(t) ==
  /\ ~ended
  /\ stage[t] = "running"
  /\ stage' = [stage EXCEPT ![t] = "none"]
  /\ containers' = IF containers > 0 THEN containers - 1 ELSE 0
  /\ UNCHANGED <<dockerImage, local, ended>>

\* popen() fails in exec_command: exit(EXIT_FAILURE) ends the whole client.
PopenFails(t) ==
  /\ ~ended
  /\ stage[t] \in {"pull", "downloaded"}
  /\ ended' = TRUE
  /\ UNCHANGED deploy

DeployStep(t) == Pull(t) \/ Run(t) \/ RunReturns(t) \/ PopenFails(t)

\* Containers of others come and go.
OtherContainers ==
  /\ ~ended
  /\ containers' \in (0 .. MaxContainers) \cap {containers - 1, containers + 1}
  /\ UNCHANGED <<stage, dockerImage, local, ended>>

-----------------------------------------------------------------------------
\* "docker download success": an image a thread was given, and has reported as
\* downloaded, is there.
DownloadSuccess ==
  \A t \in Thread : stage[t] = "downloaded" /\ dockerImage[t] \in Image =>
    dockerImage[t] \in local
=============================================================================
