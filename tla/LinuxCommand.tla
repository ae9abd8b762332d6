----------------------------- MODULE LinuxCommand -----------------------------
(***************************************************************************)
(* One call of the client's linux_command(): a dozen shell commands, one   *)
(* after the other, whose output lines data_to_json() then puts together   *)
(* by their index.  The machine does not wait: between two commands CPUs   *)
(* go on and off line, file systems are mounted, and with every container  *)
(* an interface comes or goes.                                             *)
(*                                                                         *)
(* Abstracted: what is measured.  A line stands for the item (CPU, mount   *)
(* point, interface, container) it is about; items are numbered in the     *)
(* order in which the commands list them.  Of an interface x, x stands for *)
(* the line of the received bytes, -x for that of the sent ones.           *)
(***************************************************************************)
EXTENDS Integers, FiniteSets, SequencesExt

CONSTANTS
  Item,        \* bound: the items of a kind a machine can have
  Garbage,     \* what operator[] returns past the end of a vector
  MaxChanges,  \* bound: items that come or go during the call
  MaxFailures  \* bound: commands that print nothing

ASSUME SampleAssumption ==
  /\ Item \subseteq Nat \ {0} /\ 1 \in Item /\ IsFiniteSet(Item)
  /\ Garbage \notin Int
  /\ MaxChanges \in Nat /\ MaxFailures \in Nat

Changing == {"cpu", "mount", "iface", "container"}
Kind == Changing \cup {"eth0", "memory", "clock"}

\* The vectors that are filled, in this order, and what their lines are about.
\* `docker stats' lists the containers, then asks each one.
Commands ==
  <<<<"cpuSource", "cpu">>, <<"cpuMHz", "cpu">>, <<"cpuCores", "cpu">>,
    <<"memoryTotal", "memory">>, <<"memoryAvailable", "memory">>,
    <<"diskTotal", "mount">>, <<"diskAvailable", "mount">>,
    <<"ethFirst", "iface">>, <<"ethSecond", "iface">>,
    <<"dockerId", "container">>, <<"dockerStats", "container">>,
    <<"macAddress", "eth0">>, <<"timestamp", "clock">> >>

Vector == {Commands[i][1] : i \in DOMAIN Commands}

VARIABLES
  world,    \* world[k]: the items of kind k there are
  next,     \* the next command; past the last one, data_to_json
  list,     \* list[v]: the lines in vector v
  root,     \* root[k]: pairs of values that went into one row; <<>> before
  ended,    \* exit(), or a crash
  changes, failures,
  left,     \* history: kinds of which an item has gone since first listed
  joined,   \* history: kinds of which an item has come since first listed
  between,  \* history: ... other than after all the items there are
  failed    \* history: kinds for which a command printed nothing

history == <<left, joined, between, failed>>
vars == <<world, next, list, root, ended, changes, failures, left, joined,
          between, failed>>

Line == Item \cup {-x : x \in Item}

TypeOK ==
  /\ world \in [Kind -> SUBSET Item]
  /\ next \in 1 .. Len(Commands) + 1
  /\ list \in [Vector -> Seq(Line)]
  /\ root = <<>> \/ root \in [Kind -> SUBSET (Line \X (Line \cup {Garbage}))]
  /\ ended \in BOOLEAN
  /\ changes \in 0 .. MaxChanges /\ failures \in 0 .. MaxFailures
  /\ left \cup joined \cup between \subseteq Changing
  /\ failed \subseteq Kind

Init ==
  /\ world \in [Kind -> SUBSET Item]
  /\ world["eth0"] \in {{}, {1}} /\ world["memory"] = {1} /\ world["clock"] = {1}
  /\ next = 1
  /\ list = [v \in Vector |-> <<>>]
  /\ root = <<>>
  /\ ended = FALSE
  /\ changes = 0 /\ failures = 0
  /\ left = {} /\ joined = {} /\ between = {} /\ failed = {}

-----------------------------------------------------------------------------
Sampling == ~ended /\ root = <<>>

\* The items of S as the commands list them.
InOrder(S) ==
  CHOOSE s \in [1 .. Cardinality(S) -> S] :
    \A i, j \in DOMAIN s : i < j => s[i] < s[j]

\* Mutant of Lines: no `grep -v all' behind sar.
LinesWithAll(v, k) ==
  (IF v = "cpuSource" THEN <<1>> ELSE <<>>) \o InOrder(world[k])

\* What the command for v prints of kind k, two lines for an interface.
Lines(v, k) ==
  LET items == InOrder(world[k])
  IN  IF k # "iface" THEN items
      ELSE [n \in 1 .. 2 * Len(items) |->
              IF n % 2 = 1 THEN items[(n + 1) \div 2] ELSE -items[n \div 2]]

\* exec_command, string_exec_command: one push_back for each line.  There is
\* none where the command is not installed or the shell cannot fork.
ExecCommand ==
  /\ Sampling /\ next <= Len(Commands)
  /\ LET v == Commands[next][1]
         k == Commands[next][2]
     IN  \/ /\ list' = [list EXCEPT ![v] = Lines(v, k)]
            /\ UNCHANGED <<failures, failed>>
         \/ /\ failures < MaxFailures
            /\ failures' = failures + 1
            /\ failed' = failed \cup {k}
            /\ UNCHANGED list
  /\ next' = next + 1
  /\ UNCHANGED <<world, root, ended, changes, left, joined, between>>

\* popen() fails: exit(EXIT_FAILURE).
PopenFails ==
  /\ Sampling /\ next <= Len(Commands)
  /\ ended' = TRUE
  /\ UNCHANGED <<world, next, list, root, changes, failures, history>>

ReadAt(v, i) == IF i \in DOMAIN list[v] THEN list[v][i] ELSE Garbage

\* Mutants of RowsBy: `<= size()'; the loop runs over the other vector.
RowsByPastEnd(v, w) ==
  {<<ReadAt(v, i), ReadAt(w, i)>> : i \in 1 .. Len(list[v]) + 1}
RowsByOther(v, w) ==
  {<<ReadAt(v, i), list[w][i]>> : i \in DOMAIN list[w]}

\* The loop over v that reads w by the same index.
RowsBy(v, w) == {<<list[v][i], ReadAt(w, i)>> : i \in DOMAIN list[v]}

\* A container that has gone when it is asked has "--" for its figures, where
\* s[3].length() - 3 is no index.
DockerRows ==
  {<<c, IF c \in ToSet(list["dockerStats"]) THEN c ELSE Garbage>> :
     c \in ToSet(list["dockerId"])}

Report ==
  [k \in Kind |->
     CASE k = "cpu" -> RowsBy("cpuMHz", "cpuSource") \cup RowsBy("cpuMHz", "cpuCores")
       [] k = "mount" -> RowsBy("diskTotal", "diskAvailable")
       [] k = "iface" -> RowsBy("ethFirst", "ethSecond")
       [] k = "container" -> DockerRows
       [] k = "memory" -> {<<1, ReadAt("memoryTotal", 1)>>,
                           <<1, ReadAt("memoryAvailable", 1)>>}
       [] k = "eth0" -> {<<1, ReadAt("macAddress", 1)>>}
       [] k = "clock" -> {<<1, ReadAt("timestamp", 1)>>}]

Overrun(k) == \E p \in Report[k] : Garbage \in {p[1], p[2]}

\* data_to_json, and the [0] of the last lines of linux_command: what is past
\* the end of a vector is read as it is found there, or ends the process.
DataToJson ==
  /\ Sampling /\ next > Len(Commands)
  /\ \/ root' = Report /\ UNCHANGED ended
     \/ /\ \E k \in Kind : Overrun(k)
        /\ ended' = TRUE
        /\ UNCHANGED root
  /\ UNCHANGED <<world, next, list, changes, failures, history>>

\* Kinds whose first listing is over, and so matter to the history.
Listed   == {Commands[i][2] : i \in 1 .. next - 1}
Unlisted == {Commands[i][2] : i \in next .. Len(Commands)}

\* An item comes or goes, of a kind some command is still to list.
WorldChanges ==
  /\ Sampling /\ changes < MaxChanges
  /\ changes' = changes + 1
  /\ \E k \in Changing \cap Unlisted, x \in Item :
       /\ world' = [world EXCEPT ![k] = IF x \in @ THEN @ \ {x} ELSE @ \cup {x}]
       /\ left' = IF x \in world[k] THEN left \cup ({k} \cap Listed) ELSE left
       /\ joined' = IF x \in world[k] THEN joined
                                      ELSE joined \cup ({k} \cap Listed)
       /\ between' = IF x \notin world[k] /\ \E y \in world[k] : y > x
                       THEN between \cup ({k} \cap Listed) ELSE between
  /\ UNCHANGED <<next, list, root, ended, failures, failed>>

Next == ExecCommand \/ PopenFails \/ DataToJson \/ WorldChanges

Spec == Init /\ [][Next]_vars

-----------------------------------------------------------------------------
SingleItems(k) == \A p \in root[k] : p[1] = p[2]

\* data_to_json pairs lines by their index alone, and the filters of the twelve
\* commands have to agree: the values of a row are of one CPU, container, mount
\* point or interface as long as none came or went since they were first listed.
SteadySample ==
  root # <<>> =>
    \A k \in Kind \ (left \cup joined \cup failed \cup {"eth0"}) : SingleItems(k)

\* Mount points and interfaces are only wrong when one goes, or comes in front
\* of another one: those that are added at the end during the call, as `df'
\* lists them, are left out of the report and disturb no row.
JoinersLeftOut ==
  root # <<>> =>
    \A k \in {"mount", "iface"} \ (left \cup between \cup failed) : SingleItems(k)

\* data_to_json reads past the end of a vector, and may end the client, only if
\* a command failed, there is no eth0, an item went, or a CPU came, meanwhile.
OverrunMeansLoss ==
  \A k \in Kind \ (left \cup failed) :
    next > Len(Commands) /\ Overrun(k) =>
      k = "eth0" \/ (k = "cpu" /\ k \in joined)
=============================================================================
