# Human-Machine in TLA+

Human-Machine is a small monitoring system. A C++ client on every monitored
machine samples CPU, memory, disk, network and docker figures with shell
commands, turns them into JSON and posts them to a Java server (Jetty, one
servlet). The server replaces what MySQL holds for that machine, and answers
with a docker image to deploy, or `null`. The client then pulls and runs the
image in a detached thread.

This directory holds TLA+ modules of that program, the TLC configurations that
check them on small instances, and TLAPS proofs. `PROJECT.json` maps every
definition to the lines it models and lists runs, mutants, findings, hazards
and theorems.

## 1. The system

| Component | Source | State | Operations |
|---|---|---|---|
| Monitor loop | `client/main.cpp`, `client/TimeControl.h` | the last stored disk, memory and docker sections; `http_return` | sample, compare, post, parse the reply, start a deploy thread, sleep |
| Sampler | `client/linuxCommand.h` | none between samples | 12 shell commands in sequence, `data_to_json`, `stringToHashCode` |
| HTTP client | `client/HttpRequest.h` | the static `m_iSocketFd`, the heap block of the request head | `HttpGet`, `HttpPost`, `SocketFdCheck`, `HttpDataTransmit`, URL parsing |
| Docker deployment | `client/DockerDeploy.h` | one detached thread per deployment | `docker pull`, then `docker run` |
| Servlet | `server/src/SearchServlet.java`, `Tools.java` | none; `dockerResponse.json` on disk is rewritten by others | `doPost`, `doGet`, `getBodyData`, `getDockerResponse` |
| Report store | `SearchServlet.jsonToMysql`, `server/src/JsonDataToMysql.java` | the static `con`; the tables `serverinfo`, `dockerinfo`, `cpuinfo` | `getConnect`, `insertData`, `deleteTable` |
| Server start | `server/src/JettyServletExampleServer.java` | none | starts Jetty |
| Local store | `client/jsonToMysql.h` | dead code | its only call is commented out |

How they interact: the loop calls the sampler and the HTTP client in its own
thread; deploy threads run beside it and share the process (its descriptors,
its `exit()`); client and server share one keep-alive connection; Jetty runs
every request in a thread of its own, and those threads share `con`, the
tables and the directive file.

What is hard about each, and what makes it correct:

- **Report store.** Handlers interleave at every SQL statement, since nothing
  locks and every statement is its own transaction. Correct means: storing a
  report replaces the machine's rows exactly, an answered report never comes
  back, overlapping reports do not wipe each other out, the race on `con`
  harms nobody.
- **HTTP client.** Server, network and other threads act between any two of
  its system calls. Correct means: the answer belongs to the request, nothing
  is sent on a dead descriptor, descriptors are closed once and not lost, a
  call ends.
- **Monitor loop.** The machine changes while it is being sampled, the stores
  are updated before the post, and the answer is parsed without checks.
  Correct means: changes get reported, in spite of failures, and only changes.
- **Docker deployment.** Exit status ignored, command text read from freed
  memory, `exit()` in a thread. Correct means: what it prints is true.
- **Sampler.** The same list is read twice and indexed as if it could not have
  changed; the machine id is a hash in a double. Correct means: the values of a
  row are of one item, and nothing is read past a vector's end.
- **Servlet.** The directive file may be missing, half written or rewritten
  meanwhile; a failure there comes after the report has been stored. Correct
  means: an answer has the machine's own, current directive, and vouches for
  the report.
- **All together.** A report may be sent twice, its first copy may be served
  after later reports, an answer may be a leftover of an earlier one. Correct
  means: what the client believes to be stored is what the tables show, what it
  deploys is what the server directs, and settled usage arrives.

## 2. Modules

| Module | What it models |
|---|---|
| `ReportStore` | abstract specification of the store: what a reader of the tables is promised |
| `JsonDataToMysql` | the report store: one action per statement of `getConnect`, `insertData` and `deleteTable`, any number of handlers; implements `ReportStore` |
| `JsonDataToMysqlProofs` | its inductive invariants and theorems, the refinement among them |
| `SearchServlet` | `doPost` around the store (it extends `JsonDataToMysql`), the directive file, replies |
| `SearchServletProofs` | the store inside the servlet; what an answer says and vouches for |
| `HttpRequest` | `HttpRequestExec` with one step per system call, the descriptor table, connections, server and network, and the `popen` of deploy threads |
| `HttpRequestProofs` | its types, and all its safety properties |
| `HttpMessage` | the URL functions, the request head and the buffers they use |
| `LinuxCommand` | one call of `linux_command`: its commands, a machine that changes meanwhile, `data_to_json` |
| `LinuxCommandProofs` | its types, and its three properties for any number of items |
| `MacHash` | `stringToHashCode` in doubles, for two machines |
| `ClientTextProofs` | the properties of `HttpMessage` and `MacHash`, for texts of any length and any vendor |
| `DockerDeploy` | the deploy threads and the docker daemon they talk to |
| `TimeControl` | `timerControl`, with the deploy threads of `DockerDeploy`, a changing machine and a changing directive |
| `TimeControlProofs` | its types, and `NoLostReport` |
| `HumanMachine` | `TimeControl` with `HttpPost` taken apart, the connection and the server's handlers; implements `TimeControl` |
| `HumanMachineProofs` | the refinement, the types, `TrustedAnswerIsShown` and `DirectiveInForce` |
| `FiniteOrder` | lemmas on natural numbers: least and greatest elements, induction, recursive functions |
| `MC*` | values of the constants for TLC; `MCClientText` runs `HttpMessage` and `MacHash`, which have nothing to do with each other, side by side |

Two refinements tie the levels together. `JsonDataToMysql` implements
`ReportStore`; `HumanMachine` takes the server at what `ReportStore` promises and
implements `TimeControl`, in which the whole exchange with the server is one
step.

### JsonDataToMysql

`table[t]` is the set of rows of table `t`. A row is the id it is stored under,
the request that wrote it and its place in that request's JSON array; columns
are left out, as no decision depends on them. `con` is the static field,
`conn[r]` the parameter handler `r` works with. `pc[r]` names the statement
`r` is at. `opened` numbers the connections MySQL has granted, `alive` are
those it still serves.

- `Receive`, then `GetConnect`, `AssignCon` and `ReturnConnect`: what
  `DriverManager.getConnection()` returns (`granted[r]`), the assignment to `con`
  and the `return con` that reads it again are three steps. A slower handler may
  so put `con` back to an older connection than the one it holds. When
  `getConnection` throws, `con` keeps its old value.
- `ParseData`: a report gives its id; a malformed body is caught; an empty one
  raises an exception nobody catches.
- `DeleteTable`, three times, in the code's order: a failed delete is swallowed
  and the handler goes on.
- `ReadSections`: a report without CPUs or interfaces ends the handler here,
  after its deletes.
- `InsertLoop`, three times: one insert, or the loop's end, per step. A failed
  insert ends `insertData`.
- `DropConnection` is MySQL's. No action closes a connection, as the code does
  not.

`wiped` and `before` are history: they are read by properties only.

### HttpRequest

A step is one system call with the code up to the next. `fd[n]` says what
descriptor `n` is; new descriptors are the lowest free ones. `link[n]` is the
TCP connection of a socket, `inbox[n]` the segments that have arrived and not
been read. `recv` returns all of them.

- `HttpRequestExec` begins a call, `CheckKept` looks at the kept socket,
  `CreateSocket` overwrites its number without closing it.
- `SendHead` and `RecvReply` are `HttpDataTransmit`, used for the kept and for
  the new socket. `head` follows `strHttpHead`: a retry sends what has been
  freed, which may be the head, other bytes (`Garbage`), or abort.
- `CloseAgain` is the second `close()` of line 141 or 157, a step of its own
  since a deploy thread may be given the number between the two.
- `Handshake`, `Reply`, `ServerClose`, `ServerReset` are the server's and the
  network's. What `HttpRequest.h:213,226` sends after the body (a blank line
  and a NUL) is no request: a server with `Rejects` may answer it by an error and
  close, or overlook it (`Sent` is the set of what may reach it).
- `Popen` and `Pclose` are those of a deploy thread. `Pclose` closes the number
  it was given, whatever that has become.

`old`, `cut` and `broken` are history.

### DockerDeploy and TimeControl

`stage[t]` follows a deploy thread from `docker pull` to the end of
`docker run`. Either command's text may have been overwritten, either may
fail, and neither failure is noticed. A `popen` that fails ends the process.

`TimeControl` has a step for each measurement whose value is compared later
(memory, disk, docker, in `linux_command`'s order), one each for `Compare`,
`HttpPost`, `ParseResponse` and `Sleep`. `HttpPost` fails or returns an answer
that is too short, without the marker, or marked; the marked one may have
bytes after the directive (Jetty sends an answer without a length in chunks).
`find()` starts at an uninitialized index, so that a marker may be missed.

### ReportStore

`state[r]` is a report's way from "new" over "open" to "stored" or "failed",
`shown[i]` what the tables hold of machine `i`. `shown[i]` changes only while a
report of `i` is open; a report that is closed as stored and was alone is what
is shown. The refinement mapping (`ReportOf`, `StateOf`, `Alone`, `ShownOf` in
`JsonDataToMysql`) reads "open" as everything from `Receive` on that is not finished.

### SearchServlet

`file` is `dockerResponse.json`: its entries, or `Torn`, or missing. An entry may
lack its id or its address. `DoPost` is the receipt, `GetDockerResponse` and
`PrintToJson` follow once the store has returned; `StoreThrows` is the error page
of a handler whose store raised an exception nobody catches. `WriteFile` is the
writer of the file, who is no part of the program. `since` is history: the
contents the file has had since the receipt. A body that is no JSON leaves the
id 0 (`NoId`) and is looked up under it, as the code does. `doGet` answers a fixed
text; it has no state.

### HttpMessage

A URL is a sequence of tokens: schemes, separators, numerals, words known by
their length. `strUrl` is written from `parts`, the code's functions parse it, and
the properties compare the two. The lengths of all that `HttpHeadCreate` appends
are the code's. `GetIPFromUrl` counts dots as the code does; its digit test holds
for every character (line 373), so that `iFlag` is never set.

`overrun` collects the buffers that have been written past their end: `url[URLSIZE]`
(a copy of the URL, in `GetHostAddrFromUrl` and `GetParamFromUrl`), `strAddr[URLSIZE]`
(a copy of the host, in `GetPortFromUrl`), `strHttpHead` and `len[8]`.
A text overruns its buffer if it leaves no byte for its terminator. What the
overrun does to the rest of the call is not modelled. `timerControl` passes a
constant URL (`TimeControl.h:94`): of the hazards listed for `HttpRequest.h`, those of
the URL's text concern other callers of the public `HttpGet` and `HttpPost`, the
length of the body concerns this one.

### LinuxCommand

`Commands` lists the vectors in the order in which they are filled and the kind of
item each line is about. `ExecCommand` runs the next one; a command that is not
installed prints nothing. `WorldChanges` lets an item come or go between any two.
`Report` pairs lines by index, as `data_to_json` does, with `Garbage` for what lies
past the end of a vector; `DataToJson` goes on with it or ends the process.

### MacHash

A double is an integer to the base 2^24; `Rounded` rounds to the nearest multiple
of 2 or 4, ties to even, where a double of that size has no unit. The last two
characters of an address take the hash past 2^53.

### HumanMachine

`pc` and the other variables of `TimeControl` are kept; `pc = "post"` now lasts from
`StartPost` to `TakeAnswer` or `PostFails`, and `attempt` says whether `HttpPost` waits
on the kept or on a new socket. `Resend` is the second attempt of
`HttpRequest.h:94`, out of freed memory. `inbox` stands for what the server has sent
and the client has not read: an answer, an error page, or both; what a call
leaves there is the leftover `HttpRequest` is about.

`handler[h]` is a Jetty thread at work on a copy of a report: received, open,
stored or failed, until its `Reply`. Its fields say whether the connection it
came on is still the client's (`mine`), whether its report is that of the post
under way (`current`), and whether it was the only one open (`alone`). `after` are
the handlers of earlier requests on the same connection: a report is not opened
before they have replied, as Jetty serves one connection's requests in turn.
Copies that came on different connections are at work together. `shown` is the
report the tables hold, or `Mixed`.

`WorldChanges` is what the system has no hand in: usage, containers of others, the
directive. `read`, the directive of the newest reply, is what `TimeControl` calls `directive`.
`verdict`, `trusted` and `since` are history.

## 3. What is checked

| Run | Bounds | What it shows |
|---|---|---|
| `store_overlap` | 3 handlers, 2 machines, with and without a container, 1 connection, 1 fault | `ExactSnapshot`, `NoStaleRow`, `SomeReportSurvives`, `ImplementsReportStore`, `TypeOK` |
| `store_faults` | 2 POSTs of one machine, all kinds of body, 2 faults, 2 connections, a directive file or none | `RecentConnection`, `ImplementsReportStore`, `EveryPostAnswered` |
| `servlet` | 2 POSTs of one machine, 1 rewriting of the file (2 if it is torn meanwhile), 1 fault | `AnswerCurrent`, `AnswerVouches`, `ServletTypeOK` |
| `http_keep_alive` | 3 calls, all kinds of URL, 3 descriptors, replies in up to 2 pieces, stray error replies, 2 deploy commands | `OwnAnswer`, `SendOnlyConnected`, `HandleOpen`, `LeakedAreStale`, `NoLeftoverAnswer`, `OnlySecondClose`, `CallReturns`, `TypeOK` |
| `client_text` | 1,729 URLs without a body or with one of 7 lengths; all 65,536 pairs of last groups of an address behind 4 beginnings | `HeadNamesParts`, `ConnectsToHost`, `KnownHostFound`, `BuffersHold`, `SharedIds` |
| `sample` | up to 2 items of a kind, 2 changes, 1 failing command | `SteadySample`, `JoinersLeftOut`, `OverrunMeansLoss`, `TypeOK` |
| `loop` | 2 values each of disk and memory, 1 image, 1 deploy thread, 1 container | `NoLostReport`, `SettledUsageIsReported`, `QuietWhenUnchanged`, `TypeOK` |
| `human_machine` | 2 values each, up to 1 container, 2 handlers, 1 change by the world, no deploy thread | `TrustedAnswerIsShown`, `ImplementsTimeControl`, `SettledUsageIsShown`, `HumanTypeOK` |
| `human_deploy` | fixed usage, 2 handlers, 1 deploy thread, 2 changes of the directive | `DirectiveInForce` |
| `loop_interval`, `deploy_success`, `post_unlimited` | | violated: see findings |

Why the bounds are enough. Three handlers of two machines have an overlap of
one machine beside another machine's report, and a third handler before,
within or after the overlap; a single connection makes all of them go on with
the first one's, and with none when it is dropped. In `store_faults` there are
two, so that a handler may go on with another's newer one, or with an older one
that a slower handler has put back. Two handlers with faults have a failed
report before a good one and beside it. Three calls have a kept socket that fails, a call on the new one,
and one after that; three descriptors let a leaked socket, the current one and
a pipe exist together, and reach exhaustion (`socket()` and `popen()`
failing). One deploy thread and one container reach both "no thread left" and
"docker section missing". Two items of a kind let one go before, after or
instead of another, and one come in front of another. The lengths of the URLs
include all from 985 to 1024 of a path, so that the limit is met with and
without a port. In `human_machine` and `human_deploy` two handlers are the one of a
post and one stray copy of an earlier attempt; while both are at work further copies
are lost. Jetty may have more at work, and the proofs have any number; with three
handlers (no deploy thread, no container, two changes, 2.7 million states) TLC finds
`TrustedAnswerIsShown` and `DirectiveInForce` to hold as well. The number of posts is not bounded, so that a copy may be served any number of posts
later. The first state of `human_machine` has any
usage, container and directive, so that one change is enough for a report that
differs from the one before; a directive ends the client there, as no thread can
be started, and what a running client does with directives and leftovers is in
`human_deploy`, where one is withdrawn and another takes its place.

`HumanMachine` merges what `SearchServlet` takes apart, reading the directive and
sending the reply, and what `HttpRequest` takes apart, the system calls of an
attempt. A directive that changes between two of those steps is in
`AnswerCurrent`.

Deadlock is not checked (`CHECK_DEADLOCK FALSE`): requests and calls are
finite in number, and a process that has ended does nothing more. Symmetry is
used in safety runs only (handlers, values of usage).

Some of the properties say what the code guarantees exactly because a
stronger one does not hold:

- `SomeReportSurvives`: handlers of one machine that overlap leave a mixture of
  rows. All that can be said is that each table has one of their reports whole.
- `OwnAnswer`: a call returns what its first `recv` brings (`HttpRequest.h:243`), the
  whole response or its beginning. Until an answer has been cut off so, every one
  is that of the call it is returned for. After that the rest of it is still to
  come, and the answers of a connection may stay one behind from then on.
- `NoLeftoverAnswer`: what is there when the kept socket is looked at makes it
  fail the check, so that only what arrives later can be taken for an answer.
- `AnswerVouches`: an answer means "stored" only while MySQL refuses nothing. A
  failed insert is caught, and answered like a good one.
- `HandleOpen` and `OnlySecondClose`: the second `close()` may hit a deploy
  thread's pipe, whose `pclose` may then close the client's next socket. The
  properties say that this is the only way for it to happen.
- `LeakedAreStale`: descriptors are lost, though never one that could have been
  used again. A server that closes idle connections costs one for each report.
- `NoLostReport`: the stores run ahead of the post, and it is the crash in
  `substr()` that keeps a client with a failed post from going on with them.
- `TrustedAnswerIsShown` and `SettledUsageIsShown`: a stray copy that is opened
  later takes the trust away, since it may cover a newer report with an older
  one, or with half of one; a client whose usage stays the same will not report
  again.
- `DirectiveInForce`: a leftover may carry a directive that was withdrawn before
  the post began. It takes a deploy thread to survive the first half of such a
  reply, which is why this has a run of its own.
- `BuffersHold`: the test of the URL's length (`HttpRequest.h:74`) lets exactly one
  length through that is too long, by the terminator, and 39,776 bytes of body are
  what is sure to fit beside the longest head.
- `RecentConnection`: the connection a handler works with need not be its own, and
  may be older than its own. It is one that was opened by a handler still at work
  when this one's POST arrived, and not null, if `getConnection` succeeded.
- `KnownHostFound`: a name with three dots passes for an address, as the test of
  its characters (`HttpRequest.h:373`) holds for any, and is never looked up; nor
  is one of a single character (line 381).
- `SharedIds`: addresses of one vendor that end in "07" and "10" share an id, and
  neighbours may if their address begins with a letter.
- `JoinersLeftOut`, `OverrunMeansLoss`: which changes during a sample do harm.

Each property of a passing run has a mutant: a definition with the kind of
mistake a change of the code could bring, under which TLC finds that property
violated. Mutants stand just before the definition they replace.

### Fairness

- `JsonDataToMysql`, `SearchServlet`: weak fairness of each handler. Jetty's
  threads are scheduled, JDBC calls return or throw, a file is read to its end.
  Nothing is assumed of new requests, faults or the file's writer.
- `HttpRequest`: weak fairness of the calling thread, and of `ServerClose`:
  Jetty closes a connection that has been silent for its idle timeout. Without
  that, `recv` is retried for ever. No reply is assumed.
- `TimeControl`: weak fairness of the loop. Its commands return, and
  `CallReturns` is why `HttpPost` does. Nothing is assumed of deploy threads,
  as `docker run` may not return.
- `HumanMachine`: weak fairness of the loop, of each handler, and of the end of a
  connection on which nothing will come.

### Findings

- `MonitorInterval` (`TimeControl.h:29`, "control the monitor interval"): the
  `continue` for an unchanged sample skips the sleep too.
- `DownloadSuccess` (`DockerDeploy.h:28`, "docker download success"): printed
  for a failed `docker pull` as well.
- `UnlimitedData` (`src/README.md:29`, "(the length of the data is **`unlimited`**)"):
  `HttpHeadCreate` appends the report to a buffer of 41000 bytes without a test.

## 4. What is proved

Every invariant and every action property of the passing runs is a theorem, for
all values of the constants; so are both refinements. TLC has checked each of
the inductive invariants named below as an invariant of the run it belongs to.

`JsonDataToMysqlProofs` proves, for any sets of requests, ids and bodies and
any bounds, from `StoreAssumption` alone:

- `TypeCorrect`: `Spec => []TypeOK`;
- `StaleRowsNeverReturn`: `Spec => []NoStaleRow`;
- `ReplacesExactly`: `Spec => []ExactSnapshot`;
- `OneReportSurvives`: `Spec => []SomeReportSurvives`;
- `ConnectionIsRecent`: `Spec => []RecentConnection`;
- `StoreImplemented`: `Spec => ImplementsReportStore`.

The first three rest on the inductive invariant `IInv`. `ExactSnapshot` speaks
of handlers that are done; it is not inductive, as it says nothing of the ones
at work. `Replaced` does: a table a handler has wiped holds exactly what it has
inserted so far, as long as no other handler of the id is active. Preserving
that needs to know that a handler at work is in nobody's `before`
(`BeforeFinished`), that its loop variables are 0 until its deletes are over
and at their ends when it is done (`PlaceOK`), and that rows carry their
report's id (`RowsKeyed`). Steps that leave the tables alone are handled once,
by `QuietStep`; `DeleteIInv` and `InsertIInv` deal with the other two kinds.

`SomeReportSurvives` follows from `Survivor`: among the reports that have
wiped a table, one (the last to do so) still has all it has inserted. A delete
makes its own handler that witness, trivially, and an insert adds to whoever
the witness is. `RecentConnection` needs `FieldOK`: once a handler has assigned its
connection to `con`, whoever assigns one after it is at work then, and so was not
finished when its POST arrived.

`StoreImplemented` shows that initial states map to initial states (`StoreInit`) and
that every step maps to a step of `ReportStore` or to a stutter: `ReceiveOpens`
opens a report, `StatementChanges` is a delete or an insert of an open one,
`ReturnCloses` needs `Replaced` to know that a report that was alone is exactly
what is shown, and `ViewKept` is for all the other steps.

`TimeControlProofs`, for any threads, images, values and number of containers, from
`DeployAssumption` and `LoopAssumption`:

- `LoopTypeCorrect`: `Spec => []TypeOK`;
- `NoReportIsLost`: `Spec => []NoLostReport`. `LoopInv` adds what holds where the stores
  have run ahead: at "post" they are those of the sample under way, at "parse" an
  empty answer is the only one for which they are not those answered for, and
  it ends the process.

`HumanMachineProofs`, for any number of handlers, so of copies at work at once, from these
and `HumanAssumption` (`Mixed` is no sample, `MaxChanges` a number):

- `HumanTypeCorrect`: `HumanSpec => []HumanTypeOK`;
- `HumanImplementsTimeControl`: `HumanSpec => ImplementsTimeControl`. The types are all
  it needs: `Taken` says what `TakeAnswer` can return, which is what `HttpPost` may
  with `read` for `directive`; a reply is a change of the directive or a stutter.
  With `NoReportIsLost`, no change is lost in the composition either;
- `TrustIsJustified`: `HumanSpec => []TrustedAnswerIsShown`. A trusted answer comes from a
  reply that waited in `inbox`, that reply from a handler that was alone, and so
  `TrustInv` says of each of the three that the tables show its sample and that no
  report is open; that no other is, is what `alone` comes to (`AloneInv`), and that
  the handler's sample is the one under way what `current` does (`CurrentInv`);
- `DirectiveWasInForce`: `HumanSpec => []DirectiveInForce`. `ForceInv` follows the
  directive back from the answer to `inbox` and `read`.

`SearchServletProofs`, from `StoreAssumption` and `ServletAssumption`:

- `ServletImplementsStore`: `ServletSpec => ImplementsReportStore`. A step of the
  servlet is one of the store or leaves the store alone (`StepOfStore`), so that
  every theorem about the store holds in the servlet (`ServletRunsStore`);
- `ServletTypeCorrect`: `ServletSpec => []ServletTypeOK`;
- `AnswersAreCurrent`: `ServletSpec => []AnswerCurrent`. `AnswerOK` follows a handler
  from its receipt: until it has its result the file's present contents are in
  `since`, and what it has read from them is warranted by one of those
  (`DirectiveRead`, on the loop of `getDockerResponse`);
- `AnswersVouch`: `ServletSpec => []AnswerVouches`, from `Unharmed`: while nothing has
  been refused or dropped, every connection is alive and every delete a handler
  has passed has gone through.

`HttpRequestProofs`, from `HttpAssumption`, for any number of calls, descriptors, pieces
and deploy commands:

- `HttpTypeCorrect`, `KeptSocketIsOpen` (`HandleOpen`), `NoSendBeforeConnect`
  (`SendOnlyConnected`), `NothingUsableLeaks` (`LeakedAreStale`) and
  `PipesBreakAtSecondClose` (`OnlySecondClose`) rest on `SocketInv`: what is no socket has
  no connection (`Clean`), the number the client goes on with is a socket, and the
  deploy thread's a pipe, until one `close()` has hit a pipe (`Held`), only the
  current socket may be connecting (`Waiting`), and one that is to be replaced has
  failed the check (`GivenUp`);
- `NoOldAnswer` (`NoLeftoverAnswer`) adds `RequestInv`: requests are numbered and each
  waits on one connection only (`Numbered`, `Unique`), and what the call's socket
  holds after the check is none of what was there before (`Fresh`);
- `AnswersOwnRequest` (`OwnAnswer`) adds `AnswerInv`: while no answer has been cut off, the
  connection is in step (`InStep`): what waits on it is of this call or an error,
  and between calls nothing is left but bytes after a body (`Settled`).

`LinuxCommandProofs`, from `SampleAssumption`, for any items and any number of changes
and failures: `SampleTypeCorrect`, `SteadyRows` (`SteadySample`), `JoinersDoNoHarm`
(`JoinersLeftOut`) and `OverrunsAreLosses` (`OverrunMeansLoss`). `SampleInv` says of each list
that has been filled what machine it was listed on (`Listing`): one that had what
is there now, but for what has come and gone since. `OrderPrefix` is the reason why
newcomers at the end do no harm, and only those: the items that were there before
are then a prefix of the list.

`ClientTextProofs`, from `MessageAssumption` and `MacAssumption`:

- `HeadIsTheUrls` (`HeadNamesParts`), `ConnectsAsAsked` (`ConnectsToHost`), `KnownHostsAreReached`
  (`KnownHostFound`), for URLs of any length. `UrlParsed` is what they need: what
  `strstr()` finds is the scheme in front, as a host ends the search for one in the
  path (`SchemeInPath`), and the first slash and the first colon behind it are those
  that were written (`AroundToken`);
- `BuffersAreKept` (`BuffersHold`): a host is no longer than the URL it is in, and host
  and parameter are parts of it that do not overlap, so that together they are no
  longer than it is (`HeadTexts`, by the partial sums of `strlen()`). `OverrunCauses`
  draws from this what can overrun a buffer;
- `SharedMacIds` (`SharedIds`), for every vendor and any digits: the seventeen
  characters of an address are hashed without loss (`Seventeen`), so that two hashes
  differ by `Distance` (`TwoLines`). The newline takes them past 2^53, and past 2^54 if
  the address begins with a letter: only there is the rounding coarse enough to
  make neighbours one (`LastCharacter`).

Assumptions on the constants are what the code or the model's own names give:
texts are sequences of tokens, a host has neither slash nor colon, machines have
finitely many items, `Null`, `Pending` and the like are no images. That a machine has
finitely many items, and that the servlet's markers differ, was assumed
silently before; the proofs made it explicit.

`KnownHostFound` was found to be wrong while it was being proved, and has been
corrected: a host of one character is given up (`HttpRequest.h:381`). The run now
meets that case.

Induction over data is replaced by two things, both in `FiniteOrder`. What holds of
every index is shown on the least exception (`LeastNatural`, `SetInduction`). Recursion is
by functions, of which one is shown to exist step by step (`RecursiveFunction`) and then
to be the one the definition chooses (`HashSteps`, `SumIsStrLen`). What remains out of
reach are operators that take an operator, as the folds and `SortSeq` do; `InOrder`,
`StrLen`, `Before` and `stringToHashCode` are written without them.

Only model-checked: the liveness properties (`EveryPostAnswered`, `CallReturns`,
`SettledUsageIsReported`, `QuietWhenUnchanged`, `SettledUsageIsShown`), which are
out of the prover's reach, and the three violated ones.

## 5. Not modelled

- `jsonToMysql.h`, which is dead code; `JettyServletExampleServer`, which has
  no state; `getIpAddress`, `getBodyData` and the `query` parameter, which change
  no state and, as the client uses the server, no outcome but an empty body.
- The vendored headers of MySQL (`mysql_include`) and jsoncpp (`json_include`) and
  the CMake build tree. They are the greater part of the files under `src/`, they
  are declarations of libraries whose code is not in the repository, and the
  MySQL ones are used by dead code only. No definition could stand for them,
  which is why the modules cover a small share of all lines under `src/`, and
  almost all of the project's own.
- Texts, units and formatting; a `send()` that takes a part of a request; the
  memory the client loses.
- What a write past a buffer does. An error page longer than `http_return`
  (`TimeControl.h:91`) is taken for the end of the process.
- A directive file that is rewritten while it is being read: it is read in one
  step, so that a text mixed of two contents does not come up. A half-written
  file does (`Torn`).
- That the client may take a part of an error page for an image. The model lets
  it, as the code does; no property speaks of what is deployed then.
- Memory model. `con` is a plain static field; the model assumes that a read
  sees a write that came before it in time, not just one the Java memory model
  allows.

## 6. Plan

1. A refinement between `HttpRequest` and the exchange of `HumanMachine`, so that
   `OwnAnswer` and `NoLeftoverAnswer` carry over to what `TakeAnswer` may return.
2. `SearchServlet` as the handlers of `HumanMachine`: its answers map to `Answer`.
