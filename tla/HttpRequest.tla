----------------------------- MODULE HttpRequest -----------------------------
(***************************************************************************)
(* The client's HTTP class: HttpRequestExec with the static keep-alive     *)
(* socket m_iSocketFd, the process's descriptor table it shares with the   *)
(* popen pipes of the deploy threads, and the TCP connections to a server. *)
(*                                                                         *)
(* A step is one system call, with the code up to the next one: between    *)
(* two of them the server, the network and the deploy threads move.        *)
(*                                                                         *)
(* Abstracted: texts and buffer sizes.  A reply is a sequence of segments, *)
(* each what one recv() returns; the URL is only what becomes of it.       *)
(***************************************************************************)
EXTENDS Integers, Sequences, FiniteSets, SequencesExt

CONSTANTS
  MaxFd,      \* bound: descriptors 1 .. MaxFd are free for sockets and pipes
  MaxCalls,   \* bound: calls of HttpGet and HttpPost
  MaxPieces,  \* bound: segments a reply arrives in
  MaxPipes,   \* bound: popen() calls of deploy threads
  Urls,       \* what becomes of the URLs that are used, see UrlKind
  Rejects     \* may the server answer the bytes after a body with an error?

\* "refused": empty or too long; "unresolved": no port or no address;
\* "badAddress": inet_pton, or fcntl, fails.
UrlKind == {"good", "refused", "unresolved", "badAddress"}

ASSUME HttpAssumption ==
  /\ MaxFd \in Nat \ {0}
  /\ MaxCalls \in Nat
  /\ MaxPieces \in Nat \ {0}
  /\ MaxPipes \in Nat
  /\ Urls \subseteq UrlKind
  /\ Rejects \in BOOLEAN

INVALID_SOCKET == -1
Fd == 1 .. MaxFd
Garbage == 0               \* the request read out of a freed head
Asked == 0 .. MaxCalls     \* requests are known by the number of the call
Segment == [req : Asked, part : {"more", "last", "error"}, n : Nat]
Fail == <<>>               \* the answer of a call that returns 0

Place == {"idle", "check", "sendKept", "recvKept", "socket", "address",
          "connect", "checkNew", "sendNew", "recvNew", "closeAgain", "dead"}
Link == {"none", "connecting", "refused", "up", "fin", "reset"}

VARIABLES
  m_iSocketFd,
  fd,       \* fd[n]: what descriptor n is, "free", "sock" or "pipe"
  link,     \* link[n]: the TCP connection of socket n
  asked,    \* asked[n]: whole requests sent on n and not yet answered
  inbox,    \* inbox[n]: segments received on n and not yet read
  pieces,   \* pieces[n]: segments sent so far of the reply under way on n
  pc,       \* where HttpRequestExec stands
  url,      \* kind of its strUrl
  head,     \* strHttpHead: "none", "live", "freed" or "freedTwice"
  calls,    \* calls so far; the number of the current one
  answer,   \* what the last call left in strResponse: segments, or Fail
  pipe,     \* the descriptor a deploy thread's popen() returned
  pipes,    \* popen() calls so far
  old,      \* history: segments that were there when the call began
  cut,      \* history: has an earlier answer been cut off?
  broken    \* history: has the client closed a pipe of a deploy thread?

net  == <<link, asked, inbox, pieces>>
past == <<old, cut>>
call == <<pc, url, head, calls, answer, past>>
proc == <<pipe, pipes>>
vars == <<m_iSocketFd, fd, link, asked, inbox, pieces, pc, url, head, calls,
          answer, pipe, pipes, past, broken>>

TypeOK ==
  /\ m_iSocketFd \in {INVALID_SOCKET} \cup Fd
  /\ fd \in [Fd -> {"free", "sock", "pipe"}]
  /\ link \in [Fd -> Link]
  /\ asked \in [Fd -> Seq(Asked)]
  /\ inbox \in [Fd -> Seq(Segment)]
  /\ pieces \in [Fd -> 0 .. MaxPieces - 1]
  /\ pc \in Place
  /\ url \in UrlKind
  /\ head \in {"none", "live", "freed", "freedTwice"}
  /\ calls \in 0 .. MaxCalls
  /\ answer \in Seq(Segment)
  /\ pipe \in {INVALID_SOCKET} \cup Fd
  /\ pipes \in 0 .. MaxPipes
  /\ old \subseteq Segment
  /\ cut \in BOOLEAN
  /\ broken \in BOOLEAN

InitWith(socket) ==
  /\ m_iSocketFd = socket
  /\ fd = [n \in Fd |-> "free"]
  /\ link = [n \in Fd |-> "none"]
  /\ asked = [n \in Fd |-> <<>>]
  /\ inbox = [n \in Fd |-> <<>>]
  /\ pieces = [n \in Fd |-> 0]
  /\ pc = "idle"
  /\ url = "good"
  /\ head = "none"
  /\ calls = 0
  /\ answer = Fail
  /\ pipe = INVALID_SOCKET
  /\ pipes = 0
  /\ old = {}
  /\ cut = FALSE
  /\ broken = FALSE

\* Mutant of Init: `static int m_iSocketFd' left to be zero.
InitZero == InitWith(0)

Init == InitWith(INVALID_SOCKET)

-----------------------------------------------------------------------------
(***************************************************************************)
(* Descriptors.  A new one is the lowest that is free; closing one that is *)
(* free is EBADF and changes nothing.                                      *)
(***************************************************************************)
FreeFd == {n \in Fd : fd[n] = "free"}
NewFd(n) == n \in FreeFd /\ \A k \in FreeFd : n <= k

CloseFd(n) ==
  /\ fd' = [fd EXCEPT ![n] = "free"]
  /\ link' = [link EXCEPT ![n] = "none"]
  /\ asked' = [asked EXCEPT ![n] = <<>>]
  /\ inbox' = [inbox EXCEPT ![n] = <<>>]
  /\ pieces' = [pieces EXCEPT ![n] = 0]

\* A close() in HttpRequest, whatever the number stands for by now.
CloseSocket(n) ==
  /\ CloseFd(n)
  /\ broken' = (broken \/ fd[n] = "pipe")

\* return 0, and return 1 with a in strResponse.
Return(a) ==
  /\ pc' = "idle"
  /\ head' = "none"
  /\ answer' = a

-----------------------------------------------------------------------------
\* HttpGet or HttpPost: the tests of the URL, HttpHeadCreate, and whether
\* there is a socket from an earlier call.
HttpRequestExec(u) ==
  /\ pc = "idle"
  /\ calls < MaxCalls
  /\ calls' = calls + 1
  /\ url' = u
  /\ old' = UNION {ToSet(inbox[n]) : n \in Fd}
  /\ cut' = (cut \/ (answer # Fail /\ Last(answer).part = "more"))
  /\ \/ u = "refused" /\ Return(Fail)
     \/ /\ u # "refused"
        /\ pc' = IF m_iSocketFd # INVALID_SOCKET THEN "check" ELSE "socket"
        /\ head' = "live"
        /\ answer' = Fail
  /\ UNCHANGED <<m_iSocketFd, fd, net, proc, broken>>

\* Mutant of Writable: `iW' alone.
WritableOnly(n) == fd[n] = "sock" /\ link[n] \notin {"connecting"}

\* SocketFdCheck() > 0.  select() finds a socket readable that has data, was
\* closed by the server, has an error, or was never connected; a pipe's
\* reading end is never writable.
Writable(n) == fd[n] = "sock" /\ link[n] = "up" /\ inbox[n] = <<>>

\* Mutant of KeptUsable: the test is the wrong way round.
KeptUnusable == ~Writable(m_iSocketFd)

KeptUsable == Writable(m_iSocketFd)

CheckKept ==
  /\ pc = "check"
  /\ pc' = IF KeptUsable THEN "sendKept" ELSE "socket"
  /\ UNCHANGED <<m_iSocketFd, fd, net, url, head, calls, answer, past, proc,
                 broken>>

\* Mutant of CreateSocket: it closes the old socket first, also where
\* HttpDataTransmit has done so.
CreateSocketClosing ==
  LET old_fd == {m_iSocketFd} \cap Fd
      free   == FreeFd \cup old_fd
  IN
  /\ pc = "socket"
  /\ free # {}
  /\ m_iSocketFd' = CHOOSE n \in free : \A k \in free : n <= k
  /\ fd' = [n \in Fd |-> IF n = m_iSocketFd' THEN "sock"
                         ELSE IF n \in old_fd THEN "free" ELSE fd[n]]
  /\ link' = [n \in Fd |-> IF n \in old_fd THEN "none" ELSE link[n]]
  /\ inbox' = [n \in Fd |-> IF n \in old_fd THEN <<>> ELSE inbox[n]]
  /\ broken' = (broken \/ \E n \in old_fd : fd[n] = "pipe")
  /\ pc' = "address"
  /\ UNCHANGED <<asked, pieces, url, head, calls, answer, past, proc>>

\* socket(): the number in m_iSocketFd is overwritten, not closed.
CreateSocket ==
  /\ pc = "socket"
  /\ \/ /\ FreeFd = {}
        /\ m_iSocketFd' = INVALID_SOCKET
        /\ Return(Fail)
        /\ UNCHANGED fd
     \/ \E n \in Fd :
          /\ NewFd(n)
          /\ m_iSocketFd' = n
          /\ fd' = [fd EXCEPT ![n] = "sock"]
          /\ pc' = "address"
          /\ UNCHANGED <<head, answer>>
  /\ UNCHANGED <<net, url, calls, past, proc, broken>>

\* GetPortFromUrl, GetIPFromUrl, inet_pton and fcntl.
ResolveAddress ==
  /\ pc = "address"
  /\ \/ /\ url = "unresolved"
        /\ Return(Fail)
        /\ UNCHANGED <<m_iSocketFd, fd, net, broken>>
     \/ /\ url = "badAddress"
        /\ CloseSocket(m_iSocketFd)
        /\ m_iSocketFd' = INVALID_SOCKET
        /\ Return(Fail)
     \/ /\ url = "good"
        /\ pc' = "connect"
        /\ UNCHANGED <<m_iSocketFd, fd, net, head, answer, broken>>
  /\ UNCHANGED <<url, calls, past, proc>>

\* connect(): established at once, EINPROGRESS, or another error, which
\* leaves the socket unconnected in m_iSocketFd.
Connect ==
  /\ pc = "connect"
  /\ \/ /\ fd[m_iSocketFd] = "sock"
        /\ \/ /\ link' = [link EXCEPT ![m_iSocketFd] = "up"]
              /\ pc' = "sendNew"
           \/ /\ link' = [link EXCEPT ![m_iSocketFd] = "connecting"]
              /\ pc' = "checkNew"
        /\ UNCHANGED <<head, answer>>
     \/ Return(Fail) /\ UNCHANGED link
  /\ UNCHANGED <<m_iSocketFd, fd, asked, inbox, pieces, url, calls, past, proc,
                 broken>>

\* The SocketFdCheck that waits three seconds for the connection.
CheckNew ==
  /\ pc = "checkNew"
  /\ \/ /\ Writable(m_iSocketFd)
        /\ pc' = "sendNew"
        /\ UNCHANGED <<m_iSocketFd, fd, net, head, answer, broken>>
     \/ /\ ~Writable(m_iSocketFd)
        /\ CloseSocket(m_iSocketFd)
        /\ m_iSocketFd' = INVALID_SOCKET
        /\ Return(Fail)
  /\ UNCHANGED <<url, calls, past, proc>>

(***************************************************************************)
(* HttpDataTransmit: send() and free(strHttpHead), then recv().  On the    *)
(* kept socket a failure goes on to a new socket, with the head that has   *)
(* been freed; on the new one it goes on to a second close().              *)
(***************************************************************************)
\* What is sent: the head of this call or, once it has been freed, whatever
\* the memory holds.  The bytes after the body (the blank line and the
\* terminating NUL) are the beginning of a request that makes no sense, which
\* the server may overlook.
Sent(req) == {<<req>>} \cup IF Rejects THEN {<<req, Garbage>>} ELSE {}
Readable  == IF head = "live" THEN {calls} ELSE {calls, Garbage}

SendHead(from, to, failed) ==
  LET n == m_iSocketFd
  IN
  /\ pc = from
  /\ head' = IF head = "live" THEN "freed" ELSE "freedTwice"
  /\ \/ /\ fd[n] = "sock" /\ link[n] = "up"           \* all of it
        /\ \E req \in Readable : \E s \in Sent(req) :
             asked' = [asked EXCEPT ![n] = @ \o s]
        /\ pc' = to
        /\ UNCHANGED <<fd, link, inbox, pieces, broken>>
     \/ /\ fd[n] = "sock" /\ link[n] \in {"up", "fin"}   \* a part, or in vain
        /\ pc' = to
        /\ UNCHANGED <<fd, net, broken>>
     \/ /\ fd[n] # "sock" \/ link[n] \notin {"up", "fin"}
        /\ CloseSocket(n)
        /\ pc' = failed
     \/ /\ \/ fd[n] = "sock" /\ link[n] \notin {"up", "fin"}   \* SIGPIPE
           \/ head = "freed"                                   \* double free
        /\ pc' = "dead"
        /\ UNCHANGED <<fd, net, broken>>
  /\ UNCHANGED <<m_iSocketFd, url, calls, answer, past, proc>>

\* Mutant of RecvReply: it gives up after a while and keeps the connection.
RecvReplyImpatient(from, failed) ==
  LET n == m_iSocketFd
  IN
  /\ pc = from
  /\ fd[n] = "sock"
  /\ \/ Return(inbox[n]) /\ inbox[n] # <<>>
     \/ Return(Fail) /\ inbox[n] = <<>>
  /\ inbox' = [inbox EXCEPT ![n] = <<>>]
  /\ UNCHANGED <<m_iSocketFd, fd, link, asked, pieces, broken, url, calls, past,
                 proc>>

\* Mutant of Lost: recv() == 0 is not the end of the connection.
LostByReset(n) == fd[n] # "sock" \/ (inbox[n] = <<>> /\ link[n] = "reset")

\* recv() brings 0, or an error other than EAGAIN.
Lost(n) ==
  fd[n] # "sock" \/ (inbox[n] = <<>> /\ link[n] \notin {"connecting", "up"})

\* recv() takes all that has arrived.  While nothing has, EAGAIN is retried
\* at once and for ever.
RecvReply(from, failed) ==
  LET n == m_iSocketFd
  IN
  /\ pc = from
  /\ \/ /\ fd[n] = "sock" /\ inbox[n] # <<>>
        /\ \/ Return(inbox[n])
           \/ /\ head = "freedTwice"         \* free(strResult) aborts
              /\ pc' = "dead"
              /\ UNCHANGED <<head, answer>>
        /\ inbox' = [inbox EXCEPT ![n] = <<>>]
        /\ UNCHANGED <<fd, link, asked, pieces, broken>>
     \/ /\ Lost(n)
        /\ CloseSocket(n)
        /\ pc' = failed
        /\ UNCHANGED <<head, answer>>
  /\ UNCHANGED <<m_iSocketFd, url, calls, past, proc>>

\* Mutant of Forgotten: m_iSocketFd keeps the number of the closed socket.
ForgottenNot == m_iSocketFd

Forgotten == INVALID_SOCKET

\* close(m_iSocketFd) after HttpDataTransmit has closed it already.
CloseAgain ==
  /\ pc = "closeAgain"
  /\ CloseSocket(m_iSocketFd)
  /\ m_iSocketFd' = Forgotten
  /\ Return(Fail)
  /\ UNCHANGED <<url, calls, past, proc>>

ClientStep ==
  \/ CheckKept
  \/ SendHead("sendKept", "recvKept", "socket")
  \/ RecvReply("recvKept", "socket")
  \/ CreateSocket
  \/ ResolveAddress
  \/ Connect
  \/ CheckNew
  \/ SendHead("sendNew", "recvNew", "closeAgain")
  \/ RecvReply("recvNew", "closeAgain")
  \/ CloseAgain

-----------------------------------------------------------------------------
(***************************************************************************)
(* The server and the network, as the client meets them.                   *)
(***************************************************************************)
\* An asynchronous connect comes to an end.
Handshake(n) ==
  /\ link[n] = "connecting"
  /\ \E l \in {"up", "refused"} : link' = [link EXCEPT ![n] = l]
  /\ UNCHANGED <<m_iSocketFd, fd, asked, inbox, pieces, call, proc, broken>>

\* A segment of the reply to the oldest request arrives; what is not a
\* request is answered by an error, and the connection closed.
Reply(n) ==
  /\ link[n] = "up"
  /\ asked[n] # <<>>
  /\ LET r == Head(asked[n])
         Arrives(part, k) == inbox' = [inbox EXCEPT ![n] =
           Append(@, [req |-> r, part |-> part, n |-> k])]
     IN \/ /\ r # Garbage
           /\ pieces[n] < MaxPieces - 1
           /\ Arrives("more", pieces[n])
           /\ pieces' = [pieces EXCEPT ![n] = @ + 1]
           /\ UNCHANGED <<link, asked>>
        \/ /\ r # Garbage
           /\ Arrives("last", pieces[n])
           /\ pieces' = [pieces EXCEPT ![n] = 0]
           /\ asked' = [asked EXCEPT ![n] = Tail(@)]
           /\ UNCHANGED link
        \/ /\ r = Garbage
           /\ Arrives("error", calls)
           /\ link' = [link EXCEPT ![n] = "fin"]
           /\ UNCHANGED <<asked, pieces>>
  /\ UNCHANGED <<m_iSocketFd, fd, call, proc, broken>>

\* The server closes a connection, Jetty at the latest when it has been idle
\* for its idle timeout.
ServerClose(n) ==
  /\ link[n] = "up"
  /\ link' = [link EXCEPT ![n] = "fin"]
  /\ UNCHANGED <<m_iSocketFd, fd, asked, inbox, pieces, call, proc, broken>>

\* The server crashed, or was sent data after it had closed.
ServerReset(n) ==
  /\ link[n] \in {"up", "fin"}
  /\ link' = [link EXCEPT ![n] = "reset"]
  /\ UNCHANGED <<m_iSocketFd, fd, asked, inbox, pieces, call, proc, broken>>

-----------------------------------------------------------------------------
(***************************************************************************)
(* The popen() and pclose() of exec_command in a detached deploy thread.   *)
(***************************************************************************)
Popen ==
  /\ pc # "dead"
  /\ pipe = INVALID_SOCKET
  /\ pipes < MaxPipes
  /\ pipes' = pipes + 1
  /\ \/ \E n \in Fd :
          /\ NewFd(n)
          /\ pipe' = n
          /\ fd' = [fd EXCEPT ![n] = "pipe"]
          /\ UNCHANGED pc
     \/ /\ FreeFd = {}                       \* exit(EXIT_FAILURE)
        /\ pc' = "dead"
        /\ UNCHANGED <<pipe, fd>>
  /\ UNCHANGED <<m_iSocketFd, net, url, head, calls, answer, past, broken>>

Pclose ==
  /\ pc # "dead"
  /\ pipe # INVALID_SOCKET
  /\ CloseFd(pipe)
  /\ pipe' = INVALID_SOCKET
  /\ UNCHANGED <<m_iSocketFd, call, pipes, broken>>

Next ==
  \/ \E u \in Urls : HttpRequestExec(u)
  \/ ClientStep
  \/ \E n \in Fd :
       Handshake(n) \/ Reply(n) \/ ServerClose(n) \/ ServerReset(n)
  \/ Popen
  \/ Pclose

Spec == Init /\ [][Next]_vars

\* The calling thread runs, and no server keeps a silent connection open for
\* ever.  Nothing is assumed of the replies themselves.
Fairness ==
  /\ WF_vars(ClientStep)
  /\ \A n \in Fd : WF_vars(ServerClose(n))
FairSpec == Spec /\ Fairness

-----------------------------------------------------------------------------
\* The socket kept for the next call is one the client has open: the double
\* close never leaves the number of a closed descriptor behind, unless it hit
\* a pipe of a deploy thread (whose pclose may then close the next socket).
HandleOpen ==
  pc = "idle" /\ m_iSocketFd # INVALID_SOCKET /\ ~broken =>
    fd[m_iSocketFd] = "sock"

\* send() is only reached on a connection that has been established: on any
\* other socket it would raise SIGPIPE and end the process.
SendOnlyConnected ==
  pc \in {"sendKept", "sendNew"} /\ ~broken =>
    link[m_iSocketFd] \in {"up", "fin", "reset"}

\* A descriptor the client has lost track of is of no use any more: closed,
\* failed, never connected, or with bytes on it that nobody asked for.  A
\* connection that could have been used again is never abandoned.
LeakedAreStale ==
  \A n \in Fd : fd[n] = "sock" /\ n # m_iSocketFd =>
    link[n] # "up" \/ inbox[n] # <<>>

\* Nothing that had arrived before the call, such as the rest of an earlier
\* reply, is returned as its answer.
NoLeftoverAnswer == ToSet(answer) \cap old = {}

\* Until an answer has been cut off at the first segment, a call that returns 1
\* returns the reply to its own request, or an error reply: to the bytes after a
\* body, or to a retry with the freed head.  From then on the answers may stay
\* one behind.
OwnAnswer ==
  ~cut => \A s \in ToSet(answer) : s.req = calls \/ s.part = "error"

\* The double close in HttpRequestExec is the only place where the client can
\* close a pipe that popen() has opened meanwhile.
OnlySecondClose == [][broken' # broken => pc = "closeAgain"]_vars

\* Every call returns, or the process has ended.
CallReturns == pc # "idle" ~> pc \in {"idle", "dead"}
=============================================================================
