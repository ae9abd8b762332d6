-------------------------- MODULE HttpRequestProofs --------------------------
(***************************************************************************)
(* Machine-checked proofs about HttpRequest, for any number of             *)
(* descriptors, calls, segments and deploy commands, any URLs, and a       *)
(* server that may or may not reject the bytes after a body.               *)
(***************************************************************************)
EXTENDS HttpRequest, SequenceTheorems, TLAPS

\* Where the class stands on the socket of an earlier call, and on a new one.
Kept == {"check", "sendKept", "recvKept"}
New  == {"address", "connect", "checkNew", "sendNew", "recvNew"}

USE DEF net, past, call, proc, Kept, New

\* The class is inside a call and works on m_iSocketFd.
Working == pc \in Kept \cup New

\* Wherever the code uses m_iSocketFd, it is the number of a descriptor.
TypeInv ==
  /\ TypeOK
  /\ Working \/ pc = "closeAgain" => m_iSocketFd \in Fd

-----------------------------------------------------------------------------
\* Nothing is left on a descriptor that is not a socket.
Clean ==
  \A n \in Fd : fd[n] # "sock" =>
    /\ link[n] = "none"
    /\ asked[n] = <<>>
    /\ inbox[n] = <<>>
    /\ pieces[n] = 0

\* While the class works on m_iSocketFd it is its own socket, unless a pipe
\* has been broken; a thread's pipe is still its pipe.
Held ==
  /\ /\ Working \/ pc = "idle"
     /\ m_iSocketFd # INVALID_SOCKET
     /\ ~broken
     => fd[m_iSocketFd] = "sock"
  /\ pipe # INVALID_SOCKET /\ ~broken => fd[pipe] = "pipe"

\* A connection is under way only while the class waits for it.
Waiting ==
  \A n \in Fd : link[n] = "connecting" =>
    n = m_iSocketFd /\ pc \in {"checkNew", "dead"}

\* The socket that a new one is about to replace is of no use any more.
GivenUp ==
  pc = "socket" /\ m_iSocketFd # INVALID_SOCKET =>
    link[m_iSocketFd] # "up" \/ inbox[m_iSocketFd] # <<>>

SocketSafe ==
  /\ Clean
  /\ Held
  /\ Waiting
  /\ GivenUp
  /\ LeakedAreStale
  /\ SendOnlyConnected

SocketInv == TypeInv /\ SocketSafe

-----------------------------------------------------------------------------
\* A request is known by the number of its call, and rejected bytes by the
\* number of the call under way when the error came back.
Numbered ==
  /\ \A n \in Fd :
       /\ \A r \in ToSet(asked[n]) : r <= calls
       /\ \A s \in ToSet(inbox[n]) :
            s.req <= calls /\ (s.req = Garbage => s.n <= calls)
  /\ \A s \in old :
       s.req < calls /\ (s.req = Garbage => s.n < calls)

\* No two connections owe, or have brought, an answer to the same request.
Unique ==
  \A m, n \in Fd : \A r \in ToSet(asked[m]) :
    m # n /\ r # Garbage =>
      /\ r \notin ToSet(asked[n])
      /\ \A s \in ToSet(inbox[n]) : s.req # r

\* Only the connection the class waits on has to do with the current call.
Current ==
  pc \notin {"idle", "dead"} =>
    \A n \in Fd :
      \/ n = m_iSocketFd /\ pc \in {"recvKept", "recvNew"}
      \/ /\ calls \notin ToSet(asked[n])
         /\ \A s \in ToSet(inbox[n]) : s.req # calls

\* A new socket has been sent nothing and has received nothing.
Silent ==
  pc \in New \ {"recvNew"} =>
    asked[m_iSocketFd] = <<>> /\ inbox[m_iSocketFd] = <<>>

\* What is on the connection in use, and what it still owes, is none of what
\* had arrived anywhere when the call began.
Fresh ==
  Working /\ ~(pc = "check" /\ inbox[m_iSocketFd] # <<>>) =>
    /\ \A r \in ToSet(asked[m_iSocketFd]) :
         r # Garbage => \A s \in old : s.req # r
    /\ ToSet(inbox[m_iSocketFd]) \cap old = {}

RequestInv ==
  /\ Numbered
  /\ Unique
  /\ Current
  /\ Silent
  /\ Fresh
  /\ NoLeftoverAnswer

-----------------------------------------------------------------------------
\* The last answer ended before its last segment.
CutOff == answer # Fail /\ Last(answer).part = "more"

\* The answer of the call is whole once a segment other than "more" is there,
\* and what has been sent behind it makes no sense.
InStep(n) ==
  /\ \A s \in ToSet(inbox[n]) : s.req = calls \/ s.part = "error"
  /\ link[n] = "up" =>
       /\ ToSet(asked[n]) \subseteq {Garbage, calls}
       /\ asked[n] # <<>> /\ Head(asked[n]) # Garbage =>
            ToSet(Tail(asked[n])) \subseteq {Garbage}
       /\ inbox[n] # <<>> /\ Last(inbox[n]).part # "more" =>
            ToSet(asked[n]) \subseteq {Garbage}

\* Until an answer has been cut off, the kept connection owes nothing but an
\* error, and the connection in use nothing but the current answer.
Settled ==
  ~cut /\ m_iSocketFd # INVALID_SOCKET =>
    /\ Working => InStep(m_iSocketFd)
    /\ pc \in {"idle", "check", "sendKept"} /\ ~CutOff =>
         /\ \A s \in ToSet(inbox[m_iSocketFd]) : s.part = "error"
         /\ link[m_iSocketFd] = "up" =>
              /\ inbox[m_iSocketFd] = <<>>
              /\ ToSet(asked[m_iSocketFd]) \subseteq {Garbage}

\* During a call there is no answer yet.
Unanswered == pc \notin {"idle", "dead"} => answer = Fail

AnswerInv ==
  /\ Unanswered
  /\ Settled
  /\ OwnAnswer

-----------------------------------------------------------------------------
\* Sequences as the sets of their elements.
LEMMA SetOfEmpty == ToSet(<<>>) = {}
BY DEF ToSet

LEMMA SetOfSeq ==
  ASSUME NEW S, NEW s \in Seq(S)
  PROVE  ToSet(s) \subseteq S
BY DEF ToSet

LEMMA AppendFacts ==
  ASSUME NEW S, NEW s \in Seq(S), NEW e \in S
  PROVE  /\ Append(s, e) \in Seq(S)
         /\ Append(s, e) # <<>>
         /\ ToSet(Append(s, e)) = ToSet(s) \cup {e}
         /\ Last(Append(s, e)) = e
BY DEF ToSet, Last

LEMMA HeadTailFacts ==
  ASSUME NEW S, NEW s \in Seq(S), s # <<>>
  PROVE  /\ Head(s) \in S
         /\ Tail(s) \in Seq(S)
         /\ ToSet(s) = {Head(s)} \cup ToSet(Tail(s))
<1>1. Head(s) \in S /\ Tail(s) \in Seq(S)
  OBVIOUS
<1>2. Head(s) \in ToSet(s) /\ ToSet(Tail(s)) \subseteq ToSet(s)
  BY DEF ToSet
<1>3. ASSUME NEW i \in DOMAIN s
      PROVE  s[i] = Head(s) \/ s[i] \in ToSet(Tail(s))
  <2>1. CASE i = 1
    BY <2>1
  <2>2. CASE i # 1
    <3>1. i - 1 \in DOMAIN Tail(s) /\ Tail(s)[i - 1] = s[i]
      BY <2>2
    <3>2. QED
      BY <3>1 DEF ToSet
  <2>3. QED
    BY <2>1, <2>2
<1>4. QED
  BY <1>1, <1>2, <1>3 DEF ToSet

LEMMA ConcatFacts ==
  ASSUME NEW S, NEW s \in Seq(S), NEW t \in Seq(S)
  PROVE  /\ s \o t \in Seq(S)
         /\ ToSet(s \o t) = ToSet(s) \cup ToSet(t)
<1>1. s \o t \in Seq(S) /\ Len(s \o t) = Len(s) + Len(t)
  OBVIOUS
<1>2. \A i \in 1 .. Len(s) : (s \o t)[i] = s[i]
  OBVIOUS
<1>3. \A i \in 1 .. Len(t) : (s \o t)[Len(s) + i] = t[i]
  OBVIOUS
<1>4. ToSet(s) \subseteq ToSet(s \o t)
  BY <1>1, <1>2 DEF ToSet
<1>5. ToSet(t) \subseteq ToSet(s \o t)
  <2>1. ASSUME NEW i \in DOMAIN t PROVE t[i] \in ToSet(s \o t)
    <3>1. Len(s) + i \in DOMAIN (s \o t) /\ t[i] = (s \o t)[Len(s) + i]
      BY <1>1, <1>3
    <3>2. QED
      BY <3>1 DEF ToSet
  <2>2. QED
    BY <2>1 DEF ToSet
<1>6. ASSUME NEW i \in 1 .. Len(s \o t)
      PROVE  (s \o t)[i] \in ToSet(s) \cup ToSet(t)
  <2>1. CASE i <= Len(s)
    BY <1>2, <2>1 DEF ToSet
  <2>2. CASE i > Len(s)
    <3>1. i - Len(s) \in 1 .. Len(t) /\ (s \o t)[i] = t[i - Len(s)]
      BY <1>1, <2>2
    <3>2. QED
      BY <3>1 DEF ToSet
  <2>3. QED
    BY <1>1, <2>1, <2>2
<1>7. ToSet(s \o t) \subseteq ToSet(s) \cup ToSet(t)
  BY <1>1, <1>6 DEF ToSet
<1>8. QED
  BY <1>1, <1>4, <1>5, <1>7

-----------------------------------------------------------------------------
LEMMA FdFacts == Fd \subseteq Nat \ {0} /\ INVALID_SOCKET \notin Fd
BY HttpAssumption DEF Fd, INVALID_SOCKET

\* What is sent is a sequence of call numbers.
LEMMA SentFacts ==
  ASSUME TypeOK, NEW req \in Readable, NEW s \in Sent(req)
  PROVE  /\ s \in Seq(Asked)
         /\ s = <<req>> \/ s = <<req, Garbage>>
         /\ req \in {calls, Garbage}
         /\ req \in Asked
<1>1. req \in {calls, Garbage} /\ req \in Asked /\ Garbage \in Asked
  BY HttpAssumption DEF TypeOK, Readable, Asked, Garbage
<1>2. s = <<req>> \/ s = <<req, Garbage>>
  BY DEF Sent
<1>3. <<req>> \in Seq(Asked) /\ <<req, Garbage>> \in Seq(Asked)
  BY <1>1
<1>4. QED
  BY <1>1, <1>2, <1>3

LEMMA TailsOfSent ==
  ASSUME NEW req
  PROVE  ToSet(Tail(<<req>>)) = {} /\ ToSet(Tail(<<req, Garbage>>)) = {Garbage}
<1>1. Tail(<<req>>) = <<>> /\ Tail(<<req, Garbage>>) = <<Garbage>>
  OBVIOUS
<1>2. ToSet(<<Garbage>>) = {Garbage}
  BY DEF ToSet
<1>3. QED
  BY <1>1, <1>2, SetOfEmpty

LEMMA InitTypeInv == Init => TypeInv
<1> SUFFICES ASSUME Init PROVE TypeInv
  OBVIOUS
<1>1. <<>> \in Seq(Asked) /\ <<>> \in Seq(Segment) /\ 0 \in 0 .. MaxPieces - 1
  BY HttpAssumption
<1>2. asked \in [Fd -> Seq(Asked)] /\ inbox \in [Fd -> Seq(Segment)]
  BY <1>1 DEF Init, InitWith
<1>3. fd \in [Fd -> {"free", "sock", "pipe"}] /\ link \in [Fd -> Link]
  BY DEF Init, InitWith, Link
<1>4. pieces \in [Fd -> 0 .. MaxPieces - 1]
  BY <1>1 DEF Init, InitWith
<1>5. /\ m_iSocketFd = INVALID_SOCKET /\ pipe = INVALID_SOCKET
      /\ pc = "idle" /\ url = "good" /\ head = "none" /\ answer = <<>>
      /\ calls = 0 /\ pipes = 0 /\ old = {} /\ cut = FALSE /\ broken = FALSE
  BY DEF Init, InitWith, Fail
<1>6. calls \in 0 .. MaxCalls /\ pipes \in 0 .. MaxPipes
  BY <1>5, HttpAssumption
<1>7. answer \in Seq(Segment)
  BY <1>1, <1>5
<1>8. ~(Working \/ pc = "closeAgain") /\ pc \in Place
  BY <1>5 DEF Working, Kept, New, Place
<1>9. QED
  BY <1>2, <1>3, <1>4, <1>5, <1>6, <1>7, <1>8 DEF TypeInv, TypeOK, UrlKind

LEMMA CloseTypeOK ==
  ASSUME TypeOK, NEW n, CloseFd(n)
  PROVE  /\ fd' \in [Fd -> {"free", "sock", "pipe"}]
         /\ link' \in [Fd -> Link]
         /\ asked' \in [Fd -> Seq(Asked)]
         /\ inbox' \in [Fd -> Seq(Segment)]
         /\ pieces' \in [Fd -> 0 .. MaxPieces - 1]
<1>1. <<>> \in Seq(Asked) /\ <<>> \in Seq(Segment) /\ 0 \in 0 .. MaxPieces - 1
  BY HttpAssumption
<1>2. fd' \in [Fd -> {"free", "sock", "pipe"}] /\ link' \in [Fd -> Link]
  BY DEF TypeOK, CloseFd, Link
<1>3. asked' \in [Fd -> Seq(Asked)] /\ inbox' \in [Fd -> Seq(Segment)]
  BY <1>1 DEF TypeOK, CloseFd
<1>4. pieces' \in [Fd -> 0 .. MaxPieces - 1]
  BY <1>1 DEF TypeOK, CloseFd
<1>5. QED
  BY <1>2, <1>3, <1>4

\* The two places of HttpDataTransmit in HttpRequestExec.
SendUses == {<<"sendKept", "recvKept", "socket">>,
             <<"sendNew", "recvNew", "closeAgain">>}
RecvUses == {<<"recvKept", "socket">>, <<"recvNew", "closeAgain">>}

\* Every step is one of sixteen kinds.
LEMMA NextCases ==
  ASSUME [Next]_vars
  PROVE  \/ \E u \in Urls : HttpRequestExec(u)
         \/ CheckKept
         \/ \E u \in SendUses : SendHead(u[1], u[2], u[3])
         \/ \E u \in RecvUses : RecvReply(u[1], u[2])
         \/ CreateSocket \/ ResolveAddress \/ Connect \/ CheckNew \/ CloseAgain
         \/ \E n \in Fd :
              Handshake(n) \/ Reply(n) \/ ServerClose(n) \/ ServerReset(n)
         \/ Popen \/ Pclose
         \/ UNCHANGED vars
<1> DEFINE S1 == <<"sendKept", "recvKept", "socket">>
           S2 == <<"sendNew", "recvNew", "closeAgain">>
           R1 == <<"recvKept", "socket">>
           R2 == <<"recvNew", "closeAgain">>
<1>1. S1 \in SendUses /\ S2 \in SendUses /\ R1 \in RecvUses /\ R2 \in RecvUses
  BY DEF SendUses, RecvUses
<1>2. CASE SendHead(S1[1], S1[2], S1[3])
  BY <1>1, <1>2
<1>3. CASE SendHead(S2[1], S2[2], S2[3])
  BY <1>1, <1>3
<1>4. CASE RecvReply(R1[1], R1[2])
  BY <1>1, <1>4
<1>5. CASE RecvReply(R2[1], R2[2])
  BY <1>1, <1>5
<1>6. QED
  BY <1>2, <1>3, <1>4, <1>5 DEF Next, ClientStep

\* What arrives is one segment, of the oldest request the server still has.
LEMMA ReplySegment ==
  ASSUME TypeOK, NEW n \in Fd, Reply(n)
  PROVE  \E s \in Segment :
           /\ s.req = Head(asked[n])
           /\ inbox' = [inbox EXCEPT ![n] = Append(inbox[n], s)]
           /\ \/ /\ s.req # Garbage
                 /\ s.part = "more"
                 /\ UNCHANGED <<link, asked>>
              \/ /\ s.req # Garbage
                 /\ s.part = "last"
                 /\ asked' = [asked EXCEPT ![n] = Tail(asked[n])]
                 /\ UNCHANGED link
              \/ /\ s.req = Garbage
                 /\ s.part = "error"
                 /\ s.n = calls
                 /\ link' = [link EXCEPT ![n] = "fin"]
                 /\ UNCHANGED asked
<1> DEFINE r == Head(asked[n])
           seg(part, k) == [req |-> r, part |-> part, n |-> k]
<1>1. r \in Asked
  BY HeadTailFacts DEF Reply, TypeOK
<1>2. pieces[n] \in Nat /\ calls \in Nat
  BY HttpAssumption DEF TypeOK
<1>3. ASSUME NEW part \in {"more", "last", "error"}, NEW k \in Nat
      PROVE  /\ seg(part, k) \in Segment
             /\ seg(part, k).req = r
             /\ seg(part, k).part = part
             /\ seg(part, k).n = k
  BY <1>1, <1>3 DEF Segment
<1> HIDE DEF seg
<1>4. CASE /\ r # Garbage
           /\ inbox' = [inbox EXCEPT
                          ![n] = Append(inbox[n], seg("more", pieces[n]))]
           /\ UNCHANGED <<link, asked>>
  <2>1. /\ seg("more", pieces[n]) \in Segment
        /\ seg("more", pieces[n]).req = r
        /\ seg("more", pieces[n]).part = "more"
    BY <1>2, <1>3
  <2>2. QED
    BY <1>4, <2>1
<1>5. CASE /\ r # Garbage
           /\ inbox' = [inbox EXCEPT
                          ![n] = Append(inbox[n], seg("last", pieces[n]))]
           /\ asked' = [asked EXCEPT ![n] = Tail(asked[n])]
           /\ UNCHANGED link
  <2>1. /\ seg("last", pieces[n]) \in Segment
        /\ seg("last", pieces[n]).req = r
        /\ seg("last", pieces[n]).part = "last"
    BY <1>2, <1>3
  <2>2. QED
    BY <1>5, <2>1
<1>6. CASE /\ r = Garbage
           /\ inbox' = [inbox EXCEPT
                          ![n] = Append(inbox[n], seg("error", calls))]
           /\ link' = [link EXCEPT ![n] = "fin"]
           /\ UNCHANGED asked
  BY <1>2, <1>3, <1>6
<1>7. QED
  BY <1>4, <1>5, <1>6 DEF Reply, seg

\* The type invariant, action by action.
LEMMA NextTypeInv == TypeInv /\ [Next]_vars => TypeInv'
<1> SUFFICES ASSUME TypeInv, [Next]_vars PROVE TypeInv'
  OBVIOUS
<1> USE DEF TypeInv, Working
<1>0. Fail \in Seq(Segment)
  BY DEF Fail
<1>1. ASSUME NEW u \in Urls, HttpRequestExec(u) PROVE TypeInv'
  <2>1. UNION {ToSet(inbox[n]) : n \in Fd} \subseteq Segment
    BY SetOfSeq DEF TypeOK
  <2>2. QED
    BY <1>0, <1>1, <2>1, HttpAssumption
       DEF HttpRequestExec, TypeOK, Place, Return, UrlKind
<1>2. CASE CheckKept
  BY <1>2 DEF CheckKept, TypeOK, Place
<1>3. ASSUME NEW u \in SendUses, SendHead(u[1], u[2], u[3])
      PROVE  TypeInv'
  <2>1. /\ fd' \in [Fd -> {"free", "sock", "pipe"}]
        /\ link' \in [Fd -> Link]
        /\ inbox' \in [Fd -> Seq(Segment)]
        /\ pieces' \in [Fd -> 0 .. MaxPieces - 1]
        /\ broken' \in BOOLEAN
    BY <1>3, CloseTypeOK DEF SendHead, CloseSocket, TypeOK
  <2>2. asked' \in [Fd -> Seq(Asked)]
    <3>1. ASSUME NEW req \in Readable, NEW s \in Sent(req),
                 asked' = [asked EXCEPT ![m_iSocketFd] = @ \o s]
          PROVE  asked' \in [Fd -> Seq(Asked)]
      BY <3>1, SentFacts, ConcatFacts DEF TypeOK
    <3>2. QED
      BY <1>3, <3>1, CloseTypeOK DEF SendHead, CloseSocket, TypeOK
  <2>3. /\ pc' \in Place
        /\ head' \in {"none", "live", "freed", "freedTwice"}
        /\ m_iSocketFd \in Fd
        /\ UNCHANGED <<m_iSocketFd, url, calls, answer, past, proc>>
    BY <1>3 DEF SendHead, SendUses, TypeOK, Place
  <2>4. QED
    BY <2>1, <2>2, <2>3 DEF TypeOK
<1>4. ASSUME NEW u \in RecvUses, RecvReply(u[1], u[2])
      PROVE  TypeInv'
  <2>1. /\ fd' \in [Fd -> {"free", "sock", "pipe"}]
        /\ link' \in [Fd -> Link]
        /\ asked' \in [Fd -> Seq(Asked)]
        /\ inbox' \in [Fd -> Seq(Segment)]
        /\ pieces' \in [Fd -> 0 .. MaxPieces - 1]
        /\ broken' \in BOOLEAN
    <3>1. CASE CloseSocket(m_iSocketFd)
      BY <3>1, CloseTypeOK DEF CloseSocket, TypeOK
    <3>2. CASE /\ inbox' = [inbox EXCEPT ![m_iSocketFd] = <<>>]
               /\ UNCHANGED <<fd, link, asked, pieces, broken>>
      <4>1. <<>> \in Seq(Segment)
        OBVIOUS
      <4>2. QED
        BY <3>2, <4>1 DEF TypeOK
    <3>3. QED
      BY <1>4, <3>1, <3>2 DEF RecvReply
  <2>2. inbox[m_iSocketFd] \in Seq(Segment)
    BY <1>4 DEF RecvReply, RecvUses, TypeOK
  <2>3. /\ m_iSocketFd \in Fd
        /\ pc' \in {"idle", "dead", "socket", "closeAgain"}
        /\ head' \in {"none", head}
        /\ answer' \in {inbox[m_iSocketFd], answer}
        /\ UNCHANGED <<m_iSocketFd, url, calls, past, proc>>
    BY <1>4 DEF RecvReply, RecvUses, Return
  <2>4. QED
    BY <2>1, <2>2, <2>3 DEF TypeOK, Place
<1>5. CASE CreateSocket
  BY <1>0, <1>5 DEF CreateSocket, TypeOK, Place, Return, NewFd, FreeFd
<1>6. CASE ResolveAddress
  BY <1>0, <1>6, CloseTypeOK
     DEF ResolveAddress, TypeOK, Place, Return, CloseSocket
<1>7. CASE Connect
  BY <1>0, <1>7 DEF Connect, TypeOK, Place, Return, Link
<1>8. CASE CheckNew
  BY <1>0, <1>8, CloseTypeOK DEF CheckNew, TypeOK, Place, Return, CloseSocket
<1>9. CASE CloseAgain
  BY <1>0, <1>9, CloseTypeOK
     DEF CloseAgain, TypeOK, Place, Return, CloseSocket, Forgotten
<1>10. ASSUME NEW n \in Fd, Handshake(n) PROVE TypeInv'
  BY <1>10 DEF Handshake, TypeOK, Link
<1>11. ASSUME NEW n \in Fd, Reply(n) PROVE TypeInv'
  <2>1. inbox' \in [Fd -> Seq(Segment)]
    <3>1. \E e \in Segment : inbox' = [inbox EXCEPT ![n] = Append(inbox[n], e)]
      BY <1>11, ReplySegment
    <3>2. QED
      BY <3>1, AppendFacts DEF TypeOK
  <2>2. asked' \in [Fd -> Seq(Asked)]
    <3>1. asked[n] \in Seq(Asked) /\ asked[n] # <<>>
      BY <1>11 DEF Reply, TypeOK
    <3>2. Tail(asked[n]) \in Seq(Asked)
      BY <3>1, HeadTailFacts
    <3>3. asked' = asked \/ asked' = [asked EXCEPT ![n] = Tail(asked[n])]
      BY <1>11 DEF Reply
    <3>4. QED
      BY <3>2, <3>3 DEF TypeOK
  <2>3. pieces' \in [Fd -> 0 .. MaxPieces - 1]
    <3>1. pieces[n] \in 0 .. MaxPieces - 1 /\ MaxPieces \in Nat \ {0}
      BY HttpAssumption DEF TypeOK
    <3>2. \/ pieces' = pieces
          \/ pieces' = [pieces EXCEPT ![n] = 0]
          \/ /\ pieces[n] < MaxPieces - 1
             /\ pieces' = [pieces EXCEPT ![n] = pieces[n] + 1]
      BY <1>11 DEF Reply
    <3>3. 0 \in 0 .. MaxPieces - 1
          /\ (pieces[n] < MaxPieces - 1 => pieces[n] + 1 \in 0 .. MaxPieces - 1)
      BY <3>1
    <3>4. QED
      BY <3>2, <3>3 DEF TypeOK
  <2>4. QED
    BY <1>11, <2>1, <2>2, <2>3 DEF Reply, TypeOK, Link
<1>12. ASSUME NEW n \in Fd, ServerClose(n) PROVE TypeInv'
  BY <1>12 DEF ServerClose, TypeOK, Link
<1>13. ASSUME NEW n \in Fd, ServerReset(n) PROVE TypeInv'
  BY <1>13 DEF ServerReset, TypeOK, Link
<1>14. CASE Popen
  <2>1. /\ fd' \in [Fd -> {"free", "sock", "pipe"}]
        /\ pipe' \in {INVALID_SOCKET} \cup Fd
    BY <1>14 DEF Popen, TypeOK
  <2>2. pipes' \in 0 .. MaxPipes
    BY <1>14, HttpAssumption DEF Popen, TypeOK
  <2>3. QED
    BY <1>14, <2>1, <2>2 DEF Popen, TypeOK, Place
<1>15. CASE Pclose
  BY <1>15, CloseTypeOK DEF Pclose, TypeOK
<1>16. CASE UNCHANGED vars
  BY <1>16 DEF vars, TypeOK
<1>17. QED
  BY <1>1, <1>2, <1>3, <1>4, <1>5, <1>6, <1>7, <1>8, <1>9, <1>10, <1>11,
     <1>12, <1>13, <1>14, <1>15, <1>16, NextCases

\* The type invariant of the HTTP client.
THEOREM HttpTypeCorrect == Spec => []TypeOK
<1>1. TypeInv => TypeOK
  BY DEF TypeInv
<1>2. QED
  BY <1>1, InitTypeInv, NextTypeInv, PTL DEF Spec

-----------------------------------------------------------------------------
\* close() leaves nothing on the descriptor, and the others alone.
LEMMA CloseEffect ==
  ASSUME TypeOK, NEW n, CloseFd(n), NEW k \in Fd
  PROVE  /\ k = n => /\ fd'[k] = "free"
                     /\ link'[k] = "none"
                     /\ asked'[k] = <<>>
                     /\ inbox'[k] = <<>>
                     /\ pieces'[k] = 0
         /\ k # n => /\ fd'[k] = fd[k]
                     /\ link'[k] = link[k]
                     /\ asked'[k] = asked[k]
                     /\ inbox'[k] = inbox[k]
                     /\ pieces'[k] = pieces[k]
BY DEF TypeOK, CloseFd

\* The descriptors and the connections, action by action.
LEMMA ExecSockets ==
  ASSUME SocketInv, NEW u \in Urls, HttpRequestExec(u)
  PROVE  SocketSafe'
BY FdFacts
   DEF HttpRequestExec, Return, SocketSafe, Clean, Held, Waiting, GivenUp,
       LeakedAreStale, SendOnlyConnected, SocketInv, TypeInv, TypeOK, Working

LEMMA CheckKeptSockets ==
  ASSUME SocketInv, CheckKept
  PROVE  SocketSafe'
BY FdFacts
   DEF CheckKept, KeptUsable, Writable, SocketSafe, Clean, Held, Waiting,
       GivenUp, LeakedAreStale, SendOnlyConnected, SocketInv, TypeInv, TypeOK,
       Working

LEMMA SendSockets ==
  ASSUME SocketInv, NEW u \in SendUses, SendHead(u[1], u[2], u[3])
  PROVE  SocketSafe'
<1> USE FdFacts DEF SocketInv, TypeInv, TypeOK, Working
<1>1. Clean'
  BY CloseEffect DEF SendHead, SendUses, CloseSocket, SocketSafe, Clean
<1>2. Held'
  <2>1. m_iSocketFd \in Fd /\ (~broken => fd[m_iSocketFd] = "sock")
    BY DEF SendHead, SendUses, SocketSafe, Held
  <2>2. CASE CloseSocket(m_iSocketFd)
    <3>1. pc' \in {"socket", "closeAgain"} \/ UNCHANGED fd
      BY DEF SendHead, SendUses
    <3>2. QED
      BY <2>1, <2>2, <3>1, CloseEffect
         DEF SendHead, SendUses, CloseSocket, SocketSafe, Held
  <2>3. CASE UNCHANGED <<fd, broken>>
    BY <2>1, <2>3 DEF SendHead, SendUses, SocketSafe, Held
  <2>4. QED
    BY <2>2, <2>3 DEF SendHead
<1>3. Waiting'
  BY CloseEffect DEF SendHead, SendUses, CloseSocket, SocketSafe, Waiting
<1>4. GivenUp'
  <2>1. m_iSocketFd \in Fd
    BY DEF SendHead, SendUses
  <2>2. pc' = "socket" => CloseSocket(m_iSocketFd)
    BY DEF SendHead, SendUses
  <2>3. QED
    BY <2>1, <2>2, CloseEffect DEF SendHead, CloseSocket, GivenUp
<1>5. LeakedAreStale'
  BY CloseEffect
     DEF SendHead, SendUses, CloseSocket, SocketSafe, LeakedAreStale
<1>6. SendOnlyConnected'
  BY CloseEffect
     DEF SendHead, SendUses, CloseSocket, SocketSafe, SendOnlyConnected
<1>7. QED
  BY <1>1, <1>2, <1>3, <1>4, <1>5, <1>6 DEF SocketSafe

LEMMA RecvSockets ==
  ASSUME SocketInv, NEW u \in RecvUses, RecvReply(u[1], u[2])
  PROVE  SocketSafe'
<1> USE FdFacts DEF SocketInv, TypeInv, TypeOK, Working
<1>1. Clean'
  BY CloseEffect
     DEF RecvReply, RecvUses, Return, CloseSocket, SocketSafe, Clean
<1>2. Held'
  <2>1. m_iSocketFd \in Fd /\ (~broken => fd[m_iSocketFd] = "sock")
    BY DEF RecvReply, RecvUses, SocketSafe, Held
  <2>2. CASE CloseSocket(m_iSocketFd) /\ pc' \in {"socket", "closeAgain"}
    BY <2>1, <2>2, CloseEffect
       DEF RecvReply, RecvUses, CloseSocket, SocketSafe, Held
  <2>3. CASE UNCHANGED <<fd, broken>>
    BY <2>1, <2>3 DEF RecvReply, RecvUses, SocketSafe, Held
  <2>4. QED
    BY <2>2, <2>3 DEF RecvReply, RecvUses
<1>3. Waiting'
  BY CloseEffect
     DEF RecvReply, RecvUses, Return, CloseSocket, SocketSafe, Waiting
<1>4. GivenUp'
  BY CloseEffect
     DEF RecvReply, RecvUses, Return, CloseSocket, SocketSafe, GivenUp
<1>5. LeakedAreStale'
  BY CloseEffect
     DEF RecvReply, RecvUses, Return, CloseSocket, SocketSafe, LeakedAreStale
<1>6. SendOnlyConnected'
  BY CloseEffect
     DEF RecvReply, RecvUses, Return, CloseSocket, SocketSafe,
         SendOnlyConnected
<1>7. QED
  BY <1>1, <1>2, <1>3, <1>4, <1>5, <1>6 DEF SocketSafe

LEMMA CreateSockets ==
  ASSUME SocketInv, CreateSocket
  PROVE  SocketSafe'
<1> USE FdFacts DEF SocketInv, TypeInv, TypeOK, Working
<1>1. Clean'
  BY DEF CreateSocket, Return, NewFd, FreeFd, SocketSafe, Clean
<1>2. Held'
  <2>1. CASE m_iSocketFd' = INVALID_SOCKET /\ UNCHANGED fd
    BY <2>1 DEF CreateSocket, SocketSafe, Held
  <2>2. CASE \E n \in Fd : /\ NewFd(n)
                          /\ m_iSocketFd' = n
                          /\ fd' = [fd EXCEPT ![n] = "sock"]
    BY <2>2 DEF CreateSocket, NewFd, FreeFd, SocketSafe, Held
  <2>3. QED
    BY <2>1, <2>2 DEF CreateSocket
<1>3. Waiting'
  BY DEF CreateSocket, Return, NewFd, FreeFd, SocketSafe, Waiting
<1>4. GivenUp'
  BY DEF CreateSocket, Return, NewFd, FreeFd, SocketSafe, GivenUp
<1>5. LeakedAreStale'
  BY DEF CreateSocket, Return, NewFd, FreeFd, SocketSafe, Clean, Held,
         Waiting, GivenUp, LeakedAreStale, SendOnlyConnected
<1>6. SendOnlyConnected'
  BY DEF CreateSocket, Return, NewFd, FreeFd, SocketSafe, SendOnlyConnected
<1>7. QED
  BY <1>1, <1>2, <1>3, <1>4, <1>5, <1>6 DEF SocketSafe

LEMMA AddressSockets ==
  ASSUME SocketInv, ResolveAddress
  PROVE  SocketSafe'
<1> USE FdFacts DEF SocketInv, TypeInv, TypeOK, Working
<1>1. Clean'
  BY CloseEffect DEF ResolveAddress, Return, CloseSocket, SocketSafe, Clean
<1>2. Held'
  BY CloseEffect DEF ResolveAddress, Return, CloseSocket, SocketSafe, Held
<1>3. Waiting'
  BY CloseEffect DEF ResolveAddress, Return, CloseSocket, SocketSafe, Waiting
<1>4. GivenUp'
  BY CloseEffect DEF ResolveAddress, Return, CloseSocket, SocketSafe, GivenUp
<1>5. LeakedAreStale'
  BY CloseEffect
     DEF ResolveAddress, Return, CloseSocket, SocketSafe, LeakedAreStale
<1>6. SendOnlyConnected'
  BY CloseEffect
     DEF ResolveAddress, Return, CloseSocket, SocketSafe, SendOnlyConnected
<1>7. QED
  BY <1>1, <1>2, <1>3, <1>4, <1>5, <1>6 DEF SocketSafe

LEMMA ConnectSockets ==
  ASSUME SocketInv, Connect
  PROVE  SocketSafe'
BY FdFacts
   DEF Connect, Return, SocketSafe, Clean, Held, Waiting, GivenUp,
       LeakedAreStale, SendOnlyConnected, SocketInv, TypeInv, TypeOK, Working

LEMMA CheckNewSockets ==
  ASSUME SocketInv, CheckNew
  PROVE  SocketSafe'
<1> USE FdFacts DEF SocketInv, TypeInv, TypeOK, Working
<1>1. Clean'
  BY CloseEffect DEF CheckNew, Writable, Return, CloseSocket, SocketSafe, Clean
<1>2. Held'
  BY CloseEffect DEF CheckNew, Writable, Return, CloseSocket, SocketSafe, Held
<1>3. Waiting'
  BY CloseEffect
     DEF CheckNew, Writable, Return, CloseSocket, SocketSafe, Waiting
<1>4. GivenUp'
  BY CloseEffect
     DEF CheckNew, Writable, Return, CloseSocket, SocketSafe, GivenUp
<1>5. LeakedAreStale'
  BY CloseEffect
     DEF CheckNew, Writable, Return, CloseSocket, SocketSafe, LeakedAreStale
<1>6. SendOnlyConnected'
  BY CloseEffect
     DEF CheckNew, Writable, Return, CloseSocket, SocketSafe, SendOnlyConnected
<1>7. QED
  BY <1>1, <1>2, <1>3, <1>4, <1>5, <1>6 DEF SocketSafe

LEMMA CloseAgainSockets ==
  ASSUME SocketInv, CloseAgain
  PROVE  SocketSafe'
<1> USE FdFacts DEF SocketInv, TypeInv, TypeOK, Working
<1>1. Clean'
  BY CloseEffect
     DEF CloseAgain, Forgotten, Return, CloseSocket, SocketSafe, Clean
<1>2. Held'
  BY CloseEffect
     DEF CloseAgain, Forgotten, Return, CloseSocket, SocketSafe, Held
<1>3. Waiting'
  <2>1. CloseFd(m_iSocketFd) /\ m_iSocketFd \in Fd /\ pc = "closeAgain"
    BY DEF CloseAgain, CloseSocket
  <2>2. \A n \in Fd : link[n] # "connecting"
    BY <2>1 DEF SocketSafe, Waiting
  <2>3. QED
    BY <2>1, <2>2, CloseEffect DEF Waiting
<1>4. GivenUp'
  BY CloseEffect
     DEF CloseAgain, Forgotten, Return, CloseSocket, SocketSafe, GivenUp
<1>5. LeakedAreStale'
  BY CloseEffect
     DEF CloseAgain, Forgotten, Return, CloseSocket, SocketSafe, LeakedAreStale
<1>6. SendOnlyConnected'
  BY CloseEffect
     DEF CloseAgain, Forgotten, Return, CloseSocket, SocketSafe,
         SendOnlyConnected
<1>7. QED
  BY <1>1, <1>2, <1>3, <1>4, <1>5, <1>6 DEF SocketSafe

LEMMA HandshakeSockets ==
  ASSUME SocketInv, NEW n \in Fd, Handshake(n)
  PROVE  SocketSafe'
BY FdFacts
   DEF Handshake, SocketSafe, Clean, Held, Waiting, GivenUp, LeakedAreStale,
       SendOnlyConnected, SocketInv, TypeInv, TypeOK, Working

LEMMA ReplySockets ==
  ASSUME SocketInv, NEW n \in Fd, Reply(n)
  PROVE  SocketSafe'
<1> USE FdFacts DEF SocketInv, TypeInv, TypeOK, Working
<1>1. Clean'
  BY AppendFacts DEF Reply, SocketSafe, Clean
<1>2. Held'
  BY AppendFacts DEF Reply, SocketSafe, Held
<1>3. Waiting'
  BY AppendFacts DEF Reply, SocketSafe, Waiting
<1>4. GivenUp'
  <2>1. /\ UNCHANGED <<pc, m_iSocketFd>>
        /\ link' = link \/ link' = [link EXCEPT ![n] = "fin"]
        /\ \E e \in Segment : inbox' = [inbox EXCEPT ![n] = Append(@, e)]
    BY ReplySegment DEF Reply
  <2>2. \A k \in Fd : inbox[k] # <<>> => inbox'[k] # <<>>
    BY <2>1, AppendFacts
  <2>3. \A k \in Fd : link[k] # "up" => link'[k] # "up"
    BY <2>1
  <2>4. QED
    BY <2>1, <2>2, <2>3 DEF SocketSafe, GivenUp
<1>5. LeakedAreStale'
  BY AppendFacts DEF Reply, SocketSafe, LeakedAreStale
<1>6. SendOnlyConnected'
  BY AppendFacts DEF Reply, SocketSafe, SendOnlyConnected
<1>7. QED
  BY <1>1, <1>2, <1>3, <1>4, <1>5, <1>6 DEF SocketSafe

LEMMA CloseSockets ==
  ASSUME SocketInv, NEW n \in Fd, ServerClose(n)
  PROVE  SocketSafe'
BY FdFacts
   DEF ServerClose, SocketSafe, Clean, Held, Waiting, GivenUp, LeakedAreStale,
       SendOnlyConnected, SocketInv, TypeInv, TypeOK, Working

LEMMA ResetSockets ==
  ASSUME SocketInv, NEW n \in Fd, ServerReset(n)
  PROVE  SocketSafe'
BY FdFacts
   DEF ServerReset, SocketSafe, Clean, Held, Waiting, GivenUp, LeakedAreStale,
       SendOnlyConnected, SocketInv, TypeInv, TypeOK, Working

LEMMA PopenSockets ==
  ASSUME SocketInv, Popen
  PROVE  SocketSafe'
<1> USE FdFacts DEF SocketInv, TypeInv, TypeOK, Working
<1>1. /\ UNCHANGED <<m_iSocketFd, net, broken>>
      /\ \/ UNCHANGED pc
         \/ pc' = "dead" /\ UNCHANGED <<pipe, fd>>
  BY DEF Popen
<1>2. \/ /\ pipe' \in FreeFd /\ UNCHANGED pc
         /\ fd' = [fd EXCEPT ![pipe'] = "pipe"]
      \/ UNCHANGED <<pipe, fd>>
  BY DEF Popen, NewFd
<1>3. \A n \in Fd : fd'[n] = "sock" <=> fd[n] = "sock"
  BY <1>2 DEF FreeFd
<1>4. \A n \in Fd : fd[n] = "pipe" => fd'[n] = "pipe"
  BY <1>2 DEF FreeFd
<1>5. Clean'
  BY <1>1, <1>3 DEF SocketSafe, Clean
<1>6. Held'
  <2>1. pipe' # INVALID_SOCKET /\ ~broken => fd'[pipe'] = "pipe"
    BY <1>2 DEF FreeFd, SocketSafe, Held
  <2>2. QED
    BY <1>1, <1>3, <2>1 DEF SocketSafe, Held
<1>7. Waiting' /\ GivenUp' /\ SendOnlyConnected'
  BY <1>1 DEF SocketSafe, Waiting, GivenUp, SendOnlyConnected
<1>8. LeakedAreStale'
  BY <1>1, <1>3 DEF SocketSafe, LeakedAreStale
<1>9. QED
  BY <1>5, <1>6, <1>7, <1>8 DEF SocketSafe

LEMMA PcloseSockets ==
  ASSUME SocketInv, Pclose
  PROVE  SocketSafe'
<1> USE FdFacts DEF SocketInv, TypeInv, TypeOK, Working
<1>1. Clean'
  BY CloseEffect DEF Pclose, SocketSafe, Clean
<1>2. Held'
  BY CloseEffect DEF Pclose, SocketSafe, Held
<1>3. Waiting'
  BY CloseEffect DEF Pclose, SocketSafe, Waiting
<1>4. GivenUp'
  BY CloseEffect DEF Pclose, SocketSafe, GivenUp
<1>5. LeakedAreStale'
  BY CloseEffect DEF Pclose, SocketSafe, LeakedAreStale
<1>6. SendOnlyConnected'
  BY CloseEffect DEF Pclose, SocketSafe, Held, Waiting, SendOnlyConnected
<1>7. QED
  BY <1>1, <1>2, <1>3, <1>4, <1>5, <1>6 DEF SocketSafe

LEMMA NextSocketInv == SocketInv /\ [Next]_vars => SocketInv'
<1> SUFFICES ASSUME SocketInv, [Next]_vars PROVE SocketInv'
  OBVIOUS
<1>1. TypeInv'
  BY NextTypeInv DEF SocketInv
<1>2. CASE UNCHANGED vars
  BY <1>2 DEF vars, past, SocketInv, SocketSafe, TypeInv, TypeOK, Clean, Held,
     Waiting, GivenUp, LeakedAreStale, SendOnlyConnected, Working
<1>3. SocketSafe'
  <2>1. CASE \E n \in Fd :
               Handshake(n) \/ Reply(n) \/ ServerClose(n) \/ ServerReset(n)
    BY <2>1, HandshakeSockets, ReplySockets, CloseSockets, ResetSockets
  <2>2. CASE UNCHANGED vars
    BY <1>2, <2>2 DEF SocketInv
  <2>3. QED
    BY <2>1, <2>2, NextCases, ExecSockets, CheckKeptSockets, SendSockets,
       RecvSockets, CreateSockets, AddressSockets, ConnectSockets,
       CheckNewSockets, CloseAgainSockets, PopenSockets, PcloseSockets
<1>4. QED
  BY <1>1, <1>3 DEF SocketInv

LEMMA InitSocketInv == Init => SocketInv
BY InitTypeInv
   DEF Init, InitWith, SocketInv, SocketSafe, Clean, Held, Waiting, GivenUp,
       LeakedAreStale, SendOnlyConnected, Working, Kept, New

LEMMA SocketsHold == Spec => []SocketInv
BY InitSocketInv, NextSocketInv, PTL DEF Spec

\* The socket kept from one call to the next is an open socket, however the
\* threads' popen() and pclose() come in between, as long as the second close()
\* of HttpRequestExec has hit none of their pipes.
THEOREM KeptSocketIsOpen == Spec => []HandleOpen
<1>1. SocketInv => HandleOpen
  BY DEF SocketInv, SocketSafe, Held, HandleOpen
<1>2. QED
  BY <1>1, SocketsHold, PTL

\* As long as no pipe has been broken, send() is only called on a connection
\* that has been established.
THEOREM NoSendBeforeConnect == Spec => []SendOnlyConnected
<1>1. SocketInv => SendOnlyConnected
  BY DEF SocketInv, SocketSafe
<1>2. QED
  BY <1>1, SocketsHold, PTL

\* The class never loses track of a connection it could still have used.
THEOREM NothingUsableLeaks == Spec => []LeakedAreStale
<1>1. SocketInv => LeakedAreStale
  BY DEF SocketInv, SocketSafe
<1>2. QED
  BY <1>1, SocketsHold, PTL

\* Closing one's own socket breaks no pipe.
LEMMA OwnSocketClosed ==
  ASSUME TypeOK, NEW n, CloseSocket(n), broken \/ fd[n] = "sock"
  PROVE  broken' = broken
<1>1. CASE broken
  BY <1>1 DEF CloseSocket, TypeOK
<1>2. CASE ~broken /\ fd[n] = "sock"
  BY <1>2 DEF CloseSocket, TypeOK
<1>3. QED
  BY <1>1, <1>2

\* Of all the places where the class closes m_iSocketFd, only the second
\* close() after a failed new connection can close a thread's pipe.
THEOREM PipesBreakAtSecondClose == Spec => OnlySecondClose
<1>1. SocketInv /\ [Next]_vars => [broken' # broken => pc = "closeAgain"]_vars
  <2> SUFFICES ASSUME SocketInv, [Next]_vars, broken' # broken
               PROVE  pc = "closeAgain"
    OBVIOUS
  <2> USE DEF SocketInv, TypeInv, SocketSafe, Held, Working, Kept, New
  <2>0. /\ CloseSocket(m_iSocketFd)
        /\ Working
        => broken' = broken
    BY FdFacts, OwnSocketClosed
  <2>1. ASSUME NEW u \in SendUses, SendHead(u[1], u[2], u[3])
        PROVE  broken' = broken
    BY <2>0, <2>1 DEF SendHead, SendUses
  <2>2. ASSUME NEW u \in RecvUses, RecvReply(u[1], u[2])
        PROVE  broken' = broken
    BY <2>0, <2>2 DEF RecvReply, RecvUses
  <2>3. CASE ResolveAddress
    BY <2>0, <2>3 DEF ResolveAddress
  <2>4. CASE CheckNew
    BY <2>0, <2>4 DEF CheckNew
  <2>5. CASE CloseAgain
    BY <2>5 DEF CloseAgain
  <2>6. QED
    BY <2>1, <2>2, <2>3, <2>4, <2>5, NextCases
       DEF HttpRequestExec, CheckKept, CreateSocket, Connect, Handshake, Reply,
           ServerClose, ServerReset, Popen, Pclose, vars
<1>2. QED
  BY <1>1, SocketsHold, PTL DEF Spec, OnlySecondClose

-----------------------------------------------------------------------------
\* What a step does to the requests and segments on the connections.
LEMMA CloseSets ==
  ASSUME TypeOK, NEW n, CloseFd(n), NEW k \in Fd
  PROVE  /\ k = n => ToSet(asked'[k]) = {} /\ ToSet(inbox'[k]) = {}
         /\ k # n => asked'[k] = asked[k] /\ inbox'[k] = inbox[k]
BY CloseEffect, SetOfEmpty

LEMMA SendSets ==
  ASSUME TypeOK, NEW u \in SendUses, SendHead(u[1], u[2], u[3]),
         m_iSocketFd \in Fd, NEW k \in Fd
  PROVE  /\ ToSet(inbox'[k]) \subseteq ToSet(inbox[k])
         /\ k # m_iSocketFd => ToSet(asked'[k]) \subseteq ToSet(asked[k])
         /\ ToSet(asked'[k]) \subseteq ToSet(asked[k]) \cup {calls, Garbage}
         /\ pc' # u[2] => ToSet(asked'[k]) \subseteq ToSet(asked[k])
<1>1. CASE CloseSocket(m_iSocketFd)
  BY <1>1, CloseSets DEF CloseSocket
<1>2. CASE UNCHANGED <<fd, net, broken>>
  BY <1>2 DEF net
<1>3. ASSUME NEW req \in Readable, NEW s \in Sent(req), pc' = u[2],
             asked' = [asked EXCEPT ![m_iSocketFd] = @ \o s], UNCHANGED inbox
      PROVE  /\ ToSet(inbox'[k]) \subseteq ToSet(inbox[k])
             /\ k # m_iSocketFd => ToSet(asked'[k]) \subseteq ToSet(asked[k])
             /\ ToSet(asked'[k]) \subseteq ToSet(asked[k]) \cup {calls, Garbage}
  <2>1. ToSet(s) \subseteq {calls, Garbage}
    BY SentFacts DEF ToSet
  <2>2. ToSet(asked[m_iSocketFd] \o s)
          = ToSet(asked[m_iSocketFd]) \cup ToSet(s)
    BY SentFacts, ConcatFacts DEF TypeOK
  <2>3. k # m_iSocketFd => asked'[k] = asked[k]
    BY <1>3 DEF TypeOK
  <2>4. k = m_iSocketFd => asked'[k] = asked[m_iSocketFd] \o s
    BY <1>3 DEF TypeOK
  <2>5. QED
    BY <1>3, <2>1, <2>2, <2>3, <2>4
<1>4. QED
  BY <1>1, <1>2, <1>3 DEF SendHead

LEMMA RecvSets ==
  ASSUME TypeOK, NEW u \in RecvUses, RecvReply(u[1], u[2]), NEW k \in Fd
  PROVE  /\ ToSet(inbox'[k]) \subseteq ToSet(inbox[k])
         /\ ToSet(asked'[k]) \subseteq ToSet(asked[k])
BY CloseSets, SetOfEmpty DEF RecvReply, RecvUses, CloseSocket, TypeOK

LEMMA ReplySets ==
  ASSUME TypeOK, NEW n \in Fd, Reply(n)
  PROVE  \E s \in Segment :
           /\ s.req \in ToSet(asked[n])
           /\ s.req = Garbage => s.n = calls
           /\ ToSet(inbox'[n]) = ToSet(inbox[n]) \cup {s}
           /\ ToSet(asked'[n]) \subseteq ToSet(asked[n])
           /\ \A k \in Fd \ {n} : asked'[k] = asked[k] /\ inbox'[k] = inbox[k]
<1>1. asked[n] \in Seq(Asked) /\ asked[n] # <<>> /\ inbox[n] \in Seq(Segment)
  BY DEF Reply, TypeOK
<1>2. Head(asked[n]) \in ToSet(asked[n])
      /\ ToSet(Tail(asked[n])) \subseteq ToSet(asked[n])
  BY <1>1, HeadTailFacts
<1>3. PICK s \in Segment :
        /\ s.req = Head(asked[n])
        /\ s.req = Garbage => s.n = calls
        /\ inbox' = [inbox EXCEPT ![n] = Append(inbox[n], s)]
        /\ asked' = asked \/ asked' = [asked EXCEPT ![n] = Tail(asked[n])]
  BY ReplySegment
<1>4. inbox'[n] = Append(inbox[n], s)
  BY <1>3 DEF TypeOK
<1>5. ToSet(inbox'[n]) = ToSet(inbox[n]) \cup {s}
  BY <1>1, <1>4, AppendFacts
<1>6. asked'[n] \in {asked[n], Tail(asked[n])}
  BY <1>3 DEF TypeOK
<1>7. \A k \in Fd \ {n} : asked'[k] = asked[k] /\ inbox'[k] = inbox[k]
  BY <1>3 DEF TypeOK
<1>8. QED
  BY <1>2, <1>3, <1>5, <1>6, <1>7

\* The numbers the invariants compare.
LEMMA ElementTypes ==
  ASSUME TypeOK, NEW n \in Fd
  PROVE  /\ \A r \in ToSet(asked[n]) : r \in Nat
         /\ \A s \in ToSet(inbox[n]) : s.req \in Nat /\ s.n \in Nat
<1>1. ToSet(asked[n]) \subseteq Asked /\ ToSet(inbox[n]) \subseteq Segment
  BY SetOfSeq DEF TypeOK
<1>2. QED
  BY <1>1, HttpAssumption DEF Asked, Segment

\* A step that adds no request and no segment keeps the numbers apart.
Shrinks ==
  \A k \in Fd : /\ ToSet(asked'[k]) \subseteq ToSet(asked[k])
                /\ ToSet(inbox'[k]) \subseteq ToSet(inbox[k])

LEMMA ShrinkFacts ==
  ASSUME Numbered, Unique, Shrinks, UNCHANGED <<calls, old>>
  PROVE  Numbered' /\ Unique'
BY DEF Numbered, Unique, Shrinks

LEMMA CloseShrinks ==
  ASSUME TypeOK, NEW n, CloseFd(n)
  PROVE  Shrinks
BY CloseSets DEF Shrinks

\* The requests and the segments, action by action.
LEMMA ExecRequests ==
  ASSUME SocketInv, RequestInv, NEW u \in Urls, HttpRequestExec(u)
  PROVE  RequestInv'
<1> USE FdFacts DEF SocketInv, TypeInv, TypeOK, Working
<1>1. Numbered'
  <2>1. \A s \in old' : \E n \in Fd : s \in ToSet(inbox[n])
    BY DEF HttpRequestExec
  <2>2. calls \in Nat /\ calls' = calls + 1 /\ UNCHANGED <<asked, inbox>>
    BY HttpAssumption DEF HttpRequestExec
  <2>3. ASSUME NEW n \in Fd
        PROVE  /\ \A r \in ToSet(asked[n]) : r \in Nat /\ r <= calls
               /\ \A s \in ToSet(inbox[n]) :
                    /\ s.req \in Nat /\ s.req <= calls
                    /\ s.n \in Nat /\ (s.req = Garbage => s.n <= calls)
    BY ElementTypes DEF RequestInv, Numbered
  <2> USE DEF Garbage
  <2>4. ASSUME NEW n \in Fd
        PROVE  /\ \A r \in ToSet(asked'[n]) : r <= calls'
               /\ \A s \in ToSet(inbox'[n]) :
                    s.req <= calls' /\ (s.req = Garbage => s.n <= calls')
    <3> HIDE DEF TypeOK, SocketInv
    <3>1. QED
      BY <2>2, <2>3
  <2>5. ASSUME NEW s \in old'
        PROVE  s.req < calls' /\ (s.req = Garbage => s.n < calls')
    <3> HIDE DEF TypeOK, SocketInv
    <3>1. PICK n \in Fd : s \in ToSet(inbox[n])
      BY <2>1
    <3>2. QED
      BY <2>2, <2>3, <3>1
  <2>6. QED
    BY <2>4, <2>5 DEF Numbered
<1>2. Unique'
  BY SetOfEmpty, ElementTypes
     DEF HttpRequestExec, Return, Fail, RequestInv, Unique
<1>3. Current'
  BY SetOfEmpty, ElementTypes
     DEF HttpRequestExec, Return, Fail, RequestInv, Numbered, Unique, Current,
         Silent, Fresh, NoLeftoverAnswer
<1>4. Silent'
  BY SetOfEmpty, ElementTypes
     DEF HttpRequestExec, Return, Fail, RequestInv, Silent
<1>5. Fresh'
  <2>1. CASE pc' = "check" /\ inbox[m_iSocketFd] = <<>>
    <3>1. m_iSocketFd \in Fd /\ UNCHANGED <<m_iSocketFd, asked, inbox>>
      BY <2>1 DEF HttpRequestExec, Return
    <3>2. \A s \in old' : \E n \in Fd \ {m_iSocketFd} : s \in ToSet(inbox[n])
      BY <2>1, SetOfEmpty DEF HttpRequestExec
    <3>3. QED
      BY <2>1, <3>1, <3>2, SetOfEmpty DEF RequestInv, Unique, Fresh
  <2>2. CASE pc' # "check" \/ inbox[m_iSocketFd] # <<>>
    BY <2>2 DEF HttpRequestExec, Return, Fresh
  <2>3. QED
    BY <2>1, <2>2
<1>6. NoLeftoverAnswer'
  BY SetOfEmpty, ElementTypes
     DEF HttpRequestExec, Return, Fail, RequestInv, NoLeftoverAnswer
<1>7. QED
  BY <1>1, <1>2, <1>3, <1>4, <1>5, <1>6 DEF RequestInv

LEMMA CheckKeptRequests ==
  ASSUME SocketInv, RequestInv, CheckKept
  PROVE  RequestInv'
BY FdFacts
   DEF CheckKept, KeptUsable, Writable, RequestInv, Numbered, Unique, Current,
       Silent, Fresh, NoLeftoverAnswer, SocketInv, TypeInv, TypeOK, Working

LEMMA SendRequests ==
  ASSUME SocketInv, RequestInv, NEW u \in SendUses, SendHead(u[1], u[2], u[3])
  PROVE  RequestInv'
<1> USE FdFacts DEF SocketInv, TypeInv, TypeOK, Working
<1>0. /\ m_iSocketFd \in Fd /\ calls \in Nat
      /\ pc \in {"sendKept", "sendNew"} /\ u[2] \in {"recvKept", "recvNew"}
      /\ UNCHANGED <<m_iSocketFd, calls, old, answer>>
  BY HttpAssumption DEF SendHead, SendUses
<1>1. Numbered'
  <2>1. ASSUME NEW k \in Fd, NEW r \in ToSet(asked'[k]) PROVE r <= calls
    <3>1. r \in ToSet(asked[k]) \/ r = calls \/ r = 0
      BY <1>0, <2>1, SendSets DEF Garbage
    <3>2. QED
      BY <1>0, <3>1 DEF RequestInv, Numbered
  <2>2. ASSUME NEW k \in Fd, NEW s \in ToSet(inbox'[k])
        PROVE  s \in ToSet(inbox[k])
    BY <1>0, <2>2, SendSets
  <2>3. QED
    BY <1>0, <2>1, <2>2 DEF RequestInv, Numbered
<1>2. Unique'
  <2>1. ASSUME NEW k \in Fd PROVE calls \notin ToSet(asked[k])
    BY <1>0 DEF RequestInv, Current
  <2>2. ASSUME NEW k \in Fd, NEW s \in ToSet(inbox[k]) PROVE s.req # calls
    BY <1>0 DEF RequestInv, Current
  <2>3. ASSUME NEW k \in Fd
        PROVE  /\ ToSet(inbox'[k]) \subseteq ToSet(inbox[k])
               /\ k # m_iSocketFd => ToSet(asked'[k]) \subseteq ToSet(asked[k])
               /\ ToSet(asked'[k])
                    \subseteq ToSet(asked[k]) \cup {calls, Garbage}
    BY <1>0, SendSets
  <2>4. SUFFICES ASSUME NEW m \in Fd, NEW n \in Fd, NEW r \in ToSet(asked'[m]),
                        m # n, r # Garbage
                 PROVE  /\ r \notin ToSet(asked'[n])
                        /\ \A s \in ToSet(inbox'[n]) : s.req # r
    BY DEF Unique
  <2>5. CASE r = calls
    BY <2>1, <2>2, <2>3, <2>4, <2>5
  <2>6. CASE r \in ToSet(asked[m]) /\ r # calls
    BY <2>3, <2>4, <2>6 DEF RequestInv, Unique
  <2>7. QED
    BY <2>3, <2>4, <2>5, <2>6
<1>3. Current'
  <2>1. CASE pc' = u[2]
    BY <1>0, <2>1, SendSets DEF RequestInv, Current
  <2>2. CASE pc' # u[2]
    BY <1>0, <2>2, SendSets DEF RequestInv, Current
  <2>3. QED
    BY <2>1, <2>2
<1>4. Silent'
  BY SendSets, ElementTypes DEF SendHead, SendUses, RequestInv, Silent
<1>5. Fresh'
  <2>1. CASE pc' = u[2]
    <3>1. /\ \A r \in ToSet(asked[m_iSocketFd]) :
               r # Garbage => \A s \in old : s.req # r
          /\ ToSet(inbox[m_iSocketFd]) \cap old = {}
      BY <1>0 DEF RequestInv, Fresh
    <3>2. \A s \in old : s.req # calls
      BY <1>0 DEF RequestInv, Numbered
    <3>3. /\ ToSet(inbox'[m_iSocketFd]) \subseteq ToSet(inbox[m_iSocketFd])
          /\ ToSet(asked'[m_iSocketFd])
               \subseteq ToSet(asked[m_iSocketFd]) \cup {calls, Garbage}
      BY <1>0, SendSets
    <3>4. QED
      BY <1>0, <3>1, <3>2, <3>3 DEF Fresh
  <2>2. CASE pc' # u[2]
    BY <2>2 DEF SendHead, SendUses, Fresh
  <2>3. QED
    BY <2>1, <2>2
<1>6. NoLeftoverAnswer'
  BY SendSets, ElementTypes
     DEF SendHead, SendUses, RequestInv, NoLeftoverAnswer
<1>7. QED
  BY <1>1, <1>2, <1>3, <1>4, <1>5, <1>6 DEF RequestInv

LEMMA RecvRequests ==
  ASSUME SocketInv, RequestInv, NEW u \in RecvUses, RecvReply(u[1], u[2])
  PROVE  RequestInv'
<1> USE FdFacts DEF SocketInv, TypeInv, TypeOK, Working
<1>1. Numbered'
  BY RecvSets DEF RecvReply, RecvUses, Return, RequestInv, Numbered
<1>2. Unique'
  BY RecvSets DEF RecvReply, RecvUses, Return, RequestInv, Unique
<1>3. Current'
  <2>1. ASSUME NEW k \in Fd, k # m_iSocketFd
        PROVE  /\ calls \notin ToSet(asked[k])
               /\ \A s \in ToSet(inbox[k]) : s.req # calls
    <3>1. pc \notin {"idle", "dead"}
      BY DEF RecvReply, RecvUses
    <3>2. QED
      BY <2>1, <3>1 DEF RequestInv, Current
  <2>2. CASE CloseSocket(m_iSocketFd)
    <3>1. UNCHANGED calls
      BY DEF RecvReply
    <3>2. CloseFd(m_iSocketFd)
      BY <2>2 DEF CloseSocket
    <3>3. QED
      BY <2>1, <3>1, <3>2, CloseSets DEF Current
  <2>3. CASE pc' \in {"idle", "dead"}
    BY <2>3 DEF Current
  <2>4. QED
    BY <2>2, <2>3 DEF RecvReply, Return
<1>4. Silent'
  BY RecvSets DEF RecvReply, RecvUses, Return, RequestInv, Silent
<1>5. Fresh'
  <2>1. pc' \in {"idle", "dead", "socket", "closeAgain"}
    BY DEF RecvReply, RecvUses, Return
  <2>2. QED
    BY <2>1 DEF Fresh
<1>6. NoLeftoverAnswer'
  BY RecvSets
     DEF RecvReply, RecvUses, Return, RequestInv, Numbered, Unique, Current,
         Silent, Fresh, NoLeftoverAnswer
<1>7. QED
  BY <1>1, <1>2, <1>3, <1>4, <1>5, <1>6 DEF RequestInv

LEMMA CreateRequests ==
  ASSUME SocketInv, RequestInv, CreateSocket
  PROVE  RequestInv'
BY FdFacts, SetOfEmpty
   DEF CreateSocket, Return, NewFd, FreeFd, Clean, SocketSafe, Fail,
       RequestInv, Numbered, Unique, Current, Silent, Fresh, NoLeftoverAnswer,
       SocketInv, TypeInv, TypeOK, Working

LEMMA AddressRequests ==
  ASSUME SocketInv, RequestInv, ResolveAddress
  PROVE  RequestInv'
<1> USE FdFacts DEF SocketInv, TypeInv, TypeOK, Working
<1>1. Numbered'
  BY CloseSets, SetOfEmpty
     DEF ResolveAddress, Return, CloseSocket, Fail, RequestInv, Numbered
<1>2. Unique'
  <2>1. CASE CloseSocket(m_iSocketFd)
    BY <2>1, CloseShrinks, ShrinkFacts
       DEF ResolveAddress, CloseSocket, RequestInv
  <2>2. CASE UNCHANGED <<asked, inbox>>
    BY <2>2, ShrinkFacts DEF ResolveAddress, Shrinks, RequestInv
  <2>3. QED
    BY <2>1, <2>2 DEF ResolveAddress
<1>3. Current'
  BY CloseSets, SetOfEmpty
     DEF ResolveAddress, Return, CloseSocket, Fail, RequestInv, Current
<1>4. Silent'
  BY CloseSets, SetOfEmpty
     DEF ResolveAddress, Return, CloseSocket, Fail, RequestInv, Silent
<1>5. Fresh'
  BY CloseSets, SetOfEmpty
     DEF ResolveAddress, Return, CloseSocket, Fail, RequestInv, Fresh
<1>6. NoLeftoverAnswer'
  BY CloseSets, SetOfEmpty
     DEF ResolveAddress, Return, CloseSocket, Fail, RequestInv,
         NoLeftoverAnswer
<1>7. QED
  BY <1>1, <1>2, <1>3, <1>4, <1>5, <1>6 DEF RequestInv

LEMMA ConnectRequests ==
  ASSUME SocketInv, RequestInv, Connect
  PROVE  RequestInv'
BY FdFacts, SetOfEmpty
   DEF Connect, Return, Fail, RequestInv, Numbered, Unique, Current, Silent,
       Fresh, NoLeftoverAnswer, SocketInv, TypeInv, TypeOK, Working

LEMMA CheckNewRequests ==
  ASSUME SocketInv, RequestInv, CheckNew
  PROVE  RequestInv'
<1> USE FdFacts DEF SocketInv, TypeInv, TypeOK, Working
<1>1. Numbered'
  BY CloseSets, SetOfEmpty
     DEF CheckNew, Return, CloseSocket, Fail, RequestInv, Numbered
<1>2. Unique'
  <2>1. CASE CloseSocket(m_iSocketFd)
    BY <2>1, CloseShrinks, ShrinkFacts DEF CheckNew, CloseSocket, RequestInv
  <2>2. CASE UNCHANGED <<asked, inbox>>
    BY <2>2, ShrinkFacts DEF CheckNew, Shrinks, RequestInv
  <2>3. QED
    BY <2>1, <2>2 DEF CheckNew
<1>3. Current'
  BY CloseSets, SetOfEmpty
     DEF CheckNew, Return, CloseSocket, Fail, RequestInv, Current
<1>4. Silent'
  BY CloseSets, SetOfEmpty
     DEF CheckNew, Return, CloseSocket, Fail, RequestInv, Silent
<1>5. Fresh'
  BY CloseSets, SetOfEmpty
     DEF CheckNew, Return, CloseSocket, Fail, RequestInv, Fresh
<1>6. NoLeftoverAnswer'
  BY CloseSets, SetOfEmpty
     DEF CheckNew, Return, CloseSocket, Fail, RequestInv, NoLeftoverAnswer
<1>7. QED
  BY <1>1, <1>2, <1>3, <1>4, <1>5, <1>6 DEF RequestInv

LEMMA CloseAgainRequests ==
  ASSUME SocketInv, RequestInv, CloseAgain
  PROVE  RequestInv'
<1> USE FdFacts DEF SocketInv, TypeInv, TypeOK, Working
<1>1. Numbered'
  BY CloseSets, SetOfEmpty
     DEF CloseAgain, Forgotten, Return, CloseSocket, Fail, RequestInv, Numbered
<1>2. Unique'
  BY CloseShrinks, ShrinkFacts DEF CloseAgain, CloseSocket, RequestInv
<1>3. Current'
  BY CloseSets, SetOfEmpty
     DEF CloseAgain, Forgotten, Return, CloseSocket, Fail, RequestInv, Current
<1>4. Silent'
  BY CloseSets, SetOfEmpty
     DEF CloseAgain, Forgotten, Return, CloseSocket, Fail, RequestInv, Silent
<1>5. Fresh'
  BY CloseSets, SetOfEmpty
     DEF CloseAgain, Forgotten, Return, CloseSocket, Fail, RequestInv, Fresh
<1>6. NoLeftoverAnswer'
  BY CloseSets, SetOfEmpty
     DEF CloseAgain, Forgotten, Return, CloseSocket, Fail, RequestInv,
         NoLeftoverAnswer
<1>7. QED
  BY <1>1, <1>2, <1>3, <1>4, <1>5, <1>6 DEF RequestInv

LEMMA ReplyRequests ==
  ASSUME SocketInv, RequestInv, NEW n \in Fd, Reply(n)
  PROVE  RequestInv'
<1> USE FdFacts DEF SocketInv, TypeInv, TypeOK, Working
<1>0. PICK e \in Segment :
        /\ e.req \in ToSet(asked[n])
        /\ e.req = Garbage => e.n = calls
        /\ ToSet(inbox'[n]) = ToSet(inbox[n]) \cup {e}
        /\ ToSet(asked'[n]) \subseteq ToSet(asked[n])
        /\ \A k \in Fd \ {n} : asked'[k] = asked[k] /\ inbox'[k] = inbox[k]
  BY ReplySets
<1>a. calls \in Nat /\ UNCHANGED <<m_iSocketFd, pc, calls, answer, old>>
  BY HttpAssumption DEF Reply
<1>1. Numbered'
  <2>1. e.req <= calls
    BY <1>0 DEF RequestInv, Numbered
  <2>2. ASSUME NEW k \in Fd
        PROVE  /\ ToSet(asked'[k]) \subseteq ToSet(asked[k])
               /\ ToSet(inbox'[k]) \subseteq ToSet(inbox[k]) \cup {e}
    BY <1>0
  <2>3. ASSUME NEW k \in Fd, NEW s \in ToSet(inbox'[k])
        PROVE  s.req <= calls /\ (s.req = Garbage => s.n <= calls)
    <3>1. CASE s = e
      BY <1>0, <1>a, <2>1, <3>1
    <3>2. CASE s \in ToSet(inbox[k])
      BY <3>2 DEF RequestInv, Numbered
    <3>3. QED
      BY <2>2, <2>3, <3>1, <3>2
  <2>4. QED
    BY <1>a, <2>2, <2>3 DEF RequestInv, Numbered
<1>2. Unique'
  <2>1. SUFFICES ASSUME NEW i \in Fd, NEW j \in Fd, NEW r \in ToSet(asked'[i]),
                        i # j, r # Garbage
                 PROVE  /\ r \notin ToSet(asked'[j])
                        /\ \A s \in ToSet(inbox'[j]) : s.req # r
    BY DEF Unique
  <2>2. r \in ToSet(asked[i]) /\ ToSet(asked'[j]) \subseteq ToSet(asked[j])
    BY <1>0, <2>1
  <2>3. r \notin ToSet(asked[j]) /\ \A s \in ToSet(inbox[j]) : s.req # r
    BY <2>1, <2>2 DEF RequestInv, Unique
  <2>4. QED
    BY <1>0, <2>2, <2>3
<1>3. Current'
  BY <1>0, <1>a DEF RequestInv, Current
<1>4. Silent'
  BY ReplySets, ElementTypes DEF Reply, RequestInv, Silent
<1>5. Fresh'
  <2>1. CASE n = m_iSocketFd
    <3>1. SUFFICES ASSUME Working, ~(pc = "check" /\ inbox'[n] # <<>>)
                   PROVE  /\ \A r \in ToSet(asked'[n]) :
                               r # Garbage => \A s \in old : s.req # r
                          /\ ToSet(inbox'[n]) \cap old = {}
      BY <1>a, <2>1 DEF Fresh
    <3>2. inbox'[n] # <<>>
      BY <1>0, SetOfEmpty
    <3>3. /\ \A r \in ToSet(asked[n]) :
               r # Garbage => \A s \in old : s.req # r
          /\ ToSet(inbox[n]) \cap old = {}
      BY <2>1, <3>1, <3>2 DEF RequestInv, Fresh
    <3>4. e \notin old
      BY <1>0, <1>a, <3>3 DEF RequestInv, Numbered
    <3>5. QED
      BY <1>0, <3>3, <3>4
  <2>2. CASE n # m_iSocketFd
    BY <1>0, <1>a, <2>2 DEF RequestInv, Fresh
  <2>3. QED
    BY <2>1, <2>2
<1>6. NoLeftoverAnswer'
  BY ReplySets, ElementTypes DEF Reply, RequestInv, NoLeftoverAnswer
<1>7. QED
  BY <1>1, <1>2, <1>3, <1>4, <1>5, <1>6 DEF RequestInv

LEMMA PcloseRequests ==
  ASSUME SocketInv, RequestInv, Pclose
  PROVE  RequestInv'
<1> USE FdFacts DEF SocketInv, TypeInv, TypeOK, Working
<1>1. Numbered'
  BY CloseSets DEF Pclose, RequestInv, Numbered
<1>2. Unique'
  BY CloseShrinks, ShrinkFacts DEF Pclose, RequestInv
<1>3. Current'
  BY CloseSets DEF Pclose, RequestInv, Current
<1>4. Silent'
  <2>1. CloseFd(pipe) /\ UNCHANGED <<pc, m_iSocketFd>>
    BY DEF Pclose
  <2>2. SUFFICES ASSUME pc \in New \ {"recvNew"}
                 PROVE  asked'[m_iSocketFd] = <<>> /\ inbox'[m_iSocketFd] = <<>>
    BY <2>1 DEF Silent
  <2>3. /\ m_iSocketFd \in Fd
        /\ asked[m_iSocketFd] = <<>> /\ inbox[m_iSocketFd] = <<>>
    BY <2>2 DEF RequestInv, Silent
  <2>4. QED
    BY <2>1, <2>3, CloseEffect
<1>5. Fresh'
  BY CloseSets DEF Pclose, RequestInv, Fresh
<1>6. NoLeftoverAnswer'
  BY CloseSets DEF Pclose, RequestInv, NoLeftoverAnswer
<1>7. QED
  BY <1>1, <1>2, <1>3, <1>4, <1>5, <1>6 DEF RequestInv

\* The steps that leave the requests and the segments alone.
LEMMA OtherRequests ==
  ASSUME SocketInv, RequestInv,
         \/ \E n \in Fd : Handshake(n) \/ ServerClose(n) \/ ServerReset(n)
         \/ Popen
         \/ UNCHANGED vars
  PROVE  RequestInv'
BY DEF Handshake, ServerClose, ServerReset, Popen, vars, net, past, call, proc,
       RequestInv, Numbered, Unique, Current, Silent, Fresh, NoLeftoverAnswer,
       Working, Kept, New

LEMMA NextRequestInv == SocketInv /\ RequestInv /\ [Next]_vars => RequestInv'
<1> SUFFICES ASSUME SocketInv, RequestInv, [Next]_vars PROVE RequestInv'
  OBVIOUS
<1>1. CASE \E n \in Fd :
             Handshake(n) \/ Reply(n) \/ ServerClose(n) \/ ServerReset(n)
  BY <1>1, ReplyRequests, OtherRequests
<1>2. QED
  BY <1>1, NextCases, ExecRequests, CheckKeptRequests, SendRequests,
     RecvRequests, CreateRequests, AddressRequests, ConnectRequests,
     CheckNewRequests, CloseAgainRequests, PcloseRequests, OtherRequests

LEMMA InitRequestInv == Init => RequestInv
BY SetOfEmpty
   DEF Init, InitWith, RequestInv, Numbered, Unique, Current, Silent, Fresh,
       NoLeftoverAnswer, Working, Kept, New, Fail

LEMMA RequestsHold == Spec => []RequestInv
<1>1. Spec => [](SocketInv /\ RequestInv)
  BY InitSocketInv, InitRequestInv, NextSocketInv, NextRequestInv, PTL DEF Spec
<1>2. QED
  BY <1>1, PTL

\* No call returns a segment that had arrived before it began, on whatever
\* connection, however often it retries.
THEOREM NoOldAnswer == Spec => []NoLeftoverAnswer
<1>1. RequestInv => NoLeftoverAnswer
  BY DEF RequestInv
<1>2. QED
  BY <1>1, RequestsHold, PTL

-----------------------------------------------------------------------------
\* The answers, action by action.
LEMMA ExecAnswers ==
  ASSUME SocketInv, RequestInv, AnswerInv, NEW u \in Urls, HttpRequestExec(u)
  PROVE  AnswerInv'
<1> USE FdFacts DEF SocketInv, TypeInv, TypeOK, Working
<1>1. Unanswered'
  BY SetOfEmpty
     DEF HttpRequestExec, Return, Fail, AnswerInv, Unanswered, CutOff, InStep
<1>2. Settled'
  <2>1. /\ UNCHANGED <<m_iSocketFd, link, asked, inbox>>
        /\ pc = "idle" /\ pc' \in {"idle", "check", "socket"}
        /\ ~cut' => ~cut /\ ~CutOff
    BY DEF HttpRequestExec, Return, CutOff
  <2>2. SUFFICES ASSUME ~cut', m_iSocketFd # INVALID_SOCKET
                 PROVE  /\ Working' => InStep(m_iSocketFd)'
                        /\ \A s \in ToSet(inbox[m_iSocketFd]) : s.part = "error"
                        /\ link[m_iSocketFd] = "up" =>
                             /\ inbox[m_iSocketFd] = <<>>
                             /\ ToSet(asked[m_iSocketFd]) \subseteq {Garbage}
    BY <2>1 DEF Settled
  <2>3. /\ \A s \in ToSet(inbox[m_iSocketFd]) : s.part = "error"
        /\ link[m_iSocketFd] = "up" =>
             /\ inbox[m_iSocketFd] = <<>>
             /\ ToSet(asked[m_iSocketFd]) \subseteq {Garbage}
    BY <2>1, <2>2 DEF AnswerInv, Settled
  <2>4. asked[m_iSocketFd] # <<>> =>
          ToSet(Tail(asked[m_iSocketFd])) \subseteq ToSet(asked[m_iSocketFd])
    BY <2>2, HeadTailFacts
  <2>5. InStep(m_iSocketFd)'
    BY <2>1, <2>3, <2>4 DEF InStep
  <2>6. QED
    BY <2>3, <2>5
<1>3. OwnAnswer'
  BY SetOfEmpty
     DEF HttpRequestExec, Return, Fail, AnswerInv, OwnAnswer, CutOff, InStep
<1>4. QED
  BY <1>1, <1>2, <1>3 DEF AnswerInv

LEMMA CheckKeptAnswers ==
  ASSUME SocketInv, RequestInv, AnswerInv, CheckKept
  PROVE  AnswerInv'
BY FdFacts
   DEF CheckKept, KeptUsable, Writable, AnswerInv, Unanswered, Settled,
       OwnAnswer, CutOff, InStep, SocketInv, TypeInv, TypeOK, Working

LEMMA SendAnswers ==
  ASSUME SocketInv, RequestInv, AnswerInv,
         NEW u \in SendUses, SendHead(u[1], u[2], u[3])
  PROVE  AnswerInv'
<1> USE FdFacts DEF SocketInv, TypeInv, TypeOK, Working
<1>1. Unanswered'
  BY CloseSets
     DEF SendHead, SendUses, CloseSocket, AnswerInv, Unanswered, CutOff, InStep
<1>2. Settled'
  <2> DEFINE n == m_iSocketFd
  <2>1. /\ n \in Fd /\ UNCHANGED <<m_iSocketFd, calls, cut>>
        /\ pc \in {"sendKept", "sendNew"}
        /\ pc' \in {"recvKept", "recvNew", "socket", "closeAgain", "dead"}
        /\ pc' \in {"recvKept", "recvNew"} => pc' = u[2]
    BY DEF SendHead, SendUses
  <2>2. SUFFICES ASSUME ~cut, pc' = u[2], pc' \in {"recvKept", "recvNew"}
                 PROVE  InStep(n)'
    BY <2>1 DEF Settled
  <2>3. /\ InStep(n)
        /\ link[n] = "up" =>
             inbox[n] = <<>> /\ ToSet(asked[n]) \subseteq {Garbage}
    BY <2>1, <2>2, SetOfEmpty
       DEF AnswerInv, Unanswered, Settled, CutOff, RequestInv, Silent
  <2>4. CASE UNCHANGED net
    BY <2>1, <2>3, <2>4 DEF InStep
  <2>5. ASSUME NEW req \in Readable, NEW s \in Sent(req), link[n] = "up",
               asked' = [asked EXCEPT ![n] = @ \o s],
               UNCHANGED <<link, inbox>>
        PROVE  InStep(n)'
    <3>1. /\ s \in Seq(Asked) /\ asked[n] \in Seq(Asked)
          /\ s = <<req>> \/ s = <<req, Garbage>>
          /\ req \in {calls, Garbage}
      BY <2>1, SentFacts
    <3>2. asked'[n] = asked[n] \o s
      BY <2>1, <2>5
    <3>3. ToSet(s) \subseteq {Garbage, calls}
      BY <3>1 DEF ToSet
    <3>4. ToSet(asked'[n]) \subseteq {Garbage, calls}
      <4>1. ToSet(asked[n] \o s) = ToSet(asked[n]) \cup ToSet(s)
        BY <3>1, ConcatFacts
      <4>2. QED
        BY <2>3, <2>5, <3>2, <3>3, <4>1
    <3>5. asked'[n] # <<>> /\ Head(asked'[n]) # Garbage =>
            ToSet(Tail(asked'[n])) \subseteq {Garbage}
      <4>1. CASE asked[n] = <<>>
        <5>1. asked'[n] = s
          BY <3>1, <3>2, <4>1
        <5>2. ToSet(Tail(s)) \subseteq {Garbage}
          BY <3>1, TailsOfSent
        <5>3. QED
          BY <5>1, <5>2
      <4>2. CASE asked[n] # <<>>
        <5>1. Head(asked'[n]) = Head(asked[n])
          BY <3>1, <3>2, <4>2
        <5>2. ToSet(asked[n]) = {Head(asked[n])} \cup ToSet(Tail(asked[n]))
          BY <3>1, <4>2, HeadTailFacts
        <5>3. Head(asked[n]) = Garbage
          BY <2>3, <2>5, <5>2
        <5>4. QED
          BY <5>1, <5>3
      <4>3. QED
        BY <4>1, <4>2
    <3>6. QED
      BY <2>1, <2>3, <2>5, <3>4, <3>5 DEF InStep
  <2>6. \/ UNCHANGED net
        \/ /\ link[n] = "up" /\ UNCHANGED <<link, inbox>>
           /\ \E req \in Readable : \E s \in Sent(req) :
                asked' = [asked EXCEPT ![n] = @ \o s]
    <3>1. u[2] # u[3] /\ u[2] # "dead"
      BY DEF SendUses
    <3>2. QED
      BY <2>2, <3>1 DEF SendHead
  <2>7. QED
    BY <2>4, <2>5, <2>6
<1>3. OwnAnswer'
  BY CloseSets
     DEF SendHead, SendUses, CloseSocket, AnswerInv, OwnAnswer, CutOff, InStep
<1>4. QED
  BY <1>1, <1>2, <1>3 DEF AnswerInv

LEMMA RecvAnswers ==
  ASSUME SocketInv, RequestInv, AnswerInv,
         NEW u \in RecvUses, RecvReply(u[1], u[2])
  PROVE  AnswerInv'
<1> USE FdFacts DEF SocketInv, TypeInv, TypeOK, Working
<1>1. Unanswered'
  BY CloseSets, SetOfEmpty
     DEF RecvReply, RecvUses, Return, CloseSocket, AnswerInv, Unanswered,
         CutOff, InStep
<1>2. Settled'
  <2> DEFINE n == m_iSocketFd
  <2>1. CASE pc' \in {"socket", "closeAgain", "dead"}
    BY <2>1 DEF Settled
  <2>2. CASE Return(inbox[n]) /\ inbox[n] # <<>>
              /\ inbox' = [inbox EXCEPT ![n] = <<>>]
    <3>1. /\ n \in Fd /\ pc \in {"recvKept", "recvNew"}
          /\ UNCHANGED <<m_iSocketFd, cut, link, asked>>
      BY <2>2 DEF RecvReply, RecvUses, Lost, Return, CloseSocket
    <3>2. SUFFICES ASSUME ~cut, ~CutOff'
                   PROVE  /\ \A s \in ToSet(inbox'[n]) : s.part = "error"
                          /\ inbox'[n] = <<>>
                          /\ link[n] = "up" =>
                               ToSet(asked[n]) \subseteq {Garbage}
      BY <2>2, <3>1 DEF Settled, Return
    <3>3. InStep(n)
      BY <3>1, <3>2 DEF AnswerInv, Settled
    <3>4. Last(inbox[n]).part # "more"
      BY <2>2, <3>2 DEF CutOff, Return, Fail
    <3>5. inbox'[n] = <<>> /\ ToSet(inbox'[n]) = {}
      BY <2>2, <3>1, SetOfEmpty
    <3>6. QED
      BY <2>2, <3>3, <3>4, <3>5 DEF InStep
  <2>3. QED
    BY <2>1, <2>2 DEF RecvReply, RecvUses, Return
<1>3. OwnAnswer'
  BY CloseSets, SetOfEmpty
     DEF RecvReply, RecvUses, Return, CloseSocket, AnswerInv, Unanswered,
         Settled, OwnAnswer, CutOff, InStep
<1>4. QED
  BY <1>1, <1>2, <1>3 DEF AnswerInv

LEMMA CreateAnswers ==
  ASSUME SocketInv, RequestInv, AnswerInv, CreateSocket
  PROVE  AnswerInv'
BY FdFacts, SetOfEmpty
   DEF CreateSocket, Return, NewFd, FreeFd, Clean, SocketSafe, Fail,
       AnswerInv, Unanswered, Settled, OwnAnswer, CutOff, InStep, SocketInv,
       TypeInv, TypeOK, Working

LEMMA AddressAnswers ==
  ASSUME SocketInv, RequestInv, AnswerInv, ResolveAddress
  PROVE  AnswerInv'
BY FdFacts, SetOfEmpty
   DEF ResolveAddress, Return, Fail, RequestInv, Silent, AnswerInv,
       Unanswered, Settled, OwnAnswer, CutOff, InStep, SocketInv, TypeInv,
       TypeOK, Working

LEMMA ConnectAnswers ==
  ASSUME SocketInv, RequestInv, AnswerInv, Connect
  PROVE  AnswerInv'
BY FdFacts, SetOfEmpty
   DEF Connect, Return, Fail, RequestInv, Silent, AnswerInv, Unanswered,
       Settled, OwnAnswer, CutOff, InStep, SocketInv, TypeInv, TypeOK, Working

LEMMA CheckNewAnswers ==
  ASSUME SocketInv, RequestInv, AnswerInv, CheckNew
  PROVE  AnswerInv'
BY FdFacts, SetOfEmpty
   DEF CheckNew, Return, Fail, AnswerInv, Unanswered, Settled, OwnAnswer,
       CutOff, InStep, SocketInv, TypeInv, TypeOK, Working

LEMMA CloseAgainAnswers ==
  ASSUME SocketInv, RequestInv, AnswerInv, CloseAgain
  PROVE  AnswerInv'
BY FdFacts, SetOfEmpty
   DEF CloseAgain, Forgotten, Return, Fail, AnswerInv, Unanswered, Settled,
       OwnAnswer, CutOff, InStep, SocketInv, TypeInv, TypeOK, Working

LEMMA HandshakeAnswers ==
  ASSUME SocketInv, RequestInv, AnswerInv, NEW n \in Fd, Handshake(n)
  PROVE  AnswerInv'
BY FdFacts, SetOfEmpty
   DEF Handshake, RequestInv, Silent, SocketSafe, Waiting, AnswerInv,
       Unanswered, Settled, OwnAnswer, CutOff, InStep, SocketInv, TypeInv,
       TypeOK, Working

LEMMA ReplyAnswers ==
  ASSUME SocketInv, RequestInv, AnswerInv, NEW n \in Fd, Reply(n)
  PROVE  AnswerInv'
<1> USE FdFacts DEF SocketInv, TypeInv, TypeOK, Working
<1>1. Unanswered'
  BY ReplySets DEF Reply, AnswerInv, Unanswered, CutOff, InStep
<1>2. Settled'
  <2>1. PICK e \in Segment :
          /\ e.req = Head(asked[n])
          /\ inbox' = [inbox EXCEPT ![n] = Append(inbox[n], e)]
          /\ \/ /\ e.req # Garbage
                /\ e.part = "more"
                /\ UNCHANGED <<link, asked>>
             \/ /\ e.req # Garbage
                /\ e.part = "last"
                /\ asked' = [asked EXCEPT ![n] = Tail(asked[n])]
                /\ UNCHANGED link
             \/ /\ e.req = Garbage
                /\ e.part = "error"
                /\ e.n = calls
                /\ link' = [link EXCEPT ![n] = "fin"]
                /\ UNCHANGED asked
    BY ReplySegment
  <2>2. /\ asked[n] # <<>> /\ link[n] = "up"
        /\ UNCHANGED <<m_iSocketFd, pc, calls, answer, cut>>
    BY DEF Reply
  <2>3. CASE n # m_iSocketFd
    <3>1. m_iSocketFd \in Fd =>
            /\ asked'[m_iSocketFd] = asked[m_iSocketFd]
            /\ inbox'[m_iSocketFd] = inbox[m_iSocketFd]
            /\ link'[m_iSocketFd] = link[m_iSocketFd]
      BY <2>1, <2>3
    <3>2. QED
      BY <2>2, <3>1 DEF AnswerInv, Settled, InStep, CutOff
  <2>4. CASE n = m_iSocketFd
    <3>1. /\ asked[n] \in Seq(Asked) /\ inbox[n] \in Seq(Segment)
          /\ Head(asked[n]) \in ToSet(asked[n])
          /\ ToSet(asked[n]) = {Head(asked[n])} \cup ToSet(Tail(asked[n]))
          /\ Tail(asked[n]) \in Seq(Asked)
      BY <2>2, HeadTailFacts
    <3>2. /\ inbox'[n] # <<>>
          /\ ToSet(inbox'[n]) = ToSet(inbox[n]) \cup {e}
          /\ Last(inbox'[n]) = e
      <4>1. inbox'[n] = Append(inbox[n], e)
        BY <2>1
      <4>2. QED
        BY <3>1, <4>1, AppendFacts
    <3>3. ASSUME InStep(n)
          PROVE  InStep(n)'
      <4>1. ToSet(asked[n]) \subseteq {Garbage, calls}
            /\ (Head(asked[n]) # Garbage =>
                  ToSet(Tail(asked[n])) \subseteq {Garbage})
        BY <2>2, <3>3 DEF InStep
      <4>2. \A s \in ToSet(inbox'[n]) : s.req = calls \/ s.part = "error"
        BY <2>1, <3>1, <3>2, <3>3, <4>1 DEF InStep
      <4>3. CASE e.part = "more" /\ UNCHANGED <<link, asked>>
        BY <2>2, <3>2, <4>1, <4>2, <4>3 DEF InStep
      <4>4. CASE e.req # Garbage /\ UNCHANGED link
                 /\ asked' = [asked EXCEPT ![n] = Tail(asked[n])]
        <5>1. asked'[n] = Tail(asked[n]) /\ ToSet(asked'[n]) \subseteq {Garbage}
          BY <2>1, <4>1, <4>4
        <5>2. asked'[n] # <<>> => Head(asked'[n]) \in ToSet(asked'[n])
          <6>1. ASSUME NEW t \in Seq(Asked), t # <<>>
                PROVE  Head(t) \in ToSet(t)
            BY <6>1, HeadTailFacts
          <6>2. QED
            BY <3>1, <5>1, <6>1
        <5>3. QED
          BY <2>2, <4>2, <5>1, <5>2 DEF InStep
      <4>5. CASE link' = [link EXCEPT ![n] = "fin"]
        BY <2>2, <4>2, <4>5 DEF InStep
      <4>6. QED
        BY <2>1, <4>3, <4>4, <4>5
    <3>4. ASSUME \A s \in ToSet(inbox[n]) : s.part = "error",
                 ToSet(asked[n]) \subseteq {Garbage}
          PROVE  /\ \A s \in ToSet(inbox'[n]) : s.part = "error"
                 /\ link'[n] # "up"
      BY <2>1, <3>1, <3>2, <3>4
    <3>5. QED
      BY <2>2, <2>4, <3>3, <3>4 DEF AnswerInv, Settled, CutOff
  <2>5. QED
    BY <2>3, <2>4
<1>3. OwnAnswer'
  BY ReplySets DEF Reply, AnswerInv, OwnAnswer, CutOff, InStep
<1>4. QED
  BY <1>1, <1>2, <1>3 DEF AnswerInv

LEMMA CloseAnswers ==
  ASSUME SocketInv, RequestInv, AnswerInv, NEW n \in Fd, ServerClose(n)
  PROVE  AnswerInv'
BY FdFacts
   DEF ServerClose, AnswerInv, Unanswered, Settled, OwnAnswer, CutOff, InStep,
       SocketInv, TypeInv, TypeOK, Working

LEMMA ResetAnswers ==
  ASSUME SocketInv, RequestInv, AnswerInv, NEW n \in Fd, ServerReset(n)
  PROVE  AnswerInv'
BY FdFacts
   DEF ServerReset, AnswerInv, Unanswered, Settled, OwnAnswer, CutOff, InStep,
       SocketInv, TypeInv, TypeOK, Working

LEMMA PopenAnswers ==
  ASSUME SocketInv, RequestInv, AnswerInv, Popen
  PROVE  AnswerInv'
BY FdFacts
   DEF Popen, AnswerInv, Unanswered, Settled, OwnAnswer, CutOff, InStep,
       SocketInv, TypeInv, TypeOK, Working

LEMMA PcloseAnswers ==
  ASSUME SocketInv, RequestInv, AnswerInv, Pclose
  PROVE  AnswerInv'
BY FdFacts, CloseEffect, SetOfEmpty
   DEF Pclose, AnswerInv, Unanswered, Settled, OwnAnswer, CutOff, InStep,
       SocketInv, TypeInv, TypeOK, Working

LEMMA NextAnswerInv ==
  SocketInv /\ RequestInv /\ AnswerInv /\ [Next]_vars => AnswerInv'
<1> SUFFICES ASSUME SocketInv, RequestInv, AnswerInv, [Next]_vars
             PROVE  AnswerInv'
  OBVIOUS
<1>1. CASE \E n \in Fd :
             Handshake(n) \/ Reply(n) \/ ServerClose(n) \/ ServerReset(n)
  BY <1>1, HandshakeAnswers, ReplyAnswers, CloseAnswers, ResetAnswers
<1>2. CASE UNCHANGED vars
  BY <1>2 DEF vars, past, AnswerInv, Unanswered, Settled, OwnAnswer, CutOff,
     InStep, Working
<1>3. QED
  BY <1>1, <1>2, NextCases, ExecAnswers, CheckKeptAnswers, SendAnswers,
     RecvAnswers, CreateAnswers, AddressAnswers, ConnectAnswers,
     CheckNewAnswers, CloseAgainAnswers, PopenAnswers, PcloseAnswers

LEMMA InitAnswerInv == Init => AnswerInv
BY SetOfEmpty
   DEF Init, InitWith, AnswerInv, Unanswered, Settled, OwnAnswer, CutOff,
       Working, Kept, New, Fail

LEMMA AnswersHold == Spec => []AnswerInv
<1>1. Spec => [](SocketInv /\ RequestInv /\ AnswerInv)
  BY InitSocketInv, InitRequestInv, InitAnswerInv, NextSocketInv,
     NextRequestInv, NextAnswerInv, PTL DEF Spec
<1>2. QED
  BY <1>1, PTL

\* Until an answer has been cut off at its first segments, every segment a
\* call returns belongs to its own request or is an error reply.
THEOREM AnswersOwnRequest == Spec => []OwnAnswer
<1>1. AnswerInv => OwnAnswer
  BY DEF AnswerInv
<1>2. QED
  BY <1>1, AnswersHold, PTL

=============================================================================
