----------------------------- MODULE HttpMessage -----------------------------
(***************************************************************************)
(* What HttpRequest makes of a URL and a body: the test of the URL's       *)
(* length, the request head with its host and parameter, the address and   *)
(* the port it connects to, and the buffers it does this in.               *)
(*                                                                         *)
(* A URL is a sequence of tokens; a word is known by its length alone, a   *)
(* body by its length.  The length of every fixed text is the code's.      *)
(***************************************************************************)
EXTENDS Integers, SequencesExt

CONSTANTS
  Parts,      \* the URLs that are requested, by their parts, see Url
  Lengths,    \* lengths of the bodies that are posted
  Names,      \* the hosts that DNS knows
  None        \* no port, no path, no address, no body

URLSIZE == 1024
BUFSIZE == 41000
MaxNumber == 10 ^ 9 - 1     \* what atoi() reads without overflow, and more

\* A token: "http" or "https" or a word, a numeral, or one of / : and dot.
Word(n)   == [c |-> "word", n |-> n]
Number(n) == [c |-> "number", n |-> n]
Http      == [c |-> "http", n |-> 4]
Https     == [c |-> "https", n |-> 5]
Slash     == [c |-> "slash", n |-> 1]
Colon     == [c |-> "colon", n |-> 1]
Dot       == [c |-> "dot", n |-> 1]

Token == [c : {"word"}, n : Nat \ {0}] \cup [c : {"number"}, n : 0 .. MaxNumber]
         \cup {Http, Https, Slash, Colon, Dot}

Digits(n) == CHOOSE d \in 1 .. 9 : n < 10 ^ d /\ (d = 1 \/ n >= 10 ^ (d - 1))
Width(t)  == IF t.c = "number" THEN Digits(t.n) ELSE t.n

\* strlen() of the text that the tokens stand for.
StrLen(s) ==
  LET upTo[k \in 0 .. Len(s)] == IF k = 0 THEN 0 ELSE upTo[k - 1] + Width(s[k])
  IN  upTo[Len(s)]

\* The URL that is written for its parts.
Url(p) ==
  (CASE p.scheme = "http"  -> <<Http, Colon, Slash, Slash>>
     [] p.scheme = "https" -> <<Https, Colon, Slash, Slash>>
     [] p.scheme = None    -> <<>>)
  \o p.host
  \o (IF p.port = None THEN <<>> ELSE <<Colon, Number(p.port)>>)
  \o (IF p.path = None THEN <<>> ELSE <<Slash>> \o p.path)

\* A host has neither slash nor colon, a port is written in digits.
ASSUME MessageAssumption ==
  /\ \A p \in Parts :
       /\ p.scheme \in {"http", "https", None}
       /\ p.host \in Seq(Token) /\ p.host \notin {<<>>, None}
       /\ {Slash, Colon} \cap ToSet(p.host) = {}
       /\ p.port = None \/ p.port \in 0 .. MaxNumber
       /\ p.path = None \/ p.path \in Seq(Token)
  /\ Lengths \subseteq 0 .. MaxNumber
  /\ None \notin {"http", "https"}

VARIABLES
  parts,     \* the URL the call is made with
  data,      \* the length of its body
  stage,     \* where HttpRequestExec stands
  head,      \* what the head says of the URL
  address,   \* servaddr.sin_addr
  port,      \* servaddr.sin_port
  overrun    \* buffers that were written past their end

vars == <<parts, data, stage, head, address, port, overrun>>

Init ==
  /\ parts \in Parts
  /\ data \in Lengths \cup {None}     \* None: HttpGet
  /\ stage = "called"
  /\ head = None
  /\ address = None
  /\ port = 0
  /\ overrun = {}

strUrl == Url(parts)

-----------------------------------------------------------------------------
\* strstr(s, x): where x begins in s.
Occurrences(s, x) ==
  {i \in 1 .. Len(s) - Len(x) + 1 : SubSeq(s, i, i + Len(x) - 1) = x}
Start(s, x) ==
  CHOOSE i \in Occurrences(s, x) : \A j \in Occurrences(s, x) : i <= j
Behind(s, x) == SubSeq(s, Start(s, x) + Len(x), Len(s))

\* What stands before the first token t of s, and what behind it.
Before(s, t) == IF t \in ToSet(s) THEN SubSeq(s, 1, Start(s, <<t>>) - 1) ELSE s
Past(s, t) == IF t \in ToSet(s) THEN Behind(s, <<t>>) ELSE <<>>

\* Mutant of AfterScheme: `strAddr += 7' for "https://" too.
AfterSchemeShort(s) ==
  IF Occurrences(s, <<Http, Colon, Slash, Slash>>) # {}
    THEN Behind(s, <<Http, Colon, Slash, Slash>>)
    ELSE IF Occurrences(s, <<Https, Colon, Slash>>) # {}
           THEN Behind(s, <<Https, Colon, Slash>>)
           ELSE s

\* Past "http://", or else past "https://", wherever in the URL it stands.
AfterScheme(s) ==
  IF Occurrences(s, <<Http, Colon, Slash, Slash>>) # {}
    THEN Behind(s, <<Http, Colon, Slash, Slash>>)
    ELSE IF Occurrences(s, <<Https, Colon, Slash, Slash>>) # {}
           THEN Behind(s, <<Https, Colon, Slash, Slash>>)
           ELSE s

GetHostAddrFromUrl(s) == Before(AfterScheme(s), Slash)
GetParamFromUrl(s)    == Past(AfterScheme(s), Slash)

\* atoi() of what follows the colon: 0 where that is no number.
GetPortFromUrl(s) ==
  LET host == GetHostAddrFromUrl(s)
      text == Past(host, Colon)
  IN  IF Colon \notin ToSet(host) THEN 80
      ELSE IF text # <<>> /\ Head(text).c = "number" THEN Head(text).n ELSE 0

Dots(s)    == Len(SelectSeq(s, LAMBDA t : t = Dot))
Numeric(s) == Dots(s) = 3 /\ \A t \in ToSet(s) : t.c \in {"number", "dot"}

\* Mutant of GetIPFromUrl: any dot makes an address.
GetIPFromUrlDotted(s) ==
  LET host == Before(GetHostAddrFromUrl(s), Colon)
  IN  IF StrLen(host) <= 1 THEN None
      ELSE IF Dots(host) > 0 THEN <<Number(0)>>
      ELSE IF host \in Names THEN host ELSE None

\* A host with three dots is taken for an address: iFlag is never set, since
\* any character is >= '0' or <= '9'.  Any other one is looked up.
GetIPFromUrl(s) ==
  LET host == Before(GetHostAddrFromUrl(s), Colon)
  IN  IF StrLen(host) <= 1 THEN None
      ELSE IF Dots(host) = 3 \/ host \in Names THEN host ELSE None

\* The lengths of all that HttpHeadCreate appends to the method.
HeadLength(s, body) ==
  2 + StrLen(GetParamFromUrl(s)) + 11 + 13 + 33 + 25
  + 6 + StrLen(GetHostAddrFromUrl(s)) + 2 + 25 + 24
  + (IF body = None THEN 3 ELSE 4 + 25 + 16 + Digits(body) + 4 + body)
  + 4

\* Mutant of Refused: no URL is too long.
RefusedIfEmpty(s) == s = <<>>

Refused(s) == s = <<>> \/ URLSIZE < StrLen(s)

\* The buffer, if a text of n characters does not fit in it with its terminator.
Overrun(buffer, size, n) == IF n < size THEN {} ELSE {buffer}

-----------------------------------------------------------------------------
\* HttpRequestExec up to HttpHeadCreate: the URL is copied to find its host and
\* its parameter, and all of the head and the body to one buffer.  What a write
\* past the end of a buffer does to the rest of the call is not modelled.
CreateHead ==
  /\ stage = "called"
  /\ IF Refused(strUrl)
       THEN stage' = "returned" /\ UNCHANGED <<head, overrun>>
       ELSE /\ stage' = "headed"
            /\ head' = [param |-> GetParamFromUrl(strUrl),
                        host |-> GetHostAddrFromUrl(strUrl)]
            /\ overrun' =
                 Overrun("url", URLSIZE, StrLen(strUrl))
                 \cup Overrun("strHttpHead", BUFSIZE, HeadLength(strUrl, data))
                 \cup (IF data = None THEN {} ELSE Overrun("len", 8, Digits(data)))
  /\ UNCHANGED <<parts, data, address, port>>

\* Mutant of Htons: the port is not truncated.
HtonsWide(n) == n

MaxPort == 65535

Htons(n) == n % (MaxPort + 1)

\* ... and up to connect(): the host is copied once more to find the port, and
\* inet_pton refuses what is no address.
ResolveAddress ==
  /\ stage = "headed"
  /\ LET ip == GetIPFromUrl(strUrl)
     IN  IF ip # None /\ (Numeric(ip) \/ (Dots(ip) # 3 /\ ip \in Names))
           THEN /\ stage' = "connect"
                /\ address' = ip
                /\ port' = Htons(GetPortFromUrl(strUrl))
           ELSE stage' = "returned" /\ UNCHANGED <<address, port>>
  /\ overrun' = overrun \cup
       Overrun("strAddr", URLSIZE, StrLen(GetHostAddrFromUrl(strUrl)))
  /\ UNCHANGED <<parts, data, head>>

Next == CreateHead \/ ResolveAddress

Spec == Init /\ [][Next]_vars

-----------------------------------------------------------------------------
\* A scheme in the path that is looked for before the one, if any, in front.
Inner(scheme) ==
  parts.path # None /\ Occurrences(parts.path, <<scheme, Colon, Slash, Slash>>) # {}
Misleading ==
  \/ parts.scheme # "http" /\ Inner(Http)
  \/ parts.scheme = None /\ Inner(Https)

\* HttpHeadCreate and the functions it parses the URL with give back the parts
\* it was written from; the Host header keeps the port.
HeadNamesParts ==
  head # None /\ ~Misleading =>
    /\ head.param = IF parts.path = None THEN <<>> ELSE parts.path
    /\ head.host = parts.host \o
         (IF parts.port = None THEN <<>> ELSE <<Colon, Number(parts.port)>>)

\* The client connects to the host and the port the URL names, or not at all;
\* only a port that is none, above MaxPort, is replaced by another.
ConnectsToHost ==
  stage = "connect" /\ ~Misleading =>
    /\ address = parts.host
    /\ port \in 0 .. MaxPort
    /\ parts.port = None => port = 80
    /\ parts.port # None /\ parts.port <= MaxPort => port = parts.port

\* A host that DNS knows is connected to, unless its name has three dots: then
\* it is taken for an address, and never looked up; or it is of one character.
KnownHostFound ==
  stage = "returned" /\ ~Refused(strUrl) /\ ~Misleading =>
    \/ parts.host \notin Names
    \/ Dots(parts.host) = 3
    \/ StrLen(parts.host) = 1

\* No buffer is written past its end, but for one length of the URL, which the
\* test of its length lets through, and for bodies above 39776 bytes: that many
\* are left by the longest head of a URL that is accepted.
BuffersHold ==
  /\ overrun \cap {"url", "strAddr"} # {} => StrLen(strUrl) = URLSIZE
  /\ overrun \cap {"strHttpHead", "len"} # {} => data # None /\ data > 39776

\* "the length of the data is unlimited" (README.md:29): the buffer the report
\* is appended to is not.
UnlimitedData == overrun \cap {"strHttpHead", "len"} = {}
=============================================================================
