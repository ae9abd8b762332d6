----------------------------- MODULE MCClientText -----------------------------
(***************************************************************************)
(* Small instances of HttpMessage and MacHash for TLC.  The two have       *)
(* nothing to do with each other: a behaviour is about a call with any URL *)
(* and body beside one pair of addresses, or about any pair of addresses   *)
(* beside a call that has returned.                                        *)
(***************************************************************************)
EXTENDS HttpMessage, MacHash

Address == <<Number(172), Dot, Number(24), Dot, Number(83), Dot, Number(25)>>
ShortName == <<Word(5), Dot, Word(3)>>
LongName  == <<Word(3), Dot, Word(2), Dot, Word(5), Dot, Word(3)>>

Known == {ShortName, LongName, <<Word(1)>>}

Urls(ports, paths) ==
  [scheme : {None, "http", "https"},
   host : {Address, ShortName, LongName, <<Word(9)>>, <<Word(1)>>},
   port : ports, path : paths]

\* Paths without and with an inner slash, port or scheme, or nothing behind it,
\* and long enough for the URL to reach the limit, as does a host by itself.
ManyUrls ==
  Urls({None, 80, 8080, 65535, 65616},
       {None, <<>>, <<Word(5)>>, <<Word(5), Slash, Word(2), Colon, Number(7)>>,
        <<Http, Colon, Slash, Slash, Word(5)>>,
        <<Https, Colon, Slash, Slash, Word(5), Slash>>,
        <<Word(5), Http, Colon, Slash, Slash>>})
  \cup Urls({None, 8080}, {<<Word(n)>> : n \in 985 .. 1024})
  \cup [scheme : {None}, host : {<<Word(n)>> : n \in 1022 .. 1025},
        port : {None}, path : {None}]

ManyLengths == {0, 9, 10, 5000, 39776, 39777, 10 ^ 7}

\* 00:16:3e:5a:01:, 9c:b6:d0:f4:9d:, ac:1f:6b:02:d3: and fa:16:3e:7f:2b:.
Vendors ==
  {<<48,48,58,49,54,58,51,101,58,53,97,58,48,49,58>>,
   <<57,99,58,98,54,58,100,48,58,102,52,58,57,100,58>>,
   <<102,97,58,49,54,58,51,101,58,55,102,58,50,98,58>>,
   <<97,99,58,49,102,58,54,98,58,48,50,58,100,51,58>>}

OneLine == (CHOOSE p \in Vendors : TRUE) \o <<48, 48, Newline>>

TextInit ==
  \/ /\ Init
     /\ line = [m \in Machine |-> OneLine]
     /\ macId = [m \in Machine |-> NoMacId]
  \/ /\ MacInit
     /\ parts = [scheme |-> "http", host |-> Address, port |-> 8080, path |-> None]
     /\ data = None
     /\ stage = "returned"
     /\ head = None /\ address = None /\ port = 0 /\ overrun = {}

TextNext ==
  \/ Next /\ UNCHANGED macVars
  \/ MacNext /\ UNCHANGED vars

TextSpec == TextInit /\ [][TextNext]_<<vars, macVars>>
=============================================================================
