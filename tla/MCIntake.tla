------------------------------ MODULE MCIntake ------------------------------
(***************************************************************************)
(* The constants TLC gives Intake: a host of every class, a number on each *)
(* side of every bound that classifyIpv4 and classifyIpv6 draw, three base *)
(* digits and bytes of eight values for slugs.                             *)
(***************************************************************************)
EXTENDS Intake, Inputs, TLC

MCLocalNames == {<<"localhost">>, <<"ip6-localhost">>}
MCLocalSuffixes == {<<"local">>, <<"home", "arpa">>}
MCOctets ==
  {0, 2, 10, 15, 16, 18, 20, 31, 32, 51, 63, 64, 100, 113, 127, 128, 168, 169, 172, 192,
   198, 203, 223, 224, 239, 240, 254}
MCGroups == {0, 1, 65535}
MCPrefixes ==
  {1, 3511, 3512, 3513, 8192, 8193, 8194, 64511, 64512, 65023, 65024, 65151, 65152, 65215,
   65216, 65279, 65280, 65535}

Name(labels, dots) == [kind |-> "name", labels |-> labels, dots |-> dots]
MCShortDomain == Name(<<"go", "com">>, 0)
Hosts ==
  {Name(<<"a", "com">>, 0), Name(<<"localhost">>, 1), Name(<<"b", "home", "arpa">>, 0),
   Name(<<"go", "com">>, 1), [kind |-> "v4", octets |-> <<10, 0, 0, 1>>],
   [kind |-> "v6", text |-> <<Colon, Colon, 1>>, quad |-> <<>>], NoHost}

Url(protocol, credentials, host) ==
  [protocol |-> protocol, credentials |-> credentials, host |-> host, port |-> 0,
   params |-> <<>>, hash |-> FALSE]

\* http and https have a host, or do not parse; other protocols may have none.
MCRaws ==
  {[length |-> n, blank |-> b, url |-> u] :
     n \in 3..4, b \in 0..1,
     u \in {Malformed} \cup
           {Url(p, c, h) : p \in {"https:", "ftp:"}, c \in BOOLEAN, h \in Hosts \ {NoHost}}
           \cup {Url("javascript:", FALSE, NoHost)}}
    \cup {[length |-> n, blank |-> n, url |-> Malformed] : n \in {0, 1}}

\* Names 1 and 2 are of a campaign, 1 in capitals.
MCLower == <<2, 2, 3, 4>>
Params == UNION {[1..n -> {1, 2, 3} \X {5, 6}] : n \in 0..2}
MCUrls ==
  {[protocol |-> p, credentials |-> c, host |-> "h", port |-> port, params |-> q, hash |-> c] :
     p \in {"http:", "https:"}, c \in BOOLEAN, port \in {0, 80, 443}, q \in Params}

MCUpperOf == [d \in {1} |-> 2]
MCReserved == {<<2, 2>>, <<0, 2, 0>>, <<0, Other, 2>>}

MCLinks == {<<0, 1>>, <<0, Hyphen, 1>>}

\* A field of two characters is too long; the city's is not cut.
MCBounds == [f \in {"slug"} \cup Fields |-> IF f = "slug" THEN MaxLength ELSE 1]
Lengths(absent, long) ==
  [f \in Fields |-> IF f \in absent THEN 0 ELSE IF f \in long THEN 2 ELSE 1]

MCVisitors ==
  {[ip |-> "i", userAgent |-> <<"Mozilla", "Safari">>, referrer |-> "a.com",
    length |-> Lengths({}, {"userAgent", "referrer"})],
   [ip |-> "i", userAgent |-> <<>>, referrer |-> "unparsable",
    length |-> Lengths({"userAgent"}, {})],
   [ip |-> None, userAgent |-> <<"curl">>, referrer |-> None,
    length |-> Lengths({"ip", "referrer", "country"}, {})],
   [ip |-> "i", userAgent |-> <<"curl">>, referrer |-> None,
    length |-> Lengths({"referrer"}, {"city"})]}

MCEnvs ==
  {[production |-> TRUE, salt |-> "s", token |-> "t"],
   [production |-> TRUE, salt |-> Blank, token |-> "t"],
   [production |-> FALSE, salt |-> Blank, token |-> None]}
MCEdgeTokens == {"t", "u", Blank}
MCSymmetry == Permutations(Processes)
-----------------------------------------------------------------------------
allVars == <<vars, trial>>

\* The system runs, or an input is tried.
MCInit ==
  /\ Init
  /\ \/ trial = NoTrial
     \/ edgeToken = Blank /\ ~env.production /\ InitTrial
MCNext == trial = NoTrial /\ Next /\ UNCHANGED trial
MCSpec == MCInit /\ [][MCNext]_allVars
=============================================================================
