------------------------------- MODULE Targets -------------------------------
(***************************************************************************)
(* Which target a link may have, said twice (assessUrlSafety of shared/src *)
(* /safety.ts, targetUrlSchema of schemas.ts) and once more at the edge,   *)
(* and which targets are the same page (url.ts). A raw target is its       *)
(* length, how much of that is blank at the ends, and the URL it parses    *)
(* to: [protocol, credentials, host, port, params, hash] or Malformed.     *)
(***************************************************************************)
EXTENDS UrlSafety

CONSTANTS
  MaxUrlLength,
  ShortDomain,               \* the host of SHORT_DOMAIN, its port stripped
  Lower, TrackingParams      \* of a parameter's name, an integer in byte order

Malformed == [protocol |-> "none"]
NoHost == [kind |-> "none"]
AllowedProtocols == {"http:", "https:"}

parseUrl(raw) == raw.url

When(condition, issue) == IF condition THEN <<issue>> ELSE <<>>

\* The issues, in the order they are found.
assessUrlSafety(length, url) ==
  When(length > MaxUrlLength, "too-long") \o
  IF url = Malformed THEN <<"malformed">>
  ELSE When(url.protocol \notin AllowedProtocols, "unsupported-protocol") \o
       When(url.credentials, "embedded-credentials") \o
       IF url.host = NoHost THEN <<"missing-hostname">>
       ELSE When(classifyHost(url.host) # "public", "non-public-host") \o
            When(normalizeHost(url.host) = normalizeHost(ShortDomain), "self-referential")

targetUrlSchema(raw) ==
  /\ raw.length - raw.blank \in 1..MaxUrlLength
  /\ LET url == parseUrl(raw) IN
     url # Malformed /\ url.protocol \in AllowedProtocols /\ ~url.credentials /\ url.host # NoHost

\* ISSUE_TO_ERROR
Code(issue) ==
  CASE issue \in {"malformed", "missing-hostname", "embedded-credentials"} -> "invalid_url"
    [] issue = "unsupported-protocol" -> "unsupported_protocol"
    [] issue = "too-long" -> "url_too_long"
    [] issue \in {"non-public-host", "self-referential"} -> "unsafe_url"

\* What POST says of the target, before anything is stored or looked up.
PostAnswer(raw) ==
  LET issues == assessUrlSafety(raw.length, parseUrl(raw)) IN
  IF issues # <<>> THEN Code(Head(issues))
  ELSE IF targetUrlSchema(raw) THEN "ok" ELSE "invalid_request"

\* Mutant: what the schema lets through is not assessed.
PatchBySchema(raw) == IF targetUrlSchema(raw) THEN "ok" ELSE "invalid_request"

\* PATCH assesses what the schema has trimmed.
PatchAnswer(raw) ==
  IF ~targetUrlSchema(raw) THEN "invalid_request"
  ELSE LET issues == assessUrlSafety(raw.length - raw.blank, parseUrl(raw))
       IN IF issues # <<>> THEN Code(Head(issues)) ELSE "ok"

\* What is stored: value.trim().
Trimmed(raw) == [length |-> raw.length - raw.blank, blank |-> 0, url |-> raw.url]

-----------------------------------------------------------------------------
isTrackingParam(name) == Lower[name] \in TrackingParams

DefaultPort(protocol) == IF protocol = "http:" THEN 80 ELSE 443

\* Mutant: parameters of one name keep the order they came in.
PrecedesByName(p, q) == p[1] < q[1]

\* By name, and then by value.
Precedes(p, q) == p[1] < q[1] \/ (p[1] = q[1] /\ p[2] < q[2])

\* Where a stable sort puts the i-th of those kept: behind what precedes it, and behind its
\* equals that stand before it.
Place(params, kept, i) ==
  Cardinality({j \in kept : \/ Precedes(params[j], params[i])
                            \/ j <= i /\ ~Precedes(params[i], params[j])})

\* The parameters kept, each in its place.
Sorted(params, kept) ==
  [n \in 1..Cardinality(kept) |-> params[CHOOSE i \in kept : Place(params, kept, i) = n]]

canonicalizeUrl(url) ==
  [protocol |-> url.protocol, host |-> url.host,
   port |-> IF url.port = DefaultPort(url.protocol) THEN 0 ELSE url.port,
   params |-> Sorted(url.params, {i \in DOMAIN url.params : ~isTrackingParam(url.params[i][1])})]

-----------------------------------------------------------------------------
\* What a reader would call the same page: what is asked of which server, whatever the
\* campaign, the fragment, the credentials and the order of the parameters.
Page(url) ==
  LET kept == {i \in DOMAIN url.params : Lower[url.params[i][1]] \notin TrackingParams}
  IN <<url.protocol, url.host,
       IF url.port = 0 THEN DefaultPort(url.protocol) ELSE url.port,
       {<<url.params[i], Cardinality({j \in kept : url.params[j] = url.params[i]})>> : i \in kept}>>
=============================================================================
