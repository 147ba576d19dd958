------------------------------- MODULE Inputs -------------------------------
(***************************************************************************)
(* The pure parts of the intake, tried on one input at a time: every       *)
(* initial state is an input, and there is no step.                        *)
(***************************************************************************)
EXTENDS Targets, Slugs, UserAgents

CONSTANTS
  Octets, Groups,            \* what addresses are made of
  Prefixes,                  \* what others begin with
  Urls,
  Buffers                    \* how many buffers are drawn

ASSUME InputsConstants ==
  /\ Octets \subseteq 0..255 /\ Buffers \in Nat
  /\ \A group \in Groups \cup Prefixes : group \in Nat /\ group < 65536

ASSUME ParamsArePairs == \A url \in Urls : url.params \in Seq(Int \X Int)

VARIABLE trial

Customs == UNION {[1..n -> SlugChars \cup {Other}] : n \in 0..MaxLength + 1}
Addresses6 == [1..8 -> Groups] \cup {<<a, b, 0, 0, 0, 0, 0, 1>> : a, b \in Prefixes}
Streams == [1..Buffers * DrawnLength -> 0..Bytes - 1]

Tried(what, input) == trial = [what |-> what, input |-> input]

InitTrial ==
  \/ \E o \in [1..3 -> Octets] : Tried("quad", Append(o, 2))
  \/ \E g \in Addresses6 : Tried("groups", g)
  \/ \E url \in Urls : Tried("url", url)
  \/ \E slug \in Customs : Tried("custom", slug)
  \/ \E slug \in [1..DrawnLength -> Digits] : Tried("drawn", slug)
  \/ \E n \in 0..MaxNumber : Tried("number", n)
  \/ \E system \in Systems, browser \in Browsers : Tried("agent", <<system, browser>>)

NoTrial == [what |-> "none"]

Trials == (trial = NoTrial \/ InitTrial) /\ [][UNCHANGED trial]_trial

-----------------------------------------------------------------------------
\* A host is judged by the address it is: by the block of an IPv4 address, alone or
\* embedded, or of an IPv6 one. It may be written in any way but one: "::" right before a
\* quad, which no hostname of a parsed URL has, is not read.
HostsAreJudgedByAddress ==
  /\ trial.what = "quad" => JudgedByBlock(trial.input)
  /\ trial.what = "groups" => ReadsSpellings(trial.input) /\ JudgedByGroups(trial.input)

\* Two URLs have one key if, and only if, they are the same page.
OneKeyPerPage ==
  trial.what = "url" =>
    LET key == canonicalizeUrl(trial.input)
        page == Page(trial.input)
    IN \A url \in Urls : canonicalizeUrl(url) = key <=> Page(url) = page

\* How many streams of bytes make a slug.
Ways(slug) == Cardinality({bytes \in Streams : generateSlug(bytes, DrawnLength) = slug})

\* The edge looks up every slug the origin accepts or draws, an accepted one is not a word
\* of the platform in any case, every drawn one is as likely, and a number is read back.
SlugsAreSound ==
  /\ (trial.what = "custom" /\ validateCustomSlug(trial.input) = "valid") =>
       /\ isWellFormedSlug(trial.input)
       /\ \A word \in Reserved : LowerCase(trial.input) # LowerCase(word)
  /\ trial.what = "drawn" =>
       isWellFormedSlug(trial.input) /\ Ways(trial.input) = Ways([i \in 1..DrawnLength |-> 0])
  /\ trial.what = "number" => decodeBase62(encodeBase62(trial.input)) = trial.input

\* Each browser on each system is counted as what it is, though it carries the tokens of
\* others, and as a bot where it is one.
ProductIsNamed ==
  trial.what = "agent" =>
    LET system == trial.input[1]
        browser == trial.input[2]
        ua == UserAgentOf(system, browser)
    IN /\ parseUserAgent(ua) =
            [deviceType |-> system.device, browser |-> browser.name, os |-> system.os]
       /\ parseUserAgent(Append(ua, "bot")).deviceType = "bot"
=============================================================================
