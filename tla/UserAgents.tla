----------------------------- MODULE UserAgents -----------------------------
(***************************************************************************)
(* What a User-Agent is taken for (services/user-agent.ts): the tokens in  *)
(* it, in their order, against lists of patterns whose first match wins. A *)
(* pattern is the set of tokens that match it.                             *)
(***************************************************************************)
EXTENDS Sequences, Integers

BotTokens ==
  {"bot", "crawler", "spider", "slurp", "facebookexternalhit", "whatsapp", "curl", "wget",
   "okhttp", "headlesschrome", "lighthouse", "monitoring", "preview", "fetcher"}

BrowserPatterns ==
  << <<{"Edg", "Edge", "EdgA", "EdgiOS"}, "Edge">>, <<{"OPR", "Opera", "Opera Mini"}, "Opera">>,
     <<{"SamsungBrowser"}, "Samsung Internet">>, <<{"YaBrowser"}, "Yandex">>,
     <<{"Vivaldi"}, "Vivaldi">>, <<{"Brave"}, "Brave">>, <<{"UCBrowser"}, "UC Browser">>,
     <<{"FxiOS", "Firefox"}, "Firefox">>, <<{"CriOS", "Chrome"}, "Chrome">>,
     <<{"Safari"}, "Safari">>, <<{"MSIE", "Trident"}, "Internet Explorer">> >>

\* Mutant: Linux, which is the more common, before what is built on it.
OsPatternsByShare ==
  << <<{"Windows NT", "Windows"}, "Windows">>, <<{"Mac OS X", "Macintosh"}, "macOS">>,
     <<{"Linux", "X11"}, "Linux">>, <<{"Android"}, "Android">> >>

OsPatterns ==
  << <<{"KFAPWI", "Silk"}, "Fire OS">>, <<{"Android"}, "Android">>,
     <<{"iPhone", "iPad", "iPod", "iOS"}, "iOS">>, <<{"Windows Phone"}, "Windows Phone">>,
     <<{"Windows NT", "Windows"}, "Windows">>, <<{"CrOS"}, "Chrome OS">>,
     <<{"Mac OS X", "Macintosh"}, "macOS">>, <<{"Ubuntu"}, "Ubuntu">>,
     <<{"Linux", "X11"}, "Linux">> >>

Has(ua, tokens) == \E i \in DOMAIN ua : ua[i] \in tokens

\* /\bAndroid\b(?!.*\bMobile\b)/: an Android with no Mobile after it.
AndroidTablet(ua) ==
  \E i \in DOMAIN ua : ua[i] = "Android" /\ \A j \in i + 1..Len(ua) : ua[j] # "Mobile"

\* What the tablets' other patterns match, the telephones' and the desktops'.
TabletTokens == {"iPad", "Tablet", "PlayBook", "Kindle", "Silk"}
MobileTokens ==
  {"Mobi", "Mobile", "iPhone", "iPod", "Android", "Windows Phone", "BlackBerry", "IEMobile",
   "Opera Mini"}
DesktopTokens == {"Mozilla", "AppleWebKit", "Gecko", "Trident"}

classifyDevice(ua) ==
  IF Has(ua, TabletTokens) \/ AndroidTablet(ua) THEN "tablet"
  ELSE IF Has(ua, MobileTokens) THEN "mobile"
  ELSE IF Has(ua, DesktopTokens) THEN "desktop" ELSE "unknown"

firstMatch(ua, patterns) ==
  LET hits == {i \in DOMAIN patterns : Has(ua, patterns[i][1])}
  IN IF hits = {} THEN "unknown"
     ELSE patterns[CHOOSE i \in hits : \A j \in hits : i <= j][2]

parseUserAgent(ua) ==
  CASE ua = <<>> -> [deviceType |-> "unknown", browser |-> "unknown", os |-> "unknown"]
    [] Has(ua, BotTokens) -> [deviceType |-> "bot", browser |-> "unknown", os |-> "unknown"]
    [] OTHER -> [deviceType |-> classifyDevice(ua), browser |-> firstMatch(ua, BrowserPatterns),
                 os |-> firstMatch(ua, OsPatterns)]

-----------------------------------------------------------------------------
(***************************************************************************)
(* What browsers and systems say of themselves, each other's tokens        *)
(* included: the source's comments name them.                              *)
(***************************************************************************)
Systems ==
  {[os |-> "Fire OS", device |-> "tablet", says |-> <<"Linux", "Android", "KFAPWI">>],
   [os |-> "Android", device |-> "tablet", says |-> <<"Linux", "Android">>],
   [os |-> "Android", device |-> "mobile", says |-> <<"Linux", "Android">>],
   [os |-> "iOS", device |-> "mobile", says |-> <<"iPhone", "iOS", "Mac OS X">>],
   [os |-> "iOS", device |-> "tablet", says |-> <<"iPad", "iOS", "Mac OS X">>],
   [os |-> "Windows", device |-> "desktop", says |-> <<"Windows NT">>],
   [os |-> "Chrome OS", device |-> "desktop", says |-> <<"X11", "CrOS">>],
   [os |-> "macOS", device |-> "desktop", says |-> <<"Macintosh", "Mac OS X">>],
   [os |-> "Ubuntu", device |-> "desktop", says |-> <<"X11", "Ubuntu", "Linux">>],
   [os |-> "Linux", device |-> "desktop", says |-> <<"X11", "Linux">>]}

Browsers ==
  {[name |-> "Safari", says |-> <<"Safari">>],
   [name |-> "Chrome", says |-> <<"Chrome", "Safari">>],
   [name |-> "Chrome", says |-> <<"CriOS", "Safari">>],
   [name |-> "Edge", says |-> <<"Chrome", "Safari", "Edg">>],
   [name |-> "Edge", says |-> <<"Chrome", "Safari", "Edge">>],
   [name |-> "Opera", says |-> <<"Chrome", "Safari", "OPR">>],
   [name |-> "Samsung Internet", says |-> <<"SamsungBrowser", "Chrome", "Safari">>],
   [name |-> "Vivaldi", says |-> <<"Chrome", "Safari", "Vivaldi">>],
   [name |-> "Firefox", says |-> <<"Gecko", "Firefox">>],
   [name |-> "Firefox", says |-> <<"FxiOS", "Safari">>]}

UserAgentOf(system, browser) ==
  <<"Mozilla">> \o system.says \o <<"AppleWebKit">>
    \o (IF system.device = "mobile" THEN <<"Mobile">> ELSE <<>>) \o browser.says
=============================================================================
