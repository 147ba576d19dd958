----------------------------- MODULE LinkStore -----------------------------
(***************************************************************************)
(* The links table in DynamoDB, its urlHash index, and the requests that   *)
(* read and write both: POST, PATCH and DELETE of /api/links, an operator's*)
(* disable and enable, and the Safe Browsing re-scan.                      *)
(*                                                                         *)
(*   apps/api/src/routes/links.ts, routes/admin.ts, services/rescan.ts     *)
(*   apps/api/src/repositories/dynamo-link-repository.ts                   *)
(*                                                                         *)
(* Every call to the table is a step of its own: between two of them other *)
(* requests write. Reads are eventually consistent: replica and index are  *)
(* what a read may see instead of the item. What KV is told afterwards is  *)
(* in EdgeCache.                                                           *)
(***************************************************************************)
EXTENDS Naturals

CONSTANTS
  Slugs,
  Urls,          \* target URLs, up to canonicalizeUrl
  Owners,
  Requests,      \* requests, or links a re-scan is at, in progress at a time
  NoItem,        \* no item for the slug
  NoKey,         \* the index does not have the slug
  NoAnswer,
  Keep,          \* not in the patch
  SlugAttempts,  \* slugAttempts
  MaxWrites      \* bound on the writes to the table

ASSUME StoreConstants ==
  /\ SlugAttempts \in Nat \ {0}
  /\ MaxWrites \in Nat

Keys == Owners \X Urls
Statuses == {"active", "disabled", "deleted"}
Expiries == {"ahead", "past"}  \* "ahead": it has none, or one that has not passed
Item == [owner : Owners, url : Urls, key : Keys, status : Statuses, expires : Expiries,
         checked : Urls]

ASSUME NoItemIsNone == NoItem \notin Item
ASSUME NoKeyIsNone == NoKey \notin Keys
ASSUME KeepIsNone == Keep \notin Urls \cup Keys \cup Statuses \cup Expiries

VARIABLES
  items,      \* the item of each slug
  replica,    \* what an eventually consistent read of it may return instead
  index,      \* the dedup key under which urlHash-index has it
  request,    \* what is in progress
  answer,     \* the link with which the last step answered a create, if it did
  asked,      \* the status last asked for each slug
  swept,      \* the slugs of which DynamoDB has deleted an item
  writes      \* how many there have been

vars == <<items, replica, index, request, answer, asked, swept, writes>>

-----------------------------------------------------------------------------
\* urlDedupHash: owner-scoped, and as good as injective.
Unscoped(owner, url) == CHOOSE k \in Keys : k[2] = url  \* Mutant: global.
DedupKey(owner, url) == <<owner, url>>

Live(item) == item # NoItem /\ item.status = "active" /\ item.expires # "past"

\* findBySlug: GetCommand without ConsistentRead.
Readable(s) == {items[s], replica[s]}

\* findSlugByUrlHash: any one of the slugs the index has under the key.
Indexed(key) == {s \in Slugs : index[s] = key}

Idle == [pc |-> "idle", owner |-> Keep, url |-> Keep, slug |-> Keep, attempt |-> 0]

Goto(r, state) == request' = [request EXCEPT ![r] = state]
End(r) == Goto(r, Idle)

Say(a) == answer' = a

\* A write to one item; status is the one the writer names, if it names one.
Write(s, item, status) ==
  /\ writes < MaxWrites
  /\ writes' = writes + 1
  /\ items' = [items EXCEPT ![s] = item]
  /\ asked' = [asked EXCEPT ![s] = IF status = Keep THEN @ ELSE status]

\* What update() changes: the attributes in the patch, and no other.
NoPatch == [url |-> Keep, key |-> Keep, status |-> Keep, expires |-> Keep, checked |-> Keep]

Or(new, old) == IF new = Keep THEN old ELSE new

\* Mutant: the dedup key does not follow the URL.
PatchedOldKey(i, p) ==
  [i EXCEPT !.url = Or(p.url, @), !.status = Or(p.status, @),
            !.expires = Or(p.expires, @), !.checked = Or(p.checked, @)]

Patched(i, p) ==
  [i EXCEPT !.url = Or(p.url, @), !.key = Or(p.key, @), !.status = Or(p.status, @),
            !.expires = Or(p.expires, @), !.checked = Or(p.checked, @)]

\* Mutant: the whole item is written, as it was read.
UpdateAsRead(s, p) ==
  items[s] # NoItem /\ replica[s] # NoItem /\ Write(s, Patched(replica[s], p), p.status)

\* update() with the condition attribute_exists(pk).
Update(s, p) == items[s] # NoItem /\ Write(s, Patched(items[s], p), p.status)

-----------------------------------------------------------------------------
Init ==
  /\ items = [s \in Slugs |-> NoItem]
  /\ replica = [s \in Slugs |-> NoItem]
  /\ index = [s \in Slugs |-> NoKey]
  /\ request = [r \in Requests |-> Idle]
  /\ answer = NoAnswer
  /\ asked = [s \in Slugs |-> Keep]
  /\ swept = {}
  /\ writes = 0

-----------------------------------------------------------------------------
(***************************************************************************)
(* POST /api/links                                                         *)
(***************************************************************************)

\* A body that passed every check; the request then waits for findSlugByUrlHash.
BeginCreate(r) ==
  /\ request[r].pc = "idle"
  /\ \E owner \in Owners, url \in Urls :
       Goto(r, [Idle EXCEPT !.pc = "query", !.owner = owner, !.url = url])
  /\ Say(NoAnswer)
  /\ UNCHANGED <<items, replica, index, asked, swept, writes>>

QueryIndex(r) ==
  /\ request[r].pc = "query"
  /\ LET key == DedupKey(request[r].owner, request[r].url)
     IN \/ /\ Indexed(key) = {}
           /\ Goto(r, [request[r] EXCEPT !.pc = "put"])
        \/ \E s \in Indexed(key) : Goto(r, [request[r] EXCEPT !.pc = "lookup", !.slug = s])
  /\ Say(NoAnswer)
  /\ UNCHANGED <<items, replica, index, asked, swept, writes>>

\* findBySlug: a live link is the answer, otherwise a new one is created.
Lookup(r) ==
  /\ request[r].pc = "lookup"
  /\ \E i \in Readable(request[r].slug) :
       IF Live(i)
         THEN /\ Say([owner |-> request[r].owner, slug |-> request[r].slug, link |-> i])
              /\ End(r)
         ELSE /\ Say(NoAnswer)
              /\ Goto(r, [request[r] EXCEPT !.pc = "put", !.slug = Keep])
  /\ UNCHANGED <<items, replica, index, asked, swept, writes>>

\* Mutant: a put without the condition.
PutOverwrites(r) ==
  /\ request[r].pc = "put"
  /\ \E s \in Slugs :
       /\ Write(s, [owner |-> request[r].owner, url |-> request[r].url,
                    key |-> DedupKey(request[r].owner, request[r].url),
                    status |-> "active", expires |-> "ahead", checked |-> request[r].url],
                "active")
  /\ End(r)
  /\ Say(NoAnswer)
  /\ UNCHANGED <<replica, index, swept>>

\* Another random slug, if there are attempts left.
DrawAgain(r) ==
  /\ request[r].attempt + 1 < SlugAttempts
  /\ Goto(r, [request[r] EXCEPT !.attempt = @ + 1])

\* create(): a slug that is free, the one asked for or one drawn at random. If the
\* response is lost, the client sends the put again and it collides with itself.
Put(r) ==
  /\ request[r].pc = "put"
  /\ \E s \in Slugs :
       /\ items[s] = NoItem
       /\ Write(s, [owner |-> request[r].owner, url |-> request[r].url,
                    key |-> DedupKey(request[r].owner, request[r].url),
                    status |-> "active", expires |-> "ahead", checked |-> request[r].url],
                "active")
  /\ End(r) \/ DrawAgain(r)
  /\ Say(NoAnswer)
  /\ UNCHANGED <<replica, index, swept>>

\* The slug is taken: a random one is drawn again, up to slugAttempts times; the
\* one asked for is not, and that ends the request.
Collide(r) ==
  /\ request[r].pc = "put"
  /\ \E s \in Slugs : items[s] # NoItem
  /\ End(r) \/ DrawAgain(r)
  /\ Say(NoAnswer)
  /\ UNCHANGED <<items, replica, index, asked, swept, writes>>

-----------------------------------------------------------------------------
(***************************************************************************)
(* PATCH and DELETE of /api/links/:slug, and the operator's routes.        *)
(***************************************************************************)

\* loadOwnedLink; a link that is not there, not the caller's or deleted ends the
\* request.
Load(r) ==
  /\ request[r].pc = "idle"
  /\ \E s \in Slugs, next \in {"patch", "delete"} :
       \E i \in Readable(s) :
         /\ i # NoItem /\ i.status # "deleted"
         /\ Goto(r, [Idle EXCEPT !.pc = next, !.owner = i.owner, !.slug = s])
  /\ Say(NoAnswer)
  /\ UNCHANGED <<items, replica, index, asked, swept, writes>>

\* The patch of a PATCH: a new URL brings its key and its verdict.
PatchOf(owner, url, status, expires) ==
  [url |-> url, key |-> IF url = Keep THEN Keep ELSE DedupKey(owner, url),
   status |-> status, expires |-> expires, checked |-> url]

Patch(r) ==
  /\ request[r].pc = "patch"
  /\ \E url \in Urls \cup {Keep}, status \in {"active", "disabled", Keep},
        expires \in {"ahead", Keep} :
       /\ {url, status, expires} # {Keep}
       /\ Update(request[r].slug, PatchOf(request[r].owner, url, status, expires))
  /\ End(r)
  /\ Say(NoAnswer)
  /\ UNCHANGED <<replica, index, swept>>

SoftDelete(r) ==
  /\ request[r].pc = "delete"
  /\ Update(request[r].slug, [NoPatch EXCEPT !.status = "deleted"])
  /\ End(r)
  /\ Say(NoAnswer)
  /\ UNCHANGED <<replica, index, swept>>

\* POST /admin/links/:slug/disable and /enable.
SetStatus(s, status) ==
  /\ Update(s, [NoPatch EXCEPT !.status = status])
  /\ Say(NoAnswer)
  /\ UNCHANGED <<replica, index, request, swept>>

\* The item is not there any more, the URL is refused after all, or a call to the
\* table rejects.
Fail(r) ==
  /\ request[r].pc # "idle"
  /\ End(r)
  /\ Say(NoAnswer)
  /\ UNCHANGED <<items, replica, index, asked, swept, writes>>

-----------------------------------------------------------------------------
(***************************************************************************)
(* The re-scan of one link: what scanActive returned is looked up at Safe  *)
(* Browsing, and the verdict stored.                                       *)
(***************************************************************************)

Scan(r) ==
  /\ request[r].pc = "idle"
  /\ \E s \in Slugs : \E i \in Readable(s) :
       /\ i # NoItem /\ i.status = "active"
       /\ Goto(r, [Idle EXCEPT !.pc = "check", !.url = i.url, !.slug = s])
  /\ Say(NoAnswer)
  /\ UNCHANGED <<items, replica, index, asked, swept, writes>>

StoreVerdict(r) ==
  /\ request[r].pc = "check"
  /\ \E status \in {Keep, "disabled"} :
       Update(request[r].slug, [NoPatch EXCEPT !.checked = request[r].url, !.status = status])
  /\ End(r)
  /\ Say(NoAnswer)
  /\ UNCHANGED <<replica, index, swept>>

-----------------------------------------------------------------------------
(***************************************************************************)
(* DynamoDB, and time.                                                     *)
(***************************************************************************)

Replicate(s) ==
  /\ replica[s] # items[s]
  /\ replica' = [replica EXCEPT ![s] = items[s]]
  /\ Say(NoAnswer)
  /\ UNCHANGED <<items, index, request, asked, swept, writes>>

Reindex(s) ==
  /\ index' = [index EXCEPT ![s] = IF items[s] = NoItem THEN NoKey ELSE items[s].key]
  /\ index' # index
  /\ Say(NoAnswer)
  /\ UNCHANGED <<items, replica, request, asked, swept, writes>>

Expired(i) == [i EXCEPT !.expires = "past"]

\* A version of the item may have had an earlier expiry than the next one.
Expire(s) ==
  /\ \E i \in Readable(s) :
       /\ i # NoItem /\ i.expires = "ahead"
       /\ items' = [items EXCEPT ![s] = IF @ = i THEN Expired(i) ELSE @]
       /\ replica' = [replica EXCEPT ![s] = IF @ = i THEN Expired(i) ELSE @]
  /\ Say(NoAnswer)
  /\ UNCHANGED <<index, request, asked, swept, writes>>

\* DynamoDB deletes the item: create-table.ts enables ttl, and toItem gave the item
\* one, whatever its status is now. The slug is free.
Sweep(s) ==
  /\ items[s] # NoItem /\ items[s].expires = "past"
  /\ items' = [items EXCEPT ![s] = NoItem]
  /\ asked' = [asked EXCEPT ![s] = Keep]
  /\ swept' = swept \cup {s}
  /\ Say(NoAnswer)
  /\ UNCHANGED <<replica, index, request, writes>>

-----------------------------------------------------------------------------
Create(r) == BeginCreate(r) \/ QueryIndex(r) \/ Lookup(r) \/ Put(r) \/ Collide(r)
Edit(r) == Load(r) \/ Patch(r) \/ SoftDelete(r)
Rescan(r) == Scan(r) \/ StoreVerdict(r)
Operate(s) == SetStatus(s, "disabled") \/ SetStatus(s, "active")
Table(s) == Replicate(s) \/ Reindex(s) \/ Expire(s) \/ Sweep(s)

Next ==
  \/ \E r \in Requests : Create(r) \/ Edit(r) \/ Rescan(r) \/ Fail(r)
  \/ \E s \in Slugs : Operate(s) \/ Table(s)

Spec == Init /\ [][Next]_vars

-----------------------------------------------------------------------------
(***************************************************************************)
(* Properties.                                                             *)
(***************************************************************************)

RequestStates == [pc : {"idle", "query", "lookup", "put", "patch", "delete", "check"},
                  owner : Owners \cup {Keep}, url : Urls \cup {Keep},
                  slug : Slugs \cup {Keep}, attempt : 0..(SlugAttempts - 1)]

\* Every variable has its type; among them, no create draws a slug more than
\* slugAttempts times.
TypeOK ==
  /\ items \in [Slugs -> Item \cup {NoItem}]
  /\ replica \in [Slugs -> Item \cup {NoItem}]
  /\ index \in [Slugs -> Keys \cup {NoKey}]
  /\ request \in [Requests -> RequestStates]
  /\ answer \in [owner : Owners, slug : Slugs, link : Item] \cup {NoAnswer}
  /\ asked \in [Slugs -> Statuses \cup {Keep}]
  /\ swept \in SUBSET Slugs
  /\ writes \in 0..MaxWrites

\* The dedup key an item is indexed under is always that of the URL it has, whatever
\* edits, re-scans and operators change it at the same time; and it is that of its
\* owner, unless DynamoDB has deleted an item of the slug: then it may be that of the
\* owner before, whose edit was under way.
KeyFollowsUrl ==
  \A s \in Slugs : items[s] # NoItem =>
    /\ items[s].key[2] = items[s].url
    /\ s \notin swept => items[s].key[1] = items[s].owner

\* A link has the status that was last asked for: an edit of something else, by a
\* request that read the link before, does not undo a disable or a delete.
StatusAsAsked == \A s \in Slugs : items[s] # NoItem => items[s].status = asked[s]

\* A create that is answered with an existing link is answered with one of its
\* owner's, although the index and the item it leads to are read at different times
\* and either may be out of date: "a global dedup would hand user A the slug that user
\* B created" (hash.ts). It fails where a slug is given twice, against "the row survives
\* so the slug is never recycled" (link-repository.ts): once DynamoDB has deleted the
\* item of an expired link, the slug is free, and the index may still have it.
DedupWithinOwner == answer # NoAnswer => answer.link.owner = answer.owner

\* There is no other way to another owner's link than a slug of which DynamoDB has
\* deleted the item: neither a lagging index or replica, nor a deletion or an edit
\* between the two reads.
DedupUntilSwept ==
  answer # NoAnswer => answer.link.owner = answer.owner \/ answer.slug \in swept

\* A slug once given stays with its owner, deleted links included, while its item is
\* there: no two creates that draw it at the same time, no repeated put and no edit
\* give it to somebody else. The item goes only with DynamoDB's deletion of an expired
\* one, and then the slug is free.
SlugsKept ==
  [][\A s \in Slugs : items[s] # NoItem =>
       \/ items'[s] # NoItem /\ items'[s].owner = items[s].owner
       \/ items'[s] = NoItem /\ items[s].expires = "past" /\ s \in swept']_vars
=============================================================================
