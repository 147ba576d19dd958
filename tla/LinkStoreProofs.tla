-------------------------- MODULE LinkStoreProofs --------------------------
(***************************************************************************)
(* Proofs about LinkStore, for any slugs, URLs, owners, requests and       *)
(* bounds.                                                                 *)
(***************************************************************************)
EXTENDS LinkStore, TLAPS

-----------------------------------------------------------------------------
(***************************************************************************)
(* Writes.                                                                 *)
(***************************************************************************)

Patches == [url : Urls \cup {Keep}, key : Keys \cup {Keep}, status : Statuses \cup {Keep},
            expires : Expiries \cup {Keep}, checked : Urls \cup {Keep}]

\* A patch changes what it names and nothing else, never the owner.
LEMMA PatchedFields ==
  ASSUME NEW i \in Item, NEW p \in Patches
  PROVE  /\ Patched(i, p) \in Item
         /\ Patched(i, p).owner = i.owner
         /\ Patched(i, p).url = Or(p.url, i.url)
         /\ Patched(i, p).key = Or(p.key, i.key)
         /\ Patched(i, p).status = Or(p.status, i.status)
         /\ Patched(i, p).expires = Or(p.expires, i.expires)
BY DEF Patched, Item, Patches, Or

\* The patches of the handlers.
LEMMA HandlerPatches ==
  /\ NoPatch \in Patches
  /\ \A status \in Statuses : [NoPatch EXCEPT !.status = status] \in Patches
  /\ \A url \in Urls, status \in Statuses \cup {Keep} :
       [NoPatch EXCEPT !.checked = url, !.status = status] \in Patches
  /\ \A owner \in Owners, url \in Urls \cup {Keep}, status \in {"active", "disabled", Keep},
        expires \in {"ahead", Keep} :
       PatchOf(owner, url, status, expires) \in Patches
<1>1. NoPatch \in Patches
  BY DEF NoPatch, Patches
<1>2. \A status \in Statuses : [NoPatch EXCEPT !.status = status] \in Patches
  BY DEF NoPatch, Patches
<1>3. \A url \in Urls, status \in Statuses \cup {Keep} :
        [NoPatch EXCEPT !.checked = url, !.status = status] \in Patches
  BY DEF NoPatch, Patches
<1>4. ASSUME NEW owner \in Owners, NEW url \in Urls \cup {Keep},
             NEW status \in {"active", "disabled", Keep}, NEW expires \in {"ahead", Keep}
      PROVE  PatchOf(owner, url, status, expires) \in Patches
  <2>1. status \in Statuses \cup {Keep} /\ expires \in Expiries \cup {Keep}
    BY DEF Statuses, Expiries
  <2>2. (IF url = Keep THEN Keep ELSE DedupKey(owner, url)) \in Keys \cup {Keep}
    BY DEF DedupKey, Keys
  <2>3. QED  BY <2>1, <2>2 DEF PatchOf, Patches
<1>5. QED  BY <1>1, <1>2, <1>3, <1>4

\* The item create() stores.
NewItem(owner, url) ==
  [owner |-> owner, url |-> url, key |-> DedupKey(owner, url),
   status |-> "active", expires |-> "ahead", checked |-> url]

LEMMA NewItemFields ==
  ASSUME NEW owner \in Owners, NEW url \in Urls
  PROVE  NewItem(owner, url) \in Item
BY DEF NewItem, Item, Keys, DedupKey, Statuses, Expiries

LEMMA WriteEffect ==
  ASSUME TypeOK, NEW s \in Slugs, NEW item \in Item, NEW status \in Statuses \cup {Keep},
         Write(s, item, status)
  PROVE  /\ items' \in [Slugs -> Item \cup {NoItem}] /\ items'[s] = item
         /\ asked' \in [Slugs -> Statuses \cup {Keep}]
         /\ asked'[s] = Or(status, asked[s])
         /\ \A t \in Slugs : t # s => items'[t] = items[t] /\ asked'[t] = asked[t]
         /\ writes' \in 0..MaxWrites
<1>1. /\ items \in [Slugs -> Item \cup {NoItem}] /\ asked \in [Slugs -> Statuses \cup {Keep}]
      /\ writes \in Nat
  BY DEF TypeOK
<1>2. /\ items' = [items EXCEPT ![s] = item]
      /\ asked' = [asked EXCEPT ![s] = IF status = Keep THEN @ ELSE status]
  BY DEF Write
<1>3. writes' \in 0..MaxWrites
  BY <1>1, StoreConstants DEF Write
<1>4. QED  BY <1>1, <1>2, <1>3 DEF Or

-----------------------------------------------------------------------------
(***************************************************************************)
(* What a request in progress holds.                                       *)
(***************************************************************************)

Fields ==
  \A r \in Requests :
    /\ request[r].pc \in {"query", "lookup", "put"} =>
         request[r].owner \in Owners /\ request[r].url \in Urls
    /\ request[r].pc \in {"lookup", "patch", "delete", "check"} => request[r].slug \in Slugs
    /\ request[r].pc \in {"patch", "delete"} => request[r].owner \in Owners
    /\ request[r].pc = "check" => request[r].url \in Urls

Typed == TypeOK /\ Fields

\* The state a request may go to.
Holds(state) ==
  /\ state \in RequestStates
  /\ state.pc \in {"query", "lookup", "put"} => state.owner \in Owners /\ state.url \in Urls
  /\ state.pc \in {"lookup", "patch", "delete", "check"} => state.slug \in Slugs
  /\ state.pc \in {"patch", "delete"} => state.owner \in Owners
  /\ state.pc = "check" => state.url \in Urls

LEMMA GotoTyped ==
  ASSUME Typed, NEW r \in Requests, NEW state, Holds(state), Goto(r, state)
  PROVE  /\ request' \in [Requests -> RequestStates] /\ Fields'
         /\ request'[r] = state
         /\ \A q \in Requests : q # r => request'[q] = request[q]
<1>1. request \in [Requests -> RequestStates] /\ state \in RequestStates
  BY DEF Typed, TypeOK, Holds
<1>2. request' = [request EXCEPT ![r] = state]
  BY DEF Goto
<1>3. /\ request' \in [Requests -> RequestStates] /\ request'[r] = state
      /\ \A q \in Requests : q # r => request'[q] = request[q]
  BY <1>1, <1>2
<1>4. Fields'
  BY <1>3 DEF Typed, Fields, Holds
<1>5. QED  BY <1>3, <1>4

LEMMA IdleHolds == Idle \in RequestStates /\ Holds(Idle)
BY StoreConstants DEF Holds, Idle, RequestStates

-----------------------------------------------------------------------------
(***************************************************************************)
(* Types and statuses.                                                     *)
(***************************************************************************)

\* A step that only moves a request on.
LEMMA MoveTyped ==
  ASSUME Typed, NEW r \in Requests, NEW state, Holds(state), Goto(r, state),
         answer' = NoAnswer, UNCHANGED <<items, replica, index, asked, swept, writes>>
  PROVE  Typed'
<1>1. request' \in [Requests -> RequestStates] /\ Fields'
  BY GotoTyped
<1>2. QED  BY <1>1 DEF Typed, TypeOK

\* A step that writes.
LEMMA WriteTyped ==
  ASSUME Typed, NEW s \in Slugs, NEW item \in Item, NEW status \in Statuses \cup {Keep},
         Write(s, item, status), answer' = NoAnswer, UNCHANGED <<replica, index, swept>>,
         request' \in [Requests -> RequestStates] /\ Fields'
  PROVE  Typed'
<1>1. /\ items' \in [Slugs -> Item \cup {NoItem}]
      /\ asked' \in [Slugs -> Statuses \cup {Keep}]
      /\ writes' \in 0..MaxWrites
  BY WriteEffect DEF Typed
<1>2. QED  BY <1>1 DEF Typed, TypeOK

LEMMA UpdateTyped ==
  ASSUME Typed, NEW s \in Slugs, NEW p \in Patches, Update(s, p), answer' = NoAnswer,
         UNCHANGED <<replica, index, swept>>, UNCHANGED request \/ \E r \in Requests : End(r)
  PROVE  Typed'
<1>1. items[s] \in Item
  BY DEF Update, Typed, TypeOK
<1>2. Patched(items[s], p) \in Item /\ p.status \in Statuses \cup {Keep}
  BY <1>1, PatchedFields DEF Patches
<1>3. request' \in [Requests -> RequestStates] /\ Fields'
  <2>1. CASE UNCHANGED request
    BY <2>1 DEF Typed, TypeOK, Fields
  <2>2. ASSUME NEW r \in Requests, End(r)
        PROVE  request' \in [Requests -> RequestStates] /\ Fields'
    BY <2>2, IdleHolds, GotoTyped DEF End
  <2>3. QED  BY <2>1, <2>2
<1>4. QED  BY <1>2, <1>3, WriteTyped DEF Update

\* The steps that update an item, and with which patch.
LEMMA Updates ==
  ASSUME Typed
  PROVE  /\ \A r \in Requests : Patch(r) \/ SoftDelete(r) \/ StoreVerdict(r) =>
              \E p \in Patches : /\ request[r].slug \in Slugs /\ Update(request[r].slug, p)
                                 /\ End(r) /\ answer' = NoAnswer
                                 /\ UNCHANGED <<replica, index, swept>>
         /\ \A s \in Slugs : Operate(s) =>
              \E p \in Patches : /\ Update(s, p) /\ answer' = NoAnswer
                                 /\ UNCHANGED <<replica, index, request, swept>>
<1>1. ASSUME NEW r \in Requests, Patch(r)
      PROVE  \E p \in Patches : /\ request[r].slug \in Slugs /\ Update(request[r].slug, p)
                                /\ End(r) /\ answer' = NoAnswer
                                /\ UNCHANGED <<replica, index, swept>>
  <2>1. request[r].slug \in Slugs /\ request[r].owner \in Owners
    BY <1>1 DEF Patch, Typed, Fields
  <2>2. PICK url \in Urls \cup {Keep}, status \in {"active", "disabled", Keep},
             expires \in {"ahead", Keep} :
          Update(request[r].slug, PatchOf(request[r].owner, url, status, expires))
    BY <1>1 DEF Patch
  <2>3. PatchOf(request[r].owner, url, status, expires) \in Patches
    BY <2>1, HandlerPatches
  <2>4. QED  BY <1>1, <2>1, <2>2, <2>3 DEF Patch, Say
<1>2. ASSUME NEW r \in Requests, SoftDelete(r)
      PROVE  \E p \in Patches : /\ request[r].slug \in Slugs /\ Update(request[r].slug, p)
                                /\ End(r) /\ answer' = NoAnswer
                                /\ UNCHANGED <<replica, index, swept>>
  <2>1. request[r].slug \in Slugs /\ "deleted" \in Statuses
    BY <1>2 DEF SoftDelete, Typed, Fields, Statuses
  <2>2. [NoPatch EXCEPT !.status = "deleted"] \in Patches
    BY <2>1, HandlerPatches
  <2>3. QED  BY <1>2, <2>1, <2>2 DEF SoftDelete, Say
<1>3. ASSUME NEW r \in Requests, StoreVerdict(r)
      PROVE  \E p \in Patches : /\ request[r].slug \in Slugs /\ Update(request[r].slug, p)
                                /\ End(r) /\ answer' = NoAnswer
                                /\ UNCHANGED <<replica, index, swept>>
  <2>1. request[r].slug \in Slugs /\ request[r].url \in Urls
    BY <1>3 DEF StoreVerdict, Typed, Fields
  <2>2. PICK status \in {Keep, "disabled"} :
          Update(request[r].slug, [NoPatch EXCEPT !.checked = request[r].url, !.status = status])
    BY <1>3 DEF StoreVerdict
  <2>3. status \in Statuses \cup {Keep}
    BY DEF Statuses
  <2>4. [NoPatch EXCEPT !.checked = request[r].url, !.status = status] \in Patches
    BY <2>1, <2>3, HandlerPatches
  <2>5. QED  BY <1>3, <2>1, <2>2, <2>4 DEF StoreVerdict, Say
<1>4. ASSUME NEW s \in Slugs, NEW status \in {"disabled", "active"}, SetStatus(s, status)
      PROVE  \E p \in Patches : /\ Update(s, p) /\ answer' = NoAnswer
                                /\ UNCHANGED <<replica, index, request, swept>>
  <2>1. status \in Statuses
    BY DEF Statuses
  <2>2. [NoPatch EXCEPT !.status = status] \in Patches
    BY <2>1, HandlerPatches
  <2>3. QED  BY <1>4, <2>2 DEF SetStatus, Say
<1>5. QED  BY <1>1, <1>2, <1>3, <1>4 DEF Operate

\* A create that stores an item.
LEMMA PutEffect ==
  ASSUME Typed, NEW r \in Requests, Put(r)
  PROVE  \E s \in Slugs :
           /\ items[s] = NoItem
           /\ NewItem(request[r].owner, request[r].url) \in Item
           /\ Write(s, NewItem(request[r].owner, request[r].url), "active")
<1>1. request[r].owner \in Owners /\ request[r].url \in Urls
  BY DEF Put, Typed, Fields
<1>2. QED  BY <1>1, NewItemFields DEF Put, NewItem

LEMMA InitTyped == Init => Typed /\ StatusAsAsked
<1> SUFFICES ASSUME Init
             PROVE  Typed /\ StatusAsAsked
  OBVIOUS
<1>1. request \in [Requests -> RequestStates] /\ Fields
  BY IdleHolds DEF Init, Holds, Fields
<1>2. writes \in 0..MaxWrites
  BY StoreConstants DEF Init
<1>3. QED  BY <1>1, <1>2 DEF Init, Typed, TypeOK, StatusAsAsked

\* What follows an attempt to store an item.
LEMMA EndOrDrawAgain ==
  ASSUME Typed, NEW r \in Requests, request[r].pc = "put", End(r) \/ DrawAgain(r)
  PROVE  \E state : Holds(state) /\ Goto(r, state)
<1>1. CASE End(r)
  BY <1>1, IdleHolds DEF End
<1>2. CASE DrawAgain(r)
  <2>1. request[r] \in RequestStates /\ request[r].owner \in Owners /\ request[r].url \in Urls
    BY DEF Typed, TypeOK, Fields
  <2>2. request[r].attempt + 1 \in 0..(SlugAttempts - 1)
    BY <1>2, <2>1, StoreConstants DEF DrawAgain, RequestStates
  <2>3. Holds([request[r] EXCEPT !.attempt = @ + 1])
    BY <2>1, <2>2 DEF Holds, RequestStates
  <2>4. QED  BY <1>2, <2>3 DEF DrawAgain
<1>3. QED  BY <1>1, <1>2

LEMMA CreateTyped ==
  ASSUME Typed, NEW r \in Requests, Create(r)
  PROVE  Typed'
<1>0. request[r] \in RequestStates
  BY DEF Typed, TypeOK
<1>1. CASE BeginCreate(r)
  <2>1. PICK owner \in Owners, url \in Urls :
          Goto(r, [Idle EXCEPT !.pc = "query", !.owner = owner, !.url = url])
    BY <1>1 DEF BeginCreate
  <2>2. Holds([Idle EXCEPT !.pc = "query", !.owner = owner, !.url = url])
    BY IdleHolds DEF Holds, RequestStates
  <2>3. QED  BY <1>1, <2>1, <2>2, MoveTyped DEF BeginCreate, Say
<1>2. CASE QueryIndex(r)
  <2>1. request[r].owner \in Owners /\ request[r].url \in Urls
    BY <1>2 DEF QueryIndex, Typed, Fields
  <2>2. Holds([request[r] EXCEPT !.pc = "put"])
    BY <1>0, <2>1 DEF Holds, RequestStates
  <2>3. \A s \in Slugs : Holds([request[r] EXCEPT !.pc = "lookup", !.slug = s])
    BY <1>0, <2>1 DEF Holds, RequestStates
  <2>4. \A key : Indexed(key) \subseteq Slugs
    BY DEF Indexed
  <2>5. QED  BY <1>2, <2>2, <2>3, <2>4, MoveTyped DEF QueryIndex, Say
<1>3. CASE Lookup(r)
  <2>1. /\ request[r].owner \in Owners /\ request[r].url \in Urls
        /\ request[r].slug \in Slugs
    BY <1>3 DEF Lookup, Typed, Fields
  <2>2. PICK i \in Readable(request[r].slug) :
          IF Live(i)
            THEN /\ Say([owner |-> request[r].owner, slug |-> request[r].slug, link |-> i])
                 /\ End(r)
            ELSE /\ Say(NoAnswer)
                 /\ Goto(r, [request[r] EXCEPT !.pc = "put", !.slug = Keep])
    BY <1>3 DEF Lookup
  <2>3. CASE Live(i)
    <3>1. i \in Item
      BY <2>1, <2>3 DEF Live, Readable, Typed, TypeOK
    <3>2. answer' \in [owner : Owners, slug : Slugs, link : Item]
      BY <2>1, <2>2, <2>3, <3>1 DEF Say
    <3>3. request' \in [Requests -> RequestStates] /\ Fields'
      BY <2>2, <2>3, IdleHolds, GotoTyped DEF End
    <3>4. QED  BY <1>3, <3>2, <3>3 DEF Lookup, Typed, TypeOK
  <2>4. CASE ~Live(i)
    <3>1. Holds([request[r] EXCEPT !.pc = "put", !.slug = Keep])
      BY <1>0, <2>1 DEF Holds, RequestStates
    <3>2. QED  BY <1>3, <2>2, <2>4, <3>1, MoveTyped DEF Lookup, Say
  <2>5. QED  BY <2>3, <2>4
<1>4. CASE Put(r)
  <2>1. PICK s \in Slugs :
          /\ NewItem(request[r].owner, request[r].url) \in Item
          /\ Write(s, NewItem(request[r].owner, request[r].url), "active")
    BY <1>4, PutEffect
  <2>2. "active" \in Statuses \cup {Keep}
    BY DEF Statuses
  <2>3. request' \in [Requests -> RequestStates] /\ Fields'
    BY <1>4, EndOrDrawAgain, GotoTyped DEF Put
  <2>4. QED  BY <1>4, <2>1, <2>2, <2>3, WriteTyped DEF Put, Say
<1>5. CASE Collide(r)
  BY <1>5, EndOrDrawAgain, MoveTyped DEF Collide, Say
<1>6. QED  BY <1>1, <1>2, <1>3, <1>4, <1>5 DEF Create

LEMMA EditTyped ==
  ASSUME Typed, NEW r \in Requests, Edit(r) \/ Rescan(r) \/ Fail(r)
  PROVE  Typed'
<1>1. CASE Load(r)
  <2>1. PICK s \in Slugs, next \in {"patch", "delete"} : \E i \in Readable(s) :
          /\ i # NoItem /\ i.status # "deleted"
          /\ Goto(r, [Idle EXCEPT !.pc = next, !.owner = i.owner, !.slug = s])
    BY <1>1 DEF Load
  <2>2. PICK i \in Readable(s) :
          /\ i # NoItem
          /\ Goto(r, [Idle EXCEPT !.pc = next, !.owner = i.owner, !.slug = s])
    BY <2>1
  <2>3. i.owner \in Owners
    BY <2>2 DEF Readable, Typed, TypeOK, Item
  <2>4. Holds([Idle EXCEPT !.pc = next, !.owner = i.owner, !.slug = s])
    BY <2>3, IdleHolds DEF Holds, RequestStates
  <2>5. QED  BY <1>1, <2>2, <2>4, MoveTyped DEF Load, Say
<1>2. CASE Patch(r) \/ SoftDelete(r) \/ StoreVerdict(r)
  <2>1. PICK p \in Patches : /\ request[r].slug \in Slugs /\ Update(request[r].slug, p)
                             /\ End(r) /\ answer' = NoAnswer
                             /\ UNCHANGED <<replica, index, swept>>
    BY <1>2, Updates
  <2>2. QED  BY <2>1, UpdateTyped
<1>3. CASE Scan(r)
  <2>1. PICK s \in Slugs : \E i \in Readable(s) :
          /\ i # NoItem /\ i.status = "active"
          /\ Goto(r, [Idle EXCEPT !.pc = "check", !.url = i.url, !.slug = s])
    BY <1>3 DEF Scan
  <2>2. PICK i \in Readable(s) :
          /\ i # NoItem
          /\ Goto(r, [Idle EXCEPT !.pc = "check", !.url = i.url, !.slug = s])
    BY <2>1
  <2>3. i.url \in Urls
    BY <2>2 DEF Readable, Typed, TypeOK, Item
  <2>4. Holds([Idle EXCEPT !.pc = "check", !.url = i.url, !.slug = s])
    BY <2>3, IdleHolds DEF Holds, RequestStates
  <2>5. QED  BY <1>3, <2>2, <2>4, MoveTyped DEF Scan, Say
<1>4. CASE Fail(r)
  BY <1>4, IdleHolds, MoveTyped DEF Fail, End, Say
<1>5. QED  BY <1>1, <1>2, <1>3, <1>4 DEF Edit, Rescan

\* Expiring changes neither whether a version is there nor its other fields.
SameButExpiry(new, old) ==
  /\ new = NoItem <=> old = NoItem
  /\ old # NoItem => new.owner = old.owner /\ new.url = old.url
                       /\ new.key = old.key /\ new.status = old.status

LEMMA ExpireEffect ==
  ASSUME TypeOK, NEW s \in Slugs, Expire(s)
  PROVE  /\ items' \in [Slugs -> Item \cup {NoItem}]
         /\ replica' \in [Slugs -> Item \cup {NoItem}]
         /\ \A t \in Slugs : /\ SameButExpiry(items'[t], items[t])
                             /\ SameButExpiry(replica'[t], replica[t])
<1>1. items \in [Slugs -> Item \cup {NoItem}] /\ replica \in [Slugs -> Item \cup {NoItem}]
  BY DEF TypeOK
<1>2. PICK i \in Readable(s) :
        /\ i # NoItem
        /\ items' = [items EXCEPT ![s] = IF @ = i THEN Expired(i) ELSE @]
        /\ replica' = [replica EXCEPT ![s] = IF @ = i THEN Expired(i) ELSE @]
  BY DEF Expire
<1>3. i \in Item
  BY <1>1, <1>2 DEF Readable
<1>4. Expired(i) \in Item /\ SameButExpiry(Expired(i), i)
  BY <1>2, <1>3, NoItemIsNone DEF Expired, Item, Expiries, SameButExpiry
<1>5. \A old : SameButExpiry(old, old)
  BY DEF SameButExpiry
<1>6. QED  BY <1>1, <1>2, <1>4, <1>5

LEMMA TableTyped ==
  ASSUME Typed, NEW s \in Slugs, Operate(s) \/ Table(s)
  PROVE  Typed'
<1>1. CASE Operate(s)
  <2>1. PICK p \in Patches : /\ Update(s, p) /\ answer' = NoAnswer
                             /\ UNCHANGED <<replica, index, request, swept>>
    BY <1>1, Updates
  <2>2. QED  BY <2>1, UpdateTyped
<1>2. CASE Replicate(s)
  BY <1>2 DEF Replicate, Typed, TypeOK, Fields, Say
<1>3. CASE Reindex(s)
  <2>1. (IF items[s] = NoItem THEN NoKey ELSE items[s].key) \in Keys \cup {NoKey}
    BY DEF Typed, TypeOK, Item
  <2>2. QED  BY <1>3, <2>1 DEF Reindex, Typed, TypeOK, Fields, Say
<1>4. CASE Expire(s)
  <2>1. /\ items' \in [Slugs -> Item \cup {NoItem}]
        /\ replica' \in [Slugs -> Item \cup {NoItem}]
    BY <1>4, ExpireEffect DEF Typed
  <2>2. QED  BY <1>4, <2>1 DEF Expire, Typed, TypeOK, Fields, Say
<1>5. CASE Sweep(s)
  BY <1>5 DEF Sweep, Typed, TypeOK, Fields, Say
<1>6. QED  BY <1>1, <1>2, <1>3, <1>4, <1>5 DEF Table

LEMMA NextTyped == Typed /\ [Next]_vars => Typed'
<1> SUFFICES ASSUME Typed, [Next]_vars
             PROVE  Typed'
  OBVIOUS
<1>1. CASE UNCHANGED vars
  BY <1>1 DEF vars, Typed, TypeOK, Fields
<1>2. CASE Next
  BY <1>2, CreateTyped, EditTyped, TableTyped DEF Next
<1>3. QED  BY <1>1, <1>2

\* Every variable of the table and its requests always has its type: no item is
\* ever stored without a field, and no create draws more than slugAttempts slugs.
THEOREM StoreTypeCorrect == Spec => []TypeOK
<1>1. Typed => TypeOK
  BY DEF Typed
<1>2. QED  BY <1>1, InitTyped, NextTyped, PTL DEF Spec

-----------------------------------------------------------------------------
(***************************************************************************)
(* Statuses: each write stores the status it names, or the one that was    *)
(* stored.                                                                 *)
(***************************************************************************)

LEMMA WriteStatus ==
  ASSUME TypeOK, StatusAsAsked, NEW s \in Slugs, NEW item \in Item,
         NEW status \in Statuses \cup {Keep}, Write(s, item, status),
         status # Keep => item.status = status,
         status = Keep => items[s] # NoItem /\ item.status = items[s].status
  PROVE  StatusAsAsked'
<1>1. /\ items'[s] = item /\ asked'[s] = Or(status, asked[s])
      /\ \A t \in Slugs : t # s => items'[t] = items[t] /\ asked'[t] = asked[t]
  BY WriteEffect
<1>2. item.status = asked'[s]
  BY <1>1 DEF StatusAsAsked, Or
<1>3. QED  BY <1>1, <1>2 DEF StatusAsAsked

LEMMA UpdateStatus ==
  ASSUME TypeOK, StatusAsAsked, NEW s \in Slugs, NEW p \in Patches, Update(s, p)
  PROVE  StatusAsAsked'
<1>1. items[s] # NoItem /\ items[s] \in Item /\ p.status \in Statuses \cup {Keep}
  BY DEF Update, TypeOK, Patches
<1>2. /\ Patched(items[s], p) \in Item
      /\ Patched(items[s], p).status = Or(p.status, items[s].status)
  BY <1>1, PatchedFields
<1>3. Write(s, Patched(items[s], p), p.status)
  BY DEF Update
<1>4. QED  BY <1>1, <1>2, <1>3, WriteStatus DEF Or

LEMMA NextStatus == Typed /\ StatusAsAsked /\ [Next]_vars => StatusAsAsked'
<1> SUFFICES ASSUME Typed, StatusAsAsked, [Next]_vars
             PROVE  StatusAsAsked'
  OBVIOUS
<1>1. ASSUME NEW r \in Requests, Patch(r) \/ SoftDelete(r) \/ StoreVerdict(r)
      PROVE  StatusAsAsked'
  BY <1>1, Updates, UpdateStatus DEF Typed
<1>2. ASSUME NEW s \in Slugs, Operate(s)
      PROVE  StatusAsAsked'
  BY <1>2, Updates, UpdateStatus DEF Typed
<1>3. ASSUME NEW r \in Requests, Put(r)
      PROVE  StatusAsAsked'
  <2>1. PICK s \in Slugs :
          /\ NewItem(request[r].owner, request[r].url) \in Item
          /\ Write(s, NewItem(request[r].owner, request[r].url), "active")
    BY <1>3, PutEffect
  <2>2. /\ "active" \in Statuses /\ "active" # Keep
        /\ NewItem(request[r].owner, request[r].url).status = "active"
    BY KeepIsNone DEF Statuses, NewItem
  <2>3. QED  BY <2>1, <2>2, WriteStatus DEF Typed
<1>4. ASSUME NEW s \in Slugs, Expire(s)
      PROVE  StatusAsAsked'
  <2>1. \A t \in Slugs : SameButExpiry(items'[t], items[t])
    BY <1>4, ExpireEffect DEF Typed
  <2>2. asked' = asked
    BY <1>4 DEF Expire
  <2>3. QED  BY <2>1, <2>2 DEF StatusAsAsked, SameButExpiry
<1>5. ASSUME NEW s \in Slugs, Sweep(s)
      PROVE  StatusAsAsked'
  BY <1>5 DEF Sweep, StatusAsAsked, Typed, TypeOK
<1>6. CASE UNCHANGED <<items, asked>>
  BY <1>6 DEF StatusAsAsked
<1>7. ASSUME NEW r \in Requests,
             BeginCreate(r) \/ QueryIndex(r) \/ Lookup(r) \/ Collide(r) \/ Load(r) \/ Scan(r) \/ Fail(r)
      PROVE  UNCHANGED <<items, asked>>
  BY <1>7 DEF BeginCreate, QueryIndex, Lookup, Collide, Load, Scan, Fail
<1>8. ASSUME NEW s \in Slugs, Replicate(s) \/ Reindex(s)
      PROVE  UNCHANGED <<items, asked>>
  BY <1>8 DEF Replicate, Reindex
<1>9. UNCHANGED vars => UNCHANGED <<items, asked>>
  BY DEF vars
<1>10. QED  BY <1>1, <1>2, <1>3, <1>4, <1>5, <1>6, <1>7, <1>8, <1>9
          DEF Next, Create, Edit, Rescan, Table

\* No interleaving of requests, operators and re-scans undoes a disable or a
\* delete that a later request did not ask to undo.
THEOREM StatusIsTheOneAskedFor == Spec => []StatusAsAsked
BY InitTyped, NextTyped, NextStatus, PTL DEF Spec

-----------------------------------------------------------------------------
(***************************************************************************)
(* Owners.                                                                 *)
(***************************************************************************)

Kept(s) ==
  \/ items[s] = NoItem
  \/ items'[s] # NoItem /\ items'[s].owner = items[s].owner
  \/ items'[s] = NoItem /\ items[s].expires = "past" /\ s \in swept'

LEMMA WriteKeeps ==
  ASSUME TypeOK, NEW s \in Slugs, NEW item \in Item, NEW status \in Statuses \cup {Keep},
         Write(s, item, status), items[s] # NoItem => item.owner = items[s].owner
  PROVE  \A t \in Slugs : Kept(t)
<1>1. items'[s] = item /\ \A t \in Slugs : t # s => items'[t] = items[t]
  BY WriteEffect
<1>2. QED  BY <1>1, NoItemIsNone DEF Kept

LEMMA UpdateKeeps ==
  ASSUME TypeOK, NEW s \in Slugs, NEW p \in Patches, Update(s, p)
  PROVE  \A t \in Slugs : Kept(t)
<1>1. items[s] \in Item /\ p.status \in Statuses \cup {Keep}
  BY DEF Update, TypeOK, Patches
<1>2. Patched(items[s], p) \in Item /\ Patched(items[s], p).owner = items[s].owner
  BY <1>1, PatchedFields
<1>3. QED  BY <1>1, <1>2, WriteKeeps DEF Update

LEMMA NextKeeps == Typed /\ [Next]_vars => \A s \in Slugs : Kept(s)
<1> SUFFICES ASSUME Typed, [Next]_vars
             PROVE  \A s \in Slugs : Kept(s)
  OBVIOUS
<1>1. ASSUME NEW r \in Requests, Patch(r) \/ SoftDelete(r) \/ StoreVerdict(r)
      PROVE  \A s \in Slugs : Kept(s)
  BY <1>1, Updates, UpdateKeeps DEF Typed
<1>2. ASSUME NEW s \in Slugs, Operate(s)
      PROVE  \A t \in Slugs : Kept(t)
  BY <1>2, Updates, UpdateKeeps DEF Typed
<1>3. ASSUME NEW r \in Requests, Put(r)
      PROVE  \A s \in Slugs : Kept(s)
  <2>1. PICK s \in Slugs :
          /\ items[s] = NoItem
          /\ NewItem(request[r].owner, request[r].url) \in Item
          /\ Write(s, NewItem(request[r].owner, request[r].url), "active")
    BY <1>3, PutEffect
  <2>2. "active" \in Statuses
    BY DEF Statuses
  <2>3. QED  BY <2>1, <2>2, WriteKeeps DEF Typed
<1>4. ASSUME NEW s \in Slugs, Expire(s)
      PROVE  \A t \in Slugs : Kept(t)
  <2>1. \A t \in Slugs : SameButExpiry(items'[t], items[t])
    BY <1>4, ExpireEffect DEF Typed
  <2>2. QED  BY <2>1 DEF Kept, SameButExpiry
<1>5. ASSUME NEW s \in Slugs, Sweep(s)
      PROVE  \A t \in Slugs : Kept(t)
  BY <1>5 DEF Sweep, Kept, Typed, TypeOK
<1>6. CASE UNCHANGED items
  BY <1>6 DEF Kept
<1>7. ASSUME NEW r \in Requests,
             BeginCreate(r) \/ QueryIndex(r) \/ Lookup(r) \/ Collide(r) \/ Load(r) \/ Scan(r) \/ Fail(r)
      PROVE  UNCHANGED items
  BY <1>7 DEF BeginCreate, QueryIndex, Lookup, Collide, Load, Scan, Fail
<1>8. ASSUME NEW s \in Slugs, Replicate(s) \/ Reindex(s)
      PROVE  UNCHANGED items
  BY <1>8 DEF Replicate, Reindex
<1>9. UNCHANGED vars => UNCHANGED items
  BY DEF vars
<1>10. QED  BY <1>1, <1>2, <1>3, <1>4, <1>5, <1>6, <1>7, <1>8, <1>9
          DEF Next, Create, Edit, Rescan, Table

\* A slug leaves its owner only if DynamoDB deletes the item of an expired link;
\* no race of creates, edits and deletes takes it away.
THEOREM SlugsStayWithTheirOwners == Spec => SlugsKept
<1>1. Typed /\ [Next]_vars =>
        [\A s \in Slugs : items[s] # NoItem =>
           \/ items'[s] # NoItem /\ items'[s].owner = items[s].owner
           \/ items'[s] = NoItem /\ items[s].expires = "past" /\ s \in swept']_vars
  BY NextKeeps DEF Kept
<1>2. QED  BY <1>1, InitTyped, NextTyped, PTL DEF Spec, SlugsKept

-----------------------------------------------------------------------------
(***************************************************************************)
(* Keys and owners. The item of a slug, an old version of it, its index    *)
(* entry and the requests that have found it all name an owner, and they   *)
(* are read and written at different times. They name the same one until   *)
(* DynamoDB deletes an item of the slug.                                   *)
(***************************************************************************)

\* Something that a request may read or act on says that the slug is the owner's.
Claims(s, o) ==
  \/ items[s] # NoItem /\ items[s].owner = o
  \/ replica[s] # NoItem /\ replica[s].owner = o
  \/ index[s] # NoKey /\ index[s][1] = o
  \/ \E r \in Requests :
       /\ request[r].pc \in {"lookup", "patch", "delete"}
       /\ request[r].slug = s /\ request[r].owner = o

\* No slug that was not swept is claimed for two owners, or without an item.
Owned ==
  \A s \in Slugs \ swept, o, p \in Owners : Claims(s, o) /\ Claims(s, p) => o = p
Standing ==
  \A s \in Slugs \ swept, o \in Owners : Claims(s, o) => items[s] # NoItem

Agreed == Typed /\ KeyFollowsUrl /\ Owned /\ Standing /\ DedupUntilSwept

LEMMA InitAgreed == Init => Agreed
<1> SUFFICES ASSUME Init
             PROVE  Agreed
  OBVIOUS
<1>1. Typed
  BY InitTyped
<1>2. Owned /\ Standing
  BY DEF Init, Owned, Standing, Claims, Idle
<1>3. KeyFollowsUrl /\ DedupUntilSwept
  BY DEF Init, KeyFollowsUrl, DedupUntilSwept
<1>4. QED  BY <1>1, <1>2, <1>3 DEF Agreed

LEMMA NextSwept == [Next]_vars => swept \subseteq swept'
BY DEF Next, vars, Create, Edit, Rescan, Fail, BeginCreate, QueryIndex, Lookup, Put, Collide,
       Load, Patch, SoftDelete, Scan, StoreVerdict, Operate, SetStatus, Table, Replicate,
       Reindex, Expire, Sweep

\* A write that keeps URL and key together.
LEMMA WriteKeyed ==
  ASSUME TypeOK, KeyFollowsUrl, NEW s \in Slugs, NEW item \in Item,
         NEW status \in Statuses \cup {Keep}, Write(s, item, status),
         item.key[2] = item.url, s \notin swept => item.key[1] = item.owner,
         swept' = swept
  PROVE  KeyFollowsUrl'
<1>1. items'[s] = item /\ \A t \in Slugs : t # s => items'[t] = items[t]
  BY WriteEffect
<1>2. QED  BY <1>1 DEF KeyFollowsUrl

LEMMA UpdateKeyed ==
  ASSUME TypeOK, KeyFollowsUrl, NEW s \in Slugs, NEW p \in Patches, Update(s, p),
         swept' = swept, p.url = Keep => p.key = Keep,
         p.url # Keep => /\ p.key \in Keys /\ p.key[2] = p.url
                         /\ s \notin swept => p.key[1] = items[s].owner
  PROVE  KeyFollowsUrl'
<1>1. /\ items[s] \in Item /\ items[s].key[2] = items[s].url
      /\ s \notin swept => items[s].key[1] = items[s].owner
  BY DEF Update, TypeOK, KeyFollowsUrl
<1>2. /\ Patched(items[s], p) \in Item
      /\ Patched(items[s], p).owner = items[s].owner
      /\ Patched(items[s], p).url = Or(p.url, items[s].url)
      /\ Patched(items[s], p).key = Or(p.key, items[s].key)
  BY <1>1, PatchedFields
<1>3. p.url # Keep => p.key # Keep
  BY KeepIsNone
<1>4. LET new == Patched(items[s], p)
      IN  new.key[2] = new.url /\ (s \notin swept => new.key[1] = new.owner)
  BY <1>1, <1>2, <1>3 DEF Or
<1>5. p.status \in Statuses \cup {Keep}
  BY DEF Patches
<1>6. QED  BY <1>2, <1>4, <1>5, WriteKeyed DEF Update

LEMMA NextKeyed == Typed /\ KeyFollowsUrl /\ Owned /\ [Next]_vars => KeyFollowsUrl'
<1> SUFFICES ASSUME Typed, KeyFollowsUrl, Owned, [Next]_vars
             PROVE  KeyFollowsUrl'
  OBVIOUS
<1>1. ASSUME NEW r \in Requests, Patch(r)
      PROVE  KeyFollowsUrl'
  <2>1. request[r].slug \in Slugs /\ request[r].owner \in Owners
    BY <1>1 DEF Patch, Typed, Fields
  <2>2. request[r].slug \notin swept => items[request[r].slug].owner = request[r].owner
    <3>1. items[request[r].slug] # NoItem
      BY <1>1 DEF Patch, Update
    <3>2. items[request[r].slug].owner \in Owners
      BY <2>1, <3>1 DEF Typed, TypeOK, Item
    <3>3. /\ Claims(request[r].slug, items[request[r].slug].owner)
          /\ Claims(request[r].slug, request[r].owner)
      BY <1>1, <3>1 DEF Patch, Claims
    <3>4. QED  BY <2>1, <3>2, <3>3 DEF Owned
  <2>3. PICK url \in Urls \cup {Keep}, status \in {"active", "disabled", Keep},
             expires \in {"ahead", Keep} :
          Update(request[r].slug, PatchOf(request[r].owner, url, status, expires))
    BY <1>1 DEF Patch
  <2>4. PatchOf(request[r].owner, url, status, expires) \in Patches
    BY <2>1, HandlerPatches
  <2>5. LET p == PatchOf(request[r].owner, url, status, expires)
        IN  /\ p.url = Keep => p.key = Keep
            /\ p.url # Keep => /\ p.key \in Keys /\ p.key[2] = p.url
                               /\ p.key[1] = request[r].owner
    BY <2>1 DEF PatchOf, DedupKey, Keys
  <2>6. swept' = swept
    BY <1>1 DEF Patch
  <2>7. QED  BY <2>1, <2>2, <2>3, <2>4, <2>5, <2>6, UpdateKeyed DEF Typed
<1>2. ASSUME NEW s \in Slugs, NEW status \in Statuses,
             Update(s, [NoPatch EXCEPT !.status = status]), swept' = swept
      PROVE  KeyFollowsUrl'
  <2>1. [NoPatch EXCEPT !.status = status] \in Patches
    BY HandlerPatches
  <2>2. LET p == [NoPatch EXCEPT !.status = status]
        IN  p.url = Keep /\ p.key = Keep
    BY DEF NoPatch
  <2>3. QED  BY <1>2, <2>1, <2>2, UpdateKeyed DEF Typed
<1>3. ASSUME NEW r \in Requests, SoftDelete(r)
      PROVE  KeyFollowsUrl'
  <2>1. request[r].slug \in Slugs /\ "deleted" \in Statuses
    BY <1>3 DEF SoftDelete, Typed, Fields, Statuses
  <2>2. QED  BY <1>2, <1>3, <2>1 DEF SoftDelete
<1>4. ASSUME NEW s \in Slugs, Operate(s)
      PROVE  KeyFollowsUrl'
  <2>1. "disabled" \in Statuses /\ "active" \in Statuses
    BY DEF Statuses
  <2>2. QED  BY <1>2, <1>4, <2>1 DEF Operate, SetStatus
<1>5. ASSUME NEW r \in Requests, StoreVerdict(r)
      PROVE  KeyFollowsUrl'
  <2>1. request[r].slug \in Slugs /\ request[r].url \in Urls
    BY <1>5 DEF StoreVerdict, Typed, Fields
  <2>2. PICK status \in {Keep, "disabled"} :
          Update(request[r].slug, [NoPatch EXCEPT !.checked = request[r].url, !.status = status])
    BY <1>5 DEF StoreVerdict
  <2>3. status \in Statuses \cup {Keep}
    BY DEF Statuses
  <2>4. [NoPatch EXCEPT !.checked = request[r].url, !.status = status] \in Patches
    BY <2>1, <2>3, HandlerPatches
  <2>5. LET p == [NoPatch EXCEPT !.checked = request[r].url, !.status = status]
        IN  p.url = Keep /\ p.key = Keep
    BY DEF NoPatch
  <2>6. swept' = swept
    BY <1>5 DEF StoreVerdict
  <2>7. QED  BY <2>1, <2>2, <2>4, <2>5, <2>6, UpdateKeyed DEF Typed
<1>6. ASSUME NEW r \in Requests, Put(r)
      PROVE  KeyFollowsUrl'
  <2>1. PICK s \in Slugs :
          /\ NewItem(request[r].owner, request[r].url) \in Item
          /\ Write(s, NewItem(request[r].owner, request[r].url), "active")
    BY <1>6, PutEffect
  <2>2. LET item == NewItem(request[r].owner, request[r].url)
        IN  item.key[2] = item.url /\ item.key[1] = item.owner
    BY DEF NewItem, DedupKey
  <2>3. "active" \in Statuses /\ swept' = swept
    BY <1>6 DEF Statuses, Put
  <2>4. QED  BY <2>1, <2>2, <2>3, WriteKeyed DEF Typed
<1>7. ASSUME NEW s \in Slugs, Expire(s)
      PROVE  KeyFollowsUrl'
  <2>1. \A t \in Slugs : SameButExpiry(items'[t], items[t])
    BY <1>7, ExpireEffect DEF Typed
  <2>2. swept' = swept
    BY <1>7 DEF Expire
  <2>3. QED  BY <2>1, <2>2 DEF KeyFollowsUrl, SameButExpiry
<1>8. ASSUME NEW s \in Slugs, Sweep(s)
      PROVE  KeyFollowsUrl'
  BY <1>8 DEF Sweep, KeyFollowsUrl, Typed, TypeOK
<1>9. CASE UNCHANGED <<items, swept>>
  BY <1>9 DEF KeyFollowsUrl
<1>10. ASSUME NEW r \in Requests,
             BeginCreate(r) \/ QueryIndex(r) \/ Lookup(r) \/ Collide(r) \/ Load(r) \/ Scan(r) \/ Fail(r)
      PROVE  UNCHANGED <<items, swept>>
  BY <1>10 DEF BeginCreate, QueryIndex, Lookup, Collide, Load, Scan, Fail
<1>11. ASSUME NEW s \in Slugs, Replicate(s) \/ Reindex(s)
      PROVE  UNCHANGED <<items, swept>>
  BY <1>11 DEF Replicate, Reindex
<1>12. UNCHANGED vars => UNCHANGED <<items, swept>>
  BY DEF vars
<1>13. QED
  BY <1>1, <1>3, <1>4, <1>5, <1>6, <1>7, <1>8, <1>9, <1>10, <1>11, <1>12
     DEF Next, Create, Edit, Rescan, Table

-----------------------------------------------------------------------------
(***************************************************************************)
(* No step but the put of a slug makes a new claim.                        *)
(***************************************************************************)

LEMMA ItemClaims ==
  ASSUME Typed, [Next]_vars, NEW s \in Slugs, items[s] # NoItem, items'[s] # NoItem
  PROVE  Claims(s, items'[s].owner)
BY NextKeeps DEF Kept, Claims

LEMMA ReplicaClaims ==
  ASSUME Typed, [Next]_vars, NEW s \in Slugs, replica'[s] # NoItem
  PROVE  Claims(s, replica'[s].owner)
<1>0. TypeOK
  BY DEF Typed
<1>1. ASSUME NEW t \in Slugs, Replicate(t)
      PROVE  Claims(s, replica'[s].owner)
  BY <1>0, <1>1 DEF Replicate, TypeOK, Claims
<1>2. ASSUME NEW t \in Slugs, Expire(t)
      PROVE  Claims(s, replica'[s].owner)
  <2>1. SameButExpiry(replica'[s], replica[s])
    BY <1>0, <1>2, ExpireEffect
  <2>2. QED  BY <2>1 DEF SameButExpiry, Claims
<1>3. CASE UNCHANGED replica
  BY <1>3 DEF Claims
<1>4. ASSUME NEW r \in Requests, Create(r) \/ Edit(r) \/ Rescan(r) \/ Fail(r)
      PROVE  UNCHANGED replica
  BY <1>4 DEF Create, Edit, Rescan, Fail, BeginCreate, QueryIndex, Lookup, Put, Collide,
              Load, Patch, SoftDelete, Scan, StoreVerdict
<1>5. ASSUME NEW t \in Slugs, Operate(t) \/ Reindex(t) \/ Sweep(t)
      PROVE  UNCHANGED replica
  BY <1>5 DEF Operate, SetStatus, Reindex, Sweep
<1>6. UNCHANGED vars => UNCHANGED replica
  BY DEF vars
<1>7. QED  BY <1>1, <1>2, <1>3, <1>4, <1>5, <1>6 DEF Next, Table

LEMMA IndexClaims ==
  ASSUME Typed, KeyFollowsUrl, [Next]_vars, NEW s \in Slugs \ swept, index'[s] # NoKey
  PROVE  Claims(s, index'[s][1])
<1>0. TypeOK
  BY DEF Typed
<1>1. ASSUME NEW t \in Slugs, Reindex(t)
      PROVE  Claims(s, index'[s][1])
  <2>1. index' = [index EXCEPT ![t] = IF items[t] = NoItem THEN NoKey ELSE items[t].key]
    BY <1>1 DEF Reindex
  <2>2. CASE t = s
    <3>1. index'[s] = IF items[s] = NoItem THEN NoKey ELSE items[s].key
      BY <1>0, <2>1, <2>2 DEF TypeOK
    <3>2. items[s] # NoItem /\ items[s].key[1] = items[s].owner
      BY <3>1 DEF KeyFollowsUrl
    <3>3. QED  BY <3>1, <3>2 DEF Claims
  <2>3. CASE t # s
    BY <1>0, <2>1, <2>3 DEF TypeOK, Claims
  <2>4. QED  BY <2>2, <2>3
<1>2. CASE UNCHANGED index
  BY <1>2 DEF Claims
<1>3. ASSUME NEW r \in Requests, Create(r) \/ Edit(r) \/ Rescan(r) \/ Fail(r)
      PROVE  UNCHANGED index
  BY <1>3 DEF Create, Edit, Rescan, Fail, BeginCreate, QueryIndex, Lookup, Put, Collide,
              Load, Patch, SoftDelete, Scan, StoreVerdict
<1>4. ASSUME NEW t \in Slugs, Operate(t) \/ Replicate(t) \/ Expire(t) \/ Sweep(t)
      PROVE  UNCHANGED index
  BY <1>4 DEF Operate, SetStatus, Replicate, Expire, Sweep
<1>5. UNCHANGED vars => UNCHANGED index
  BY DEF vars
<1>6. QED  BY <1>1, <1>2, <1>3, <1>4, <1>5 DEF Next, Table

\* The slug in the state of a request, if it has found one, is claimed for the
\* owner it acts for.
Points(state) ==
  state.pc \in {"lookup", "patch", "delete"} => Claims(state.slug, state.owner)

LEMMA RequestClaims ==
  ASSUME Typed, [Next]_vars, NEW r \in Requests
  PROVE  Points(request'[r])
<1>0. request \in [Requests -> RequestStates] /\ request[r] \in RequestStates
  BY DEF Typed, TypeOK
<1>1. SUFFICES request'[r] = request[r] \/ Points(request'[r])
  BY DEF Points, Claims
<1>2. ASSUME NEW q \in Requests, NEW state, Goto(q, state), Points(state)
      PROVE  request'[r] = request[r] \/ Points(request'[r])
  BY <1>0, <1>2 DEF Goto
<1>3. Points(Idle)
  BY DEF Points, Idle
<1>4. ASSUME NEW q \in Requests, BeginCreate(q)
      PROVE  \E state : Goto(q, state) /\ Points(state)
  <2>1. \A owner, url : Points([Idle EXCEPT !.pc = "query", !.owner = owner, !.url = url])
    BY DEF Points, Idle
  <2>2. QED  BY <1>4, <2>1 DEF BeginCreate
<1>5. ASSUME NEW q \in Requests, QueryIndex(q)
      PROVE  \E state : Goto(q, state) /\ Points(state)
  <2>1. /\ request[q] \in RequestStates
        /\ request[q].owner \in Owners /\ request[q].url \in Urls
    BY <1>0, <1>5 DEF QueryIndex, Typed, Fields
  <2>2. Points([request[q] EXCEPT !.pc = "put"])
    BY <2>1 DEF Points, RequestStates
  <2>3. ASSUME NEW s \in Indexed(DedupKey(request[q].owner, request[q].url))
        PROVE  Points([request[q] EXCEPT !.pc = "lookup", !.slug = s])
    <3>1. s \in Slugs /\ index[s] = <<request[q].owner, request[q].url>>
      BY <2>3 DEF Indexed, DedupKey
    <3>2. index[s] # NoKey
      BY <2>1, <3>1, NoKeyIsNone DEF Keys
    <3>3. Claims(s, request[q].owner)
      BY <3>1, <3>2 DEF Claims
    <3>4. QED  BY <2>1, <3>3 DEF Points, RequestStates
  <2>4. QED  BY <1>5, <2>2, <2>3 DEF QueryIndex
<1>6. ASSUME NEW q \in Requests, Lookup(q)
      PROVE  \E state : Goto(q, state) /\ Points(state)
  <2>1. Points([request[q] EXCEPT !.pc = "put", !.slug = Keep])
    BY <1>0 DEF Points, RequestStates
  <2>2. QED  BY <1>3, <1>6, <2>1 DEF Lookup, End
<1>7. ASSUME NEW q \in Requests, Put(q) \/ Collide(q)
      PROVE  \E state : Goto(q, state) /\ Points(state)
  <2>1. request[q] \in RequestStates /\ request[q].pc = "put"
    BY <1>0, <1>7 DEF Put, Collide
  <2>2. Points([request[q] EXCEPT !.attempt = @ + 1])
    BY <2>1 DEF Points, RequestStates
  <2>3. QED  BY <1>3, <1>7, <2>2 DEF Put, Collide, DrawAgain, End
<1>8. ASSUME NEW q \in Requests, Load(q)
      PROVE  \E state : Goto(q, state) /\ Points(state)
  <2>1. PICK s \in Slugs, next \in {"patch", "delete"} : \E i \in Readable(s) :
          /\ i # NoItem /\ i.status # "deleted"
          /\ Goto(q, [Idle EXCEPT !.pc = next, !.owner = i.owner, !.slug = s])
    BY <1>8 DEF Load
  <2>2. PICK i \in Readable(s) :
          /\ i # NoItem
          /\ Goto(q, [Idle EXCEPT !.pc = next, !.owner = i.owner, !.slug = s])
    BY <2>1
  <2>3. Claims(s, i.owner)
    BY <2>2 DEF Readable, Claims
  <2>4. Points([Idle EXCEPT !.pc = next, !.owner = i.owner, !.slug = s])
    BY <2>3 DEF Points, Idle
  <2>5. QED  BY <2>2, <2>4
<1>9. ASSUME NEW q \in Requests, Scan(q)
      PROVE  \E state : Goto(q, state) /\ Points(state)
  <2>1. \A url, s : Points([Idle EXCEPT !.pc = "check", !.url = url, !.slug = s])
    BY DEF Points, Idle
  <2>2. QED  BY <1>9, <2>1 DEF Scan
<1>10. ASSUME NEW q \in Requests, Patch(q) \/ SoftDelete(q) \/ StoreVerdict(q) \/ Fail(q)
       PROVE  \E state : Goto(q, state) /\ Points(state)
  BY <1>3, <1>10 DEF Patch, SoftDelete, StoreVerdict, Fail, End
<1>11. ASSUME NEW s \in Slugs, Operate(s) \/ Table(s)
       PROVE  UNCHANGED request
  BY <1>11 DEF Operate, SetStatus, Table, Replicate, Reindex, Expire, Sweep
<1>12. UNCHANGED vars => UNCHANGED request
  BY DEF vars
<1>13. QED
  BY <1>2, <1>4, <1>5, <1>6, <1>7, <1>8, <1>9, <1>10, <1>11, <1>12 DEF Next, Create, Edit, Rescan

\* A claim is an old one, or it is that of the slug's new item.
LEMMA NextClaims ==
  ASSUME Typed, KeyFollowsUrl, [Next]_vars, NEW s \in Slugs \ swept, NEW o \in Owners,
         Claims(s, o)'
  PROVE  Claims(s, o) \/ (items[s] = NoItem /\ items'[s] # NoItem /\ items'[s].owner = o)
<1>1. CASE items'[s] # NoItem /\ items'[s].owner = o
  BY <1>1, ItemClaims
<1>2. CASE replica'[s] # NoItem /\ replica'[s].owner = o
  BY <1>2, ReplicaClaims
<1>3. CASE index'[s] # NoKey /\ index'[s][1] = o
  BY <1>3, IndexClaims
<1>4. ASSUME NEW r \in Requests, request'[r].pc \in {"lookup", "patch", "delete"},
             request'[r].slug = s, request'[r].owner = o
      PROVE  Claims(s, o)
  BY <1>4, RequestClaims DEF Points
<1>5. QED  BY <1>1, <1>2, <1>3, <1>4 DEF Claims

\* A slug that is free and was never swept is claimed for nobody when it is given, and
\* one that is not free is left alone.
LEMMA NextOwned ==
  Typed /\ KeyFollowsUrl /\ Owned /\ Standing /\ [Next]_vars => Owned' /\ Standing'
<1> SUFFICES ASSUME Typed, KeyFollowsUrl, Owned, Standing, [Next]_vars
             PROVE  Owned' /\ Standing'
  OBVIOUS
<1>1. \A s \in Slugs \ swept' : s \in Slugs \ swept
  BY NextSwept
<1>2. ASSUME NEW s \in Slugs \ swept', NEW o \in Owners, NEW p \in Owners,
             Claims(s, o)', Claims(s, p)'
      PROVE  o = p
  <2>1. CASE items[s] = NoItem
    <3>1. ~Claims(s, o) /\ ~Claims(s, p)
      BY <1>1, <2>1 DEF Standing
    <3>2. items'[s].owner = o /\ items'[s].owner = p
      BY <1>1, <1>2, <3>1, NextClaims
    <3>3. QED  BY <3>2
  <2>2. CASE items[s] # NoItem
    <3>1. Claims(s, o) /\ Claims(s, p)
      BY <1>1, <1>2, <2>2, NextClaims
    <3>2. QED  BY <1>1, <3>1 DEF Owned
  <2>3. QED  BY <2>1, <2>2
<1>3. ASSUME NEW s \in Slugs \ swept', NEW o \in Owners, Claims(s, o)'
      PROVE  items'[s] # NoItem
  <2>1. Claims(s, o) \/ items'[s] # NoItem
    BY <1>1, <1>3, NextClaims
  <2>2. items[s] # NoItem => items'[s] # NoItem
    BY <1>3, NextKeeps DEF Kept
  <2>3. QED  BY <1>1, <2>1, <2>2 DEF Standing
<1>4. QED  BY <1>2, <1>3 DEF Owned, Standing

LEMMA NextAnswer ==
  ASSUME Agreed, [Next]_vars
  PROVE  DedupUntilSwept'
<1>0. Typed /\ Owned /\ DedupUntilSwept
  BY DEF Agreed
<1>1. ASSUME NEW r \in Requests, Lookup(r)
      PROVE  DedupUntilSwept'
  <2>1. PICK i \in Readable(request[r].slug) :
          IF Live(i)
            THEN Say([owner |-> request[r].owner, slug |-> request[r].slug, link |-> i])
            ELSE Say(NoAnswer)
    BY <1>1 DEF Lookup
  <2>2. CASE Live(i)
    <3>1. /\ request[r].slug \in Slugs /\ request[r].owner \in Owners
          /\ Claims(request[r].slug, request[r].owner)
      BY <1>0, <1>1 DEF Lookup, Typed, Fields, Claims
    <3>2. request[r].slug \notin swept => i.owner = request[r].owner
      <4>1. i # NoItem /\ Claims(request[r].slug, i.owner)
        BY <2>2 DEF Readable, Live, Claims
      <4>2. i.owner \in Owners
        BY <1>0, <3>1, <4>1 DEF Readable, Typed, TypeOK, Item
      <4>3. QED  BY <1>0, <3>1, <4>1, <4>2 DEF Owned
    <3>3. answer' = [owner |-> request[r].owner, slug |-> request[r].slug, link |-> i]
      BY <2>1, <2>2 DEF Say
    <3>4. QED  BY <1>1, <3>2, <3>3 DEF DedupUntilSwept, Lookup
  <2>3. CASE ~Live(i)
    BY <2>1, <2>3 DEF Say, DedupUntilSwept
  <2>4. QED  BY <2>2, <2>3
<1>2. ASSUME NEW r \in Requests,
             BeginCreate(r) \/ QueryIndex(r) \/ Put(r) \/ Collide(r) \/ Edit(r) \/ Rescan(r) \/ Fail(r)
      PROVE  answer' = NoAnswer
  BY <1>2 DEF Edit, Rescan, Fail, BeginCreate, QueryIndex, Put, Collide,
              Load, Patch, SoftDelete, Scan, StoreVerdict, Say
<1>3. ASSUME NEW s \in Slugs, Operate(s) \/ Table(s)
      PROVE  answer' = NoAnswer
  BY <1>3 DEF Operate, SetStatus, Table, Replicate, Reindex, Expire, Sweep, Say
<1>4. CASE UNCHANGED vars
  BY <1>0, <1>4 DEF vars, DedupUntilSwept
<1>5. answer' = NoAnswer => DedupUntilSwept'
  BY DEF DedupUntilSwept
<1>6. QED  BY <1>1, <1>2, <1>3, <1>4, <1>5 DEF Next, Create

LEMMA NextAgreed == Agreed /\ [Next]_vars => Agreed'
BY NextTyped, NextKeyed, NextOwned, NextAnswer DEF Agreed

\* Through every interleaving of edits, re-scans and operators an item's dedup key is
\* that of its URL; and of its owner, until DynamoDB has deleted an item of its slug.
THEOREM KeyIsThatOfTheUrl == Spec => []KeyFollowsUrl
<1>1. Agreed => KeyFollowsUrl
  BY DEF Agreed
<1>2. QED  BY <1>1, InitAgreed, NextAgreed, PTL DEF Spec

\* However stale the index and the replica it read, a create is answered with a link
\* of another owner's only if DynamoDB has deleted an item of that link's slug.
THEOREM DedupStaysWithinTheOwner == Spec => []DedupUntilSwept
<1>1. Agreed => DedupUntilSwept
  BY DEF Agreed
<1>2. QED  BY <1>1, InitAgreed, NextAgreed, PTL DEF Spec
=============================================================================
