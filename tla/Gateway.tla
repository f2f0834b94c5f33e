------------------------------ MODULE Gateway -------------------------------
(***************************************************************************)
(* The public gateway between a bucket and the caches in front of it.  A   *)
(* request for an alias reads the manifest, then the object it names; the  *)
(* answer says how long it may be cached, and a cache that has something   *)
(* already asks whether it is still right.  Meanwhile publishers move the  *)
(* aliases, operators delete the objects no alias names any more, and      *)
(* temporary objects reach their expiry and are deleted.                   *)
(*                                                                         *)
(* Simplifications.  A key stands for its content: asset keys contain the  *)
(* checksum and upload keys a fresh id, so what is under a key never       *)
(* changes, and the entity tag is the key.  Time passes in ticks, Second   *)
(* of which are the unit of max-age.  There is one cache, with an entry    *)
(* per URL, which keeps what it is allowed to keep; an answer reaches it   *)
(* within HandlerTime of the request, and the cache asks by entity tag, as *)
(* one that was given a tag does.  The temporary objects are there from    *)
(* the start, and so are assets that are already published.  Requests that *)
(* are refused for their method or path, ranges the object does not have,  *)
(* and permanent files, which may be cached for ever, change nothing that  *)
(* is modelled.                                                            *)
(*                                                                         *)
(* A definition XSlip is X with a plausible mistake, which the property    *)
(* named beside it must notice; no specification uses it.                  *)
(***************************************************************************)
EXTENDS Integers

CONSTANTS
  Aliases,      \* URLs of global aliases
  Assets,       \* keys of global assets
  Temps,        \* keys, and URLs, of temporary public objects
  NoKey,
  Requests,     \* requests that can be in progress together
  Second,       \* ticks in a second
  AliasMaxAge,  \* max-age of an alias, in seconds (300)
  AliasStale,   \* its stale-while-revalidate (86400)
  MaxPublishes, \* bound on the publications
  HandlerTime,  \* longest time from a request to the delivery of its answer
  Expiries,     \* when a temporary object may expire
  Horizon       \* the last instant of the clock

Urls == Aliases \cup Temps
Keys == Assets \cup Temps

ASSUME GatewayAssumption ==
  /\ Aliases \cap Temps = {}
  /\ Aliases \cap Assets = {}
  /\ Assets \cap Temps = {}
  /\ NoKey \notin Urls \cup Keys
  /\ Second \in Nat \ {0}
  /\ AliasMaxAge \in Nat
  /\ AliasStale \in Nat
  /\ MaxPublishes \in Nat
  /\ HandlerTime \in Nat
  /\ Expiries \subseteq Nat
  /\ Horizon \in Nat

VARIABLES
  now,       \* the clock
  manifest,  \* the asset each alias names
  stored,    \* the keys that hold an object
  expiry,    \* raildrop-expires-at of a temporary object
  unnamed,   \* when an alias last stopped naming an asset
  published, \* publications so far
  request,   \* the requests in progress
  cache      \* what the cache holds for each URL, and until when

objects == <<manifest, stored, expiry, unnamed, published>>
vars == <<now, objects, request, cache>>

Never == -1

(* prior: the content the cache asks about; life: for how many seconds the *)
(* answer may be served, as fresh and then while it is revalidated.        *)
Idle == [at |-> "idle", url |-> NoKey, key |-> NoKey, prior |-> NoKey,
         began |-> 0, life |-> 0, code |-> "none"]

NotCached == [body |-> NoKey, until |-> 0]

(* max-age and stale-while-revalidate of an alias.                         *)
AliasSeconds == AliasMaxAge + AliasStale

Codes == {"none", "ok", "not modified", "not found", "unavailable"}

Frames == [at : {"idle", "resolve", "fetch", "judge", "stamp", "answer"},
           url : Urls \cup {NoKey}, key : Keys \cup {NoKey},
           prior : Keys \cup {NoKey}, began : Nat,
           life : Nat, code : Codes]

Entries == [body : Keys \cup {NoKey}, until : Nat]

TypeOK ==
  /\ now \in Nat
  /\ manifest \in [Aliases -> Assets \cup {NoKey}]
  /\ stored \in SUBSET Keys
  /\ expiry \in [Temps -> Nat]
  /\ unnamed \in [Aliases -> [Assets -> Nat \cup {Never}]]
  /\ published \in 0..MaxPublishes
  /\ request \in [Requests -> Frames]
  /\ cache \in [Urls -> Entries]

Init ==
  /\ now = 0
  /\ manifest \in [Aliases -> Assets \cup {NoKey}]
  /\ stored = (Temps \cup {manifest[a] : a \in Aliases}) \ {NoKey}
  /\ expiry \in [Temps -> Expiries]
  /\ unnamed = [a \in Aliases |-> [k \in Assets |-> Never]]
  /\ published = 0
  /\ request = [r \in Requests |-> Idle]
  /\ cache = [u \in Urls |-> NotCached]

-----------------------------------------------------------------------------
(***************************************************************************)
(* A request, from storage call to storage call.                           *)
(***************************************************************************)
Goto(r, frame) ==
  /\ request' = [request EXCEPT ![r] = frame]
  /\ UNCHANGED <<now, objects, cache>>

Reply(r, c) ==
  Goto(r, [request[r] EXCEPT !.at = "answer", !.prior = NoKey, !.code = c])

(* The cache asks for the URL; if it has something, whether it is right.   *)
Arrive(r, u) ==
  LET asked == [Idle EXCEPT !.url = u, !.prior = cache[u].body, !.began = now] IN
  /\ request[r].at = "idle"
  /\ IF u \in Aliases THEN Goto(r, [asked EXCEPT !.at = "resolve"])
                      ELSE Goto(r, [asked EXCEPT !.at = "fetch", !.key = u])

Resolve(r) ==
  /\ request[r].at = "resolve"
  /\ IF manifest[request[r].url] = NoKey
       THEN Reply(r, "not found")
       ELSE Goto(r, [request[r] EXCEPT !.at = "fetch",
                                       !.key = manifest[request[r].url]])

(* A manifest that cannot be read is answered like an alias that is not in *)
(* it.                                                                     *)
ResolveFails(r) ==
  /\ request[r].at = "resolve"
  /\ Reply(r, "not found")

(* ServedInTime: the last second is rounded up.                            *)
SecondsLeftSlip(k) ==
  IF expiry[k] > now THEN (expiry[k] - now + Second - 1) \div Second ELSE 0

(* The clock is read again: the expiry may have come in between.           *)
SecondsLeft(k) == IF expiry[k] > now THEN (expiry[k] - now) \div Second ELSE 0

Life(u, k) == IF u \in Aliases THEN AliasSeconds ELSE SecondsLeft(k)

(* AliasIsBounded: the tag is compared with that of the URL, which an      *)
(* alias keeps, and not with that of the object.                           *)
NotModifiedSlip(c) == c.prior # NoKey

(* The object has the entity tag of what the cache has.                    *)
NotModified(c) == c.prior = c.key

Answered(c) == [c EXCEPT !.at = "answer", !.life = Life(c.url, c.key),
                         !.code = IF NotModified(c) THEN "not modified" ELSE "ok"]

(* An asset has no expiry: its answer depends on nothing that may change   *)
(* after it was read.                                                      *)
Fetch(r) ==
  /\ request[r].at = "fetch"
  /\ CASE request[r].key \notin stored -> Reply(r, "not found")
       [] request[r].key \in stored \cap Temps
            -> Goto(r, [request[r] EXCEPT !.at = "judge"])
       [] OTHER -> Goto(r, Answered(request[r]))

FetchFails(r) ==
  /\ request[r].at = "fetch"
  /\ Reply(r, "unavailable")

Judge(r) ==
  /\ request[r].at = "judge"
  /\ IF expiry[request[r].key] <= now
       THEN Reply(r, "not found")
       ELSE Goto(r, [request[r] EXCEPT !.at = "stamp"])

Stamp(r) ==
  /\ request[r].at = "stamp"
  /\ Goto(r, Answered(request[r]))

-----------------------------------------------------------------------------
(***************************************************************************)
(* The cache.  It counts the age of an answer from when it received it.    *)
(***************************************************************************)
Entry(c, body) == [body |-> body, until |-> now + c.life * Second]

(* "Not modified" renews what the cache asked about, if it still has it;   *)
(* errors are not stored (no-store).                                       *)
Deliver(r) ==
  LET c == request[r] IN
  /\ c.at = "answer"
  /\ cache' = CASE c.code = "ok" -> [cache EXCEPT ![c.url] = Entry(c, c.key)]
                [] c.code = "not modified" /\ cache[c.url].body = c.prior
                     -> [cache EXCEPT ![c.url] = Entry(c, c.prior)]
                [] OTHER -> cache
  /\ request' = [request EXCEPT ![r] = Idle]
  /\ UNCHANGED <<now, objects>>

(* The client goes away, the process dies, or a part of the object or an   *)
(* answer to HEAD is of no use to the cache.                               *)
Drop(r) ==
  /\ request[r].at # "idle"
  /\ Goto(r, Idle)

-----------------------------------------------------------------------------
(***************************************************************************)
(* What changes in the bucket meanwhile.                                   *)
(***************************************************************************)
(* AliasIsServed: the alias is moved while the asset is still uploading.   *)
PublishSlip(a, k) ==
  /\ k # manifest[a]
  /\ published < MaxPublishes
  /\ published' = published + 1
  /\ manifest' = [manifest EXCEPT ![a] = k]
  /\ unnamed' = IF manifest[a] = NoKey THEN unnamed
                ELSE [unnamed EXCEPT ![a][manifest[a]] = now]
  /\ UNCHANGED <<now, stored, expiry, request, cache>>

(* A publisher stores the asset unless it is there, and then moves the     *)
(* alias to it, or takes the alias away (GlobalAssets has the details).    *)
Publish(a, k) ==
  /\ k # manifest[a]
  /\ published < MaxPublishes
  /\ published' = published + 1
  /\ manifest' = [manifest EXCEPT ![a] = k]
  /\ stored' = stored \cup ({k} \ {NoKey})
  /\ unnamed' = IF manifest[a] = NoKey THEN unnamed
                ELSE [unnamed EXCEPT ![a][manifest[a]] = now]
  /\ UNCHANGED <<now, expiry, request, cache>>

(* An operator deletes an orphaned asset, at a time when no publisher is   *)
(* at work that may name it again.                                         *)
DeleteOrphan(k) ==
  /\ k \in stored \cap Assets
  /\ \A a \in Aliases : manifest[a] # k
  /\ stored' = stored \ {k}
  /\ UNCHANGED <<now, manifest, expiry, unnamed, published, request, cache>>

(* Cleanup deletes it once it has expired, the application when it likes.  *)
DeleteTemporary(t) ==
  /\ t \in stored
  /\ stored' = stored \ {t}
  /\ UNCHANGED <<now, manifest, expiry, unnamed, published, request, cache>>

Tick ==
  /\ now < Horizon
  /\ \A r \in Requests : request[r].at # "idle" => now < request[r].began + HandlerTime
  /\ now' = now + 1
  /\ UNCHANGED <<objects, request, cache>>

-----------------------------------------------------------------------------
Serve(r) ==
  \/ \E u \in Urls : Arrive(r, u)
  \/ Resolve(r) \/ ResolveFails(r) \/ Fetch(r) \/ FetchFails(r)
  \/ Judge(r) \/ Stamp(r) \/ Deliver(r) \/ Drop(r)

Others ==
  \/ \E a \in Aliases, k \in Assets \cup {NoKey} : Publish(a, k)
  \/ \E k \in Assets : DeleteOrphan(k)
  \/ \E t \in Temps : DeleteTemporary(t)

Next == Tick \/ Others \/ \E r \in Requests : Serve(r)

Spec == Init /\ [][Next]_vars
-----------------------------------------------------------------------------
(***************************************************************************)
(* Properties                                                              *)
(***************************************************************************)
Found(c) == c.code \in {"ok", "not modified"}

Servable(u) == cache[u].body # NoKey /\ now < cache[u].until

(* After its expiry a temporary object is served to nobody, whether by the *)
(* gateway or by a cache that was told how long it may keep it, but for    *)
(* the time the answer was under way.                                      *)
ServedInTime ==
  \A t \in Temps :
    /\ \A r \in Requests : Found(request[r]) /\ request[r].url = t
                           => request[r].began < expiry[t]
    /\ Servable(t) => now < expiry[t] + HandlerTime

(* How old an answer for an alias may be.                                  *)
AliasLife == HandlerTime + AliasSeconds * Second

(* "Aliases use short caches with stale-while-revalidate": whatever is     *)
(* served for an alias is what it names, or what it named within that time *)
(* of now, however requests overlap and answers overtake one another, and  *)
(* however often the cache is told that nothing changed.                   *)
AliasIsBounded ==
  \A a \in Aliases : Servable(a) =>
    \/ cache[a].body = manifest[a]
    \/ /\ cache[a].body \in Assets
       /\ unnamed[a][cache[a].body] # Never
       /\ unnamed[a][cache[a].body] + AliasLife > now

(* A request for an alias that was resolved ends without its object only   *)
(* if the alias stopped naming it while the request was under way.         *)
AliasIsServed ==
  \A r \in Requests :
    LET c == request[r] IN
    c.url \in Aliases /\ c.key # NoKey /\ c.code = "not found"
      => unnamed[c.url][c.key] >= c.began
-----------------------------------------------------------------------------
(***************************************************************************)
(* The invariant these follow from.                                        *)
(***************************************************************************)
PublishedIsStored ==
  \A a \in Aliases : manifest[a] # NoKey => manifest[a] \in stored

(* A request is as old as the handler allows, and a key it works on was    *)
(* right for its URL when it arrived or later.                             *)
RequestOK(c) ==
  /\ c.at # "idle" => c.url \in Urls /\ c.began <= now /\ now <= c.began + HandlerTime
  /\ c.at \in {"judge", "stamp"} => c.url \in Temps
  /\ c.at = "fetch" => c.key # NoKey
  /\ c.at \in {"idle", "resolve"} => c.key = NoKey
  /\ c.at # "answer" => c.code = "none"
  /\ c.url \in Temps /\ (c.at = "stamp" \/ Found(c)) => c.began < expiry[c.url]
  /\ c.url \in Temps => c.key = c.url
  /\ c.url \in Aliases /\ c.key # NoKey
       => /\ c.key \in Assets
          /\ manifest[c.url] = c.key \/ unnamed[c.url][c.key] >= c.began

(* What an answer says of its content and its life, and what its absence   *)
(* means.                                                                  *)
AnswerOK(c) ==
  /\ Found(c) =>
       /\ c.key # NoKey
       /\ c.code = "not modified" => c.prior = c.key
       /\ c.url \in Aliases => c.life = AliasSeconds
       /\ c.url \in Temps => c.life = 0 \/ c.began + c.life * Second <= expiry[c.url]
  /\ c.code = "not found" /\ c.url \in Aliases /\ c.key # NoKey
       => unnamed[c.url][c.key] >= c.began

RequestsHold == \A r \in Requests : RequestOK(request[r]) /\ AnswerOK(request[r])

CacheHolds ==
  /\ \A a \in Aliases :
       cache[a].body # NoKey =>
         /\ cache[a].body \in Assets
         /\ cache[a].until <= now + AliasSeconds * Second
         /\ \/ manifest[a] = cache[a].body
            \/ /\ unnamed[a][cache[a].body] # Never
               /\ unnamed[a][cache[a].body] + AliasLife >= cache[a].until
  /\ \A t \in Temps :
       cache[t].until <= now \/ cache[t].until <= expiry[t] + HandlerTime

GatewayInv ==
  TypeOK /\ PublishedIsStored /\ RequestsHold /\ CacheHolds
=============================================================================
