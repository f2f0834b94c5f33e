--------------------------- MODULE Gateway_proofs ---------------------------
(***************************************************************************)
(* Proofs about Gateway.  GatewayInv is inductive: a key a request works   *)
(* on is named by the alias, or stopped being named after the request      *)
(* arrived, and what the cache holds stopped being named less than a       *)
(* lifetime before the cache must let go of it.                            *)
(***************************************************************************)
EXTENDS Gateway, TLAPS

(* Dividing and multiplying again does not reach beyond the number.        *)
LEMMA WholeSeconds ==
  ASSUME NEW x \in Nat, NEW s \in Nat \ {0}
  PROVE  /\ x \div s \in Nat
         /\ (x \div s) * s \in Nat
         /\ (x \div s) * s <= x
  OBVIOUS

LEMMA NamesDiffer ==
  /\ Urls = Aliases \cup Temps
  /\ Keys = Assets \cup Temps
  /\ Aliases \cap Temps = {}
  /\ Assets \cap Temps = {}
  /\ NoKey \notin Urls
  /\ NoKey \notin Keys
  BY GatewayAssumption DEF GatewayAssumption, Urls, Keys

LEMMA LivesAreNumbers ==
  /\ Second \in Nat \ {0}
  /\ HandlerTime \in Nat
  /\ AliasSeconds \in Nat
  /\ AliasSeconds * Second \in Nat
  /\ AliasLife \in Nat
  /\ AliasLife = HandlerTime + AliasSeconds * Second
  <1>1. AliasSeconds \in Nat BY GatewayAssumption DEF GatewayAssumption, AliasSeconds
  <1>2. Second \in Nat \ {0} /\ HandlerTime \in Nat
    BY GatewayAssumption DEF GatewayAssumption
  <1>3. AliasSeconds * Second \in Nat BY <1>1, <1>2
  <1> QED BY <1>1, <1>2, <1>3 DEF AliasLife

LEMMA IdleIsFrame == Idle \in Frames
  BY DEF Idle, Frames, Codes

-----------------------------------------------------------------------------
LEMMA InitHolds == Init => GatewayInv
<1> SUFFICES ASSUME Init PROVE GatewayInv OBVIOUS
<1> USE DEF Init
<1>1. TypeOK
  <2>1. manifest \in [Aliases -> Assets \cup {NoKey}] /\ expiry \in [Temps -> Nat]
    BY GatewayAssumption DEF GatewayAssumption
  <2>2. stored \in SUBSET Keys BY <2>1, NamesDiffer
  <2>3. unnamed \in [Aliases -> [Assets -> Nat \cup {Never}]] OBVIOUS
  <2>4. request \in [Requests -> Frames] BY IdleIsFrame
  <2>5. cache \in [Urls -> Entries] BY DEF NotCached, Entries
  <2> QED BY <2>1, <2>2, <2>3, <2>4, <2>5, GatewayAssumption DEF TypeOK, GatewayAssumption
<1>2. PublishedIsStored BY DEF PublishedIsStored
<1>3. RequestsHold
  <2>1. RequestOK(Idle) BY NamesDiffer DEF RequestOK, Idle, Found
  <2>2. AnswerOK(Idle) BY DEF AnswerOK, Idle, Found
  <2> QED BY <2>1, <2>2 DEF RequestsHold
<1>4. CacheHolds BY NamesDiffer DEF CacheHolds, NotCached
<1> QED BY <1>1, <1>2, <1>3, <1>4 DEF GatewayInv

-----------------------------------------------------------------------------
(* A step that replaces one request by a frame that holds.                 *)
LEMMA GotoHolds ==
  ASSUME GatewayInv, NEW r \in Requests, NEW f \in Frames,
         RequestOK(f), AnswerOK(f), Goto(r, f)
  PROVE  GatewayInv'
<1>1. /\ request' = [request EXCEPT ![r] = f]
      /\ UNCHANGED <<now, manifest, stored, expiry, unnamed, published, cache>>
  BY DEF Goto, objects
<1>2. TypeOK' BY <1>1 DEF GatewayInv, TypeOK
<1>3. PublishedIsStored' BY <1>1 DEF GatewayInv, PublishedIsStored
<1>4. RequestsHold'
  <2> SUFFICES ASSUME NEW q \in Requests
               PROVE  RequestOK(request[q])' /\ AnswerOK(request[q])'
    BY DEF RequestsHold
  <2>1. request'[q] = IF q = r THEN f ELSE request[q]
    BY <1>1 DEF GatewayInv, TypeOK
  <2>2. RequestOK(request'[q]) /\ AnswerOK(request'[q])
    BY <2>1 DEF GatewayInv, RequestsHold
  <2>3. RequestOK(request[q])' BY <2>2, <1>1 DEF RequestOK, Found
  <2>4. AnswerOK(request[q])' BY <2>2, <1>1 DEF AnswerOK, Found
  <2> QED BY <2>3, <2>4
<1>5. CacheHolds' BY <1>1 DEF GatewayInv, CacheHolds
<1> QED BY <1>2, <1>3, <1>4, <1>5 DEF GatewayInv

(* What a frame is made of.                                                *)
LEMMA FrameFields ==
  ASSUME NEW c \in Frames
  PROVE  /\ c.url \in Urls \cup {NoKey} /\ c.key \in Keys \cup {NoKey}
         /\ c.prior \in Keys \cup {NoKey}
         /\ c.began \in Nat /\ c.life \in Nat /\ c.code \in Codes
         /\ c.at \in {"idle", "resolve", "fetch", "judge", "stamp", "answer"}
  BY DEF Frames

(* An error answer.                                                        *)
LEMMA ReplyHolds ==
  ASSUME GatewayInv, NEW r \in Requests, NEW e \in {"not found", "unavailable"},
         request[r].at # "idle", Reply(r, e),
         e = "not found" /\ request[r].url \in Aliases /\ request[r].key # NoKey
           => unnamed[request[r].url][request[r].key] >= request[r].began
  PROVE  GatewayInv'
<1> DEFINE c == request[r]
           f == [c EXCEPT !.at = "answer", !.prior = NoKey, !.code = e]
<1>1. c \in Frames /\ RequestOK(c) BY DEF GatewayInv, TypeOK, RequestsHold
<1>2. f \in Frames BY <1>1 DEF Frames, Codes
<1>3. /\ f.at = "answer" /\ f.code = e /\ f.url = c.url /\ f.key = c.key
      /\ f.began = c.began
  BY <1>1 DEF Frames
<1> HIDE DEF f
<1>4. RequestOK(f) BY <1>1, <1>3 DEF RequestOK, Found
<1>5. AnswerOK(f) BY <1>1, <1>3 DEF AnswerOK, Found
<1>6. Goto(r, f) BY DEF Reply, f
<1> QED BY <1>2, <1>4, <1>5, <1>6, GotoHolds

LEMMA ArriveHolds ==
  ASSUME GatewayInv, NEW r \in Requests, NEW u \in Urls, Arrive(r, u)
  PROVE  GatewayInv'
<1> DEFINE asked == [Idle EXCEPT !.url = u, !.prior = cache[u].body, !.began = now]
           f == IF u \in Aliases THEN [asked EXCEPT !.at = "resolve"]
                                 ELSE [asked EXCEPT !.at = "fetch", !.key = u]
<1>1. cache[u].body \in Keys \cup {NoKey} /\ now \in Nat
  BY DEF GatewayInv, TypeOK, Entries
<1>2. u \in Aliases \/ (u \in Temps /\ u \in Keys /\ u \notin Aliases) BY NamesDiffer
<1>3. f \in Frames BY <1>1, <1>2 DEF Frames, Idle, Codes
<1>4. /\ f.url = u /\ f.began = now /\ f.code = "none"
      /\ u \in Aliases => f.at = "resolve" /\ f.key = NoKey
      /\ u \notin Aliases => f.at = "fetch" /\ f.key = u
  BY DEF Idle
<1> HIDE DEF f
<1>5. RequestOK(f)
  BY <1>1, <1>2, <1>4, NamesDiffer, LivesAreNumbers DEF RequestOK, Found
<1>6. AnswerOK(f) BY <1>4 DEF AnswerOK, Found
<1>7. Goto(r, f) BY DEF Arrive, f
<1> QED BY <1>3, <1>5, <1>6, <1>7, GotoHolds

LEMMA ResolveHolds ==
  ASSUME GatewayInv, NEW r \in Requests, Resolve(r) \/ ResolveFails(r)
  PROVE  GatewayInv'
<1> DEFINE c == request[r]
           f == [c EXCEPT !.at = "fetch", !.key = manifest[c.url]]
<1>1. c.at = "resolve" /\ c \in Frames /\ RequestOK(c) /\ AnswerOK(c)
  BY DEF Resolve, ResolveFails, GatewayInv, TypeOK, RequestsHold
<1>2. c.key = NoKey /\ c.code = "none" BY <1>1 DEF RequestOK
<1>3. CASE Reply(r, "not found") BY <1>1, <1>2, <1>3, ReplyHolds
<1>4. CASE manifest[c.url] # NoKey /\ Goto(r, f)
  <2>1. c.url \in Aliases
    BY <1>1, <1>2, NamesDiffer DEF RequestOK
  <2>2. manifest[c.url] \in Assets BY <2>1, <1>4 DEF GatewayInv, TypeOK
  <2>3. f \in Frames BY <1>1, <2>2, NamesDiffer DEF Frames
  <2>4. /\ f.at = "fetch" /\ f.code = "none" /\ f.url = c.url
        /\ f.began = c.began /\ f.key = manifest[c.url]
    BY <1>1, <1>2 DEF Frames
  <2> HIDE DEF f
  <2>5. RequestOK(f) BY <1>1, <2>1, <2>2, <2>4, NamesDiffer DEF RequestOK, Found
  <2>6. AnswerOK(f) BY <2>4 DEF AnswerOK, Found
  <2> QED BY <1>4, <2>3, <2>5, <2>6, GotoHolds
<1> QED BY <1>3, <1>4 DEF Resolve, ResolveFails

(* The answer to a request whose object was read, and not too late.        *)
LEMMA AnsweredHolds ==
  ASSUME GatewayInv, NEW r \in Requests,
         LET c == request[r] IN
           /\ c.at \in {"fetch", "stamp"}
           /\ c.key \in Assets \/ c.at = "stamp",
         Goto(r, Answered(request[r]))
  PROVE  GatewayInv'
<1> DEFINE c == request[r]
           f == Answered(c)
           left == expiry[c.key] - now
<1>1. c \in Frames /\ RequestOK(c) /\ now \in Nat
  BY DEF GatewayInv, TypeOK, RequestsHold
<1>2. /\ c.url \in Urls /\ c.began \in Nat /\ c.began <= now
      /\ c.url \in Temps => c.at = "stamp" /\ c.key = c.url /\ c.began < expiry[c.url]
      /\ c.key \in Keys
  BY <1>1, FrameFields, NamesDiffer DEF RequestOK
<1>3. /\ c.url \in Aliases => Life(c.url, c.key) = AliasSeconds
      /\ Life(c.url, c.key) \in Nat
      /\ c.url \in Temps => \/ Life(c.url, c.key) = 0
                            \/ c.began + Life(c.url, c.key) * Second <= expiry[c.url]
  <2>1. CASE c.url \in Aliases
    BY <2>1, LivesAreNumbers, NamesDiffer DEF Life
  <2>2. CASE c.url \in Temps
    <3>1. c.url \notin Aliases /\ c.key = c.url BY <2>2, <1>2, NamesDiffer
    <3>2. expiry[c.key] \in Nat BY <2>2, <3>1 DEF GatewayInv, TypeOK
    <3>3. CASE expiry[c.key] > now
      <4>1. left \in Nat BY <3>2, <3>3, <1>1
      <4>2. Life(c.url, c.key) = left \div Second
        BY <3>1, <3>3 DEF Life, SecondsLeft
      <4>3. left \div Second \in Nat /\ (left \div Second) * Second \in Nat
            /\ (left \div Second) * Second <= left
        BY <4>1, LivesAreNumbers, WholeSeconds
      <4> HIDE DEF left
      <4>4. c.began + Life(c.url, c.key) * Second <= now + left
        BY <4>1, <4>2, <4>3, <1>1, <1>2
      <4>5. now + left = expiry[c.url] BY <3>1, <3>2, <1>1 DEF left
      <4> QED BY <4>2, <4>3, <4>4, <4>5, <3>1
    <3>4. CASE ~(expiry[c.key] > now)
      BY <3>1, <3>4 DEF Life, SecondsLeft
    <3> QED BY <3>3, <3>4
  <2> QED BY <2>1, <2>2, <1>2, NamesDiffer
<1>4. f \in Frames BY <1>1, <1>3 DEF Answered, Frames, Codes
<1>5. /\ f.at = "answer" /\ f.url = c.url /\ f.key = c.key /\ f.prior = c.prior
      /\ f.began = c.began /\ f.life = Life(c.url, c.key)
      /\ f.code = IF NotModified(c) THEN "not modified" ELSE "ok"
  BY <1>1 DEF Answered, Frames
<1> HIDE DEF f
<1>6. RequestOK(f) BY <1>1, <1>2, <1>5 DEF RequestOK, Found
<1>7. AnswerOK(f)
  BY <1>2, <1>3, <1>5, NamesDiffer DEF AnswerOK, Found, NotModified
<1>8. Goto(r, f) BY DEF f
<1> QED BY <1>4, <1>6, <1>7, <1>8, GotoHolds

LEMMA FetchHolds ==
  ASSUME GatewayInv, NEW r \in Requests, Fetch(r) \/ FetchFails(r)
  PROVE  GatewayInv'
<1> DEFINE c == request[r]
           f == [c EXCEPT !.at = "judge"]
<1>1. c.at = "fetch" /\ c \in Frames /\ RequestOK(c) /\ AnswerOK(c)
  BY DEF Fetch, FetchFails, GatewayInv, TypeOK, RequestsHold
<1>2. c.key \in Keys /\ c.code = "none" /\ c.url \in Urls
  BY <1>1, FrameFields DEF RequestOK
<1>3. CASE FetchFails(r) BY <1>1, <1>3, ReplyHolds DEF FetchFails
<1>4. CASE Fetch(r) /\ c.key \notin stored
  <2>1. Reply(r, "not found") BY <1>4 DEF Fetch
  <2>2. ASSUME c.url \in Aliases PROVE unnamed[c.url][c.key] >= c.began
    <3>1. manifest[c.url] # c.key
      BY <1>2, <1>4, <2>2, NamesDiffer DEF GatewayInv, PublishedIsStored
    <3> QED BY <3>1, <1>1, <1>2, <2>2, NamesDiffer DEF RequestOK
  <2> QED BY <1>1, <2>1, <2>2, ReplyHolds
<1>5. CASE Fetch(r) /\ c.key \in stored /\ c.key \in Temps
  <2>1. Goto(r, f) BY <1>5 DEF Fetch
  <2>2. c.url \in Temps
    BY <1>1, <1>2, <1>5, NamesDiffer DEF RequestOK
  <2>3. f \in Frames BY <1>1 DEF Frames
  <2>4. /\ f.at = "judge" /\ f.url = c.url /\ f.key = c.key /\ f.began = c.began
        /\ f.code = "none"
    BY <1>1, <1>2 DEF Frames
  <2> HIDE DEF f
  <2>5. RequestOK(f) BY <1>1, <2>2, <2>4 DEF RequestOK, Found
  <2>6. AnswerOK(f) BY <2>4 DEF AnswerOK, Found
  <2> QED BY <2>1, <2>3, <2>5, <2>6, GotoHolds
<1>6. CASE Fetch(r) /\ c.key \in stored /\ c.key \notin Temps
  <2>1. Goto(r, Answered(c)) BY <1>6 DEF Fetch
  <2>2. c.key \in Assets BY <1>2, <1>6, NamesDiffer
  <2> QED BY <1>1, <2>1, <2>2, AnsweredHolds
<1> QED BY <1>3, <1>4, <1>5, <1>6

LEMMA JudgeHolds ==
  ASSUME GatewayInv, NEW r \in Requests, Judge(r)
  PROVE  GatewayInv'
<1> DEFINE c == request[r]
           f == [c EXCEPT !.at = "stamp"]
<1>1. c.at = "judge" /\ c \in Frames /\ RequestOK(c) /\ AnswerOK(c)
  BY DEF Judge, GatewayInv, TypeOK, RequestsHold
<1>2. /\ c.url \in Temps /\ c.key = c.url /\ c.code = "none"
      /\ c.began \in Nat /\ c.began <= now
  BY <1>1, FrameFields DEF RequestOK
<1>3. c.url \notin Aliases BY <1>2, NamesDiffer
<1>4. CASE Reply(r, "not found") BY <1>1, <1>3, <1>4, ReplyHolds
<1>5. CASE ~(expiry[c.key] <= now) /\ Goto(r, f)
  <2>1. expiry[c.url] \in Nat /\ now \in Nat BY <1>2 DEF GatewayInv, TypeOK
  <2>2. c.began < expiry[c.url] BY <2>1, <1>2, <1>5
  <2>3. f \in Frames BY <1>1 DEF Frames
  <2>4. /\ f.at = "stamp" /\ f.url = c.url /\ f.key = c.key /\ f.began = c.began
        /\ f.code = "none"
    BY <1>1, <1>2 DEF Frames
  <2> HIDE DEF f
  <2>5. RequestOK(f) BY <1>1, <1>2, <1>3, <2>2, <2>4 DEF RequestOK, Found
  <2>6. AnswerOK(f) BY <2>4 DEF AnswerOK, Found
  <2> QED BY <1>5, <2>3, <2>5, <2>6, GotoHolds
<1> QED BY <1>4, <1>5 DEF Judge

LEMMA StampHolds ==
  ASSUME GatewayInv, NEW r \in Requests, Stamp(r)
  PROVE  GatewayInv'
  BY AnsweredHolds DEF Stamp

LEMMA DropHolds ==
  ASSUME GatewayInv, NEW r \in Requests, Drop(r)
  PROVE  GatewayInv'
<1>1. RequestOK(Idle) BY NamesDiffer DEF RequestOK, Idle, Found
<1>2. AnswerOK(Idle) BY DEF AnswerOK, Idle, Found
<1> QED BY <1>1, <1>2, IdleIsFrame, GotoHolds DEF Drop

-----------------------------------------------------------------------------
(* What the cache may hold once it has an entry for a found object.        *)
LEMMA EntryHolds ==
  ASSUME GatewayInv, NEW r \in Requests, Found(request[r]), NEW b,
         b = request[r].key
  PROVE  LET c == request[r]
             e == Entry(c, b) IN
         /\ c.url \in Urls /\ e \in Entries /\ b \in Keys
         /\ c.url \in Aliases =>
              /\ e.body \in Assets
              /\ e.until <= now + AliasSeconds * Second
              /\ \/ manifest[c.url] = e.body
                 \/ /\ unnamed[c.url][e.body] # Never
                    /\ unnamed[c.url][e.body] + AliasLife >= e.until
         /\ c.url \in Temps => e.until <= now \/ e.until <= expiry[c.url] + HandlerTime
<1> DEFINE c == request[r]
           e == Entry(c, b)
<1>1. c \in Frames /\ RequestOK(c) /\ AnswerOK(c) /\ now \in Nat
  BY DEF GatewayInv, TypeOK, RequestsHold
<1>2. /\ c.url \in Urls /\ b \in Keys /\ c.life \in Nat /\ c.began \in Nat
      /\ now <= c.began + HandlerTime
      /\ c.url \in Aliases => b \in Assets /\ c.life = AliasSeconds
      /\ c.url \in Aliases => manifest[c.url] = b \/ unnamed[c.url][b] >= c.began
      /\ c.url \in Temps => c.life = 0 \/ c.began + c.life * Second <= expiry[c.url]
  BY <1>1, FrameFields DEF RequestOK, AnswerOK, Found
<1>3. e.body = b /\ e.until = now + c.life * Second BY DEF Entry
<1>4. c.life * Second \in Nat BY <1>2, LivesAreNumbers
<1>5. e \in Entries BY <1>1, <1>2, <1>4 DEF Entry, Entries
<1> HIDE DEF e
<1>6. ASSUME c.url \in Aliases
      PROVE  /\ e.body \in Assets
             /\ e.until <= now + AliasSeconds * Second
             /\ \/ manifest[c.url] = e.body
                \/ /\ unnamed[c.url][e.body] # Never
                   /\ unnamed[c.url][e.body] + AliasLife >= e.until
  <2>1. unnamed[c.url][b] \in Nat \cup {Never}
    BY <1>2, <1>6 DEF GatewayInv, TypeOK
  <2>2. unnamed[c.url][b] >= c.began => unnamed[c.url][b] \in Nat
    BY <2>1, <1>2 DEF Never
  <2>3. e.until = now + AliasSeconds * Second BY <1>2, <1>3, <1>6
  <2>4. unnamed[c.url][b] >= c.began =>
          unnamed[c.url][b] # Never /\ unnamed[c.url][b] + AliasLife >= e.until
    BY <2>2, <2>3, <1>1, <1>2, LivesAreNumbers DEF Never
  <2> QED BY <1>2, <1>3, <1>6, <2>3, <2>4, <1>1, LivesAreNumbers
<1>7. ASSUME c.url \in Temps
      PROVE  e.until <= now \/ e.until <= expiry[c.url] + HandlerTime
  <2>1. expiry[c.url] \in Nat BY <1>7 DEF GatewayInv, TypeOK
  <2>2. CASE c.life = 0
    <3>1. c.life * Second = 0 BY <2>2, LivesAreNumbers
    <3> QED BY <3>1, <1>1, <1>3
  <2>3. CASE c.began + c.life * Second <= expiry[c.url]
    BY <2>1, <2>3, <1>1, <1>2, <1>3, <1>4, LivesAreNumbers
  <2> QED BY <2>2, <2>3, <1>2, <1>7
<1> QED BY <1>2, <1>5, <1>6, <1>7 DEF e

LEMMA DeliverHolds ==
  ASSUME GatewayInv, NEW r \in Requests, Deliver(r)
  PROVE  GatewayInv'
<1> DEFINE c == request[r]
           e == Entry(c, c.key)
<1>1. /\ UNCHANGED <<now, manifest, stored, expiry, unnamed, published>>
      /\ request' = [request EXCEPT ![r] = Idle]
  BY DEF Deliver, objects
<1>2. cache' = cache \/ (Found(c) /\ cache' = [cache EXCEPT ![c.url] = e])
  <2>1. c.code = "not modified" => c.prior = c.key
    BY DEF GatewayInv, RequestsHold, AnswerOK, Found
  <2> QED BY <2>1 DEF Deliver, Found
<1>3. Found(c) =>
         /\ c.url \in Urls /\ e \in Entries
         /\ c.url \in Aliases =>
              /\ e.body \in Assets
              /\ e.until <= now + AliasSeconds * Second
              /\ \/ manifest[c.url] = e.body
                 \/ /\ unnamed[c.url][e.body] # Never
                    /\ unnamed[c.url][e.body] + AliasLife >= e.until
         /\ c.url \in Temps => e.until <= now \/ e.until <= expiry[c.url] + HandlerTime
  BY EntryHolds
<1> HIDE DEF e
<1>4. TypeOK'
  <2>1. request' \in [Requests -> Frames] BY <1>1, IdleIsFrame DEF GatewayInv, TypeOK
  <2>2. cache' \in [Urls -> Entries] BY <1>2, <1>3 DEF GatewayInv, TypeOK
  <2> QED BY <1>1, <2>1, <2>2 DEF GatewayInv, TypeOK
<1>5. PublishedIsStored' BY <1>1 DEF GatewayInv, PublishedIsStored
<1>6. RequestsHold'
  <2> SUFFICES ASSUME NEW q \in Requests
               PROVE  RequestOK(request[q])' /\ AnswerOK(request[q])'
    BY DEF RequestsHold
  <2>1. request'[q] = IF q = r THEN Idle ELSE request[q]
    BY <1>1 DEF GatewayInv, TypeOK
  <2>2. RequestOK(Idle) BY NamesDiffer DEF RequestOK, Idle, Found
  <2>3. AnswerOK(Idle) BY DEF AnswerOK, Idle, Found
  <2>4. RequestOK(request'[q]) /\ AnswerOK(request'[q])
    BY <2>1, <2>2, <2>3 DEF GatewayInv, RequestsHold
  <2>5. RequestOK(request[q])' BY <2>4, <1>1 DEF RequestOK, Found
  <2>6. AnswerOK(request[q])' BY <2>4, <1>1 DEF AnswerOK, Found
  <2> QED BY <2>5, <2>6
<1>7. CacheHolds'
  <2>1. CASE cache' = cache BY <1>1, <2>1 DEF GatewayInv, CacheHolds
  <2>2. CASE Found(c) /\ cache' = [cache EXCEPT ![c.url] = e]
    <3>1. \A u \in Urls : cache'[u] = IF u = c.url THEN e ELSE cache[u]
      BY <2>2 DEF GatewayInv, TypeOK
    <3> QED BY <1>1, <1>3, <2>2, <3>1, NamesDiffer DEF GatewayInv, CacheHolds
  <2> QED BY <1>2, <2>1, <2>2
<1> QED BY <1>4, <1>5, <1>6, <1>7 DEF GatewayInv

-----------------------------------------------------------------------------
LEMMA PublishHolds ==
  ASSUME GatewayInv, NEW a \in Aliases, NEW k \in Assets \cup {NoKey}, Publish(a, k)
  PROVE  GatewayInv'
<1> DEFINE old == manifest[a]
<1>1. /\ manifest' = [manifest EXCEPT ![a] = k]
      /\ stored' = stored \cup ({k} \ {NoKey})
      /\ unnamed' = IF old = NoKey THEN unnamed ELSE [unnamed EXCEPT ![a][old] = now]
      /\ UNCHANGED <<now, expiry, request, cache>>
      /\ k # old
      /\ published < MaxPublishes /\ published' = published + 1
  BY DEF Publish
<1>2. /\ now \in Nat /\ old \in Assets \cup {NoKey}
      /\ manifest \in [Aliases -> Assets \cup {NoKey}]
      /\ unnamed \in [Aliases -> [Assets -> Nat \cup {Never}]]
  BY DEF GatewayInv, TypeOK
<1>3. /\ \A d \in Aliases : d # a => manifest'[d] = manifest[d]
      /\ manifest'[a] = k
  BY <1>1, <1>2
<1>4. \A d \in Aliases, x \in Assets :
        unnamed'[d][x] = IF d = a /\ x = old THEN now ELSE unnamed[d][x]
  BY <1>1, <1>2, NamesDiffer
<1>5. TypeOK'
  <2>1. manifest' \in [Aliases -> Assets \cup {NoKey}] BY <1>1, <1>2
  <2>2. stored' \in SUBSET Keys BY <1>1, NamesDiffer DEF GatewayInv, TypeOK
  <2>3. unnamed' \in [Aliases -> [Assets -> Nat \cup {Never}]]
    BY <1>1, <1>2
  <2>4. published' \in 0..MaxPublishes
    BY <1>1, GatewayAssumption DEF GatewayInv, TypeOK, GatewayAssumption
  <2> QED BY <1>1, <2>1, <2>2, <2>3, <2>4 DEF GatewayInv, TypeOK
<1>6. PublishedIsStored'
  BY <1>1, <1>3 DEF GatewayInv, PublishedIsStored
<1>7. RequestsHold'
  <2> SUFFICES ASSUME NEW q \in Requests
               PROVE  RequestOK(request[q])' /\ AnswerOK(request[q])'
    BY DEF RequestsHold
  <2> DEFINE c == request[q]
  <2>1. c \in Frames /\ RequestOK(c) /\ AnswerOK(c)
    BY DEF GatewayInv, TypeOK, RequestsHold
  <2>2. c.began \in Nat /\ (c.key # NoKey => c.began <= now)
    BY <2>1, FrameFields DEF RequestOK
  <2>3. CASE c.url \in Aliases /\ c.key # NoKey
    <3>1. c.key \in Assets BY <2>1, <2>3 DEF RequestOK
    <3>2. unnamed[c.url][c.key] >= c.began => unnamed'[c.url][c.key] >= c.began
      BY <1>2, <1>4, <2>2, <2>3, <3>1
    <3>3. manifest[c.url] = c.key
            => manifest'[c.url] = c.key \/ unnamed'[c.url][c.key] >= c.began
      BY <1>2, <1>3, <1>4, <2>2, <2>3, <3>1
    <3>4. RequestOK(c)' BY <2>1, <2>3, <3>2, <3>3, <1>1 DEF RequestOK, Found
    <3>5. AnswerOK(c)' BY <2>1, <3>2, <1>1 DEF AnswerOK, Found
    <3> QED BY <3>4, <3>5
  <2>4. CASE ~(c.url \in Aliases /\ c.key # NoKey)
    <3>1. RequestOK(c)' BY <2>1, <2>4, <1>1 DEF RequestOK, Found
    <3>2. AnswerOK(c)' BY <2>1, <2>4, <1>1 DEF AnswerOK, Found
    <3> QED BY <3>1, <3>2
  <2> QED BY <2>3, <2>4
<1>8. CacheHolds'
  <2>1. ASSUME NEW d \in Aliases, cache[d].body # NoKey
        PROVE  /\ cache[d].body \in Assets
               /\ cache[d].until <= now + AliasSeconds * Second
               /\ \/ manifest'[d] = cache[d].body
                  \/ /\ unnamed'[d][cache[d].body] # Never
                     /\ unnamed'[d][cache[d].body] + AliasLife >= cache[d].until
    <3>1. /\ cache[d].body \in Assets
          /\ cache[d].until <= now + AliasSeconds * Second
          /\ \/ manifest[d] = cache[d].body
             \/ /\ unnamed[d][cache[d].body] # Never
                /\ unnamed[d][cache[d].body] + AliasLife >= cache[d].until
      BY <2>1 DEF GatewayInv, CacheHolds
    <3>2. cache[d].until \in Nat
      BY NamesDiffer DEF GatewayInv, TypeOK, Entries
    <3>3. now # Never /\ now + AliasLife >= cache[d].until
      BY <3>1, <3>2, <1>2, LivesAreNumbers DEF Never
    <3> QED BY <3>1, <3>3, <1>2, <1>3, <1>4
  <2> QED BY <1>1, <2>1 DEF GatewayInv, CacheHolds
<1> QED BY <1>5, <1>6, <1>7, <1>8 DEF GatewayInv

LEMMA DeleteHolds ==
  ASSUME GatewayInv, NEW k \in Keys, stored' = stored \ {k},
         \A a \in Aliases : manifest[a] # k,
         UNCHANGED <<now, manifest, expiry, unnamed, published, request, cache>>
  PROVE  GatewayInv'
<1>1. TypeOK' BY DEF GatewayInv, TypeOK
<1>2. PublishedIsStored' BY DEF GatewayInv, PublishedIsStored
<1>3. RequestsHold' BY DEF GatewayInv, RequestsHold, RequestOK, AnswerOK, Found
<1>4. CacheHolds' BY DEF GatewayInv, CacheHolds
<1> QED BY <1>1, <1>2, <1>3, <1>4 DEF GatewayInv

LEMMA TickHolds ==
  ASSUME GatewayInv, Tick
  PROVE  GatewayInv'
<1>1. /\ now' = now + 1 /\ now \in Nat
      /\ \A r \in Requests : request[r].at # "idle" => now < request[r].began + HandlerTime
      /\ UNCHANGED <<manifest, stored, expiry, unnamed, published, request, cache>>
  BY DEF Tick, objects, GatewayInv, TypeOK
<1>2. TypeOK' BY <1>1 DEF GatewayInv, TypeOK
<1>3. PublishedIsStored' BY <1>1 DEF GatewayInv, PublishedIsStored
<1>4. RequestsHold'
  <2> SUFFICES ASSUME NEW q \in Requests
               PROVE  RequestOK(request[q])' /\ AnswerOK(request[q])'
    BY DEF RequestsHold
  <2>1. /\ RequestOK(request[q]) /\ AnswerOK(request[q])
        /\ request[q].began \in Nat
    BY FrameFields DEF GatewayInv, TypeOK, RequestsHold
  <2> DEFINE c == request[q]
  <2>2. RequestOK(c)'
    <3>1. c.at # "idle" => now' <= c.began + HandlerTime /\ c.began <= now'
      BY <1>1, <2>1, LivesAreNumbers DEF RequestOK
    <3>2. c' = c BY <1>1
    <3> HIDE DEF c
    <3> QED BY <1>1, <2>1, <3>1, <3>2 DEF RequestOK, Found, c
  <2>3. AnswerOK(request[q])' BY <1>1, <2>1 DEF AnswerOK, Found
  <2> QED BY <2>2, <2>3
<1>5. CacheHolds'
  <2>1. \A u \in Urls : cache[u].until \in Nat BY DEF GatewayInv, TypeOK, Entries
  <2>2. \A b \in Aliases : cache[b].until \in Nat BY <2>1, NamesDiffer
  <2>3. \A t \in Temps : cache[t].until \in Nat BY <2>1, NamesDiffer
  <2> QED BY <1>1, <2>2, <2>3, LivesAreNumbers DEF GatewayInv, CacheHolds
<1> QED BY <1>2, <1>3, <1>4, <1>5 DEF GatewayInv

LEMMA StepHolds == GatewayInv /\ [Next]_vars => GatewayInv'
<1> SUFFICES ASSUME GatewayInv, [Next]_vars PROVE GatewayInv' OBVIOUS
<1>1. ASSUME NEW r \in Requests, Serve(r) PROVE GatewayInv'
  BY <1>1, ArriveHolds, ResolveHolds, FetchHolds, JudgeHolds, StampHolds,
     DeliverHolds, DropHolds DEF Serve
<1>2. ASSUME NEW k \in Assets, DeleteOrphan(k) PROVE GatewayInv'
  BY <1>2, NamesDiffer, DeleteHolds DEF DeleteOrphan
<1>3. ASSUME NEW t \in Temps, DeleteTemporary(t) PROVE GatewayInv'
  <2>1. \A a \in Aliases : manifest[a] # t
    BY NamesDiffer DEF GatewayInv, TypeOK
  <2> QED BY <1>3, <2>1, NamesDiffer, DeleteHolds DEF DeleteTemporary
<1>4. CASE UNCHANGED vars
  <2>1. UNCHANGED <<now, manifest, stored, expiry, unnamed, published, request, cache>>
    BY <1>4 DEF vars, objects
  <2> QED BY <2>1 DEF GatewayInv, TypeOK, PublishedIsStored, RequestsHold, RequestOK,
                      AnswerOK, Found, CacheHolds
<1> QED BY <1>1, <1>2, <1>3, <1>4, PublishHolds, TickHolds DEF Next, Others

-----------------------------------------------------------------------------
(* The invariant of the gateway, its caches and the bucket between them.   *)
THEOREM GatewayHolds == Spec => []GatewayInv
  BY InitHolds, StepHolds, PTL DEF Spec

(* Temporary objects are not served after their expiry, by anybody.        *)
THEOREM NeverServedLate == Spec => []ServedInTime
<1>1. GatewayInv => ServedInTime
  <2> SUFFICES ASSUME GatewayInv, NEW t \in Temps
               PROVE  /\ \A r \in Requests : Found(request[r]) /\ request[r].url = t
                                             => request[r].began < expiry[t]
                      /\ Servable(t) => now < expiry[t] + HandlerTime
    BY DEF ServedInTime
  <2>1. \A r \in Requests : RequestOK(request[r]) BY DEF GatewayInv, RequestsHold
  <2>2. now \in Nat /\ expiry[t] \in Nat /\ cache[t].until \in Nat
    BY NamesDiffer DEF GatewayInv, TypeOK, Entries
  <2>3. cache[t].until <= now \/ cache[t].until <= expiry[t] + HandlerTime
    BY DEF GatewayInv, CacheHolds
  <2>4. Servable(t) => now < expiry[t] + HandlerTime
    BY <2>2, <2>3, LivesAreNumbers DEF Servable
  <2> QED BY <2>1, <2>4 DEF RequestOK
<1> QED BY <1>1, GatewayHolds, PTL

(* Whatever is served for an alias, it named less than a lifetime ago.     *)
THEOREM AliasesAreBounded == Spec => []AliasIsBounded
<1>1. GatewayInv => AliasIsBounded
  <2> SUFFICES ASSUME GatewayInv, NEW a \in Aliases, Servable(a)
               PROVE  \/ cache[a].body = manifest[a]
                      \/ /\ cache[a].body \in Assets
                         /\ unnamed[a][cache[a].body] # Never
                         /\ unnamed[a][cache[a].body] + AliasLife > now
    BY DEF AliasIsBounded
  <2>1. now \in Nat /\ cache[a].until \in Nat
    BY NamesDiffer DEF GatewayInv, TypeOK, Entries
  <2>2. now < cache[a].until BY DEF Servable
  <2>3. /\ cache[a].body \in Assets
        /\ \/ manifest[a] = cache[a].body
           \/ /\ unnamed[a][cache[a].body] # Never
              /\ unnamed[a][cache[a].body] + AliasLife >= cache[a].until
    BY DEF Servable, GatewayInv, CacheHolds
  <2>4. unnamed[a][cache[a].body] \in Nat \cup {Never}
    BY <2>3 DEF GatewayInv, TypeOK
  <2> QED BY <2>1, <2>2, <2>3, <2>4, LivesAreNumbers DEF Never
<1> QED BY <1>1, GatewayHolds, PTL

(* A request for an alias ends without its object only if the alias was    *)
(* moved meanwhile.                                                        *)
THEOREM AliasesAreServed == Spec => []AliasIsServed
<1>1. GatewayInv => AliasIsServed
  BY DEF GatewayInv, RequestsHold, AnswerOK, AliasIsServed
<1> QED BY <1>1, GatewayHolds, PTL
=============================================================================
